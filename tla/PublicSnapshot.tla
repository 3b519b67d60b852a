--------------------------- MODULE PublicSnapshot ---------------------------
(***************************************************************************)
(* What publication promises its readers (the header of                    *)
(* sql/publication_boundary.sql and of python/publish_snapshot.py): the    *)
(* candidate inputs change freely, and the public set is replaced in one   *)
(* step by the candidates of the moment; once it holds anything, never by  *)
(* a set that fell under the floor.                                        *)
(***************************************************************************)
EXTENDS Naturals, FiniteSets

CONSTANTS
    Jobs,           \* the postings
    Opportunities, Ranks,
    Order,          \* of the postings, by job_id: the last key of the view's order
    Concurrent,     \* postings other processes may change while a publication runs
    Minimum,        \* --minimum
    FloorPercent    \* --floor-ratio, in percent

VARIABLES
    inputs,         \* what the candidate view reads of each posting
    public          \* the postings with is_public

vars == <<inputs, public>>

\* Whether the posting passes the row predicate, the group canonicalization put
\* it in, and the keys of the view's order before job_id.
Input == [eligible : BOOLEAN, opportunity : Opportunities, rank : Ranks]

Before(f, j, i) ==
    f[j].rank < f[i].rank \/ (f[j].rank = f[i].rank /\ Order[j] < Order[i])

\* The first eligible posting of each opportunity.
Representatives(f) ==
    {j \in Jobs : /\ f[j].eligible
                  /\ \A i \in Jobs \ {j} :
                        f[i].eligible /\ f[i].opportunity = f[j].opportunity => Before(f, j, i)}

\* The inputs as they may have been at a moment of a publication that ends now.
Meanwhile ==
    {[j \in Jobs |-> IF j \in Concurrent THEN g[j] ELSE inputs[j]] : g \in [Concurrent -> Input]}

AtLeast(m, n) == IF m >= n THEN m ELSE n

Required(prior) ==
    IF prior = 0 THEN Minimum ELSE AtLeast(Minimum, (prior * FloorPercent) \div 100)

\* Whether candidate set C may replace public set P.
MeetsFloor(C, P) == Cardinality(C) >= Required(Cardinality(P))

Init ==
    /\ inputs \in [Jobs -> Input]
    /\ public = {}

Change ==
    /\ inputs' \in [Jobs -> Input]
    /\ UNCHANGED public

\* The floor, the postings that stay and those that arrive are each judged at a
\* moment of the publication.  When nobody changes a posting meanwhile the three
\* are one, and the public set is the candidate set of that moment.
Publish ==
    /\ \E f \in Meanwhile : MeetsFloor(Representatives(f), public)
    /\ \E g, h \in Meanwhile :
          public' = (public \cap Representatives(g)) \cup Representatives(h)
    /\ UNCHANGED inputs

\* The first deployment fills an empty snapshot without a floor.
Seed ==
    /\ public = {}
    /\ public' = Representatives(inputs)
    /\ UNCHANGED inputs

Next == Change \/ Publish \/ Seed

Spec == Init /\ [][Next]_vars

=============================================================================
