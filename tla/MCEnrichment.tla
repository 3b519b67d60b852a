---------------------------- MODULE MCEnrichment ----------------------------
(* Instance of Enrichment: texts for each way a salary is read or missed. *)
EXTENDS Enrichment

Fig(n) == [n |-> n, suffix |-> ""]
Sum(shapes, a, b) ==
    [shapes |-> shapes, lo |-> Fig(a), hi |-> Fig(b), unit |-> "none", spaced |-> FALSE, pay |-> TRUE]
Line(words, sums) == [words |-> words, sums |-> sums, near |-> TRUE, chrome |-> FALSE]

\* A compact yearly band; hourly pay behind a range of revenue; pay the rules
\* do not find.  The model states its bounds in reverse, within the range or not.
MCLines == <<
    <<Line({}, <<Sum({"labeled", "bare"}, 80, 95)>>)>>,
    <<Line({"hour"}, <<[Sum({"bare"}, 20, 30) EXCEPT !.pay = FALSE], Sum({"bare"}, 30, 40)>>)>>,
    <<Line({}, <<>>)>> >>

MCOffers == {[lo |-> 90000, hi |-> 120000, period |-> "year"]}
MCReplies ==
    {[min |-> 90000, max |-> 70000, period |-> "year"],
     [min |-> 1200000, max |-> 80000, period |-> "year"]}
MCOriginal == <<1, 2, 3>>
=============================================================================
