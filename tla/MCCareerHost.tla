---------------------------- MODULE MCCareerHost ----------------------------
(* Instance of CareerHost for TLC: one host, two postings. *)
EXTENDS CareerHost

CONSTANTS h1, p1, p2, c1

MCHostOf == [p \in {p1, p2} |-> h1]
=============================================================================
