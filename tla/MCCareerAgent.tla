----------------------------- MODULE MCCareerAgent -----------------------------
(* Instance of CareerAgent for TLC: two workers that may overtake each other *)
(* on two campaigns that share a month's budget.                             *)
EXTENDS CareerAgent
=============================================================================
