----------------------------- MODULE MCBilling -----------------------------
(* Two subscriptions of one account, under one Stripe customer or two. *)
EXTENDS Billing, TLC

CONSTANTS s1, s2, c1, c2, k, w1, w2

OneCustomer == (s1 :> c1) @@ (s2 :> c1)
TwoCustomers == (s1 :> c1) @@ (s2 :> c2)
OneKey == (c1 :> k) @@ (c2 :> k)

HandlerSymmetry == Permutations(Workers)

=============================================================================
