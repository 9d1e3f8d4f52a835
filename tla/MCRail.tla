------------------------------- MODULE MCRail -------------------------------
(* Small instances of Rail. *)
EXTENDS RailRefinement, RailLiveness, TLC

CONSTANTS a, b, shop, router

MCRequests == {[kind |-> "transfer", to |-> shop, amount |-> 1]}
MCPolicy == [min |-> 3, max |-> 5, feeBound |-> 2, slippageBps |-> 5000]
\* A node that suggests a tip or none, while the base fee is nothing or one.
MCCheapFees == {FeesAt(1, 0)}
MCFees == {FeesAt(0, 0), FeesAt(1, 1)}

Identifiers == Permutations({a, b})
=============================================================================
