----------------------------- MODULE MCReserve -----------------------------
(* Small instances of Reserve: a policy whose minimum covers a payment and  *)
(* the refill after it, and one that only satisfies GasPolicy.Validate.     *)
EXTENDS Reserve

MCCovering == [min |-> 3, max |-> 5, feeBound |-> 2, slippageBps |-> 5000]
MCMinimal  == [min |-> 2, max |-> 4, feeBound |-> 2, slippageBps |-> 5000]
=============================================================================
