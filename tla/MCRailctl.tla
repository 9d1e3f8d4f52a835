----------------------------- MODULE MCRailctl -----------------------------
(* A small instance of Railctl.  Two files give the name usd to different  *)
(* ledgers; eur shares one of them; the last has neither a name nor a      *)
(* policy that is in order.  Files leave the decimals out where they may.  *)
EXTENDS Railctl, TLC

CONSTANTS p, q, alice, bob, mine

Venue(at) == [router |-> at, quoter |-> at, weth |-> at, feeTier |-> 5]
Gas(min) == [min |-> min, max |-> 4, feeBound |-> 2, slippageBps |-> 50]
File(name, chain, decimals, min) ==
  [name |-> name, chain |-> chain, rpc |-> chain, token |-> 7, decimals |-> decimals,
   finality |-> "safe", venue |-> Venue(8), gas |-> Gas(min)]

MCConfigs == {File("usd", 1, 0, 3), File("usd", 2, 18, 3), File("eur", 2, 18, 2),
              File(None, 1, 0, 1)}
MCChains ==
  [rpc \in {1, 2} |->
     [id |-> rpc, prices |-> {Venue(8)},
      tokens |-> {[at |-> 7, permits |-> TRUE, decimals |-> IF rpc = 1 THEN 6 ELSE 18]}]]

Interchangeable == Permutations({p, q}) \cup Permutations({alice, bob})
=============================================================================
