------------------------------- MODULE Domain -------------------------------
(***************************************************************************)
(* A domain: what railctl's domain file says (cmd/railctl/main.go config), *)
(* the Domain it becomes, what Validate asks of it and what CheckDomain    *)
(* asks of the chain it names (go/rail/types.go, rail.go).  Pure operators *)
(* over records, no state.                                                 *)
(*                                                                         *)
(* A domain file is a record                                               *)
(*   [name, chain, rpc, token, decimals, finality, venue, gas]             *)
(* whose venue is [router, quoter, weth, feeTier] and whose gas is a       *)
(* policy of GasPolicy.  Unset is the zero address, a zero number or an    *)
(* absent amount, as the field has it.                                     *)
(***************************************************************************)
EXTENDS GasPolicy

Unset == 0
NoAmount == -1

\* config.domain: six decimals unless the file says otherwise; an amount of
\* the policy that is absent is refused.
Decimals(c) == IF c.decimals = Unset THEN 6 ELSE c.decimals
Converts(c) == NoAmount \notin {c.gas.min, c.gas.max, c.gas.feeBound}
AsDomain(c) == [c EXCEPT !.decimals = Decimals(c)]

\* DomainKey: what identifies a ledger.
Ledger(c) == <<c.chain, c.token>>

\* Domain.Validate.
ValidDomain(d) ==
  /\ d.chain > 0
  /\ d.token # Unset
  /\ d.decimals \in 1 .. 36
  /\ d.finality \in {"latest", "safe", "finalized"}
  /\ Unset \notin {d.venue.router, d.venue.quoter, d.venue.weth}
  /\ d.venue.feeTier # Unset
  /\ ValidPolicy(d.gas)

\* checkChain: the endpoint serves the domain's chain.
ServesChain(d, chain) == chain.id = d.chain

\* quoteRefill: the venue puts a price on a refill.
PricesRefill(d, chain) == d.venue \in chain.prices

\* CheckDomain, against what an endpoint answers: its chain id, the tokens
\* there, with their decimals and whether they carry permits, and the venues
\* that can price a refill.
CheckDomain(d, chain) ==
  /\ ValidDomain(d)
  /\ ServesChain(d, chain)
  /\ \E t \in chain.tokens : t.at = d.token /\ t.permits /\ t.decimals = d.decimals
  /\ PricesRefill(d, chain)
=============================================================================
