-------------------------- MODULE GasPolicyProofs --------------------------
(***************************************************************************)
(* What the operators of GasPolicy return, for every policy, balance, fee  *)
(* and quote.                                                              *)
(***************************************************************************)
EXTENDS GasPolicy, TLAPS

----------------------------------------------------------------------------
(* Arithmetic the SMT solver is told rather than left to find.             *)

\* Products of naturals are naturals and grow with their factors.
LEMMA Products ==
  ASSUME NEW a \in Nat, NEW b \in Nat, NEW c \in Nat, a <= b
  PROVE  a * c \in Nat /\ b * c \in Nat /\ a * c <= b * c
PROOF
<1>1. PICK d \in Nat : b = a + d
  <2>1. b - a \in Nat /\ b = a + (b - a)
    OBVIOUS
  <2>2. QED  BY <2>1
<1>2. b * c = a * c + d * c  BY <1>1
<1>3. a * c \in Nat /\ b * c \in Nat /\ d * c \in Nat  BY <1>1
<1>4. QED  BY <1>2, <1>3

\* withSlippage never bounds a refill below the quote (gas.go: "rounded up, so
\* the bound is never less than the quote allows").
LEMMA SlippageCoversQuote ==
  ASSUME NEW q \in Nat, NEW bps \in Nat
  PROVE  WithSlippage(q, bps) \in Nat /\ WithSlippage(q, bps) >= q
PROOF
<1> DEFINE m == q * bps + 9999
<1>1. m \in Nat  BY q * bps \in Nat
<1> HIDE DEF m
<1>2. m \div 10000 \in Nat  BY <1>1
<1>3. WithSlippage(q, bps) = q + m \div 10000  BY DEF WithSlippage, m
<1>4. QED  BY <1>2, <1>3

\* bump raises any fee by what a node requires of a replacement, small fees
\* included, where an eighth rounds to nothing (rail.go bump).
THEOREM BumpReplaces ==
  ASSUME NEW v \in Nat
  PROVE  Bump(v) \in Nat /\ Bump(v) > v /\ 10 * Bump(v) >= 11 * v
PROOF
  BY DEF Bump

\* What the policy means by "refill": the refill's cost is within the bound
\* and the reserve, the payment stays affordable at its worst price, and it
\* brings the reserve, its own cost deducted, to the maximum exactly (gas.go
\* Decide).
THEOREM RefillDecision ==
  ASSUME NEW p \in Policies, ValidPolicy(p),
         NEW g \in Nat, NEW t \in Nat, NEW s \in Nat, NEW q \in Nat, NEW m \in Nat,
         Decide(p, [gas |-> g, token |-> t, swapCost |-> s, quote |-> q,
                    pending |-> m]).action = "refill"
  PROVE  LET d == Decide(p, [gas |-> g, token |-> t, swapCost |-> s, quote |-> q,
                             pending |-> m])
         IN  /\ d.delta \in Nat /\ d.maxInput \in Nat
             /\ s <= p.feeBound /\ s <= g /\ g < p.min
             /\ q <= d.maxInput /\ d.maxInput + m <= t
             /\ g - s + d.delta = p.max
PROOF
<1> DEFINE in == [gas |-> g, token |-> t, swapCost |-> s, quote |-> q, pending |-> m]
<1>0. p.min \in Nat /\ p.max \in Nat /\ p.feeBound \in Nat /\ p.slippageBps \in Nat
  BY DEF Policies
<1>1. ~(t < m) /\ ~(g >= p.min) /\ ~(s > p.feeBound) /\ ~(g < s) /\ q # NoQuote
      /\ LeavesPayment(p, in)
  BY DEF Decide, Decision, Wait, AboveMinimum
<1>2. Decide(p, in) = Decision("refill", RefillSize(p, in), MaxInput(p, in), "none")
  BY <1>1 DEF Decide, AboveMinimum
<1>3. Decide(p, in).delta = p.max - (g - s) /\ Decide(p, in).maxInput = WithSlippage(q, p.slippageBps)
  BY <1>2 DEF Decision, RefillSize, MaxInput
<1>4. t >= WithSlippage(q, p.slippageBps) + m
  BY <1>1 DEF LeavesPayment, MaxInput
<1>5. p.max > p.min  BY DEF ValidPolicy
<1> DEFINE d == Decide(p, in)
<1> HIDE DEF d
<1>6. d.delta = p.max - (g - s) /\ d.maxInput = WithSlippage(q, p.slippageBps)
  BY <1>3 DEF d
<1>7. /\ d.delta \in Nat /\ d.maxInput \in Nat
      /\ s <= p.feeBound /\ s <= g /\ g < p.min
      /\ q <= d.maxInput /\ d.maxInput + m <= t
      /\ g - s + d.delta = p.max
  <2>1. WithSlippage(q, p.slippageBps) \in Nat /\ WithSlippage(q, p.slippageBps) >= q
    BY <1>0, SlippageCoversQuote
  <2> HIDE DEF in
  <2>2. QED  BY <1>0, <1>1, <1>4, <1>5, <1>6, <2>1
<1>8. QED  BY <1>7 DEF d
=============================================================================
