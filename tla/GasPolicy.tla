----------------------------- MODULE GasPolicy -----------------------------
(***************************************************************************)
(* The gas policy of go/rail/gas.go and the fee arithmetic around it: pure *)
(* operators over integers, no state.  A policy is a record                *)
(* [min, max, feeBound, slippageBps] (types.go GasPolicy); an input is a   *)
(* record [gas, token, swapCost, quote, pending] (gas.go PolicyInput),     *)
(* whose quote is NoQuote until the venue has been asked (a nil *big.Int). *)
(***************************************************************************)
EXTENDS Integers

(* Definitions named Slip... are deliberate mistakes, each a plausible bug   *)
(* of the definition after it.  No specification uses them; putting one in  *)
(* place of its original must break the property README.md pairs it with.   *)

NoQuote == -1

Policies == [min : Nat, max : Nat, feeBound : Nat, slippageBps : Nat]

\* GasPolicy.Validate: what New and CheckDomain insist on before anything runs.
ValidPolicy(p) ==
  /\ p.min > 0
  /\ p.max > p.min
  /\ p.feeBound > 0
  /\ p.min >= p.feeBound
  /\ p.slippageBps <= 10000

\* withSlippage: q + ceil(q * bps / 10000), in integers.
WithSlippage(quote, bps) == quote + (quote * bps + 9999) \div 10000

\* What a refill must deliver, its own gas counted as spent.
SlipRefillSize(p, in) == p.max - in.gas
SlipRefillSign(p, in) == (in.gas - in.swapCost) - p.max
RefillSize(p, in) == p.max - (in.gas - in.swapCost)

Decision(action, delta, maxInput, reason) ==
  [action |-> action, delta |-> delta, maxInput |-> maxInput, reason |-> reason]
Wait(reason) == Decision("wait", 0, 0, reason)

\* The reorder point.
SlipAboveMinimum(p, in) == in.gas >= p.feeBound
AboveMinimum(p, in) == in.gas >= p.min

MaxInput(p, in) == WithSlippage(in.quote, p.slippageBps)

\* The refill may not spend what the payment needs.
SlipLeavesPayment(p, in) == in.token >= MaxInput(p, in)
LeavesPayment(p, in) == in.token >= MaxInput(p, in) + in.pending

\* Decide, one line per early return of the function, in its order.
Decide(p, in) ==
  IF in.token < in.pending         THEN Wait("needToken")
  ELSE IF AboveMinimum(p, in)      THEN Decision("execute", 0, 0, "none")
  ELSE IF in.swapCost > p.feeBound THEN Wait("feesAboveBound")
  ELSE IF in.gas < in.swapCost     THEN Wait("needNative")
  ELSE IF in.quote = NoQuote       THEN Decision("quote", RefillSize(p, in), 0, "none")
  ELSE IF ~LeavesPayment(p, in)    THEN Wait("needToken")
  ELSE Decision("refill", RefillSize(p, in), MaxInput(p, in), "none")

----------------------------------------------------------------------------
(* Fees.  A transaction costs at most its fee cap times its gas limit.     *)

\* fees: the tip is the node's suggestion, never zero; the cap leaves room
\* for the base fee to double.
FeesAt(suggestedTip, baseFee) ==
  LET tip == IF suggestedTip = 0 THEN 1 ELSE suggestedTip
  IN  [tip |-> tip, cap |-> tip + 2 * baseFee]

\* bump: by an eighth, rounded down, plus one.
SlipBump(v) == (v * 9) \div 8
Bump(v) == (v * 9) \div 8 + 1

MaxInt(a, b) == IF a >= b THEN a ELSE b

Raise(node, last) ==
  [tip |-> MaxInt(node.tip, Bump(last.tip)), cap |-> MaxInt(node.cap, Bump(last.cap))]

\* The rule a node applies to a transaction that would replace another at
\* its nonce: at least a tenth more on both fees.
Replaces(new, old) == 10 * new.tip >= 11 * old.tip /\ 10 * new.cap >= 11 * old.cap
=============================================================================
