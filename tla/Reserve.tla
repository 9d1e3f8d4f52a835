------------------------------ MODULE Reserve ------------------------------
(***************************************************************************)
(* The operating reserve under the gas policy, one outgoing transaction at *)
(* a time (rail.go ready): payments take the reserve down, refills bring   *)
(* it back, an exit ignores the policy, a retry raises the fees of what is *)
(* in flight.  Identifiers, nonces and records are left to module Rail;    *)
(* here only the money moves, so that what the policy promises can be      *)
(* stated, and proved, for every policy and every fee.                     *)
(*                                                                         *)
(* An operation reads the fees, then the stablecoin balance, then the      *)
(* reserve, in calls of their own (rail.go fees, Balances): the fees move  *)
(* and money arrives between them, and between them and the signature.     *)
(***************************************************************************)
EXTENDS GasPolicy

CONSTANTS
  Policy,       \* the domain's gas policy
  PaymentGas,   \* gas bound of a payment   (GasPolicy.limits)
  SwapGas,      \* gas bound of a refill    (GasPolicy.limits)
  Caps,         \* fee caps a node may lead fees() to
  RefCap,       \* p_ref, the reference fee cap the reserve is sized for
  Amounts,      \* payments the holder may want to make
  Quotes,       \* what the venue may ask for a refill
  GasBound,     \* bound: native currency never grows past it
  TokenBound    \* bound: stablecoin never grows past it

ASSUME PolicyAssumption == Policy \in Policies /\ ValidPolicy(Policy)
ASSUME LimitsAssumption == PaymentGas \in Nat \ {0} /\ SwapGas \in Nat \ {0}
ASSUME FeesAssumption   == Caps \subseteq Nat \ {0} /\ RefCap \in Nat \ {0}
ASSUME MoneyAssumption  == Amounts \subseteq Nat \ {0} /\ Quotes \subseteq Nat \ {0}
ASSUME BoundsAssumption == GasBound \in Nat /\ TokenBound \in Nat

\* The trust base: a refill at the reference cap costs no more than the bound.
ASSUME RefCapAssumption == SwapGas * RefCap <= Policy.feeBound

VARIABLES
  gas,      \* native balance: the reserve
  token,    \* stablecoin balance: the money
  cap,      \* the fee cap the node leads to now
  flight,   \* the one transaction in flight, or Nothing
  seen,     \* what the operation under way has read so far, or Unseen
  excuses   \* history: what has happened that no reserve can answer for

vars == <<gas, token, cap, flight, seen, excuses>>

Nothing == [kind |-> "nothing", amount |-> 0, delta |-> 0, low |-> 0, cap |-> 0,
            reserve |-> 0]
\* What is in flight: the most tokens it may move, the native currency it
\* buys, the fee caps of its first and of its latest attempt, and the payment
\* a refill was bought for.
Flights == [kind : {"nothing", "payment", "refill"}, amount : Nat, delta : Nat,
            low : Nat, cap : Nat, reserve : Nat]

\* What an operation decides on: `has` is how far its reads have come.
Unseen == [has |-> "nothing", cap |-> 0, token |-> 0, gas |-> 0]
Reads == [has : {"nothing", "token", "all"}, cap : Nat, token : Nat, gas : Nat]

Limit(kind) == IF kind = "refill" THEN SwapGas ELSE PaymentGas
Input(pending, quote) ==
  [gas |-> seen.gas, token |-> seen.token, swapCost |-> seen.cap * SwapGas,
   quote |-> quote, pending |-> pending]
Excuse(when, what) == IF when THEN {what} ELSE {}

TypeOK ==
  /\ gas \in Nat /\ token \in Nat /\ cap \in Caps /\ flight \in Flights
  /\ seen \in Reads
  /\ excuses \subseteq {"dear", "raised", "reverted", "exit"}

\* Onboarding: the account is funded with at least the reserve minimum.
Init ==
  /\ gas \in Policy.min .. GasBound
  /\ token \in 0 .. TokenBound
  /\ cap \in Caps
  /\ flight = Nothing
  /\ seen = Unseen
  /\ excuses = {}

FeesMove ==
  /\ cap' \in Caps
  /\ UNCHANGED <<gas, token, flight, seen, excuses>>

\* ready has found nothing in flight; then fees, and the first half of
\* Balances.  An operation given up leaves its reads behind: the next starts
\* over.
ReadToken ==
  /\ flight = Nothing
  /\ seen' = [has |-> "token", cap |-> cap, token |-> token, gas |-> 0]
  /\ UNCHANGED <<gas, token, cap, flight, excuses>>

\* The other half of Balances.
ReadGas ==
  /\ seen.has = "token"
  /\ seen' = [seen EXCEPT !.has = "all", !.gas = gas]
  /\ UNCHANGED <<gas, token, cap, flight, excuses>>

Launch(kind, amount, delta, reserve, signed) ==
  /\ flight = Nothing
  /\ flight' = [kind |-> kind, amount |-> amount, delta |-> delta, low |-> signed,
                cap |-> signed, reserve |-> reserve]
  /\ seen' = Unseen
  /\ UNCHANGED <<gas, token, cap>>

\* Pay, when the policy lets it go: Prepare decides, then Send reads the fees
\* again and signs.
SignPayment(amount) ==
  /\ seen.has = "all"
  /\ Decide(Policy, Input(amount, NoQuote)).action = "execute"
  /\ Launch("payment", amount, 0, 0, cap)
  /\ excuses' = excuses \cup Excuse(cap > RefCap, "dear")

\* Refill for a payment of `reserve` (0: for its own sake): decide, ask the
\* venue, decide again on the same reads, sign at the fees read first.
SignRefill(reserve, quote) ==
  LET d == Decide(Policy, Input(reserve, quote)) IN
  /\ seen.has = "all"
  /\ Decide(Policy, Input(reserve, NoQuote)).action = "quote"
  /\ d.action = "refill"
  /\ Launch("refill", d.maxInput, d.delta, reserve, seen.cap)
  /\ excuses' = excuses \cup Excuse(seen.cap > RefCap, "dear")

\* WithdrawAll: the whole balance it read, no policy, only its own cost
\* covered.
SignExit ==
  /\ seen.has = "all"
  /\ seen.token > 0
  /\ seen.gas >= seen.cap * PaymentGas
  /\ Launch("payment", seen.token, 0, 0, seen.cap)
  /\ excuses' = excuses \cup {"exit"}

\* Retry: same terms, a higher cap; nothing asks the policy again.
Retry ==
  LET higher == MaxInt(cap, Bump(flight.cap)) IN
  /\ flight # Nothing
  /\ higher * Limit(flight.kind) <= GasBound
  /\ flight' = [flight EXCEPT !.cap = higher]
  /\ excuses' = excuses \cup Excuse(higher > RefCap, "dear")
                        \cup Excuse(flight.kind = "refill", "raised")
  /\ UNCHANGED <<gas, token, cap, seen>>

\* The chain includes one of the attempts: it charges at most cap times limit,
\* moves at most the tokens the transaction allows, or reverts.
Land(fee, moved, reverted) ==
  /\ flight # Nothing
  /\ gas >= flight.low * Limit(flight.kind)
  /\ fee <= gas /\ fee <= flight.cap * Limit(flight.kind)
  /\ IF reverted \/ token < flight.amount
     THEN /\ gas' = gas - fee
          /\ token' = token
          /\ excuses' = excuses \cup {"reverted"}
     ELSE /\ moved <= flight.amount
          /\ flight.kind = "payment" => moved = flight.amount
          /\ gas' = gas - fee + flight.delta
          /\ token' = token - moved
          /\ excuses' = excuses
  /\ flight' = Nothing
  /\ UNCHANGED <<cap, seen>>

Deposit(n) ==
  /\ token + n <= TokenBound
  /\ token' = token + n
  /\ UNCHANGED <<gas, cap, flight, seen, excuses>>

TopUp(n) ==
  /\ gas + n <= GasBound
  /\ gas' = gas + n
  /\ UNCHANGED <<token, cap, flight, seen, excuses>>

Next ==
  \/ FeesMove
  \/ ReadToken
  \/ ReadGas
  \/ \E a \in Amounts : SignPayment(a)
  \/ \E a \in Amounts \cup {0}, q \in Quotes : SignRefill(a, q)
  \/ SignExit
  \/ Retry
  \/ \E fee \in 0 .. flight.cap * Limit(flight.kind), moved \in 0 .. flight.amount,
        r \in BOOLEAN : Land(fee, moved, r)
  \/ \E n \in 1 .. TokenBound : Deposit(n)
  \/ \E n \in 1 .. GasBound : TopUp(n)

Spec == Init /\ [][Next]_vars

----------------------------------------------------------------------------
(* Properties *)

\* What requirements.md asks of the minimum: it covers a payment and the
\* refill that follows it.  GasPolicy.Validate does not check this.
MinCoversBoth == Policy.min >= (PaymentGas + SwapGas) * RefCap

Stranded == flight = Nothing /\ cap <= RefCap /\ gas < cap * SwapGas

\* The account never reaches a reserve from which it cannot buy gas at a fee
\* the reserve was sized for, unless it signed above the reference fee,
\* raised a refill, saw a transaction revert, or left.  (types.go Validate:
\* "or the reserve could fall to a level from which it cannot replenish
\* itself".)
NeverStranded == excuses = {} => ~Stranded

\* Whatever a refill in flight may still consume, the payment it was bought
\* for stays affordable (gas.go: "The refill may not spend what the payment
\* needs"), and no payment in flight can run out of money.
RefillKeepsPayment == token >= flight.amount + flight.reserve

\* Once a refill whose fees were not raised has executed, the payment that
\* asked for it goes out: the reserve is back at the maximum and the same
\* question is answered "execute" (rail.go Pay: "Once the refill it reports
\* has settled, call it again and the payment goes out").
InputNext(pending) ==
  [gas |-> gas', token |-> token', swapCost |-> cap' * SwapGas,
   quote |-> NoQuote, pending |-> pending]
Refilled == flight.kind = "refill" /\ flight' = Nothing /\ "reverted" \notin excuses'
RefillEnables ==
  [][Refilled /\ flight.low = flight.cap =>
       /\ gas' >= Policy.max
       /\ Decide(Policy, InputNext(flight.reserve)).action = "execute"]_vars
=============================================================================
