--------------------------- MODULE ReserveProofs ---------------------------
(***************************************************************************)
(* What the reserve keeps under the gas policy, for every policy, every    *)
(* fee and every quote; and then with its venue: every step of Venue is    *)
(* one of Reserve's, so what is shown of Reserve holds of it, and a refill *)
(* in flight still works, for any routers and prices.                      *)
(***************************************************************************)
EXTENDS Venue, GasPolicyProofs

----------------------------------------------------------------------------
(* The reserve                                                             *)

TypedConstants == /\ Policy.min \in Nat /\ Policy.max \in Nat /\ Policy.max > Policy.min
                  /\ Policy.feeBound \in Nat /\ Policy.slippageBps \in Nat
                  /\ PaymentGas \in Nat /\ SwapGas \in Nat /\ RefCap \in Nat
                  /\ Caps \subseteq Nat /\ Amounts \subseteq Nat /\ Quotes \subseteq Nat
                  /\ GasBound \in Nat /\ TokenBound \in Nat

LEMMA ConstantsTyped == TypedConstants
PROOF
  BY PolicyAssumption, LimitsAssumption, FeesAssumption, MoneyAssumption, BoundsAssumption
     DEF TypedConstants, Policies, ValidPolicy

\* Attempts at one operation only ever raise its fee cap.
FlightShape ==
  /\ flight.kind = "nothing" <=> flight = Nothing
  /\ flight.low <= flight.cap

\* What a refill whose fees were not raised will leave.
RefillRestores ==
  flight.kind = "refill" /\ flight.low = flight.cap =>
    gas + flight.delta >= Policy.max + flight.cap * SwapGas

\* What an operation has read is no more than the account still holds: it
\* reads only while nothing is in flight, and then money only arrives.
SeenHeld ==
  /\ flight # Nothing => seen = Unseen
  /\ seen.token <= token /\ seen.gas <= gas

Inv == TypeOK /\ FlightShape /\ RefillKeepsPayment /\ RefillRestores /\ SeenHeld

LEMMA InitInv == Init => Inv
PROOF
  BY ConstantsTyped
     DEF Init, Inv, TypeOK, FlightShape, RefillKeepsPayment, RefillRestores, SeenHeld,
         Nothing, Flights, Unseen, Reads, TypedConstants

\* A signature leaves nothing read.
LEMMA UnseenHeld ==
  ASSUME Inv, seen' = Unseen, gas' = gas, token' = token
  PROVE  SeenHeld' /\ seen' \in Reads
PROOF
  BY DEF Inv, TypeOK, SeenHeld, Unseen, Reads

LEMMA ReadInv ==
  ASSUME Inv, ReadToken \/ ReadGas
  PROVE  Inv'
PROOF
<1>1. cap \in Nat /\ token \in Nat /\ gas \in Nat
  BY ConstantsTyped DEF TypedConstants, Inv, TypeOK
<1>2. gas' = gas /\ token' = token /\ cap' = cap /\ flight' = flight /\ excuses' = excuses
  BY DEF ReadToken, ReadGas
<1>3. seen' \in Reads /\ SeenHeld'
  <2>1. CASE ReadToken  BY <2>1, <1>1, <1>2 DEF ReadToken, Reads, SeenHeld
  <2>2. CASE ReadGas
    <3>0. flight = Nothing
      <4>1. seen # Unseen  BY <2>2 DEF ReadGas, Unseen
      <4>2. QED  BY <4>1 DEF Inv, SeenHeld
    <3>1. seen' = [has |-> "all", cap |-> seen.cap, token |-> seen.token, gas |-> gas]
      BY <2>2 DEF ReadGas, Inv, TypeOK, Reads
    <3>2. seen.cap \in Nat /\ seen.token \in Nat /\ seen.token <= token
      BY DEF Inv, TypeOK, Reads, SeenHeld
    <3>3. QED  BY <1>1, <1>2, <3>0, <3>1, <3>2 DEF Reads, SeenHeld
  <2>3. QED  BY <2>1, <2>2
<1>4. QED
  BY <1>2, <1>3 DEF Inv, TypeOK, FlightShape, RefillKeepsPayment, RefillRestores

LEMMA SignPaymentInv ==
  ASSUME Inv, NEW a \in Amounts, SignPayment(a)
  PROVE  Inv'
PROOF
<1>1. seen.token >= a
  BY ConstantsTyped
     DEF SignPayment, Decide, Input, Wait, Decision, Inv, TypeOK, Reads, TypedConstants
<1>2. /\ a \in Nat /\ cap \in Nat /\ token >= a
  BY <1>1, ConstantsTyped DEF TypedConstants, Inv, TypeOK, SeenHeld, Reads
<1>3. flight' = [kind |-> "payment", amount |-> a, delta |-> 0, low |-> cap,
                 cap |-> cap, reserve |-> 0]
  BY DEF SignPayment, Launch
<1>4. gas' = gas /\ token' = token /\ cap' = cap /\ seen' = Unseen
      /\ excuses' \subseteq {"dear", "raised", "reverted", "exit"}
  BY DEF SignPayment, Launch, Inv, TypeOK, Excuse
<1>5. QED
  BY <1>2, <1>3, <1>4, UnseenHeld
     DEF Inv, TypeOK, FlightShape, RefillKeepsPayment, RefillRestores, Nothing, Flights

LEMMA SignRefillInv ==
  ASSUME Inv, NEW r \in Amounts \cup {0}, NEW q \in Quotes, SignRefill(r, q)
  PROVE  Inv'
PROOF
<1> DEFINE d == Decide(Policy, Input(r, q))
           s == seen.cap * SwapGas
<1>1. /\ r \in Nat /\ q \in Nat /\ seen.cap \in Nat /\ seen.gas \in Nat
      /\ seen.token \in Nat /\ s \in Nat /\ gas \in Nat /\ token \in Nat
  BY ConstantsTyped, Products DEF TypedConstants, Inv, TypeOK, Reads
<1>2. d.action = "refill"
  BY DEF SignRefill
<1>3. /\ d.delta \in Nat /\ d.maxInput \in Nat
      /\ d.maxInput + r <= seen.token
      /\ seen.gas - s + d.delta = Policy.max
  <2>1. Policy \in Policies /\ ValidPolicy(Policy)  BY PolicyAssumption
  <2>2. d = Decide(Policy, [gas |-> seen.gas, token |-> seen.token, swapCost |-> s,
                            quote |-> q, pending |-> r])
    BY DEF Input
  <2> HIDE DEF s, d
  <2>3. Decide(Policy, [gas |-> seen.gas, token |-> seen.token, swapCost |-> s,
                        quote |-> q, pending |-> r]).action = "refill"
    BY <1>2, <2>2
  <2> DEFINE e == Decide(Policy, [gas |-> seen.gas, token |-> seen.token, swapCost |-> s,
                                  quote |-> q, pending |-> r])
  <2>4. /\ e.delta \in Nat /\ e.maxInput \in Nat
        /\ e.maxInput + r <= seen.token
        /\ seen.gas - s + e.delta = Policy.max
    BY <1>1, <2>1, <2>3, RefillDecision, SMTT(60)
  <2>5. QED  BY <2>2, <2>4
<1>4. flight' = [kind |-> "refill", amount |-> d.maxInput, delta |-> d.delta,
                 low |-> seen.cap, cap |-> seen.cap, reserve |-> r]
  BY DEF SignRefill, Launch
<1>5. gas' = gas /\ token' = token /\ cap' = cap /\ seen' = Unseen
      /\ excuses' \subseteq {"dear", "raised", "reverted", "exit"}
  BY DEF SignRefill, Launch, Inv, TypeOK, Excuse
<1> HIDE DEF d
<1>6. d.maxInput + r <= token /\ gas + d.delta >= Policy.max + s
  <2>1. seen.token <= token /\ seen.gas <= gas  BY DEF Inv, SeenHeld
  <2>2. Policy.max \in Nat  BY ConstantsTyped DEF TypedConstants
  <2> HIDE DEF s
  <2>3. QED  BY <1>1, <1>3, <2>1, <2>2
<1>7. QED
  BY <1>1, <1>3, <1>4, <1>5, <1>6, UnseenHeld, ConstantsTyped
     DEF Inv, TypeOK, FlightShape, RefillKeepsPayment, RefillRestores, Nothing, Flights,
         TypedConstants

LEMMA SignExitInv ==
  ASSUME Inv, SignExit
  PROVE  Inv'
PROOF
<1>1. seen.cap \in Nat /\ seen.token \in Nat /\ token \in Nat /\ seen.token <= token
  BY DEF Inv, TypeOK, Reads, SeenHeld
<1>2. flight' = [kind |-> "payment", amount |-> seen.token, delta |-> 0,
                 low |-> seen.cap, cap |-> seen.cap, reserve |-> 0]
  BY DEF SignExit, Launch
<1>3. gas' = gas /\ token' = token /\ cap' = cap /\ seen' = Unseen
      /\ excuses' \subseteq {"dear", "raised", "reverted", "exit"}
  BY DEF SignExit, Launch, Inv, TypeOK
<1>4. QED
  BY <1>1, <1>2, <1>3, UnseenHeld
     DEF Inv, TypeOK, FlightShape, RefillKeepsPayment, RefillRestores, Nothing, Flights

\* The cap a retry signs at.
Higher == MaxInt(cap, Bump(flight.cap))

LEMMA HigherRaises ==
  ASSUME Inv
  PROVE  Higher \in Nat /\ Higher > flight.cap
PROOF
<1>1. cap \in Nat /\ flight.cap \in Nat
  BY ConstantsTyped DEF TypedConstants, Inv, TypeOK, Flights
<1>2. Bump(flight.cap) \in Nat /\ Bump(flight.cap) > flight.cap
  BY <1>1, BumpReplaces
<1>3. QED  BY <1>1, <1>2 DEF Higher, MaxInt

LEMMA RetryInv ==
  ASSUME Inv, Retry
  PROVE  Inv'
PROOF
<1>1. Higher \in Nat /\ Higher > flight.cap
  BY HigherRaises
<1>2. flight' = [flight EXCEPT !.cap = Higher] /\ flight # Nothing
  BY DEF Retry, Higher
<1>3. gas' = gas /\ token' = token /\ cap' = cap
      /\ excuses' \subseteq {"dear", "raised", "reverted", "exit"}
  BY DEF Retry, Inv, TypeOK, Excuse
<1>4. flight' \in Flights
  BY <1>1, <1>2 DEF Inv, TypeOK, Flights
<1>5. /\ flight'.kind = flight.kind /\ flight'.amount = flight.amount
      /\ flight'.reserve = flight.reserve /\ flight'.low = flight.low
      /\ flight'.cap = Higher
  BY <1>2 DEF Inv, TypeOK, Flights
<1>6. flight'.low < flight'.cap
  BY <1>1, <1>5 DEF Inv, TypeOK, Flights, FlightShape
<1>7. seen' = seen /\ SeenHeld'
  <2>1. seen = Unseen  BY <1>2 DEF Inv, SeenHeld
  <2>2. seen' = seen  BY DEF Retry
  <2>3. QED  BY <1>3, <2>1, <2>2 DEF Inv, SeenHeld
<1>8. flight' # Nothing /\ flight'.kind # "nothing"
  <2>1. flight.kind # "nothing"  BY <1>2 DEF Inv, FlightShape
  <2>2. QED  BY <1>5, <2>1 DEF Nothing
<1>9. QED
  BY <1>3, <1>4, <1>5, <1>6, <1>7, <1>8
     DEF Inv, TypeOK, FlightShape, RefillKeepsPayment, RefillRestores, Flights

LEMMA LandInv ==
  ASSUME Inv, NEW fee \in Nat, NEW moved \in Nat, NEW r \in BOOLEAN, Land(fee, moved, r)
  PROVE  Inv'
PROOF
<1>1. flight' = Nothing /\ cap' = cap
  BY DEF Land
<1>2. gas \in Nat /\ token \in Nat /\ flight.delta \in Nat /\ flight.amount \in Nat
      /\ flight.reserve \in Nat
  BY DEF Inv, TypeOK, Flights
<1>3. gas' \in Nat /\ token' \in Nat
  BY <1>2 DEF Land, Inv, RefillKeepsPayment
<1>4. excuses' \subseteq {"dear", "raised", "reverted", "exit"}
  BY DEF Land, Inv, TypeOK
<1>5. seen' = seen /\ SeenHeld'
  <2>1. seen = Unseen /\ seen' = seen  BY DEF Land, Inv, SeenHeld
  <2>2. QED  BY <1>1, <1>3, <2>1 DEF SeenHeld, Unseen
<1>6. QED
  BY <1>1, <1>3, <1>4, <1>5
     DEF Inv, TypeOK, FlightShape, RefillKeepsPayment, RefillRestores, Nothing, Flights

LEMMA FundingInv ==
  ASSUME Inv, NEW n \in Nat, Deposit(n) \/ TopUp(n) \/ FeesMove
  PROVE  Inv'
PROOF
<1>1. gas \in Nat /\ token \in Nat /\ flight \in Flights  BY DEF Inv, TypeOK
<1>2. flight' = flight /\ seen' = seen /\ excuses' = excuses /\ cap' \in Caps
      /\ gas' \in Nat /\ gas' >= gas /\ token' \in Nat /\ token' >= token
  BY <1>1 DEF Deposit, TopUp, FeesMove, Inv, TypeOK
<1>3. RefillKeepsPayment'
  BY <1>1, <1>2 DEF Inv, RefillKeepsPayment, Flights
<1>4. RefillRestores'
  <2> SUFFICES ASSUME flight.kind = "refill", flight.low = flight.cap
               PROVE  gas' + flight.delta >= Policy.max + flight.cap * SwapGas
    BY <1>2 DEF RefillRestores
  <2> DEFINE c == flight.cap * SwapGas
  <2>1. c \in Nat /\ Policy.max \in Nat /\ flight.delta \in Nat
    BY <1>1, ConstantsTyped, Products DEF TypedConstants, Flights
  <2>2. gas + flight.delta >= Policy.max + c  BY DEF Inv, RefillRestores
  <2> HIDE DEF c
  <2>3. gas' + flight.delta >= Policy.max + c  BY <1>1, <1>2, <2>1, <2>2
  <2>4. QED  BY <2>3 DEF c
<1>5. SeenHeld'
  BY <1>1, <1>2 DEF Inv, TypeOK, SeenHeld, Reads
<1>6. QED
  BY <1>1, <1>2, <1>3, <1>4, <1>5 DEF Inv, TypeOK, FlightShape

LEMMA NextInv == Inv /\ [Next]_vars => Inv'
PROOF
<1> SUFFICES ASSUME Inv, [Next]_vars PROVE Inv'
  OBVIOUS
<1>0. CASE ReadToken \/ ReadGas  BY <1>0, ReadInv
<1>1. CASE FeesMove  BY <1>1, FundingInv
<1>2. ASSUME NEW a \in Amounts, SignPayment(a) PROVE Inv'  BY <1>2, SignPaymentInv
<1>3. ASSUME NEW r \in Amounts \cup {0}, NEW q \in Quotes, SignRefill(r, q) PROVE Inv'
  BY <1>3, SignRefillInv
<1>4. CASE SignExit  BY <1>4, SignExitInv
<1>5. CASE Retry  BY <1>5, RetryInv
<1>6. ASSUME NEW fee \in 0 .. flight.cap * Limit(flight.kind),
             NEW moved \in 0 .. flight.amount, NEW r \in BOOLEAN, Land(fee, moved, r)
      PROVE  Inv'
  <2>1. fee \in Nat /\ moved \in Nat  OBVIOUS
  <2>2. QED  BY <1>6, <2>1, LandInv
<1>7. ASSUME NEW n \in 1 .. TokenBound, Deposit(n) PROVE Inv'  BY <1>7, FundingInv
<1>8. ASSUME NEW n \in 1 .. GasBound, TopUp(n) PROVE Inv'  BY <1>8, FundingInv
<1>9. CASE UNCHANGED vars
  BY <1>9 DEF vars, Inv, TypeOK, FlightShape, RefillKeepsPayment, RefillRestores, SeenHeld
<1>10. QED
  BY <1>0, <1>1, <1>2, <1>3, <1>4, <1>5, <1>6, <1>7, <1>8, <1>9 DEF Next

\* Every state has its types, whatever the policy and the fees.
THEOREM TypeCorrect == Spec => []TypeOK
PROOF
<1>1. Inv => TypeOK  BY DEF Inv
<1>2. QED  BY InitInv, NextInv, <1>1, PTL DEF Spec

\* A refill never spends what the payment it was bought for needs.
THEOREM RefillKeeps == Spec => []RefillKeepsPayment
PROOF
<1>1. Inv => RefillKeepsPayment  BY DEF Inv
<1>2. QED  BY InitInv, NextInv, <1>1, PTL DEF Spec

\* After a refill whose fees were not raised, the payment that asked for it is
\* answered "execute", at any fee (rail.go Pay).
THEOREM RefillThenPay == Spec => RefillEnables
PROOF
<1> DEFINE Enables == Refilled /\ flight.low = flight.cap =>
                        /\ gas' >= Policy.max
                        /\ Decide(Policy, InputNext(flight.reserve)).action = "execute"
<1>1. ASSUME Inv, [Next]_vars PROVE [Enables]_vars
  <2> SUFFICES ASSUME Refilled, flight.low = flight.cap, Next
               PROVE  /\ gas' >= Policy.max
                      /\ Decide(Policy, InputNext(flight.reserve)).action = "execute"
    BY <1>1
  <2>1. flight # Nothing /\ flight' = Nothing
    BY DEF Refilled, Nothing
  <2>2. PICK fee \in 0 .. flight.cap * Limit(flight.kind), moved \in 0 .. flight.amount,
             r \in BOOLEAN : Land(fee, moved, r)
    <3>1. flight'.kind = "nothing" /\ flight.kind = "refill"
      BY <2>1 DEF Nothing, Refilled
    <3>2. ~Retry  BY <1>1, <3>1 DEF Retry, Inv, TypeOK, Flights
    <3>3. \A n \in Nat : ~Deposit(n) /\ ~TopUp(n)
      BY <3>1 DEF Deposit, TopUp
    <3>4. /\ ~FeesMove /\ ~ReadToken /\ ~ReadGas /\ ~SignExit
          /\ \A a \in Amounts : ~SignPayment(a)
      BY <2>1, <3>1 DEF FeesMove, ReadToken, ReadGas, SignExit, SignPayment, Launch
    <3>5. \A a \in Amounts \cup {0}, q \in Quotes : ~SignRefill(a, q)
      BY <2>1 DEF SignRefill, Launch
    <3>6. 1 .. TokenBound \subseteq Nat /\ 1 .. GasBound \subseteq Nat
      BY ConstantsTyped DEF TypedConstants
    <3>7. QED  BY <3>2, <3>3, <3>4, <3>5, <3>6 DEF Next
  <2>3. /\ gas' = gas - fee + flight.delta /\ token' = token - moved
        /\ fee <= flight.cap * SwapGas /\ moved <= flight.amount
    BY <2>2 DEF Land, Refilled, Limit
  <2> DEFINE c == flight.cap * SwapGas
  <2>4. /\ gas \in Nat /\ token \in Nat /\ flight.delta \in Nat /\ flight.amount \in Nat
        /\ flight.reserve \in Nat /\ c \in Nat
        /\ Policy.max \in Nat /\ Policy.min \in Nat /\ Policy.max > Policy.min
    BY <1>1, ConstantsTyped, Products DEF Inv, TypeOK, Flights, TypedConstants
  <2>5. gas + flight.delta >= Policy.max + c /\ token >= flight.amount + flight.reserve
    BY <1>1 DEF Inv, RefillRestores, RefillKeepsPayment, Refilled
  <2>6. fee \in Nat /\ fee <= c /\ moved \in Nat
    BY <2>2, <2>3
  <2> HIDE DEF c
  <2>7. gas' >= Policy.max /\ gas' >= Policy.min /\ token' >= flight.reserve
    BY <2>3, <2>4, <2>5, <2>6
  <2>8. token' \in Nat /\ gas' \in Nat
    BY <2>3, <2>4, <2>5, <2>6
  <2>9. Decide(Policy, InputNext(flight.reserve)).action = "execute"
    BY <2>4, <2>7, <2>8 DEF Decide, InputNext, AboveMinimum, Decision
  <2>10. QED  BY <2>7, <2>9
<1>2. QED  BY InitInv, NextInv, <1>1, PTL DEF Spec, RefillEnables

----------------------------------------------------------------------------
(* The reserve can always replenish itself                                 *)

\* With nothing to excuse it, the reserve never falls further than one
\* payment below its minimum, and what is in flight was signed at fees the
\* reserve was sized for.
Kept ==
  excuses = {} =>
    /\ flight.kind = "nothing" => gas >= SwapGas * RefCap
    /\ flight.kind = "payment" => gas >= Policy.min
    /\ flight.kind # "nothing" => flight.cap <= RefCap
    /\ flight.kind = "refill" => flight.low = flight.cap

\* Costs at the reference cap, and what MinCoversBoth says of them.
LEMMA ReferenceCosts ==
  ASSUME MinCoversBoth
  PROVE  /\ PaymentGas * RefCap \in Nat /\ SwapGas * RefCap \in Nat
         /\ Policy.min >= PaymentGas * RefCap + SwapGas * RefCap
PROOF
<1>1. PaymentGas * RefCap \in Nat /\ SwapGas * RefCap \in Nat
  BY ConstantsTyped, Products DEF TypedConstants
<1>2. (PaymentGas + SwapGas) * RefCap = PaymentGas * RefCap + SwapGas * RefCap
  BY ConstantsTyped DEF TypedConstants
<1>3. QED  BY <1>1, <1>2 DEF MinCoversBoth

LEMMA InitKept == MinCoversBoth /\ Init => Kept
PROOF
<1> SUFFICES ASSUME MinCoversBoth, Init PROVE Kept
  OBVIOUS
<1>1. gas \in Nat /\ gas >= Policy.min  BY ConstantsTyped DEF Init, TypedConstants
<1>2. gas >= SwapGas * RefCap
  BY <1>1, ReferenceCosts, ConstantsTyped DEF TypedConstants
<1>3. QED  BY <1>2 DEF Init, Kept, Nothing

LEMMA LandKept ==
  ASSUME MinCoversBoth, Inv, Kept, excuses' = {},
         NEW fee \in Nat, NEW moved \in Nat, NEW r \in BOOLEAN, Land(fee, moved, r)
  PROVE  Kept'
PROOF
<1>1. excuses = {} /\ flight' = Nothing /\ flight # Nothing
  BY DEF Land
<1>2. /\ gas' = gas - fee + flight.delta
      /\ fee <= flight.cap * Limit(flight.kind)
  BY DEF Land
<1>3. gas \in Nat /\ flight.cap \in Nat /\ flight.delta \in Nat
      /\ flight.kind \in {"payment", "refill"}
  BY <1>1 DEF Inv, TypeOK, Flights, FlightShape
<1>4. flight.cap <= RefCap  BY <1>1, <1>3 DEF Kept
<1>5. gas' >= SwapGas * RefCap
  <2>1. CASE flight.kind = "payment"
    <3>1. flight.cap * PaymentGas <= RefCap * PaymentGas
          /\ flight.cap * PaymentGas \in Nat
      BY <1>3, <1>4, Products, ConstantsTyped DEF TypedConstants
    <3>2. fee <= PaymentGas * RefCap
      BY <2>1, <3>1, <1>2, ConstantsTyped DEF Limit, TypedConstants
    <3>3. gas >= Policy.min  BY <1>1, <2>1 DEF Kept
    <3>4. QED
      BY <1>2, <1>3, <3>2, <3>3, ReferenceCosts, ConstantsTyped DEF TypedConstants
  <2>2. CASE flight.kind = "refill"
    <3> DEFINE c == flight.cap * SwapGas
    <3>1. c \in Nat  BY <1>3, Products, ConstantsTyped DEF TypedConstants
    <3>2. gas + flight.delta >= Policy.max + c
      BY <1>1, <2>2 DEF Kept, Inv, RefillRestores
    <3>3. fee <= c  BY <1>2, <2>2 DEF Limit
    <3> HIDE DEF c
    <3>4. gas' >= Policy.max
      BY <1>2, <1>3, <3>1, <3>2, <3>3, ConstantsTyped DEF TypedConstants
    <3>5. gas' \in Int  BY <1>2, <1>3
    <3>6. QED
      BY <3>4, <3>5, ReferenceCosts, ConstantsTyped DEF TypedConstants
  <2>3. QED  BY <1>3, <2>1, <2>2
<1>6. QED  BY <1>1, <1>5 DEF Kept, Nothing

LEMMA NextKept ==
  MinCoversBoth /\ Inv /\ Kept /\ [Next]_vars => Kept'
PROOF
<1> SUFFICES ASSUME MinCoversBoth, Inv, Kept, [Next]_vars, excuses' = {} PROVE Kept'
  BY DEF Kept
<1>0. gas \in Nat /\ flight \in Flights /\ cap \in Nat /\ RefCap \in Nat
      /\ SwapGas * RefCap \in Nat
  BY ConstantsTyped, ReferenceCosts DEF Inv, TypeOK, TypedConstants
<1>1. ASSUME NEW a \in Amounts, SignPayment(a) PROVE Kept'
  <2>1. cap <= RefCap
    <3>1. cap > RefCap => "dear" \in excuses'  BY <1>1 DEF SignPayment, Excuse
    <3>2. QED  BY <1>0, <3>1
  <2>2. gas >= Policy.min
    <3>1. seen.gas >= Policy.min
      BY <1>1 DEF SignPayment, Decide, Input, AboveMinimum, Decision, Wait
    <3>2. seen.gas <= gas /\ seen.gas \in Nat /\ Policy.min \in Nat
      BY ConstantsTyped DEF Inv, TypeOK, Reads, SeenHeld, TypedConstants
    <3>3. QED  BY <1>0, <3>1, <3>2
  <2>3. QED  BY <1>1, <2>1, <2>2 DEF Kept, SignPayment, Launch
<1>2. ASSUME NEW r \in Amounts \cup {0}, NEW q \in Quotes, SignRefill(r, q) PROVE Kept'
  <2>1. seen.cap <= RefCap
    <3>1. seen.cap > RefCap => "dear" \in excuses'  BY <1>2 DEF SignRefill, Excuse
    <3>2. seen.cap \in Nat  BY DEF Inv, TypeOK, Reads
    <3>3. QED  BY <1>0, <3>1, <3>2
  <2>2. QED  BY <1>2, <2>1 DEF Kept, SignRefill, Launch
<1>3. CASE SignExit  BY <1>3 DEF SignExit
<1>4. CASE Retry
  <2>1. flight.kind # "refill" /\ Higher <= RefCap /\ excuses = {}
    <3>1. Higher \in Nat  BY HigherRaises
    <3>2. Higher > RefCap => "dear" \in excuses'  BY <1>4 DEF Retry, Excuse, Higher
    <3>3. flight.kind = "refill" => "raised" \in excuses'  BY <1>4 DEF Retry, Excuse
    <3>4. excuses \subseteq excuses'  BY <1>4 DEF Retry
    <3>5. QED  BY <1>0, <3>1, <3>2, <3>3, <3>4
  <2>2. flight'.cap = Higher /\ flight'.kind = flight.kind /\ flight'.low = flight.low
        /\ gas' = gas
    BY <1>0, <1>4 DEF Retry, Higher, Flights
  <2>3. QED  BY <1>4, <2>1, <2>2 DEF Kept
<1>5. ASSUME NEW fee \in 0 .. flight.cap * Limit(flight.kind),
             NEW moved \in 0 .. flight.amount, NEW r \in BOOLEAN, Land(fee, moved, r)
      PROVE  Kept'
  <2>1. fee \in Nat /\ moved \in Nat  OBVIOUS
  <2>2. QED  BY <1>5, <2>1, LandKept
<1>6. ASSUME NEW n \in Nat, Deposit(n) \/ TopUp(n) \/ FeesMove PROVE Kept'
  <2>1. flight' = flight /\ excuses' = excuses /\ gas' >= gas /\ gas' \in Nat
    BY <1>0, <1>6 DEF Deposit, TopUp, FeesMove
  <2>2. Policy.min \in Nat  BY ConstantsTyped DEF TypedConstants
  <2>3. QED  BY <1>0, <2>1, <2>2 DEF Kept
<1>7. CASE UNCHANGED vars  BY <1>7 DEF vars, Kept
<1>8. CASE ReadToken \/ ReadGas  BY <1>8 DEF ReadToken, ReadGas, Kept
<1>9. QED
  <2>1. 1 .. TokenBound \subseteq Nat /\ 1 .. GasBound \subseteq Nat /\ 0 \in Nat
    BY ConstantsTyped DEF TypedConstants
  <2>2. CASE FeesMove  BY <1>6, <2>1, <2>2
  <2>3. QED  BY <1>1, <1>2, <1>3, <1>4, <1>5, <1>6, <1>7, <1>8, <2>1, <2>2 DEF Next

\* With a minimum that covers a payment and the refill after it, the account
\* never reaches a reserve it cannot replenish, at any fee up to the
\* reference, unless it was excused (requirements.md 3: "MIN must cover
\* both").
THEOREM ReserveReplenishes == MinCoversBoth /\ Spec => []NeverStranded
PROOF
<1>1. MinCoversBoth /\ Inv /\ Kept => NeverStranded
  <2> SUFFICES ASSUME MinCoversBoth, Inv, Kept, excuses = {},
                      flight = Nothing, cap <= RefCap, gas < cap * SwapGas
               PROVE  FALSE
    BY DEF NeverStranded, Stranded
  <2>1. gas \in Nat /\ cap \in Nat
    BY ConstantsTyped DEF Inv, TypeOK, TypedConstants
  <2>2. cap * SwapGas <= RefCap * SwapGas /\ cap * SwapGas \in Nat
    BY <2>1, Products, ConstantsTyped DEF TypedConstants
  <2>3. gas >= SwapGas * RefCap  BY DEF Kept, Nothing
  <2>4. RefCap * SwapGas = SwapGas * RefCap  BY ConstantsTyped DEF TypedConstants
  <2>5. QED  BY <2>1, <2>2, <2>3, <2>4, ReferenceCosts
<1>2. MinCoversBoth => []MinCoversBoth
  <2>1. MinCoversBoth => MinCoversBoth'  BY DEF MinCoversBoth
  <2>2. QED  BY <2>1, PTL
<1>3. QED  BY InitInv, NextInv, InitKept, NextKept, <1>1, <1>2, PTL DEF Spec

----------------------------------------------------------------------------
(* A step of Venue is a step of Reserve                                    *)

LEMMA PriceTyped == ASSUME VenueTypeOK PROVE price \in Nat \ {0}
PROOF
  BY MoneyAssumption DEF VenueTypeOK

LEMMA SwapLands ==
  ASSUME Inv, VenueTypeOK, NEW fee \in 0 .. flight.cap * Limit(flight.kind), Swap(fee)
  PROVE  \E moved \in 0 .. flight.amount, r \in BOOLEAN : Land(fee, moved, r)
PROOF
<1> DEFINE executes == Executes(refill, flight.amount)
<1>1. price \in Nat /\ flight.amount \in Nat
  BY PriceTyped DEF Inv, TypeOK, Flights
<1>2. Land(fee, price, ~executes) /\ executes \in BOOLEAN
  BY DEF Swap, Executes
<1>3. CASE executes
  <2>1. price \in 0 .. flight.amount  BY <1>1, <1>3 DEF Executes
  <2>2. QED  BY <1>2, <2>1
<1>4. CASE ~executes
  <2>1. Land(fee, 0, TRUE)  BY <1>2, <1>4 DEF Land
  <2>2. 0 \in 0 .. flight.amount  BY <1>1
  <2>3. QED  BY <2>1, <2>2
<1>5. QED  BY <1>3, <1>4

LEMMA StepIsReserves == Inv /\ VenueTypeOK /\ [VenueNext]_allVars => [Next]_vars
PROOF
<1> SUFFICES ASSUME Inv, VenueTypeOK, [VenueNext]_allVars PROVE [Next]_vars
  OBVIOUS
<1>1. ASSUME NEW a \in Amounts \cup {0}, NEW q \in Quotes, BuyGas(a, q) PROVE Next
  BY <1>1 DEF BuyGas, Next
<1>2. ASSUME NEW fee \in 0 .. flight.cap * Limit(flight.kind), Swap(fee) PROVE Next
  BY <1>2, SwapLands DEF Next
<1>3. ASSUME NEW fee \in 0 .. flight.cap * Limit(flight.kind), NEW r \in BOOLEAN,
             LandPayment(fee, r)
      PROVE  Next
  <2>1. flight.amount \in 0 .. flight.amount  BY DEF Inv, TypeOK, Flights
  <2>2. Land(fee, flight.amount, r)  BY <1>3 DEF LandPayment
  <2>3. QED  BY <2>1, <2>2 DEF Next
<1>4. CASE (\E r \in Routers : MoveVenue(r)) \/ PriceMoves \/ Expire \/ UNCHANGED allVars
  BY <1>4 DEF MoveVenue, PriceMoves, Expire, allVars
<1>5. CASE FeesMove \/ ReadToken \/ ReadGas \/ (\E a \in Amounts : SignPayment(a)) \/ SignExit
           \/ Retry \/ (\E n \in 1 .. TokenBound : Deposit(n)) \/ (\E n \in 1 .. GasBound : TopUp(n))
  BY <1>5 DEF Next
<1>6. QED  BY <1>1, <1>2, <1>3, <1>4, <1>5 DEF VenueNext

----------------------------------------------------------------------------
(* The refill in flight                                                    *)

\* What a refill in flight recorded is what the chain will ask of it: the
\* token's nonce, which nothing but its own execution moves, and its bound.
Built == flight.kind = "refill" => refill.nonce = permits /\ refill.value = flight.amount

VInv == Inv /\ VenueTypeOK /\ Built

LEMMA InitVInv == VenueInit => VInv
PROOF
<1> SUFFICES ASSUME VenueInit PROVE VInv
  OBVIOUS
<1>1. Inv  BY InitInv DEF VenueInit
<1>2. VenueTypeOK
  BY PermitsAssumption DEF VenueInit, VenueTypeOK, Refills, NoRefill
<1>3. Built  BY DEF VenueInit, Init, Built, Nothing
<1>4. QED  BY <1>1, <1>2, <1>3 DEF VInv

LEMMA BuyGasBuilds ==
  ASSUME VInv, Inv', NEW a, NEW q, BuyGas(a, q)
  PROVE  VenueTypeOK' /\ Built'
PROOF
<1>1. flight'.amount \in Nat  BY DEF Inv, TypeOK, Flights
<1>2. refill' = [venue |-> venue, value |-> flight'.amount, nonce |-> permits, late |-> FALSE]
  BY DEF BuyGas, PermitValue
<1>3. venue' = venue /\ price' = price /\ permits' = permits /\ allowed' = allowed
  BY DEF BuyGas
<1>4. venue \in Routers /\ price \in Quotes /\ permits \in Nat /\ permits \in 0 .. MaxPermits
      /\ allowed \in [Routers -> Nat]
  BY PermitsAssumption DEF VInv, VenueTypeOK
<1>5. refill' \in Refills  BY <1>1, <1>2, <1>4 DEF Refills
<1>6. QED  BY <1>2, <1>3, <1>4, <1>5 DEF VenueTypeOK, Built

LEMMA SwapEnds ==
  ASSUME VInv, NEW fee, Swap(fee)
  PROVE  VenueTypeOK' /\ Built'
PROOF
<1> DEFINE executes == Executes(refill, flight.amount)
<1>1. /\ venue \in Routers /\ price \in Quotes /\ price \in Nat
      /\ permits \in 0 .. MaxPermits /\ allowed \in [Routers -> Nat]
      /\ refill \in Refills
  BY PriceTyped DEF VInv, VenueTypeOK
<1>2. flight' = Nothing /\ refill' = NoRefill /\ venue' = venue /\ price' = price
  BY DEF Swap, Land
<1>3. NoRefill \in Refills  BY DEF NoRefill, Refills
<1>4. permits' \in 0 .. MaxPermits
  BY <1>1, PermitsAssumption DEF Swap
<1>5. allowed' \in [Routers -> Nat]
  <2>1. CASE executes
    <3>1. refill.value - price \in Nat
      BY <1>1, <2>1 DEF Executes, Refills
    <3>2. allowed' = [allowed EXCEPT ![Target(refill)] = refill.value - price]
      BY <2>1 DEF Swap
    <3>3. QED  BY <1>1, <3>1, <3>2
  <2>2. CASE ~executes  BY <1>1, <2>2 DEF Swap
  <2>3. QED  BY <2>1, <2>2
<1>6. Built'  BY <1>2 DEF Built, Nothing
<1>7. QED  BY <1>1, <1>2, <1>3, <1>4, <1>5, <1>6 DEF VenueTypeOK

LEMMA RetryKeeps ==
  ASSUME VInv, Retry, UNCHANGED venueVars
  PROVE  VenueTypeOK' /\ Built'
PROOF
<1>1. flight'.kind = flight.kind /\ flight'.amount = flight.amount
  BY DEF Retry, VInv, Inv, TypeOK, Flights
<1>2. QED  BY <1>1 DEF VInv, VenueTypeOK, Built, venueVars

\* Steps after which no refill is in flight, or the same one.
LEMMA OthersKeep ==
  ASSUME VInv, UNCHANGED venueVars, flight' = flight \/ flight'.kind # "refill"
  PROVE  VenueTypeOK' /\ Built'
PROOF
  BY DEF VInv, VenueTypeOK, Built, venueVars

LEMMA NextVInv == VInv /\ [VenueNext]_allVars => VInv'
PROOF
<1> SUFFICES ASSUME VInv, [VenueNext]_allVars PROVE VInv'
  OBVIOUS
<1>1. Inv'
  BY StepIsReserves, NextInv DEF VInv
<1>2. ASSUME NEW a \in Amounts \cup {0}, NEW q \in Quotes, BuyGas(a, q)
      PROVE  VenueTypeOK' /\ Built'
  BY <1>1, <1>2, BuyGasBuilds
<1>3. ASSUME NEW fee \in 0 .. flight.cap * Limit(flight.kind), Swap(fee)
      PROVE  VenueTypeOK' /\ Built'
  BY <1>3, SwapEnds
<1>4. ASSUME NEW fee \in 0 .. flight.cap * Limit(flight.kind), NEW r \in BOOLEAN,
             LandPayment(fee, r)
      PROVE  VenueTypeOK' /\ Built'
  BY <1>4, OthersKeep DEF LandPayment, Land, Nothing
<1>5. ASSUME NEW r \in Routers, MoveVenue(r) PROVE VenueTypeOK' /\ Built'
  BY <1>5 DEF MoveVenue, VInv, VenueTypeOK, Built, vars
<1>6. ASSUME PriceMoves PROVE VenueTypeOK' /\ Built'
  BY <1>6 DEF PriceMoves, VInv, VenueTypeOK, Built, vars
<1>7. ASSUME Expire PROVE VenueTypeOK' /\ Built'
  <2>1. refill' \in Refills /\ refill'.nonce = refill.nonce /\ refill'.value = refill.value
    BY <1>7 DEF Expire, VInv, VenueTypeOK, Refills
  <2>2. QED  BY <1>7, <2>1 DEF Expire, VInv, VenueTypeOK, Built, vars
<1>8. ASSUME FeesMove \/ ReadToken \/ ReadGas \/ (\E n \in 1 .. TokenBound : Deposit(n))
             \/ (\E n \in 1 .. GasBound : TopUp(n)),
             UNCHANGED venueVars
      PROVE  VenueTypeOK' /\ Built'
  <2>1. flight' = flight  BY <1>8 DEF FeesMove, ReadToken, ReadGas, Deposit, TopUp
  <2>2. QED  BY <1>8, <2>1, OthersKeep
<1>9. ASSUME (\E a \in Amounts : SignPayment(a)) \/ SignExit, UNCHANGED venueVars
      PROVE  VenueTypeOK' /\ Built'
  <2>1. flight'.kind = "payment"  BY <1>9 DEF SignPayment, SignExit, Launch
  <2>2. QED  BY <1>9, <2>1, OthersKeep
<1>10. ASSUME Retry, UNCHANGED venueVars PROVE VenueTypeOK' /\ Built'  BY <1>10, RetryKeeps
<1>11. ASSUME UNCHANGED allVars PROVE VenueTypeOK' /\ Built'
  BY <1>11, OthersKeep DEF allVars, vars
<1>12. VenueTypeOK' /\ Built'
  BY <1>2, <1>3, <1>4, <1>5, <1>6, <1>7, <1>8, <1>9, <1>10, <1>11 DEF VenueNext
<1>13. QED  BY <1>1, <1>12 DEF VInv

----------------------------------------------------------------------------
(* Theorems *)

\* With its venue the reserve is still Reserve's: every theorem of Reserve
\* holds of it.
THEOREM VenueIsReserve == VenueSpec => Spec
PROOF
<1>1. VenueInit => Init  BY DEF VenueInit
<1>2. VInv /\ [VenueNext]_allVars => [Next]_vars  BY StepIsReserves DEF VInv
<1>3. QED  BY InitVInv, NextVInv, <1>1, <1>2, PTL DEF VenueSpec, Spec

\* A refill in flight executes, until its hour has passed, at any price within
\* its bound (rail.go Refill, target).
THEOREM RefillStillExecutes == VenueSpec => []RefillExecutes
PROOF
<1>1. ASSUME VInv PROVE RefillExecutes
  <2> SUFFICES ASSUME flight.kind = "refill", ~refill.late, price <= flight.amount
               PROVE  Executes(refill, flight.amount)
    BY DEF RefillExecutes
  <2>1. refill.nonce = permits /\ refill.value = flight.amount  BY <1>1 DEF VInv, Built
  <2>2. price <= token
    BY <1>1, PriceTyped DEF VInv, Inv, TypeOK, Flights, RefillKeepsPayment
  <2>3. QED  BY <2>1, <2>2 DEF Executes, Target
<1>2. QED  BY InitVInv, NextVInv, <1>1, PTL DEF VenueSpec

\* What a router may still take is the rest of one refill's input bound
\* (venue.go permitCall).
THEOREM ResidueIsRest == VenueSpec => ResidueOfOne
PROOF
<1> DEFINE Rest == \A r \in Routers : allowed'[r] # allowed[r] =>
                     /\ r = refill.venue
                     /\ token' < token
                     /\ allowed'[r] = flight.amount - (token - token')
<1>1. ASSUME VInv, [VenueNext]_allVars PROVE [Rest]_allVars
  <2> SUFFICES ASSUME VenueNext, NEW r \in Routers, allowed'[r] # allowed[r]
               PROVE  /\ r = refill.venue
                      /\ token' < token
                      /\ allowed'[r] = flight.amount - (token - token')
    BY <1>1
  <2>1. PICK fee \in 0 .. flight.cap * Limit(flight.kind) : Swap(fee)
    BY DEF VenueNext, BuyGas, LandPayment, MoveVenue, PriceMoves, Expire, venueVars
  <2>2. Executes(refill, flight.amount)  BY <2>1 DEF Swap
  <2>3. allowed' = [allowed EXCEPT ![refill.venue] = refill.value - price]
    BY <2>1, <2>2 DEF Swap, Target
  <2>4. allowed \in [Routers -> Nat] /\ price \in Nat \ {0} /\ refill.value = flight.amount
        /\ token \in Nat /\ flight.amount \in Nat /\ token >= flight.amount
    <3>1. token >= flight.amount + flight.reserve /\ flight.reserve \in Nat
          /\ token \in Nat /\ flight.amount \in Nat
      BY <1>1 DEF VInv, Inv, TypeOK, Flights, RefillKeepsPayment
    <3>2. QED  BY <1>1, <2>1, <3>1, PriceTyped DEF VInv, VenueTypeOK, Built, Swap
  <2>5. token' = token - price
    BY <2>1, <2>2, <2>4 DEF Swap, Land
  <2>6. r = refill.venue /\ allowed'[r] = flight.amount - price
    BY <2>3, <2>4
  <2>7. QED  BY <2>4, <2>5, <2>6
<1>2. QED  BY InitVInv, NextVInv, <1>1, PTL DEF VenueSpec, ResidueOfOne
=============================================================================
