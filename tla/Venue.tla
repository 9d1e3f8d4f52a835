------------------------------- MODULE Venue -------------------------------
(***************************************************************************)
(* A refill as the chain carries it (go/rail/venue.go): one batch of a     *)
(* permit, an exact-output swap and an unwrapping, built when the refill   *)
(* is recorded and sent, as often as it takes, as it was built.  Between   *)
(* the two the price moves, an hour passes, and the process may come back  *)
(* with a configuration that names another router.                         *)
(*                                                                         *)
(* This is module Reserve with the reasons of a refill's success and       *)
(* revert in it: every step is one of Reserve's, or leaves the reserve     *)
(* alone.  The router and the token are external, known from how the rail  *)
(* uses them (and as contracts/src/MockRouter.sol imitates them).          *)
(***************************************************************************)
EXTENDS Reserve

CONSTANTS
  Routers,      \* the venues a configuration may name
  NoRouter,
  MaxPermits    \* bound: permits the token has accepted

ASSUME RoutersAssumption == Routers # {} /\ NoRouter \notin Routers
ASSUME PermitsAssumption == MaxPermits \in Nat

VARIABLES
  venue,      \* the router the running process is configured with
  price,      \* what that pool asks for a refill now
  refill,     \* what the refill in flight has recorded: Intent.To and the calldata
  permits,    \* the token's permit nonce of this account
  allowed     \* what each router may still take of the account's money

venueVars == <<venue, price, refill, permits, allowed>>
allVars == <<vars, venueVars>>

\* The router a refill was built for, the permit in it (how much, under which
\* nonce), and whether its deadline has passed.
Refills == [venue : Routers \cup {NoRouter}, value : Nat, nonce : Nat, late : BOOLEAN]
NoRefill == [venue |-> NoRouter, value |-> 0, nonce |-> 0, late |-> FALSE]

VenueTypeOK ==
  /\ venue \in Routers /\ price \in Quotes
  /\ refill \in Refills
  /\ permits \in 0 .. MaxPermits
  /\ allowed \in [Routers -> Nat]

VenueInit ==
  /\ Init
  /\ venue \in Routers
  /\ price \in Quotes
  /\ refill = NoRefill
  /\ permits = 0
  /\ allowed = [r \in Routers |-> 0]

\* target: a refill goes to the router recorded with it.
SlipTarget(f) == venue
Target(f) == f.venue

\* permitCall: the permit is for the refill's input bound, under the token's
\* nonce of the moment.
SlipPermitValue(maxInput) == seen.token
PermitValue(maxInput) == maxInput

\* What the batch does when it is executed, all of it or nothing: the permit
\* holds only for the router it names, under the token's next nonce; both it
\* and the swap have the same deadline; the swap takes the price, no more than
\* the input bound.
Executes(f, maxInput) ==
  /\ Target(f) = f.venue
  /\ f.nonce = permits
  /\ ~f.late
  /\ price <= maxInput /\ price <= f.value
  /\ price <= token

\* Refill: build the batch, simulate it at the price of now (the quote may be
\* older), record it and sign.
BuyGas(reserve, quote) ==
  /\ SignRefill(reserve, quote)
  /\ refill' = [venue |-> venue, value |-> PermitValue(flight'.amount),
                nonce |-> permits, late |-> FALSE]
  /\ Executes(refill', flight'.amount)
  /\ UNCHANGED <<venue, price, permits, allowed>>

\* The chain includes it.
Swap(fee) ==
  LET executes == Executes(refill, flight.amount) IN
  /\ flight.kind = "refill"
  /\ executes => permits < MaxPermits
  /\ Land(fee, price, ~executes)
  /\ permits' = IF executes THEN permits + 1 ELSE permits
  /\ allowed' = IF executes
                THEN [allowed EXCEPT ![Target(refill)] = refill.value - price]
                ELSE allowed
  /\ refill' = NoRefill
  /\ UNCHANGED <<venue, price>>

\* A payment is included: it moves what it says, or reverts.
LandPayment(fee, reverted) ==
  /\ flight.kind = "payment"
  /\ Land(fee, flight.amount, reverted)
  /\ UNCHANGED venueVars

\* The process is restarted with another router configured.
MoveVenue(r) ==
  /\ venue' = r
  /\ UNCHANGED <<vars, price, refill, permits, allowed>>

PriceMoves ==
  /\ price' \in Quotes
  /\ UNCHANGED <<vars, venue, refill, permits, allowed>>

\* The hour a refill is good for passes.
Expire ==
  /\ flight.kind = "refill"
  /\ refill' = [refill EXCEPT !.late = TRUE]
  /\ UNCHANGED <<vars, venue, price, permits, allowed>>

VenueNext ==
  \/ \E a \in Amounts \cup {0}, q \in Quotes : BuyGas(a, q)
  \/ \E fee \in 0 .. flight.cap * Limit(flight.kind) : Swap(fee)
  \/ \E fee \in 0 .. flight.cap * Limit(flight.kind), r \in BOOLEAN : LandPayment(fee, r)
  \/ \E r \in Routers : MoveVenue(r)
  \/ PriceMoves
  \/ Expire
  \/ /\ \/ FeesMove
        \/ ReadToken
        \/ ReadGas
        \/ \E a \in Amounts : SignPayment(a)
        \/ SignExit
        \/ Retry
        \/ \E n \in 1 .. TokenBound : Deposit(n)
        \/ \E n \in 1 .. GasBound : TopUp(n)
     /\ UNCHANGED venueVars

VenueSpec == VenueInit /\ [][VenueNext]_allVars

----------------------------------------------------------------------------
(* Properties *)

\* A refill in flight still works: until its hour has passed, whatever was
\* configured, read, retried or deposited since it was built, it executes at
\* any price within its bound (rail.go target: "sending the same calldata to a
\* venue configuration has since moved to would authorise nothing and revert").
RefillExecutes ==
  flight.kind = "refill" /\ ~refill.late /\ price <= flight.amount
    => Executes(refill, flight.amount)

\* What a router may still take is what one refill left of its input bound: it
\* comes with the swap and in no other way, and nothing adds up from refill to
\* refill (requirements.md 3: "The allowance residue x - input is at most x,
\* one refill's input bound").
ResidueOfOne ==
  [][\A r \in Routers : allowed'[r] # allowed[r] =>
       /\ r = refill.venue
       /\ token' < token
       /\ allowed'[r] = flight.amount - (token - token')]_allVars
=============================================================================
