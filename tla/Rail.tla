-------------------------------- MODULE Rail --------------------------------
(***************************************************************************)
(* go/rail: one account on one domain, from reconciliation through nonce   *)
(* assignment to submission, against the chain and the records.            *)
(*                                                                         *)
(* Rail.mu serialises the operations of a process, so at most one is under *)
(* way; `pc' says how far it has come and `op' holds its local variables.  *)
(* Between its steps the chain moves freely, and at any of them it may end *)
(* early: by an error of the node or the store, or because the process is  *)
(* killed.  Either way only the chain and the records remain, so one       *)
(* action, Stop, stands for both.  An error return with nothing written    *)
(* leaves the state a Stop leaves.                                         *)
(*                                                                         *)
(* Two chain reads that merely sit next to a write which does not depend   *)
(* on what happens between them share its step.                            *)
(***************************************************************************)
EXTENDS Store

CONSTANTS
  Requests,     \* payments a host may ask for: [kind, to, amount]
  Policy,       \* the domain's gas policy
  Fees,         \* what fees() may return: [tip, cap]
  Quotes,       \* what the venue may ask for a refill
  Endpoints,    \* the RPC endpoints a process may be started with
  ElsewhereNonce, \* this account's settled nonce on another chain
  InitTokens, InitGas   \* how the account was funded

ASSUME PolicyAssumption == Policy \in Policies /\ ValidPolicy(Policy)
ASSUME BoundsAssumption ==
  /\ MaxNonce \in Nat /\ MaxAttempts \in Nat
  /\ MaxReorgs \in Nat /\ GasBound \in Nat /\ TokenBound \in Nat
ASSUME LimitsAssumption == PaymentGas \in Nat \ {0} /\ SwapGas \in Nat \ {0}
ASSUME RequestsAssumption ==
  Requests \subseteq [kind : {"transfer", "withdraw"}, to : Places, amount : Nat \ {0}]
ASSUME FeesAssumption == Fees \subseteq [tip : Nat \ {0}, cap : Nat \ {0}]
ASSUME VenueAssumption == Quotes \subseteq Nat \ {0} /\ Venue \notin Places
ASSUME EndpointsAssumption ==
  Endpoints \subseteq {"right", "lagging", "wrong"} /\ ElsewhereNonce \in 0 .. MaxNonce + 1
ASSUME FundingAssumption == InitTokens \in Nat /\ InitGas \in Nat

VARIABLES
  pc,         \* where the operation under way has come to
  op,         \* its local variables
  endpoint    \* the endpoint of the running process

railVars == <<pc, op, endpoint>>
vars == <<chainVars, storeVars, railVars>>

NoFee == [tip |-> 0, cap |-> 0]
NoOp == [verb |-> "none", id |-> RefillID(0), kind |-> "none", to |-> Venue,
         amount |-> 0, delta |-> 0, fee |-> NoFee, at |-> 0, upto |-> 0]

Verbs == {"none", "prepare", "withdrawAll", "refill", "reconcile", "send"}
Labels == {"idle", "reconcile", "settle", "decide", "nonce", "record", "append", "send"}
Ops == [verb : Verbs, id : IDs, kind : Kinds \cup {"none"}, to : Places \cup {Venue},
        amount : Nat, delta : Nat, fee : [tip : Nat, cap : Nat],
        at : 0 .. MaxNonce + 1, upto : 0 .. MaxNonce + 1]

TypeOK ==
  /\ ChainTypeOK
  /\ StoreTypeOK
  /\ pc \in Labels
  /\ op \in Ops
  /\ endpoint \in Endpoints

Init ==
  /\ ChainInit(InitTokens, InitGas)
  /\ StoreInit
  /\ pc = "idle"
  /\ op = NoOp
  /\ endpoint \in Endpoints

Goto(label, o) == pc' = label /\ op' = o
Return == Goto("idle", NoOp)

----------------------------------------------------------------------------
(* What the records and the chain say together                             *)

\* NonceAt at the settled head, as this process's endpoint answers it.  The
\* "wrong" one serves another chain; behind the "lagging" one, receipts come
\* from a node that has not got them yet, or no longer.
SettledNonce == IF endpoint = "wrong" THEN ElsewhereNonce ELSE settled

\* outcome and executed: which recorded attempt has a settled receipt, and
\* whether it really carried the intent out.  NotFound is taken for "never mined".
SlipOutcome(id) ==
  LET r == winner[intents[id].nonce]
  IN  [known |-> TRUE, tx |-> IF r.tx \in Attempts(id) THEN r.tx ELSE NoTx,
       executed |-> r.tx \in Attempts(id) /\ r.result # "reverted"]
Outcome(id) ==
  LET r == winner[intents[id].nonce]
  IN  IF endpoint = "right" /\ r.tx \in Attempts(id)
      THEN [known |-> TRUE, tx |-> r.tx, executed |-> r.result = "executed"]
      ELSE [known |-> TRUE, tx |-> NoTx, executed |-> FALSE]

\* submit's signing: the intent's nonce and calldata under a submission's fees.
Sign(in, fee) ==
  [kind |-> in.kind, to |-> in.to, amount |-> in.amount, delta |-> in.delta,
   nonce |-> in.nonce, tip |-> fee.tip, cap |-> fee.cap]

\* policyInput
Input(fee, pending, quote) ==
  [gas |-> gas, token |-> token, swapCost |-> fee.cap * SwapGas,
   quote |-> quote, pending |-> pending]

----------------------------------------------------------------------------
(* The calls a host makes                                                  *)

\* ready starts with checkChain (where the verb has it) and reconcile's read
\* of the settled nonce.
StartReconcile(o) ==
  Goto("reconcile", [o EXCEPT !.at = MaxInt(floor, 0), !.upto = SettledNonce])

\* Prepare under an identifier already recorded changes nothing, whatever its
\* terms.
CallPrepare(id, r) ==
  /\ pc = "idle"
  /\ endpoint # "wrong"
  /\ ~Recorded(id)
  /\ StartReconcile([NoOp EXCEPT !.verb = "prepare", !.id = id, !.kind = r.kind,
                                 !.to = r.to, !.amount = r.amount])
  /\ UNCHANGED <<chainVars, storeVars, endpoint>>

\* WithdrawAll does not look for its identifier first.
CallWithdrawAll(id, to) ==
  /\ pc = "idle"
  /\ endpoint # "wrong"
  /\ StartReconcile([NoOp EXCEPT !.verb = "withdrawAll", !.id = id,
                                 !.kind = "withdraw", !.to = to])
  /\ UNCHANGED <<chainVars, storeVars, endpoint>>

\* Refill: `reserve' waits in amount until the decision.
CallRefill(reserve) ==
  /\ pc = "idle"
  /\ endpoint # "wrong"
  /\ StartReconcile([NoOp EXCEPT !.verb = "refill", !.kind = "refill",
                                 !.amount = reserve])
  /\ UNCHANGED <<chainVars, storeVars, endpoint>>

\* Reconcile, the restart procedure, does not check the chain.
CallReconcile ==
  /\ pc = "idle"
  /\ StartReconcile([NoOp EXCEPT !.verb = "reconcile"])
  /\ UNCHANGED <<chainVars, storeVars, endpoint>>

Unresolved(id) == Recorded(id) /\ ~facts[id].known

\* Send: the fees of the last recorded attempt, or the node's when there is
\* none.
CallSend(id, fee) ==
  LET o == [NoOp EXCEPT !.verb = "send", !.id = id] IN
  /\ pc = "idle"
  /\ Unresolved(id)
  /\ IF subs[id] # <<>>
     THEN Goto("send", [o EXCEPT !.fee = [tip |-> Last(id).tip, cap |-> Last(id).cap]])
     ELSE Goto("append", [o EXCEPT !.fee = fee])
  /\ UNCHANGED <<chainVars, storeVars, endpoint>>

\* Retry: a new attempt, its fees raised past the last one's.
RetryFee(id, node) == IF subs[id] = <<>> THEN node ELSE Raise(node, Last(id))
CallRetry(id, fee) ==
  /\ pc = "idle"
  /\ Unresolved(id)
  /\ Goto("append", [NoOp EXCEPT !.verb = "send", !.id = id, !.fee = RetryFee(id, fee)])
  /\ UNCHANGED <<chainVars, storeVars, endpoint>>

\* status of one intent: nothing until its nonce is spent at the settled
\* head, then the outcome, cached.
SlipResolveEarly(id) ==
  IF intents[id].nonce <= SettledNonce THEN PutFact(id, Outcome(id)) ELSE UNCHANGED facts
SlipResolveLate(id) ==
  IF intents[id].nonce + 1 < SettledNonce THEN PutFact(id, Outcome(id)) ELSE UNCHANGED facts
Resolve(id) ==
  IF intents[id].nonce < SettledNonce THEN PutFact(id, Outcome(id)) ELSE UNCHANGED facts

\* Status, and Outcome and RefillCost, which ask it first.
CallStatus(id) ==
  /\ pc = "idle"
  /\ Unresolved(id)
  /\ Resolve(id)
  /\ UNCHANGED <<chainVars, intents, subs, floor, railVars>>

----------------------------------------------------------------------------
(* The steps of an operation                                               *)

\* reconcile, first use: what came before the records is not ours to explain.
FirstFloor ==
  /\ pc = "reconcile"
  /\ floor = NoFloor
  /\ PutNonceFloor(op.upto)
  /\ IF op.verb = "reconcile" THEN Return
     ELSE Goto("settle", [op EXCEPT !.at = 0, !.upto = 0])
  /\ UNCHANGED <<chainVars, intents, subs, facts, endpoint>>

\* The zero hash: the nonce went to a transaction no attempt here records.
SlipUnexplained(fact) == FALSE
Unexplained(fact) == fact.tx = NoTx

\* reconcile, one spent nonce: its intent's fact is cached before it is
\* judged, so it stays when the judgement is ErrUnreconciled.
ReconcileNonce(id) ==
  LET fact == IF facts[id].known THEN facts[id] ELSE Outcome(id) IN
  /\ pc = "reconcile"
  /\ floor # NoFloor
  /\ op.at < op.upto
  /\ Owns(id, op.at)
  /\ PutFact(id, fact)
  /\ IF Unexplained(fact) THEN Return
     ELSE Goto("reconcile", [op EXCEPT !.at = op.at + 1])
  /\ UNCHANGED <<chainVars, intents, subs, floor, endpoint>>

\* A spent nonce no intent owns ends the operation in ErrUnreconciled: Stop.

ReconcileDone ==
  /\ pc = "reconcile"
  /\ floor # NoFloor
  /\ op.at >= op.upto
  /\ PutNonceFloor(op.upto)
  /\ IF op.verb = "reconcile" THEN Return
     ELSE Goto("settle", [op EXCEPT !.at = 0, !.upto = 0])
  /\ UNCHANGED <<chainVars, intents, subs, facts, endpoint>>

\* settle: every pending intent, oldest first.
SettleOne(id) ==
  /\ pc = "settle"
  /\ id \in PendingIDs
  /\ intents[id].nonce >= op.at
  /\ \A other \in PendingIDs :
       intents[other].nonce >= op.at => intents[other].nonce >= intents[id].nonce
  /\ Resolve(id)
  /\ Goto("settle", [op EXCEPT !.at = intents[id].nonce + 1])
  /\ UNCHANGED <<chainVars, intents, subs, floor, endpoint>>

\* ready's last question: is anything still in flight?
SlipInFlight == FALSE
InFlight == PendingIDs # {}
SettleDone ==
  /\ pc = "settle"
  /\ \A id \in PendingIDs : intents[id].nonce < op.at
  /\ IF InFlight THEN Return ELSE Goto("decide", [op EXCEPT !.at = 0])
  /\ UNCHANGED <<chainVars, storeVars, endpoint>>

\* Prepare asks the policy; only "execute" goes on.
DecidePrepare(fee) ==
  /\ pc = "decide"
  /\ op.verb = "prepare"
  /\ IF Decide(Policy, Input(fee, op.amount, NoQuote)).action = "execute"
     THEN Goto("nonce", op) ELSE Return
  /\ UNCHANGED <<chainVars, storeVars, endpoint>>

\* WithdrawAll asks only that the transfer be payable at the fees it will be
\* signed at.
DecideWithdrawAll(fee) ==
  /\ pc = "decide"
  /\ op.verb = "withdrawAll"
  /\ IF token > 0 /\ gas >= fee.cap * PaymentGas
     THEN Goto("nonce", [op EXCEPT !.amount = token, !.fee = fee]) ELSE Return
  /\ UNCHANGED <<chainVars, storeVars, endpoint>>

\* Refill decides, asks the venue, decides again.
DecideRefill(fee, quote) ==
  LET first == Decide(Policy, Input(fee, op.amount, NoQuote))
      d     == Decide(Policy, Input(fee, op.amount, quote))
  IN
  /\ pc = "decide"
  /\ op.verb = "refill"
  /\ IF first.action = "quote" /\ d.action = "refill"
     THEN Goto("nonce", [op EXCEPT !.amount = d.maxInput, !.delta = d.delta, !.fee = fee])
     ELSE Return
  /\ UNCHANGED <<chainVars, storeVars, endpoint>>

\* simulate, then PendingNonceAt: the money must be there now, all of a
\* payment's and some of what a swap may take.
ReadNonce(n) ==
  /\ pc = "nonce"
  /\ IF op.kind = "refill" THEN token > 0 ELSE token >= op.amount
  /\ n \in PendingReads
  /\ Goto("record", [op EXCEPT !.at = n])
  /\ UNCHANGED <<chainVars, storeVars, endpoint>>

\* The rest of nextNonce: nothing above the settled nonce is in use.
SlipNonceAgrees == TRUE
NonceAgrees == op.at = settled

\* The write-ahead record.
OpID == IF op.verb = "refill" THEN RefillID(op.at) ELSE op.id
OpIntent == [kind |-> op.kind, to |-> op.to, amount |-> op.amount,
             delta |-> op.delta, nonce |-> op.at]
Record ==
  /\ pc = "record"
  /\ op.at <= MaxNonce
  /\ NonceAgrees
  /\ MayPutIntent(OpID, OpIntent)
  /\ PutIntent(OpID, OpIntent)
  /\ IF op.verb = "prepare" THEN Return
     ELSE Goto("append", [NoOp EXCEPT !.verb = "send", !.id = OpID, !.fee = op.fee])
  /\ UNCHANGED <<chainVars, subs, facts, floor, endpoint>>

\* submit: the attempt is durable before it is broadcast.
SlipOpTx == Sign([intents[op.id] EXCEPT !.nonce = spent], op.fee)
OpTx == Sign(intents[op.id], op.fee)
SlipAppendAttempt ==
  /\ pc = "append"
  /\ Goto("send", op)
  /\ UNCHANGED <<chainVars, storeVars, endpoint>>
AppendAttempt ==
  /\ pc = "append"
  /\ Len(subs[op.id]) < MaxAttempts
  /\ AppendSubmission(op.id, OpTx)
  /\ Goto("send", op)
  /\ UNCHANGED <<chainVars, intents, facts, floor, endpoint>>

\* SendTransaction: it may reach the network whatever the caller then hears,
\* or be lost; on another chain its signature is refused.
Broadcast(delivered) ==
  /\ pc = "send"
  /\ wire' = IF delivered /\ endpoint # "wrong" /\ Accepts(OpTx)
             THEN wire \cup {OpTx} ELSE wire
  /\ Return
  /\ UNCHANGED <<spent, settled, winner, token, gas, reorgs, storeVars, endpoint>>

\* An error return, or the process is killed and started again.
Stop ==
  /\ endpoint' \in Endpoints
  /\ pc # "idle" \/ endpoint' # endpoint
  /\ Return
  /\ UNCHANGED <<chainVars, storeVars>>

----------------------------------------------------------------------------
Call ==
  \/ \E id \in CallerIDs, r \in Requests : CallPrepare(id, r)
  \/ \E id \in CallerIDs, to \in Places : CallWithdrawAll(id, to)
  \/ \E reserve \in {0} \cup {r.amount : r \in Requests} : CallRefill(reserve)
  \/ CallReconcile
  \/ \E id \in IDs, fee \in Fees : CallSend(id, fee) \/ CallRetry(id, fee)
  \/ \E id \in IDs : CallStatus(id)

Step ==
  \/ FirstFloor
  \/ \E id \in IDs : ReconcileNonce(id)
  \/ ReconcileDone
  \/ \E id \in IDs : SettleOne(id)
  \/ SettleDone
  \/ \E fee \in Fees : DecidePrepare(fee) \/ DecideWithdrawAll(fee)
  \/ \E fee \in Fees, quote \in Quotes : DecideRefill(fee, quote)
  \/ \E n \in Nonces \cup {MaxNonce + 1} : ReadNonce(n)
  \/ Record
  \/ AppendAttempt
  \/ \E delivered \in BOOLEAN : Broadcast(delivered)

Network == ChainNext /\ UNCHANGED <<storeVars, railVars>>

Next == Call \/ Step \/ Stop \/ Network

Spec == Init /\ [][Next]_vars

----------------------------------------------------------------------------
(* Properties *)

\* No transaction can exist that the records do not explain: whatever reached
\* a node was first appended under an intent, at that intent's nonce and with
\* its terms (rail.go submit: "The attempt is durable before it is
\* broadcast").
RecordedBeforeBroadcast ==
  \A tx \in wire : \E id \in IDs :
    /\ Recorded(id)
    /\ tx \in Attempts(id)
    /\ tx = Sign(intents[id], [tip |-> tx.tip, cap |-> tx.cap])

\* Exactly-once, as far as the rail decides it: of all that was ever mined,
\* every transaction of ours carried one identifier, and no identifier was
\* carried twice (requirements.md 7: "an intent executes at most once").
Carries(n, id) == winner[n].tx \in Attempts(id)
AtMostOnce ==
  \A n \in Nonces : winner[n].tx \in Txs =>
    \E id \in IDs :
      /\ Carries(n, id)
      /\ \A other \in IDs : Carries(n, other) => other = id
      /\ \A m \in Nonces : Carries(m, id) => m = n

\* At most one outgoing transaction is in flight (rail.go ready): there is
\* never a second operation without a settled outcome, crash or no crash.
OneInFlight == \A a, b \in PendingIDs : a = b

\* No operation is recorded at a nonce the chain will not reach next: one
\* left there could neither be mined nor let anything else start.
NoGap == \A id \in IDs : Recorded(id) => intents[id].nonce <= settled

\* A cached fact is what the settled chain says for ever: it names the
\* recorded transaction that took the nonce, or none when a stranger's did,
\* and says executed exactly when that transaction moved the money.
FactsAreTrue ==
  \A id \in IDs : facts[id].known =>
    LET r == winner[intents[id].nonce] IN
    /\ Recorded(id)
    /\ intents[id].nonce < settled
    /\ facts[id].tx = IF r.tx \in Attempts(id) THEN r.tx ELSE NoTx
    /\ facts[id].executed <=> (r.tx \in Attempts(id) /\ r.result = "executed")

\* The nonce floor, once set, only passes nonces whose settled transaction is
\* one the records name (rail.go Reconcile: anything else "is reported rather
\* than papered over").
FloorStep ==
  [][floor # NoFloor =>
       /\ floor' >= floor
       /\ \A n \in floor .. floor' - 1 :
            \E id \in IDs : Owns(id, n) /\ facts'[id].tx \in Attempts(id)]_vars

\* Each attempt may replace all before it at any node: both fees a tenth
\* higher at least, and never the same attempt twice (rail.go bump, Send).
AttemptsReplace ==
  \A id \in IDs : \A i, j \in DOMAIN subs[id] :
    i < j => Replaces(subs[id][j], subs[id][i])
=============================================================================
