----------------------------- MODULE RailProofs -----------------------------
(***************************************************************************)
(* What Rail keeps for any number of identifiers, nonces and attempts, any *)
(* policy, any fees, any endpoint, and whatever the chain does.            *)
(***************************************************************************)
EXTENDS Rail, GasPolicyProofs, SequenceTheorems

FeeRecords == [tip : Nat, cap : Nat]

LEMMA ConstantsTyped ==
  /\ MaxNonce \in Nat /\ PaymentGas \in Nat /\ SwapGas \in Nat
  /\ Fees \subseteq FeeRecords /\ Quotes \subseteq Nat
  /\ Requests \subseteq [kind : {"transfer", "withdraw"}, to : Places, amount : Nat]
  /\ ElsewhereNonce \in 0 .. MaxNonce + 1
  /\ GasBound \in Nat /\ TokenBound \in Nat /\ InitTokens \in Nat /\ InitGas \in Nat
  /\ Policy \in Policies /\ ValidPolicy(Policy)
PROOF
  BY PolicyAssumption, BoundsAssumption, LimitsAssumption, RequestsAssumption,
     FeesAssumption, VenueAssumption, EndpointsAssumption, FundingAssumption
     DEF FeeRecords

LEMMA RefillIDs_ == \A n \in Nonces : RefillID(n) \in IDs
PROOF
  BY DEF IDs, RefillIDs

LEMMA ZeroNonce == 0 \in Nonces /\ RefillID(0) \in IDs
PROOF
  BY ConstantsTyped, RefillIDs_ DEF Nonces

LEMMA NoOpTyped == NoOp \in Ops
PROOF
  BY ZeroNonce, ConstantsTyped DEF NoOp, NoFee, Ops, Verbs

LEMMA NoneIsNoKind == "none" \notin Kinds /\ "foreign" \notin Kinds
PROOF
  BY DEF Kinds

\* Records of one kind are told from the empty one by their kind.
LEMMA RecordedTyped ==
  ASSUME TypeOK, NEW id \in IDs
  PROVE  /\ Recorded(id) <=> intents[id] \in Intents
         /\ facts[id].known <=> facts[id] \in Facts
         /\ facts[id].known \in BOOLEAN
PROOF
<1>1. intents[id] \in Intents \cup {NoIntent} /\ facts[id] \in Facts \cup {NoFact}
  BY DEF TypeOK, StoreTypeOK
<1>2. NoIntent \notin Intents  BY NoneIsNoKind DEF NoIntent, Intents
<1>3. NoFact \notin Facts /\ NoFact.known = FALSE  BY DEF NoFact, Facts
<1>4. facts[id] \in Facts => facts[id].known = TRUE  BY DEF Facts
<1>5. QED  BY <1>1, <1>2, <1>3, <1>4 DEF Recorded

LEMMA SignTyped ==
  ASSUME NEW in \in Intents, NEW fee \in FeeRecords
  PROVE  Sign(in, fee) \in Txs
PROOF
  BY DEF Sign, Intents, Txs, FeeRecords

LEMMA RaiseTyped ==
  ASSUME NEW node \in FeeRecords, NEW last, last.tip \in Nat, last.cap \in Nat
  PROVE  Raise(node, last) \in FeeRecords
PROOF
<1>1. Bump(last.tip) \in Nat /\ Bump(last.cap) \in Nat  BY BumpReplaces
<1>2. QED  BY <1>1 DEF Raise, MaxInt, FeeRecords

LEMMA LastTyped ==
  ASSUME TypeOK, NEW id \in IDs, subs[id] # <<>>
  PROVE  Last(id) \in Txs /\ Last(id) \in Attempts(id)
PROOF
<1>1. subs[id] \in Seq(Txs)  BY DEF TypeOK, StoreTypeOK
<1>2. Len(subs[id]) \in 1 .. Len(subs[id]) /\ DOMAIN subs[id] = 1 .. Len(subs[id])
  BY <1>1, EmptySeq, LenProperties
<1>3. QED  BY <1>1, <1>2, ElementOfSeq DEF Last, Attempts

----------------------------------------------------------------------------
(* Types                                                                   *)

LEMMA InitTyped == Init => TypeOK
PROOF
<1> SUFFICES ASSUME Init PROVE TypeOK
  OBVIOUS
<1>1. ChainTypeOK
  BY ConstantsTyped, ZeroNonce
     DEF Init, ChainInit, ChainTypeOK, NoReceipt, Receipts, NoTx, ForeignTx
<1>2. StoreTypeOK
  BY DEF Init, StoreInit, StoreTypeOK
<1>3. QED  BY <1>1, <1>2, NoOpTyped DEF Init, TypeOK, Labels

LEMMA CostTyped ==
  ASSUME NEW tx \in Txs
  PROVE  Cost(tx) \in Nat /\ FeesCharged(tx) \subseteq Nat
PROOF
<1>1. tx.tip \in Nat /\ tx.cap \in Nat /\ GasLimit(tx.kind) \in Nat
  BY ConstantsTyped DEF Txs, GasLimit
<1>2. tx.tip * GasLimit(tx.kind) \in Nat /\ tx.cap * GasLimit(tx.kind) \in Nat
  BY <1>1, Products
<1>3. QED  BY <1>2 DEF Cost, FeesCharged

LEMMA IncludeTyped ==
  ASSUME TypeOK, NEW receipt \in Receipts, Include(receipt),
         receipt.out <= token, receipt.fee <= gas
  PROVE  ChainTypeOK'
PROOF
<1>1. spent \in Nonces /\ spent' = spent + 1 /\ settled' = settled
  BY ConstantsTyped DEF TypeOK, ChainTypeOK, Include, Nonces
<1>2. winner' \in [Nonces -> Receipts]
  BY <1>1 DEF TypeOK, ChainTypeOK, Include
<1>3. token' \in Nat /\ gas' \in Nat
  BY DEF TypeOK, ChainTypeOK, Include, Receipts
<1>4. spent' \in 0 .. MaxNonce + 1 /\ settled' \in 0 .. spent'
  BY <1>1, ConstantsTyped DEF TypeOK, ChainTypeOK, Nonces
<1>5. QED  BY <1>2, <1>3, <1>4 DEF TypeOK, ChainTypeOK, Include

LEMMA ChainTyped ==
  ASSUME TypeOK, ChainNext
  PROVE  ChainTypeOK'
PROOF
<1>1. ASSUME NEW tx \in wire, NEW result \in {"executed", "silent", "reverted"},
             NEW out \in 0 .. tx.amount, NEW fee \in FeesCharged(tx),
             Mine(tx, result, out, fee)
      PROVE  ChainTypeOK'
  <2>1. tx \in Txs /\ tx.amount \in Nat /\ tx.delta \in Nat /\ token \in Nat
    BY DEF TypeOK, ChainTypeOK, Txs
  <2>2. out \in Nat /\ fee \in Nat /\ fee <= gas /\ out <= token
    BY <1>1, <2>1, CostTyped DEF Mine
  <2> DEFINE receipt == [tx |-> tx, result |-> result, out |-> out, fee |-> fee,
                         bought |-> IF result = "executed" THEN tx.delta ELSE 0]
  <2>3. receipt \in Receipts /\ receipt.out = out /\ receipt.fee = fee
    BY <2>1, <2>2 DEF Receipts
  <2>4. Include(receipt)  BY <1>1 DEF Mine
  <2> HIDE DEF receipt
  <2>5. QED  BY <2>2, <2>3, <2>4, IncludeTyped
<1>2. ASSUME NEW out \in {0, token}, NEW fee \in {0, gas}, ForeignMine(out, fee)
      PROVE  ChainTypeOK'
  <2> DEFINE receipt == [tx |-> ForeignTx, result |-> "executed", out |-> out,
                         fee |-> fee, bought |-> 0]
  <2>1. receipt \in Receipts /\ receipt.out <= token /\ receipt.fee <= gas
    BY DEF Receipts, TypeOK, ChainTypeOK
  <2>2. Include(receipt)  BY <1>2 DEF ForeignMine
  <2> HIDE DEF receipt
  <2>3. QED  BY <2>1, <2>2, IncludeTyped
<1>3. ASSUME NEW n \in Nonces \cup {MaxNonce + 1}, Settle(n) PROVE ChainTypeOK'
  BY <1>3, ConstantsTyped DEF Settle, TypeOK, ChainTypeOK
<1>4. CASE Reorg
  <2>1. spent - 1 \in Nonces /\ spent' = spent - 1 /\ settled' = settled
    BY <1>4, ConstantsTyped DEF Reorg, TypeOK, ChainTypeOK, Nonces
  <2>2. NoReceipt \in Receipts  BY DEF NoReceipt, Receipts
  <2>3. winner' \in [Nonces -> Receipts]
    BY <1>4, <2>1, <2>2 DEF Reorg, TypeOK, ChainTypeOK
  <2>4. winner[spent - 1] \in Receipts  BY <2>1 DEF TypeOK, ChainTypeOK
  <2>5. token' \in Nat /\ gas' \in Nat /\ reorgs' \in Nat
    BY <1>4, <2>4 DEF Reorg, TypeOK, ChainTypeOK, Receipts
  <2>6. spent' \in 0 .. MaxNonce + 1 /\ settled' \in 0 .. spent'
    BY <1>4, <2>1, ConstantsTyped DEF Reorg, TypeOK, ChainTypeOK, Nonces
  <2>7. QED  BY <1>4, <2>3, <2>5, <2>6 DEF Reorg, TypeOK, ChainTypeOK
<1>5. ASSUME NEW n \in 1 .. TokenBound, Deposit(n) PROVE ChainTypeOK'
  BY <1>5, ConstantsTyped DEF Deposit, TypeOK, ChainTypeOK
<1>6. ASSUME NEW n \in 1 .. GasBound, TopUp(n) PROVE ChainTypeOK'
  BY <1>6, ConstantsTyped DEF TopUp, TypeOK, ChainTypeOK
<1>7. QED  BY <1>1, <1>2, <1>3, <1>4, <1>5, <1>6 DEF ChainNext

LEMMA OutcomeTyped ==
  ASSUME TypeOK, NEW id \in IDs
  PROVE  Outcome(id) \in Facts
PROOF
<1>1. Attempts(id) \subseteq Txs
  BY ElementOfSeq DEF TypeOK, StoreTypeOK, Attempts
<1>2. QED  BY <1>1 DEF Outcome, Facts

LEMMA PutFactTyped ==
  ASSUME TypeOK, NEW id \in IDs, NEW fact \in Facts \cup {NoFact}, PutFact(id, fact)
  PROVE  facts' \in [IDs -> Facts \cup {NoFact}]
PROOF
  BY DEF TypeOK, StoreTypeOK, PutFact

LEMMA ResolveTyped ==
  ASSUME TypeOK, NEW id \in IDs, Resolve(id)
  PROVE  facts' \in [IDs -> Facts \cup {NoFact}]
PROOF
<1>1. CASE intents[id].nonce < SettledNonce
  BY <1>1, OutcomeTyped, PutFactTyped DEF Resolve
<1>2. CASE ~(intents[id].nonce < SettledNonce)
  BY <1>2 DEF Resolve, TypeOK, StoreTypeOK
<1>3. QED  BY <1>1, <1>2

LEMMA FloorTyped ==
  ASSUME TypeOK, NEW n \in 0 .. MaxNonce + 1, PutNonceFloor(n)
  PROVE  floor' \in {NoFloor} \cup 0 .. MaxNonce + 1
PROOF
  BY ConstantsTyped DEF TypeOK, StoreTypeOK, PutNonceFloor, MaxInt, NoFloor

\* A fee the node asks for, or a raise of the last attempt's.
LEMMA RetryFeeTyped ==
  ASSUME TypeOK, NEW id \in IDs, NEW fee \in Fees
  PROVE  RetryFee(id, fee) \in FeeRecords
PROOF
<1>1. fee \in FeeRecords  BY ConstantsTyped
<1>2. CASE subs[id] = <<>>  BY <1>1, <1>2 DEF RetryFee
<1>3. CASE subs[id] # <<>>
  <2>1. Last(id).tip \in Nat /\ Last(id).cap \in Nat
    BY <1>3, LastTyped DEF Txs
  <2>2. QED  BY <1>1, <1>3, <2>1, RaiseTyped DEF RetryFee
<1>4. QED  BY <1>2, <1>3

LEMMA ChainKept ==
  ASSUME TypeOK, UNCHANGED chainVars
  PROVE  ChainTypeOK'
PROOF
  BY DEF TypeOK, ChainTypeOK, chainVars

LEMMA StoreKept ==
  ASSUME TypeOK, UNCHANGED storeVars
  PROVE  StoreTypeOK'
PROOF
  BY DEF TypeOK, StoreTypeOK, storeVars

LEMMA GotoTyped ==
  ASSUME NEW label \in Labels, NEW o \in Ops, Goto(label, o)
  PROVE  pc' \in Labels /\ op' \in Ops
PROOF
  BY DEF Goto

LEMMA ReturnTyped ==
  ASSUME Return
  PROVE  pc' \in Labels /\ op' \in Ops
PROOF
  BY NoOpTyped DEF Return, Goto, Labels

LEMMA StartTyped ==
  ASSUME TypeOK, NEW o \in Ops, StartReconcile(o)
  PROVE  pc' \in Labels /\ op' \in Ops
PROOF
<1>1. MaxInt(floor, 0) \in 0 .. MaxNonce + 1
  BY ConstantsTyped DEF TypeOK, StoreTypeOK, MaxInt, NoFloor
<1>2. SettledNonce \in 0 .. MaxNonce + 1
  BY ConstantsTyped DEF SettledNonce, TypeOK, ChainTypeOK
<1>3. [o EXCEPT !.at = MaxInt(floor, 0), !.upto = SettledNonce] \in Ops
  BY <1>1, <1>2 DEF Ops
<1>4. QED  BY <1>3 DEF StartReconcile, Goto, Labels

LEMMA CallTyped ==
  ASSUME TypeOK, Call
  PROVE  TypeOK'
PROOF
<1>1. ASSUME NEW id \in CallerIDs, NEW r \in Requests, CallPrepare(id, r) PROVE TypeOK'
  <2> DEFINE o == [NoOp EXCEPT !.verb = "prepare", !.id = id, !.kind = r.kind,
                               !.to = r.to, !.amount = r.amount]
  <2>1. r.kind \in Kinds /\ r.to \in Places /\ r.amount \in Nat /\ id \in IDs
    BY ConstantsTyped DEF Kinds, IDs
  <2>2. o \in Ops  BY <2>1, NoOpTyped DEF Ops, Verbs
  <2>3. StartReconcile(o)  BY <1>1 DEF CallPrepare
  <2> HIDE DEF o
  <2>4. QED
    BY <1>1, <2>2, <2>3, StartTyped, ChainKept, StoreKept DEF CallPrepare, TypeOK
<1>2. ASSUME NEW id \in CallerIDs, NEW to \in Places, CallWithdrawAll(id, to) PROVE TypeOK'
  <2> DEFINE o == [NoOp EXCEPT !.verb = "withdrawAll", !.id = id,
                               !.kind = "withdraw", !.to = to]
  <2>1. o \in Ops  BY NoOpTyped DEF Ops, Verbs, Kinds, IDs
  <2>2. StartReconcile(o)  BY <1>2 DEF CallWithdrawAll
  <2> HIDE DEF o
  <2>3. QED
    BY <1>2, <2>1, <2>2, StartTyped, ChainKept, StoreKept DEF CallWithdrawAll, TypeOK
<1>3. ASSUME NEW reserve \in {0} \cup {r.amount : r \in Requests}, CallRefill(reserve)
      PROVE  TypeOK'
  <2> DEFINE o == [NoOp EXCEPT !.verb = "refill", !.kind = "refill", !.amount = reserve]
  <2>1. reserve \in Nat  BY ConstantsTyped
  <2>2. o \in Ops  BY <2>1, NoOpTyped DEF Ops, Verbs, Kinds
  <2>3. StartReconcile(o)  BY <1>3 DEF CallRefill
  <2> HIDE DEF o
  <2>4. QED
    BY <1>3, <2>2, <2>3, StartTyped, ChainKept, StoreKept DEF CallRefill, TypeOK
<1>4. CASE CallReconcile
  <2> DEFINE o == [NoOp EXCEPT !.verb = "reconcile"]
  <2>1. o \in Ops  BY NoOpTyped DEF Ops, Verbs
  <2>2. StartReconcile(o)  BY <1>4 DEF CallReconcile
  <2> HIDE DEF o
  <2>3. QED
    BY <1>4, <2>1, <2>2, StartTyped, ChainKept, StoreKept DEF CallReconcile, TypeOK
<1>5. ASSUME NEW id \in IDs, NEW fee \in FeeRecords, NEW label \in {"append", "send"},
             Goto(label, [NoOp EXCEPT !.verb = "send", !.id = id, !.fee = fee]),
             UNCHANGED <<chainVars, storeVars, endpoint>>
      PROVE  TypeOK'
  <2>1. [NoOp EXCEPT !.verb = "send", !.id = id, !.fee = fee] \in Ops
    BY NoOpTyped DEF Ops, Verbs, FeeRecords
  <2>2. pc' \in Labels /\ op' \in Ops  BY <1>5, <2>1, GotoTyped DEF Labels
  <2>3. QED  BY <1>5, <2>2, ChainKept, StoreKept DEF TypeOK
<1>6. ASSUME NEW id \in IDs, NEW fee \in Fees, CallSend(id, fee) PROVE TypeOK'
  <2>1. CASE subs[id] = <<>>
    <3>1. fee \in FeeRecords  BY ConstantsTyped
    <3>2. Goto("append", [NoOp EXCEPT !.verb = "send", !.id = id, !.fee = fee])
      BY <1>6, <2>1, NoOpTyped DEF CallSend, Ops
    <3>3. QED  BY <1>5, <1>6, <3>1, <3>2 DEF CallSend
  <2>2. CASE subs[id] # <<>>
    <3> DEFINE again == [tip |-> Last(id).tip, cap |-> Last(id).cap]
    <3>1. again \in FeeRecords  BY <2>2, LastTyped DEF Txs, FeeRecords
    <3>2. Goto("send", [NoOp EXCEPT !.verb = "send", !.id = id, !.fee = again])
      BY <1>6, <2>2, NoOpTyped DEF CallSend, Ops
    <3> HIDE DEF again
    <3>3. QED  BY <1>5, <1>6, <3>1, <3>2 DEF CallSend
  <2>3. QED  BY <2>1, <2>2
<1>7. ASSUME NEW id \in IDs, NEW fee \in Fees, CallRetry(id, fee) PROVE TypeOK'
  <2>1. RetryFee(id, fee) \in FeeRecords  BY RetryFeeTyped
  <2>2. QED  BY <1>5, <1>7, <2>1 DEF CallRetry
<1>8. ASSUME NEW id \in IDs, CallStatus(id) PROVE TypeOK'
  <2>1. facts' \in [IDs -> Facts \cup {NoFact}]  BY <1>8, ResolveTyped DEF CallStatus
  <2>2. QED  BY <1>8, <2>1, ChainKept DEF CallStatus, TypeOK, StoreTypeOK, railVars
<1>9. QED  BY <1>1, <1>2, <1>3, <1>4, <1>6, <1>7, <1>8 DEF Call

\* Moving the loop counters of an operation keeps its type.
LEMMA CountersTyped ==
  ASSUME TypeOK, NEW n \in 0 .. MaxNonce + 1, NEW m \in 0 .. MaxNonce + 1
  PROVE  /\ [op EXCEPT !.at = n] \in Ops
         /\ [op EXCEPT !.at = n, !.upto = m] \in Ops
PROOF
  BY DEF TypeOK, Ops

LEMMA RefillTyped ==
  ASSUME TypeOK, NEW fee \in Fees, NEW quote \in Quotes,
         Decide(Policy, Input(fee, op.amount, quote)).action = "refill"
  PROVE  LET d == Decide(Policy, Input(fee, op.amount, quote))
         IN  d.maxInput \in Nat /\ d.delta \in Nat
PROOF
<1>1. /\ gas \in Nat /\ token \in Nat /\ op.amount \in Nat /\ quote \in Nat
      /\ fee.cap \in Nat /\ SwapGas \in Nat
  BY ConstantsTyped DEF TypeOK, ChainTypeOK, Ops, FeeRecords
<1>2. fee.cap * SwapGas \in Nat  BY <1>1, Products
<1>3. Policy \in Policies /\ ValidPolicy(Policy)  BY ConstantsTyped
<1> DEFINE s == fee.cap * SwapGas
<1>4. s \in Nat  BY <1>2
<1>5. Input(fee, op.amount, quote) =
        [gas |-> gas, token |-> token, swapCost |-> s, quote |-> quote,
         pending |-> op.amount]
  BY DEF Input
<1> HIDE DEF s
<1>6. QED  BY <1>1, <1>3, <1>4, <1>5, RefillDecision

LEMMA OpIntentTyped ==
  ASSUME TypeOK, op.kind # "none", op.at \in Nonces
  PROVE  OpIntent \in Intents /\ OpID \in IDs
PROOF
  BY RefillIDs_ DEF TypeOK, Ops, OpIntent, OpID, Intents

\* An operation on its way to a record has a verb that makes one, and a kind;
\* one on its way to a node has a record.
Makers == {"prepare", "withdrawAll", "refill"}
Purpose ==
  /\ pc = "reconcile" => op.verb \in Makers \cup {"reconcile"}
  /\ pc \in {"settle", "decide", "nonce", "record"} => op.verb \in Makers
  /\ op.verb \in Makers => op.kind # "none"
Signing == pc \in {"append", "send"} => Recorded(op.id)

TInv == TypeOK /\ Purpose /\ Signing

LEMMA OpTxTyped ==
  ASSUME TInv, pc \in {"append", "send"}
  PROVE  OpTx \in Txs
PROOF
<1>1. op.id \in IDs /\ op.fee \in FeeRecords  BY DEF TInv, TypeOK, Ops, FeeRecords
<1>2. intents[op.id] \in Intents  BY <1>1, RecordedTyped DEF TInv, Signing
<1>3. QED  BY <1>1, <1>2, SignTyped DEF OpTx

LEMMA StepTyped ==
  ASSUME TInv, Step
  PROVE  TypeOK'
PROOF
<1>0. TypeOK /\ 0 \in 0 .. MaxNonce + 1 /\ op.upto \in 0 .. MaxNonce + 1
  BY ConstantsTyped DEF TInv, TypeOK, Ops
<1>1. CASE FirstFloor \/ ReconcileDone
  <2>1. floor' \in {NoFloor} \cup 0 .. MaxNonce + 1
    BY <1>0, <1>1, FloorTyped DEF FirstFloor, ReconcileDone
  <2>2. pc' \in Labels /\ op' \in Ops
    <3>1. CASE Return  BY <3>1, ReturnTyped
    <3>2. CASE Goto("settle", [op EXCEPT !.at = 0, !.upto = 0])
      <4>1. [op EXCEPT !.at = 0, !.upto = 0] \in Ops  BY <1>0, CountersTyped
      <4>2. QED  BY <3>2, <4>1, GotoTyped DEF Labels
    <3>3. QED  BY <1>1, <3>1, <3>2 DEF FirstFloor, ReconcileDone
  <2>3. QED
    BY <1>0, <1>1, <2>1, <2>2, ChainKept
       DEF FirstFloor, ReconcileDone, TypeOK, StoreTypeOK
<1>2. ASSUME NEW id \in IDs, ReconcileNonce(id) PROVE TypeOK'
  <2> DEFINE fact == IF facts[id].known THEN facts[id] ELSE Outcome(id)
  <2>1. fact \in Facts \cup {NoFact}  BY <1>0, OutcomeTyped DEF TypeOK, StoreTypeOK
  <2>2. facts' \in [IDs -> Facts \cup {NoFact}]
    BY <1>0, <1>2, <2>1, PutFactTyped DEF ReconcileNonce
  <2>3. pc' \in Labels /\ op' \in Ops
    <3>1. CASE Return  BY <3>1, ReturnTyped
    <3>2. CASE Goto("reconcile", [op EXCEPT !.at = op.at + 1])
      <4>1. op.at + 1 \in 0 .. MaxNonce + 1
        BY <1>0, <1>2, ConstantsTyped DEF ReconcileNonce, TypeOK, Ops
      <4>2. [op EXCEPT !.at = op.at + 1] \in Ops  BY <1>0, <4>1, CountersTyped
      <4>3. QED  BY <3>2, <4>2, GotoTyped DEF Labels
    <3>3. QED  BY <1>2, <3>1, <3>2 DEF ReconcileNonce
  <2>4. QED  BY <1>0, <1>2, <2>2, <2>3, ChainKept DEF ReconcileNonce, TypeOK, StoreTypeOK
<1>3. ASSUME NEW id \in IDs, SettleOne(id) PROVE TypeOK'
  <2>1. facts' \in [IDs -> Facts \cup {NoFact}]
    BY <1>0, <1>3, ResolveTyped DEF SettleOne
  <2>2. intents[id].nonce + 1 \in 0 .. MaxNonce + 1
    BY <1>0, <1>3, RecordedTyped, ConstantsTyped
       DEF SettleOne, PendingIDs, Intents, Nonces
  <2>3. [op EXCEPT !.at = intents[id].nonce + 1] \in Ops
    BY <1>0, <2>2, CountersTyped
  <2>4. pc' \in Labels /\ op' \in Ops
    BY <1>3, <2>3, GotoTyped DEF SettleOne, Labels
  <2>5. QED  BY <1>0, <1>3, <2>1, <2>4, ChainKept DEF SettleOne, TypeOK, StoreTypeOK
<1>4. CASE SettleDone
  <2>1. [op EXCEPT !.at = 0] \in Ops  BY <1>0, CountersTyped
  <2>2. pc' \in Labels /\ op' \in Ops
    BY <1>4, <2>1, GotoTyped, ReturnTyped DEF SettleDone, Labels
  <2>3. QED  BY <1>0, <1>4, <2>2, ChainKept, StoreKept DEF SettleDone, TypeOK
<1>5. ASSUME NEW fee \in Fees, DecidePrepare(fee) PROVE TypeOK'
  <2>1. pc' \in Labels /\ op' \in Ops
    BY <1>0, <1>5, GotoTyped, ReturnTyped DEF DecidePrepare, Labels, TypeOK
  <2>2. QED  BY <1>0, <1>5, <2>1, ChainKept, StoreKept DEF DecidePrepare, TypeOK
<1>6. ASSUME NEW fee \in Fees, DecideWithdrawAll(fee) PROVE TypeOK'
  <2>1. [op EXCEPT !.amount = token, !.fee = fee] \in Ops
    BY <1>0, ConstantsTyped DEF TypeOK, ChainTypeOK, Ops, FeeRecords
  <2>2. pc' \in Labels /\ op' \in Ops
    BY <1>6, <2>1, GotoTyped, ReturnTyped DEF DecideWithdrawAll, Labels
  <2>3. QED  BY <1>0, <1>6, <2>2, ChainKept, StoreKept DEF DecideWithdrawAll, TypeOK
<1>7. ASSUME NEW fee \in Fees, NEW quote \in Quotes, DecideRefill(fee, quote) PROVE TypeOK'
  <2> DEFINE d == Decide(Policy, Input(fee, op.amount, quote))
  <2>1. pc' \in Labels /\ op' \in Ops
    <3>1. CASE Return  BY <3>1, ReturnTyped
    <3>2. CASE ~Return
      <4>1. d.action = "refill"
            /\ Goto("nonce", [op EXCEPT !.amount = d.maxInput, !.delta = d.delta, !.fee = fee])
        BY <1>7, <3>2 DEF DecideRefill
      <4>2. d.maxInput \in Nat /\ d.delta \in Nat  BY <1>0, <4>1, RefillTyped
      <4> HIDE DEF d
      <4>3. [op EXCEPT !.amount = d.maxInput, !.delta = d.delta, !.fee = fee] \in Ops
        BY <1>0, <4>2, ConstantsTyped DEF TypeOK, Ops, FeeRecords
      <4>4. QED  BY <4>1, <4>3, GotoTyped DEF Labels
    <3>3. QED  BY <3>1, <3>2
  <2>2. QED  BY <1>0, <1>7, <2>1, ChainKept, StoreKept DEF DecideRefill, TypeOK
<1>8. ASSUME NEW n \in Nonces \cup {MaxNonce + 1}, ReadNonce(n) PROVE TypeOK'
  <2>1. n \in 0 .. MaxNonce + 1  BY ConstantsTyped DEF Nonces
  <2>2. [op EXCEPT !.at = n] \in Ops  BY <1>0, <2>1, CountersTyped
  <2>3. pc' \in Labels /\ op' \in Ops  BY <1>8, <2>2, GotoTyped DEF ReadNonce, Labels
  <2>4. QED  BY <1>0, <1>8, <2>3, ChainKept, StoreKept DEF ReadNonce, TypeOK
<1>9. CASE Record
  <2>1. op.at \in Nonces /\ op.kind # "none"
    BY <1>9, ConstantsTyped DEF Record, TInv, TypeOK, Ops, Nonces, Purpose
  <2>2. OpIntent \in Intents /\ OpID \in IDs  BY <1>0, <2>1, OpIntentTyped
  <2>3. intents' \in [IDs -> Intents \cup {NoIntent}]
    BY <1>9, <2>2 DEF Record, PutIntent, TInv, TypeOK, StoreTypeOK
  <2>4. [NoOp EXCEPT !.verb = "send", !.id = OpID, !.fee = op.fee] \in Ops
    BY <1>0, <2>2, NoOpTyped DEF Ops, Verbs, TypeOK
  <2>5. pc' \in Labels /\ op' \in Ops
    BY <1>9, <2>4, GotoTyped, ReturnTyped DEF Record, Labels
  <2>6. QED  BY <1>0, <1>9, <2>3, <2>5, ChainKept DEF Record, TypeOK, StoreTypeOK
<1>10. CASE AppendAttempt
  <2>1. OpTx \in Txs /\ op.id \in IDs
    BY <1>10, OpTxTyped DEF AppendAttempt, TInv, TypeOK, Ops
  <2>2. subs' \in [IDs -> Seq(Txs)]
    BY <1>10, <2>1, AppendProperties
       DEF AppendAttempt, AppendSubmission, TInv, TypeOK, StoreTypeOK
  <2>3. pc' \in Labels /\ op' \in Ops
    BY <1>0, <1>10, GotoTyped DEF AppendAttempt, Labels, TypeOK
  <2>4. QED  BY <1>0, <1>10, <2>2, <2>3, ChainKept DEF AppendAttempt, TypeOK, StoreTypeOK
<1>11. ASSUME NEW delivered \in BOOLEAN, Broadcast(delivered) PROVE TypeOK'
  <2>1. wire' \subseteq Txs
    BY <1>11, OpTxTyped DEF Broadcast, TInv, TypeOK, ChainTypeOK
  <2>2. pc' \in Labels /\ op' \in Ops  BY <1>11, ReturnTyped DEF Broadcast
  <2>3. QED  BY <1>0, <1>11, <2>1, <2>2, StoreKept DEF Broadcast, TypeOK, ChainTypeOK
<1>12. QED
  BY <1>1, <1>2, <1>3, <1>4, <1>5, <1>6, <1>7, <1>8, <1>9, <1>10, <1>11 DEF Step

LEMMA NextTyped ==
  ASSUME TInv, [Next]_vars
  PROVE  TypeOK'
PROOF
<1>1. CASE Call  BY <1>1, CallTyped DEF TInv
<1>2. CASE Step  BY <1>2, StepTyped
<1>3. CASE Stop
  BY <1>3, ReturnTyped, ChainKept, StoreKept DEF Stop, TInv, TypeOK
<1>4. CASE Network
  BY <1>4, ChainTyped, StoreKept DEF Network, TInv, TypeOK, railVars
<1>5. CASE UNCHANGED vars
  BY <1>5, ChainKept, StoreKept DEF vars, TInv, TypeOK, railVars
<1>6. QED  BY <1>1, <1>2, <1>3, <1>4, <1>5 DEF Next

----------------------------------------------------------------------------
(* Purpose and Signing                                                     *)

\* Whoever changes neither the operation nor the intents disturbs neither.
LEMMA PurposeKept ==
  ASSUME TInv, UNCHANGED railVars, UNCHANGED intents
  PROVE  Purpose' /\ Signing'
PROOF
  BY DEF TInv, Purpose, Signing, Recorded, railVars

LEMMA ReturnPurpose ==
  ASSUME Return
  PROVE  Purpose' /\ Signing'
PROOF
  BY DEF Return, Goto, NoOp, Purpose, Signing, Makers

\* An operation that keeps its verb and kind on its way to a record.
LEMMA GotoPurpose ==
  ASSUME NEW label \in {"reconcile", "settle", "decide", "nonce", "record"},
         NEW o, Goto(label, o), o.verb \in Makers, o.kind # "none"
  PROVE  Purpose' /\ Signing'
PROOF
  BY DEF Goto, Purpose, Signing, Makers

LEMMA CallPurpose ==
  ASSUME TInv, Call
  PROVE  Purpose' /\ Signing'
PROOF
<1>1. ASSUME NEW id \in CallerIDs, NEW r \in Requests, CallPrepare(id, r)
      PROVE  Purpose' /\ Signing'
  <2>1. r.kind # "none"  BY ConstantsTyped
  <2>2. QED
    BY <1>1, <2>1 DEF CallPrepare, StartReconcile, Goto, NoOp, Purpose, Signing, Makers
<1>2. ASSUME NEW id \in CallerIDs, NEW to \in Places, CallWithdrawAll(id, to)
      PROVE  Purpose' /\ Signing'
  BY <1>2 DEF CallWithdrawAll, StartReconcile, Goto, NoOp, Purpose, Signing, Makers
<1>3. ASSUME NEW reserve \in {0} \cup {r.amount : r \in Requests}, CallRefill(reserve)
      PROVE  Purpose' /\ Signing'
  BY <1>3 DEF CallRefill, StartReconcile, Goto, NoOp, Purpose, Signing, Makers
<1>4. CASE CallReconcile
  BY <1>4 DEF CallReconcile, StartReconcile, Goto, NoOp, Purpose, Signing, Makers
<1>5. ASSUME NEW id \in IDs, NEW fee \in Fees, CallSend(id, fee)
      PROVE  Purpose' /\ Signing'
  BY <1>5 DEF CallSend, Unresolved, Goto, NoOp, Purpose, Signing, Makers, Recorded, storeVars
<1>6. ASSUME NEW id \in IDs, NEW fee \in Fees, CallRetry(id, fee)
      PROVE  Purpose' /\ Signing'
  BY <1>6 DEF CallRetry, Unresolved, Goto, NoOp, Purpose, Signing, Makers, Recorded, storeVars
<1>7. ASSUME NEW id \in IDs, CallStatus(id) PROVE Purpose' /\ Signing'
  BY <1>7, PurposeKept DEF CallStatus
<1>8. QED  BY <1>1, <1>2, <1>3, <1>4, <1>5, <1>6, <1>7 DEF Call

LEMMA StepPurpose ==
  ASSUME TInv, Step
  PROVE  Purpose' /\ Signing'
PROOF
<1>0. op \in Ops /\ Purpose  BY DEF TInv, TypeOK
<1>1. CASE FirstFloor \/ ReconcileDone
  <2>1. CASE Return  BY <2>1, ReturnPurpose
  <2>2. CASE op.verb # "reconcile" /\ Goto("settle", [op EXCEPT !.at = 0, !.upto = 0])
    <3> DEFINE o == [op EXCEPT !.at = 0, !.upto = 0]
    <3>1. pc = "reconcile"  BY <1>1 DEF FirstFloor, ReconcileDone
    <3>2. op.verb \in Makers /\ op.kind # "none"  BY <1>0, <2>2, <3>1 DEF Purpose
    <3>3. o.verb = op.verb /\ o.kind = op.kind  BY <1>0 DEF Ops
    <3>4. Goto("settle", o)  BY <2>2
    <3> HIDE DEF o
    <3>5. QED  BY <3>2, <3>3, <3>4, GotoPurpose
  <2>3. QED  BY <1>1, <2>1, <2>2 DEF FirstFloor, ReconcileDone
<1>2. ASSUME NEW id \in IDs, ReconcileNonce(id) PROVE Purpose' /\ Signing'
  <2>1. CASE Return  BY <2>1, ReturnPurpose
  <2>2. CASE Goto("reconcile", [op EXCEPT !.at = op.at + 1])
    <3>1. pc = "reconcile"  BY <1>2 DEF ReconcileNonce
    <3>2. QED  BY <1>0, <2>2, <3>1 DEF Goto, Purpose, Signing, Ops
  <2>3. QED  BY <1>2, <2>1, <2>2 DEF ReconcileNonce
<1>3. ASSUME NEW id \in IDs, SettleOne(id) PROVE Purpose' /\ Signing'
  BY <1>0, <1>3 DEF SettleOne, Goto, Purpose, Signing, Ops
<1>4. CASE SettleDone
  <2>1. CASE Return  BY <2>1, ReturnPurpose
  <2>2. CASE Goto("decide", [op EXCEPT !.at = 0])
    BY <1>0, <1>4, <2>2 DEF SettleDone, Goto, Purpose, Signing, Ops
  <2>3. QED  BY <1>4, <2>1, <2>2 DEF SettleDone
<1>5. ASSUME NEW fee \in Fees, DecidePrepare(fee) PROVE Purpose' /\ Signing'
  <2>1. CASE Return  BY <2>1, ReturnPurpose
  <2>2. CASE Goto("nonce", op)
    BY <1>0, <1>5, <2>2 DEF DecidePrepare, Goto, Purpose, Signing
  <2>3. QED  BY <1>5, <2>1, <2>2 DEF DecidePrepare
<1>6. ASSUME NEW fee \in Fees, DecideWithdrawAll(fee) PROVE Purpose' /\ Signing'
  <2>1. CASE Return  BY <2>1, ReturnPurpose
  <2>2. CASE Goto("nonce", [op EXCEPT !.amount = token, !.fee = fee])
    BY <1>0, <1>6, <2>2 DEF DecideWithdrawAll, Goto, Purpose, Signing, Ops
  <2>3. QED  BY <1>6, <2>1, <2>2 DEF DecideWithdrawAll
<1>7. ASSUME NEW fee \in Fees, NEW quote \in Quotes, DecideRefill(fee, quote)
      PROVE  Purpose' /\ Signing'
  <2>1. CASE Return  BY <2>1, ReturnPurpose
  <2>2. CASE ~Return
    <3> DEFINE d == Decide(Policy, Input(fee, op.amount, quote))
               o == [op EXCEPT !.amount = d.maxInput, !.delta = d.delta, !.fee = fee]
    <3>1. pc = "decide" /\ Goto("nonce", o)  BY <1>7, <2>2 DEF DecideRefill
    <3> HIDE DEF d
    <3>2. o.verb = op.verb /\ o.kind = op.kind  BY <1>0 DEF Ops
    <3>3. op.verb \in Makers /\ op.kind # "none"  BY <1>0, <3>1 DEF Purpose
    <3> HIDE DEF o
    <3>4. QED  BY <3>1, <3>2, <3>3, GotoPurpose
  <2>3. QED  BY <2>1, <2>2
<1>8. ASSUME NEW n \in Nonces \cup {MaxNonce + 1}, ReadNonce(n)
      PROVE  Purpose' /\ Signing'
  BY <1>0, <1>8 DEF ReadNonce, Goto, Purpose, Signing, Ops
<1>9. CASE Record
  <2>1. CASE Return  BY <2>1, ReturnPurpose
  <2>2. CASE Goto("append", [NoOp EXCEPT !.verb = "send", !.id = OpID, !.fee = op.fee])
    <3>1. OpIntent \in Intents /\ OpID \in IDs
      BY <1>0, <1>9, OpIntentTyped, ConstantsTyped
         DEF Record, Purpose, TInv, TypeOK, Ops, Nonces
    <3>2. Recorded(OpID) \/ intents'[OpID] = OpIntent
      BY <1>9, <3>1 DEF Record, PutIntent, TInv, TypeOK, StoreTypeOK
    <3>3. intents'[OpID] # NoIntent
      BY <1>9, <3>1, <3>2, NoneIsNoKind DEF Record, PutIntent, Recorded, Intents, NoIntent
    <3>4. pc' = "append" /\ op'.id = OpID /\ op'.verb = "send"
      BY <2>2 DEF Goto, NoOp
    <3>5. QED  BY <3>3, <3>4 DEF Purpose, Signing, Recorded, Makers
  <2>3. QED  BY <1>9, <2>1, <2>2 DEF Record
<1>10. CASE AppendAttempt
  BY <1>10 DEF AppendAttempt, Goto, TInv, Purpose, Signing, Recorded
<1>11. ASSUME NEW delivered \in BOOLEAN, Broadcast(delivered) PROVE Purpose' /\ Signing'
  BY <1>11, ReturnPurpose DEF Broadcast
<1>12. QED
  BY <1>1, <1>2, <1>3, <1>4, <1>5, <1>6, <1>7, <1>8, <1>9, <1>10, <1>11 DEF Step

LEMMA InitTInv == Init => TInv
PROOF
  BY InitTyped DEF Init, TInv, Purpose, Signing, NoOp, Makers

LEMMA NextTInv == TInv /\ [Next]_vars => TInv'
PROOF
<1> SUFFICES ASSUME TInv, [Next]_vars PROVE TInv'
  OBVIOUS
<1>1. TypeOK'  BY NextTyped
<1>2. Purpose' /\ Signing'
  <2>1. CASE Call  BY <2>1, CallPurpose
  <2>2. CASE Step  BY <2>2, StepPurpose
  <2>3. CASE Stop  BY <2>3, ReturnPurpose DEF Stop
  <2>4. CASE Network  BY <2>4, PurposeKept DEF Network, storeVars
  <2>5. CASE UNCHANGED vars  BY <2>5, PurposeKept DEF vars, storeVars
  <2>6. QED  BY <2>1, <2>2, <2>3, <2>4, <2>5 DEF Next
<1>3. QED  BY <1>1, <1>2 DEF TInv

\* The records, the chain and the operation under way always have the shape
\* the code's schema and types give them: every nonce written is one the
\* account may use, every balance stays a natural, every attempt is signed in
\* full (rail.go, sqlite.go).
THEOREM TypeCorrect == Spec => []TypeOK
PROOF
<1>1. TInv => TypeOK  BY DEF TInv
<1>2. QED  BY <1>1, InitTInv, NextTInv, PTL DEF Spec

----------------------------------------------------------------------------
(* Records are never rewritten                                             *)

\* A recorded intent stays as it is; a new one is made only by Record, at the
\* settled nonce, where no other intent is (PutIntent's two unique keys).
LEMMA IntentsStep ==
  ASSUME TInv, [Next]_vars
  PROVE  \/ intents' = intents
         \/ /\ Record
            /\ op.at \in Nonces /\ op.at = settled
            /\ OpID \in IDs /\ ~Recorded(OpID) /\ OpIntent \in Intents
            /\ \A id \in IDs : ~Owns(id, op.at)
            /\ intents' = [intents EXCEPT ![OpID] = OpIntent]
PROOF
<1>1. CASE Record
  <2>1. op.at \in Nonces /\ op.kind # "none"
    BY <1>1, ConstantsTyped DEF Record, TInv, TypeOK, Ops, Nonces, Purpose
  <2>2. OpIntent \in Intents /\ OpID \in IDs
    BY <2>1, OpIntentTyped DEF TInv
  <2>3. CASE Recorded(OpID)  BY <1>1, <2>3 DEF Record, PutIntent
  <2>4. CASE ~Recorded(OpID)
    <3>1. OpIntent.nonce = op.at  BY DEF OpIntent
    <3>2. QED  BY <1>1, <2>1, <2>2, <2>4, <3>1 DEF Record, PutIntent, MayPutIntent, NonceAgrees
  <2>5. QED  BY <2>3, <2>4
<1>2. CASE Step /\ ~Record
  BY <1>2 DEF Step, FirstFloor, ReconcileNonce, ReconcileDone, SettleOne, SettleDone,
     DecidePrepare, DecideWithdrawAll, DecideRefill, ReadNonce, AppendAttempt, Broadcast,
     storeVars
<1>3. CASE Call
  BY <1>3 DEF Call, CallPrepare, CallWithdrawAll, CallRefill, CallReconcile, CallSend,
     CallRetry, CallStatus, storeVars
<1>4. CASE Stop \/ Network \/ UNCHANGED vars
  BY <1>4 DEF Stop, Network, vars, storeVars
<1>5. QED  BY <1>1, <1>2, <1>3, <1>4 DEF Next

LEMMA RecordedStays ==
  ASSUME TInv, [Next]_vars, NEW id \in IDs, Recorded(id)
  PROVE  intents'[id] = intents[id] /\ Recorded(id)'
PROOF
<1>1. intents' = intents \/ (~Recorded(OpID) /\ intents' = [intents EXCEPT ![OpID] = OpIntent])
  BY IntentsStep
<1>2. intents'[id] = intents[id]
  BY <1>1 DEF TInv, TypeOK, StoreTypeOK
<1>3. QED  BY <1>2 DEF Recorded

\* Attempts are only ever added, and only by AppendAttempt.
LEMMA SubsStep ==
  ASSUME TInv, [Next]_vars
  PROVE  \/ subs' = subs
         \/ /\ AppendAttempt
            /\ op.id \in IDs /\ Recorded(op.id) /\ OpTx \in Txs
            /\ subs' = [subs EXCEPT ![op.id] = Append(@, OpTx)]
PROOF
<1>1. CASE AppendAttempt
  BY <1>1, OpTxTyped DEF AppendAttempt, AppendSubmission, TInv, TypeOK, Ops, Signing
<1>2. CASE Step /\ ~AppendAttempt
  BY <1>2 DEF Step, FirstFloor, ReconcileNonce, ReconcileDone, SettleOne, SettleDone,
     DecidePrepare, DecideWithdrawAll, DecideRefill, ReadNonce, Record, Broadcast, storeVars
<1>3. CASE Call
  BY <1>3 DEF Call, CallPrepare, CallWithdrawAll, CallRefill, CallReconcile, CallSend,
     CallRetry, CallStatus, storeVars
<1>4. CASE Stop \/ Network \/ UNCHANGED vars
  BY <1>4 DEF Stop, Network, vars, storeVars
<1>5. QED  BY <1>1, <1>2, <1>3, <1>4 DEF Next

LEMMA AttemptsStep ==
  ASSUME TInv, [Next]_vars, NEW id \in IDs
  PROVE  /\ Attempts(id) \subseteq Attempts(id)'
         /\ \/ Attempts(id)' = Attempts(id)
            \/ /\ AppendAttempt /\ id = op.id /\ Recorded(id)
               /\ Attempts(id)' = Attempts(id) \cup {OpTx}
PROOF
<1>1. CASE subs' = subs  BY <1>1 DEF Attempts
<1>2. CASE /\ AppendAttempt
           /\ op.id \in IDs /\ Recorded(op.id) /\ OpTx \in Txs
           /\ subs' = [subs EXCEPT ![op.id] = Append(@, OpTx)]
  <2>1. subs \in [IDs -> Seq(Txs)]  BY DEF TInv, TypeOK, StoreTypeOK
  <2>2. CASE id # op.id
    <3>1. subs'[id] = subs[id]  BY <1>2, <2>1, <2>2
    <3>2. QED  BY <3>1 DEF Attempts
  <2>3. CASE id = op.id
    <3> DEFINE s == subs[id]
               t == Append(s, OpTx)
    <3>1. s \in Seq(Txs) /\ subs'[id] = t  BY <1>2, <2>1, <2>3
    <3> HIDE DEF s
    <3>2. /\ Len(s) \in Nat /\ DOMAIN s = 1 .. Len(s)
          /\ Len(t) = Len(s) + 1 /\ DOMAIN t = 1 .. Len(s) + 1
          /\ \A i \in 1 .. Len(s) : t[i] = s[i]
          /\ t[Len(s) + 1] = OpTx
      BY <1>2, <3>1, AppendProperties, LenProperties
    <3> HIDE DEF t
    <3>3. {t[i] : i \in DOMAIN t} = {s[i] : i \in DOMAIN s} \cup {OpTx}
      BY <3>2
    <3>4. Attempts(id)' = {t[i] : i \in DOMAIN t}  BY <3>1 DEF Attempts
    <3>5. Attempts(id) = {s[i] : i \in DOMAIN s}  BY DEF Attempts, s
    <3>6. QED  BY <1>2, <2>3, <3>3, <3>4, <3>5
  <2>4. QED  BY <2>2, <2>3
<1>3. QED  BY <1>1, <1>2, SubsStep

----------------------------------------------------------------------------
(* Exactly once                                                            *)

\* Why an intent cannot be carried twice: no two records share a nonce, every
\* attempt is signed at its record's nonce, everything a node was given is an
\* attempt, and what is mined at a nonce was signed at it.
OwnNonces ==
  \A id, other \in IDs :
    Recorded(id) /\ Recorded(other) /\ intents[id].nonce = intents[other].nonce
      => id = other
AttemptsMatch ==
  \A id \in IDs : \A tx \in Attempts(id) :
    Recorded(id) /\ tx = Sign(intents[id], [tip |-> tx.tip, cap |-> tx.cap])
AboutToSend == pc = "send" => OpTx \in Attempts(op.id)
WireRecorded == \A tx \in wire : \E id \in IDs : tx \in Attempts(id)
WinnersWired ==
  \A n \in Nonces : winner[n].tx \in Txs => winner[n].tx \in wire /\ winner[n].tx.nonce = n

SInv == TInv /\ OwnNonces /\ AttemptsMatch /\ AboutToSend /\ WireRecorded /\ WinnersWired

LEMMA InitSInv == Init => SInv
PROOF
<1> SUFFICES ASSUME Init PROVE SInv
  OBVIOUS
<1>1. \A id \in IDs : ~Recorded(id) /\ Attempts(id) = {}
  BY DEF Init, StoreInit, Recorded, Attempts
<1>2. wire = {} /\ pc = "idle" /\ \A n \in Nonces : winner[n].tx = NoTx
  BY DEF Init, ChainInit, NoReceipt
<1>3. NoTx \notin Txs  BY NoneIsNoKind DEF NoTx, Txs
<1>4. QED
  BY <1>1, <1>2, <1>3, InitTInv
     DEF SInv, OwnNonces, AttemptsMatch, AboutToSend, WireRecorded, WinnersWired

LEMMA OwnNoncesKept == ASSUME SInv, [Next]_vars PROVE OwnNonces'
PROOF
<1>0. TInv /\ OwnNonces  BY DEF SInv
<1>1. CASE intents' = intents  BY <1>0, <1>1 DEF OwnNonces, Recorded
<1>2. CASE /\ OpID \in IDs /\ OpIntent.nonce = op.at
           /\ \A id \in IDs : ~Owns(id, op.at)
           /\ intents' = [intents EXCEPT ![OpID] = OpIntent]
  <2> SUFFICES ASSUME NEW id \in IDs, NEW other \in IDs, Recorded(id)', Recorded(other)',
                      intents'[id].nonce = intents'[other].nonce
               PROVE  id = other
    BY DEF OwnNonces
  <2>1. \A x \in IDs : intents'[x] = IF x = OpID THEN OpIntent ELSE intents[x]
    BY <1>0, <1>2 DEF TInv, TypeOK, StoreTypeOK
  <2>2. QED  BY <1>0, <1>2, <2>1 DEF OwnNonces, Recorded, Owns
<1>3. OpIntent.nonce = op.at  BY DEF OpIntent
<1>4. QED  BY <1>0, <1>1, <1>2, <1>3, IntentsStep

LEMMA AttemptsMatchKept ==
  ASSUME TInv, AttemptsMatch, [Next]_vars
  PROVE  AttemptsMatch'
PROOF
<1>0. TInv /\ AttemptsMatch  OBVIOUS
<1> SUFFICES ASSUME NEW id \in IDs, NEW tx \in Attempts(id)'
             PROVE  /\ Recorded(id)'
                    /\ tx = Sign(intents'[id], [tip |-> tx.tip, cap |-> tx.cap])
  BY DEF AttemptsMatch, Sign
<1>1. CASE tx \in Attempts(id)
  BY <1>0, <1>1, RecordedStays DEF AttemptsMatch
<1>2. CASE tx = OpTx /\ id = op.id /\ Recorded(id)
  <2>1. tx = Sign(intents[id], [tip |-> tx.tip, cap |-> tx.cap])
    BY <1>2 DEF OpTx, Sign
  <2>2. QED  BY <1>0, <1>2, <2>1, RecordedStays
<1>3. QED  BY <1>0, <1>1, <1>2, AttemptsStep

LEMMA AboutToSendKept ==
  ASSUME TInv, AttemptsMatch, AboutToSend, [Next]_vars
  PROVE  AboutToSend'
PROOF
<1>0. TInv /\ AttemptsMatch /\ AboutToSend /\ op \in Ops
  BY DEF TInv, TypeOK
<1> SUFFICES ASSUME pc' = "send" PROVE OpTx' \in Attempts(op.id)'
  BY DEF AboutToSend
<1>1. CASE pc = "send" /\ UNCHANGED railVars
  <2>1. op.id \in IDs /\ Recorded(op.id)
    BY <1>0, <1>1 DEF Ops, TInv, Signing
  <2>2. OpTx' = OpTx  BY <1>0, <1>1, <2>1, RecordedStays DEF OpTx, railVars
  <2>3. QED  BY <1>0, <1>1, <2>1, <2>2, AttemptsStep DEF AboutToSend, railVars
<1>2. CASE AppendAttempt
  <2>1. op.id \in IDs /\ Recorded(op.id) /\ op' = op
    BY <1>0, <1>2 DEF Ops, TInv, Signing, AppendAttempt, Goto
  <2>2. OpTx' = OpTx  BY <1>0, <2>1, RecordedStays DEF OpTx
  <2>3. OpTx \in Attempts(op.id)'
    <3>1. subs[op.id] \in Seq(Txs) /\ subs \in [IDs -> Seq(Txs)]
      BY <2>1, <1>0 DEF TInv, TypeOK, StoreTypeOK
    <3>2. OpTx \in Txs  BY <1>0, <1>2, OpTxTyped DEF AppendAttempt
    <3>3. subs'[op.id] = Append(subs[op.id], OpTx)
      BY <1>2, <2>1, <3>1 DEF AppendAttempt, AppendSubmission
    <3>4. Len(subs[op.id]) + 1 \in DOMAIN subs'[op.id]
          /\ subs'[op.id][Len(subs[op.id]) + 1] = OpTx
      BY <3>1, <3>2, <3>3, AppendProperties, LenProperties
    <3>5. QED  BY <2>1, <3>4 DEF Attempts
  <2>4. QED  BY <2>1, <2>2, <2>3
<1>3. ASSUME NEW id \in IDs, NEW fee \in Fees, CallSend(id, fee)
      PROVE  OpTx' \in Attempts(op.id)'
  <2>1. subs[id] # <<>>  BY <1>3 DEF CallSend, Goto
  <2>2. Last(id) \in Attempts(id)  BY <1>0, <2>1, LastTyped DEF TInv
  <2>3. op'.id = id /\ op'.fee = [tip |-> Last(id).tip, cap |-> Last(id).cap]
    BY <1>3, <2>1 DEF CallSend, Goto, NoOp
  <2>4. intents' = intents /\ subs' = subs  BY <1>3 DEF CallSend, storeVars
  <2>5. OpTx' = Last(id)  BY <1>0, <2>2, <2>3, <2>4 DEF OpTx, AttemptsMatch
  <2>6. QED  BY <2>2, <2>3, <2>4, <2>5 DEF Attempts
<1>4. UNCHANGED railVars \/ AppendAttempt \/ \E id \in IDs, fee \in Fees : CallSend(id, fee)
  <2>1. CASE Call
    BY <2>1 DEF Call, CallPrepare, CallWithdrawAll, CallRefill, CallReconcile, CallRetry,
       CallStatus, StartReconcile, Goto
  <2>2. CASE Step
    BY <2>2 DEF Step, FirstFloor, ReconcileNonce, ReconcileDone, SettleOne, SettleDone,
       DecidePrepare, DecideWithdrawAll, DecideRefill, ReadNonce, Record, Broadcast,
       Return, Goto
  <2>3. CASE Stop  BY <2>3 DEF Stop, Return, Goto
  <2>4. CASE Network \/ UNCHANGED vars  BY <2>4 DEF Network, vars
  <2>5. QED  BY <2>1, <2>2, <2>3, <2>4 DEF Next
<1>5. QED
  <2>1. CASE UNCHANGED railVars  BY <1>1, <2>1 DEF railVars
  <2>2. QED  BY <1>2, <1>3, <1>4, <2>1

LEMMA WireStep ==
  ASSUME TInv, [Next]_vars
  PROVE  wire' = wire \/ (pc = "send" /\ wire' = wire \cup {OpTx})
PROOF
<1>1. CASE Call
  BY <1>1 DEF Call, CallPrepare, CallWithdrawAll, CallRefill, CallReconcile, CallSend,
     CallRetry, CallStatus, chainVars
<1>2. CASE Step
  BY <1>2 DEF Step, FirstFloor, ReconcileNonce, ReconcileDone, SettleOne, SettleDone,
     DecidePrepare, DecideWithdrawAll, DecideRefill, ReadNonce, Record, AppendAttempt,
     Broadcast, chainVars
<1>3. CASE Network
  BY <1>3 DEF Network, ChainNext, Mine, ForeignMine, Include, Settle, Reorg, Deposit, TopUp
<1>4. CASE Stop \/ UNCHANGED vars  BY <1>4 DEF Stop, vars, chainVars
<1>5. QED  BY <1>1, <1>2, <1>3, <1>4 DEF Next

LEMMA WireRecordedKept == ASSUME SInv, [Next]_vars PROVE WireRecorded'
PROOF
<1>0. TInv /\ WireRecorded /\ AboutToSend /\ op.id \in IDs
  BY DEF SInv, TInv, TypeOK, Ops
<1> SUFFICES ASSUME NEW tx \in wire' PROVE \E id \in IDs : tx \in Attempts(id)'
  BY DEF WireRecorded
<1>1. PICK id \in IDs : tx \in Attempts(id)
  BY <1>0, WireStep DEF WireRecorded, AboutToSend
<1>2. QED  BY <1>0, <1>1, AttemptsStep

\* What is mined is new at the next nonce or already was there.
LEMMA WinnersStep ==
  ASSUME TInv, [Next]_vars, NEW n \in Nonces
  PROVE  \/ winner'[n] = winner[n]
         \/ n = spent /\ winner'[n].tx \in wire /\ winner'[n].tx.nonce = n
         \/ n = spent /\ winner'[n].tx = ForeignTx
         \/ n = spent - 1 /\ settled < spent /\ winner'[n] = NoReceipt
PROOF
<1>0. winner \in [Nonces -> Receipts]  BY DEF TInv, TypeOK, ChainTypeOK
<1>1. CASE Call
  BY <1>1 DEF Call, CallPrepare, CallWithdrawAll, CallRefill, CallReconcile, CallSend,
     CallRetry, CallStatus, chainVars
<1>2. CASE Step
  BY <1>2 DEF Step, FirstFloor, ReconcileNonce, ReconcileDone, SettleOne, SettleDone,
     DecidePrepare, DecideWithdrawAll, DecideRefill, ReadNonce, Record, AppendAttempt,
     Broadcast, chainVars
<1>3. ASSUME NEW tx \in wire, NEW result, NEW out, NEW fee, Mine(tx, result, out, fee)
      PROVE  winner'[n] = winner[n] \/ (n = spent /\ winner'[n].tx = tx /\ tx.nonce = n)
  BY <1>0, <1>3 DEF Mine, Include
<1>4. ASSUME NEW out, NEW fee, ForeignMine(out, fee)
      PROVE  winner'[n] = winner[n] \/ (n = spent /\ winner'[n].tx = ForeignTx)
  BY <1>0, <1>4 DEF ForeignMine, Include
<1>5. CASE Network
  BY <1>0, <1>3, <1>4, <1>5 DEF Network, ChainNext, Settle, Reorg, Deposit, TopUp
<1>6. CASE Stop \/ UNCHANGED vars  BY <1>6 DEF Stop, vars, chainVars
<1>7. QED  BY <1>1, <1>2, <1>5, <1>6 DEF Next

LEMMA WinnersWiredKept ==
  ASSUME TInv, WinnersWired, [Next]_vars
  PROVE  WinnersWired'
PROOF
<1>0. TInv /\ WinnersWired  OBVIOUS
<1>1. wire \subseteq wire'  BY <1>0, WireStep
<1>2. ForeignTx \notin Txs /\ NoReceipt.tx \notin Txs
  BY NoneIsNoKind DEF ForeignTx, NoTx, NoReceipt, Txs
<1> SUFFICES ASSUME NEW n \in Nonces, winner'[n].tx \in Txs
             PROVE  winner'[n].tx \in wire' /\ winner'[n].tx.nonce = n
  BY DEF WinnersWired, Txs, Nonces
<1>3. QED  BY <1>0, <1>1, <1>2, WinnersStep DEF WinnersWired

LEMMA NextSInv == SInv /\ [Next]_vars => SInv'
PROOF
<1> SUFFICES ASSUME SInv, [Next]_vars PROVE SInv'
  OBVIOUS
<1>1. TInv'  BY NextTInv DEF SInv
<1>2. QED
  BY <1>1, OwnNoncesKept, AttemptsMatchKept, AboutToSendKept, WireRecordedKept,
     WinnersWiredKept
     DEF SInv

LEMMA SInvRecorded == SInv => RecordedBeforeBroadcast
PROOF
  BY DEF SInv, WireRecorded, AttemptsMatch, RecordedBeforeBroadcast

LEMMA SInvOnce == SInv => AtMostOnce
PROOF
<1> SUFFICES ASSUME SInv, NEW n \in Nonces, winner[n].tx \in Txs
             PROVE  \E id \in IDs :
                      /\ Carries(n, id)
                      /\ \A other \in IDs : Carries(n, other) => other = id
                      /\ \A m \in Nonces : Carries(m, id) => m = n
  BY DEF AtMostOnce
<1>1. PICK id \in IDs : winner[n].tx \in Attempts(id)
  BY DEF SInv, WinnersWired, WireRecorded
\* An attempt mined anywhere was mined at its own record's nonce.
<1>2. ASSUME NEW m \in Nonces, NEW x \in IDs, Carries(m, x)
      PROVE  Recorded(x) /\ intents[x].nonce = m
  <2>1. /\ Recorded(x)
        /\ winner[m].tx = Sign(intents[x], [tip |-> winner[m].tx.tip, cap |-> winner[m].tx.cap])
    BY <1>2 DEF Carries, SInv, AttemptsMatch
  <2>2. winner[m].tx \in Txs
    <3>1. subs[x] \in Seq(Txs)  BY DEF SInv, TInv, TypeOK, StoreTypeOK
    <3>2. Attempts(x) \subseteq Txs  BY <3>1, ElementOfSeq DEF Attempts
    <3>3. QED  BY <1>2, <3>2 DEF Carries
  <2>3. winner[m].tx.nonce = m  BY <2>2 DEF SInv, WinnersWired
  <2>4. winner[m].tx.nonce = intents[x].nonce  BY <2>1 DEF Sign
  <2>5. QED  BY <2>1, <2>3, <2>4
<1>3. Recorded(id) /\ intents[id].nonce = n  BY <1>1, <1>2 DEF Carries
<1>4. ASSUME NEW other \in IDs, Carries(n, other) PROVE other = id
  BY <1>2, <1>3, <1>4 DEF SInv, OwnNonces
<1>5. ASSUME NEW m \in Nonces, Carries(m, id) PROVE m = n
  BY <1>2, <1>3, <1>5
<1>6. QED  BY <1>1, <1>4, <1>5 DEF Carries

\* Whatever reached a node was recorded first, however often the process was
\* killed between recording, signing and sending (rail.go submit).
THEOREM RecordedFirst == Spec => []RecordedBeforeBroadcast
PROOF
  BY InitSInv, NextSInv, SInvRecorded, PTL DEF Spec

\* No intent is carried out twice and no transaction carries two, whatever
\* was retried, lost, resent or undone by the chain, from any endpoint, with
\* or without another signer on the key (requirements.md 7).
THEOREM CarriedOnce == Spec => []AtMostOnce
PROOF
  BY InitSInv, NextSInv, SInvOnce, PTL DEF Spec

----------------------------------------------------------------------------
(* One at a time                                                           *)

\* A fact is cached once, for a recorded intent, and only before an operation
\* decides anything.
LEMMA FactsStep ==
  ASSUME TInv, [Next]_vars
  PROVE  \/ facts' = facts
         \/ /\ pc \in {"idle", "reconcile", "settle"}
            /\ UNCHANGED <<chainVars, intents, subs>>
            /\ \E id \in IDs :
                 /\ Recorded(id) /\ ~facts[id].known
                 /\ \/ intents[id].nonce < SettledNonce
                    \/ pc = "reconcile" /\ intents[id].nonce < op.upto
                 /\ facts' = [facts EXCEPT ![id] = Outcome(id)]
PROOF
<1>1. ASSUME NEW id \in IDs, Resolve(id)
      PROVE  \/ facts' = facts
             \/ /\ intents[id].nonce < SettledNonce /\ ~facts[id].known
                /\ facts' = [facts EXCEPT ![id] = Outcome(id)]
  BY <1>1 DEF Resolve, PutFact
<1>2. ASSUME NEW id \in IDs, CallStatus(id)
      PROVE  Recorded(id) /\ pc = "idle" /\ UNCHANGED <<chainVars, intents, subs>>
  BY <1>2 DEF CallStatus, Unresolved
<1>3. CASE Call
  BY <1>1, <1>2, <1>3 DEF Call, CallPrepare, CallWithdrawAll, CallRefill, CallReconcile,
     CallSend, CallRetry, CallStatus, storeVars
<1>4. ASSUME NEW id \in IDs, SettleOne(id)
      PROVE  Recorded(id) /\ pc = "settle" /\ UNCHANGED <<chainVars, intents, subs>>
  BY <1>4 DEF SettleOne, PendingIDs
<1>5. ASSUME NEW id \in IDs, ReconcileNonce(id)
      PROVE  /\ Recorded(id) /\ pc = "reconcile" /\ UNCHANGED <<chainVars, intents, subs>>
             /\ intents[id].nonce < op.upto
             /\ facts' = facts \/ (~facts[id].known /\ facts' = [facts EXCEPT ![id] = Outcome(id)])
  BY <1>5 DEF ReconcileNonce, Owns, PutFact
<1>6. CASE Step
  <2>1. CASE \E id \in IDs : SettleOne(id)  BY <1>1, <1>4, <2>1 DEF SettleOne
  <2>2. CASE \E id \in IDs : ReconcileNonce(id)  BY <1>5, <2>2
  <2>3. CASE ~(\E id \in IDs : SettleOne(id) \/ ReconcileNonce(id))
    BY <1>6, <2>3 DEF Step, FirstFloor, ReconcileDone, SettleDone, DecidePrepare,
       DecideWithdrawAll, DecideRefill, ReadNonce, Record, AppendAttempt, Broadcast,
       storeVars
  <2>4. QED  BY <2>1, <2>2, <2>3
<1>7. CASE Stop \/ Network \/ UNCHANGED vars  BY <1>7 DEF Stop, Network, vars, storeVars
<1>8. QED  BY <1>3, <1>6, <1>7 DEF Next

LEMMA KnownStays ==
  ASSUME TInv, [Next]_vars, NEW id \in IDs, facts[id].known
  PROVE  facts'[id] = facts[id]
PROOF
  BY FactsStep DEF TInv, TypeOK, StoreTypeOK

\* From the decision to the record nothing is pending: the check was made,
\* and nothing since can have recorded an intent.
Free == pc \in {"decide", "nonce", "record"} => PendingIDs = {}
OInv == TInv /\ Free /\ OneInFlight /\ NoGap

LEMMA InitOInv == Init => OInv
PROOF
<1> SUFFICES ASSUME Init PROVE OInv
  OBVIOUS
<1>1. \A id \in IDs : ~Recorded(id)  BY DEF Init, StoreInit, Recorded
<1>2. PendingIDs = {}  BY <1>1 DEF PendingIDs
<1>3. QED  BY <1>1, <1>2, InitTInv DEF OInv, Free, OneInFlight, NoGap

LEMMA SettledStays ==
  ASSUME TInv, [Next]_vars
  PROVE  settled' \in Nat /\ settled <= settled'
PROOF
<1>0. settled \in Nat /\ spent \in Nat  BY ConstantsTyped DEF TInv, TypeOK, ChainTypeOK
<1>1. ASSUME Call PROVE settled' = settled
  BY <1>1 DEF Call, CallPrepare, CallWithdrawAll, CallRefill, CallReconcile, CallSend,
     CallRetry, CallStatus, chainVars
<1>2. ASSUME Step PROVE settled' = settled
  BY <1>2 DEF Step, FirstFloor, ReconcileNonce, ReconcileDone, SettleOne, SettleDone,
     DecidePrepare, DecideWithdrawAll, DecideRefill, ReadNonce, Record, AppendAttempt,
     Broadcast, chainVars
<1>3. CASE Network
  BY <1>0, <1>3 DEF Network, ChainNext, Mine, ForeignMine, Include, Settle, Reorg, Deposit,
     TopUp
<1>4. CASE Stop \/ UNCHANGED vars  BY <1>0, <1>4 DEF Stop, vars, chainVars
<1>5. QED  BY <1>0, <1>1, <1>2, <1>3, <1>4 DEF Next

LEMMA PendingStep ==
  ASSUME TInv, [Next]_vars
  PROVE  PendingIDs' \subseteq PendingIDs \/ (Record /\ PendingIDs' \subseteq PendingIDs \cup {OpID})
PROOF
<1>0. intents \in [IDs -> Intents \cup {NoIntent}]  BY DEF TInv, TypeOK, StoreTypeOK
<1>1. CASE intents' = intents  BY <1>1, KnownStays DEF PendingIDs, Recorded
<1>2. CASE Record /\ OpID \in IDs /\ intents' = [intents EXCEPT ![OpID] = OpIntent]
  <2>1. \A id \in IDs : id # OpID => intents'[id] = intents[id]  BY <1>0, <1>2
  <2>2. QED  BY <1>2, <2>1, KnownStays DEF PendingIDs, Recorded
<1>3. QED  BY <1>1, <1>2, IntentsStep

LEMMA FreeKept == ASSUME OInv, [Next]_vars PROVE Free'
PROOF
<1>0. TInv /\ Free  BY DEF OInv
<1> SUFFICES ASSUME pc' \in {"decide", "nonce", "record"} PROVE PendingIDs' = {}
  BY DEF Free
<1>1. ~Record  BY DEF Record, Return, Goto
<1>2. PendingIDs = {}
  <2>1. CASE Call
    BY <1>0, <2>1 DEF Call, CallPrepare, CallWithdrawAll, CallRefill, CallReconcile,
       CallSend, CallRetry, CallStatus, StartReconcile, Goto, Free, railVars
  <2>2. CASE Step
    BY <1>0, <2>2 DEF Step, FirstFloor, ReconcileNonce, ReconcileDone, SettleOne,
       SettleDone, InFlight, DecidePrepare, DecideWithdrawAll, DecideRefill, ReadNonce,
       Record, AppendAttempt, Broadcast, Return, Goto, Free
  <2>3. CASE Stop  BY <2>3 DEF Stop, Return, Goto
  <2>4. CASE Network \/ UNCHANGED vars  BY <1>0, <2>4 DEF Network, vars, railVars, Free
  <2>5. QED  BY <2>1, <2>2, <2>3, <2>4 DEF Next
<1>3. QED  BY <1>0, <1>1, <1>2, PendingStep

LEMMA NextOInv == OInv /\ [Next]_vars => OInv'
PROOF
<1> SUFFICES ASSUME OInv, [Next]_vars PROVE OInv'
  OBVIOUS
<1>0. TInv  BY DEF OInv
<1>1. OneInFlight'
  <2>1. CASE PendingIDs' \subseteq PendingIDs  BY <2>1 DEF OneInFlight, OInv
  <2>2. CASE Record /\ PendingIDs' \subseteq PendingIDs \cup {OpID}
    <3>1. PendingIDs = {}  BY <2>2 DEF OInv, Free, Record
    <3>2. QED  BY <2>2, <3>1 DEF OneInFlight
  <2>3. QED  BY <1>0, <2>1, <2>2, PendingStep
<1>2. NoGap'
  <2> SUFFICES ASSUME NEW id \in IDs, Recorded(id)' PROVE intents'[id].nonce <= settled'
    BY DEF NoGap
  <2>0. settled \in Nat /\ settled' \in Nat /\ settled <= settled'
    BY <1>0, SettledStays, ConstantsTyped DEF TInv, TypeOK, ChainTypeOK
  <2>1. CASE Recorded(id)
    <3>1. intents'[id] = intents[id] /\ intents[id].nonce <= settled
      BY <1>0, <2>1, RecordedStays DEF OInv, NoGap
    <3>2. intents[id].nonce \in Nat
      BY <1>0, <2>1, RecordedTyped, ConstantsTyped DEF TInv, Intents, Nonces
    <3>3. QED  BY <2>0, <3>1, <3>2
  <2>2. CASE ~Recorded(id)
    <3>1. /\ op.at = settled /\ OpID \in IDs
          /\ intents' = [intents EXCEPT ![OpID] = OpIntent]
      BY <1>0, <2>2, IntentsStep DEF Recorded
    <3>2. intents'[id] = OpIntent
      BY <1>0, <2>2, <3>1 DEF TInv, TypeOK, StoreTypeOK, Recorded
    <3>3. OpIntent.nonce = op.at  BY DEF OpIntent
    <3>4. QED  BY <2>0, <3>1, <3>2, <3>3
  <2>3. QED  BY <2>1, <2>2
<1>3. QED  BY <1>0, <1>1, <1>2, FreeKept, NextTInv DEF OInv

\* There is never a second operation without a settled outcome, crash or no
\* crash (rail.go ready).
THEOREM OneAtATime == Spec => []OneInFlight
PROOF
<1>1. OInv => OneInFlight  BY DEF OInv
<1>2. QED  BY <1>1, InitOInv, NextOInv, PTL DEF Spec

\* No operation waits at a nonce the chain cannot reach next (rail.go
\* nextNonce).
THEOREM NoOperationAhead == Spec => []NoGap
PROOF
<1>1. OInv => NoGap  BY DEF OInv
<1>2. QED  BY <1>1, InitOInv, NextOInv, PTL DEF Spec

----------------------------------------------------------------------------
(* Facts                                                                   *)

\* What is mined below the settled head stays (requirements.md 12).
LEMMA SettledWinner ==
  ASSUME TInv, [Next]_vars, NEW n \in Nonces, n < settled
  PROVE  winner'[n] = winner[n]
PROOF
<1>1. settled \in Nat /\ spent \in Nat /\ settled <= spent /\ n \in Nat
  BY ConstantsTyped DEF TInv, TypeOK, ChainTypeOK, Nonces
<1>2. n # spent /\ ~(n = spent - 1 /\ settled < spent)  BY <1>1
<1>3. QED  BY <1>2, WinnersStep

\* A fact is true when it is cached, and what it says of is then final: the
\* nonce is settled, and nothing signs under the intent again.
Upto == pc = "reconcile" => op.upto <= settled
Untouched == pc \in {"append", "send"} => ~facts[op.id].known
FInv == OInv /\ Upto /\ Untouched /\ FactsAreTrue

LEMMA InitFInv == Init => FInv
PROOF
<1> SUFFICES ASSUME Init PROVE FInv
  OBVIOUS
<1>1. \A id \in IDs : ~facts[id].known  BY DEF Init, StoreInit, NoFact
<1>2. pc = "idle"  BY DEF Init
<1>3. QED  BY <1>1, <1>2, InitOInv DEF FInv, Upto, Untouched, FactsAreTrue

LEMMA UptoKept ==
  ASSUME Endpoints = {"right"}, FInv, [Next]_vars
  PROVE  Upto'
PROOF
<1>0. TInv /\ op \in Ops /\ SettledNonce = settled
  BY DEF FInv, OInv, TInv, TypeOK, SettledNonce
<1>1. settled \in Nat /\ settled' \in Nat /\ settled <= settled'
  BY <1>0, SettledStays, ConstantsTyped DEF TInv, TypeOK, ChainTypeOK
<1> SUFFICES ASSUME pc' = "reconcile" PROVE op'.upto <= settled'
  BY DEF Upto
<1>2. op'.upto = settled \/ (pc = "reconcile" /\ op'.upto = op.upto)
  <2>1. CASE Call
    BY <1>0, <2>1 DEF Call, CallPrepare, CallWithdrawAll, CallRefill, CallReconcile,
       CallSend, CallRetry, CallStatus, StartReconcile, Goto, NoOp, railVars
  <2>2. CASE Step
    BY <1>0, <2>2 DEF Step, FirstFloor, ReconcileNonce, ReconcileDone, SettleOne,
       SettleDone, DecidePrepare, DecideWithdrawAll, DecideRefill, ReadNonce, Record,
       AppendAttempt, Broadcast, Return, Goto, Ops
  <2>3. CASE Stop  BY <2>3 DEF Stop, Return, Goto
  <2>4. CASE Network \/ UNCHANGED vars  BY <2>4 DEF Network, vars, railVars
  <2>5. QED  BY <2>1, <2>2, <2>3, <2>4 DEF Next
<1>3. op.upto \in Nat  BY <1>0, ConstantsTyped DEF Ops
<1>4. QED  BY <1>1, <1>2, <1>3 DEF FInv, Upto

LEMMA UntouchedKept ==
  ASSUME FInv, [Next]_vars
  PROVE  Untouched'
PROOF
<1>0. TInv /\ op \in Ops /\ FactsAreTrue /\ Free
  BY DEF FInv, OInv, TInv, TypeOK
<1> SUFFICES ASSUME pc' \in {"append", "send"} PROVE ~facts'[op'.id].known
  BY DEF Untouched
<1>1. CASE Record
  <2>1. op'.id = OpID /\ facts' = facts  BY <1>1 DEF Record, Return, Goto, NoOp
  <2>2. OpID \in IDs
    BY <1>0, <1>1, RefillIDs_, ConstantsTyped DEF Record, OpID, Ops, Nonces
  <2>3. SUFFICES ASSUME facts[OpID].known PROVE FALSE
    BY <2>1
  <2>4. Recorded(OpID) /\ intents[OpID].nonce < settled
    BY <1>0, <2>2, <2>3 DEF FactsAreTrue
  <2>5. intents[OpID].nonce = op.at /\ op.at = settled
    BY <1>1, <2>4 DEF Record, MayPutIntent, SameTerms, OpIntent, NonceAgrees
  <2>6. settled \in Nat  BY <1>0, ConstantsTyped DEF TInv, TypeOK, ChainTypeOK
  <2>7. QED  BY <2>4, <2>5, <2>6
<1>2. ASSUME NEW id \in IDs, NEW fee \in Fees, CallSend(id, fee) \/ CallRetry(id, fee)
      PROVE  ~facts'[op'.id].known
  BY <1>2 DEF CallSend, CallRetry, Unresolved, Goto, NoOp, storeVars
<1>3. CASE /\ facts' = facts /\ op' = op /\ pc \in {"append", "send"}
  BY <1>3 DEF FInv, Untouched
<1>4. CASE Call
  BY <1>2, <1>4, <1>3 DEF Call, CallPrepare, CallWithdrawAll, CallRefill, CallReconcile,
     CallStatus, StartReconcile, Goto, railVars
<1>5. CASE Step /\ ~Record
  <2>1. AppendAttempt
    BY <1>5 DEF Step, FirstFloor, ReconcileNonce, ReconcileDone, SettleOne,
       SettleDone, DecidePrepare, DecideWithdrawAll, DecideRefill, ReadNonce,
       Broadcast, Return, Goto
  <2>2. QED  BY <1>3, <2>1 DEF AppendAttempt, Goto
<1>6. CASE Stop  BY <1>6 DEF Stop, Return, Goto
<1>7. CASE Network \/ UNCHANGED vars
  BY <1>3, <1>7 DEF Network, vars, railVars, storeVars
<1>8. QED  BY <1>1, <1>4, <1>5, <1>6, <1>7 DEF Next

LEMMA FactsAreTrueKept ==
  ASSUME Endpoints = {"right"}, FInv, [Next]_vars
  PROVE  FactsAreTrue'
PROOF
<1>0. TInv /\ endpoint = "right" /\ SettledNonce = settled
  BY DEF FInv, OInv, TInv, TypeOK, SettledNonce
<1>1. settled \in Nat /\ settled' \in Nat /\ settled <= settled'
  BY <1>0, SettledStays, ConstantsTyped DEF TInv, TypeOK, ChainTypeOK
<1> SUFFICES ASSUME NEW id \in IDs, facts'[id].known
             PROVE  /\ Recorded(id)'
                    /\ intents'[id].nonce < settled'
                    /\ facts'[id].tx = IF winner'[intents'[id].nonce].tx \in Attempts(id)'
                                       THEN winner'[intents'[id].nonce].tx ELSE NoTx
                    /\ facts'[id].executed <=>
                         (winner'[intents'[id].nonce].tx \in Attempts(id)'
                          /\ winner'[intents'[id].nonce].result = "executed")
  BY DEF FactsAreTrue
<1>2. CASE facts[id].known
  <2>1. Recorded(id) /\ intents[id].nonce < settled
    BY <1>2 DEF FInv, FactsAreTrue
  <2>2. facts'[id] = facts[id] /\ intents'[id] = intents[id] /\ Recorded(id)'
    BY <1>0, <1>2, <2>1, KnownStays, RecordedStays
  <2>3. intents[id].nonce \in Nonces
    BY <1>0, <2>1, RecordedTyped DEF TInv, Intents
  <2>4. winner'[intents[id].nonce] = winner[intents[id].nonce]
    BY <1>0, <2>1, <2>3, SettledWinner
  <2>5. Attempts(id)' = Attempts(id)
    <3>1. ~(AppendAttempt /\ id = op.id)
      BY <1>2 DEF FInv, Untouched, AppendAttempt
    <3>2. QED  BY <1>0, <3>1, AttemptsStep
  <2>6. intents[id].nonce < settled'
    BY <1>1, <2>1, <2>3, ConstantsTyped DEF Nonces
  <2>7. QED  BY <1>2, <2>2, <2>4, <2>5, <2>6 DEF FInv, FactsAreTrue
<1>3. CASE ~facts[id].known
  <2>1. /\ UNCHANGED <<chainVars, intents, subs>>
        /\ Recorded(id) /\ facts'[id] = Outcome(id)
        /\ \/ intents[id].nonce < SettledNonce
           \/ pc = "reconcile" /\ intents[id].nonce < op.upto
    BY <1>0, <1>3, FactsStep DEF TInv, TypeOK, StoreTypeOK
  <2>2. intents[id].nonce < settled
    <3>1. intents[id].nonce \in Nat /\ op.upto \in Nat
      BY <1>0, <2>1, RecordedTyped, ConstantsTyped DEF TInv, TypeOK, Intents, Nonces, Ops
    <3>2. QED  BY <1>0, <1>1, <2>1, <3>1 DEF FInv, Upto
  <2>3. /\ winner' = winner /\ settled' = settled /\ intents' = intents
        /\ Attempts(id)' = Attempts(id) /\ Recorded(id)'
    BY <2>1 DEF chainVars, Attempts, Recorded
  <2> DEFINE r == winner[intents[id].nonce]
  <2>4. /\ Outcome(id).tx = IF r.tx \in Attempts(id) THEN r.tx ELSE NoTx
        /\ Outcome(id).executed <=> (r.tx \in Attempts(id) /\ r.result = "executed")
    <3>1. CASE r.tx \in Attempts(id)
      <4> DEFINE e == r.result = "executed"
      <4>1. Outcome(id) = [known |-> TRUE, tx |-> r.tx, executed |-> e]
        BY <1>0, <3>1 DEF Outcome
      <4>2. e \in BOOLEAN  OBVIOUS
      <4> HIDE DEF e
      <4>3. Outcome(id).tx = r.tx /\ (Outcome(id).executed <=> e)  BY <4>1, <4>2
      <4>4. Outcome(id).executed <=> r.result = "executed"  BY <4>3, Zenon DEF e
      <4>5. QED  BY <3>1, <4>3, <4>4
    <3>2. CASE r.tx \notin Attempts(id)
      <4>1. Outcome(id) = [known |-> TRUE, tx |-> NoTx, executed |-> FALSE]
        BY <3>2 DEF Outcome
      <4>2. QED  BY <3>2, <4>1
    <3>3. QED  BY <3>1, <3>2
  <2>5. r' = winner[intents[id].nonce] /\ r' = r  BY <2>3
  <2> HIDE DEF r
  <2>6. /\ facts'[id].tx = IF r'.tx \in Attempts(id)' THEN r'.tx ELSE NoTx
        /\ facts'[id].executed <=> (r'.tx \in Attempts(id)' /\ r'.result = "executed")
    BY <2>1, <2>3, <2>4, <2>5
  <2>7. Recorded(id)' /\ intents'[id].nonce < settled'  BY <2>2, <2>3
  <2>8. QED  BY <2>6, <2>7 DEF r
<1>4. QED  BY <1>2, <1>3

LEMMA NextFInv ==
  ASSUME Endpoints = {"right"}, FInv, [Next]_vars
  PROVE  FInv'
PROOF
<1>1. OInv'  BY NextOInv DEF FInv
<1>2. QED  BY <1>1, UptoKept, UntouchedKept, FactsAreTrueKept DEF FInv

\* With one endpoint, of the right chain, every cached fact is and stays what
\* the settled chain says (status.go Outcome; sqlite.go PutFact).  The run
\* RailElsewhere shows what happens without that assumption.
THEOREM FactsStayTrue == Endpoints = {"right"} /\ Spec => []FactsAreTrue
PROOF
<1> SUFFICES ASSUME Endpoints = {"right"} PROVE Spec => []FactsAreTrue
  OBVIOUS
<1>1. FInv /\ [Next]_vars => FInv'  BY NextFInv
<1>2. FInv => FactsAreTrue  BY DEF FInv
<1>3. QED  BY <1>1, <1>2, InitFInv, PTL DEF Spec

----------------------------------------------------------------------------
(* Replacement                                                             *)

\* The attempt about to be signed is to replace every one before it: it is a
\* raise of the last, which replaced the others, or there are none.
Raised == pc = "append" => \A tx \in Attempts(op.id) : Replaces(op.fee, tx)
RInv == SInv /\ FInv /\ AttemptsReplace /\ Raised

LEMMA InitRInv == Init => RInv
PROOF
<1> SUFFICES ASSUME Init PROVE RInv
  OBVIOUS
<1>1. AttemptsReplace /\ Raised  BY DEF Init, StoreInit, AttemptsReplace, Raised
<1>2. QED  BY <1>1, InitSInv, InitFInv DEF RInv

LEMMA AttemptTyped ==
  ASSUME TypeOK, NEW id \in IDs, NEW tx \in Attempts(id)
  PROVE  tx \in Txs /\ tx.tip \in Nat /\ tx.cap \in Nat
PROOF
<1>1. subs[id] \in Seq(Txs)  BY DEF TypeOK, StoreTypeOK
<1>2. tx \in Txs  BY <1>1, ElementOfSeq, LenProperties DEF Attempts
<1>3. QED  BY <1>2 DEF Txs

\* A raise of the last attempt replaces them all (rail.go Retry).
LEMMA RaiseReplaces ==
  ASSUME TypeOK, AttemptsReplace, NEW id \in IDs, NEW fee \in Fees,
         NEW tx \in Attempts(id)
  PROVE  Replaces(RetryFee(id, fee), tx)
PROOF
<1>1. subs[id] \in Seq(Txs)  BY DEF TypeOK, StoreTypeOK
<1>2. PICK i \in DOMAIN subs[id] : tx = subs[id][i]  BY DEF Attempts
<1>3. DOMAIN subs[id] = 1 .. Len(subs[id]) /\ Len(subs[id]) \in Nat
  BY <1>1, LenProperties
<1>4. subs[id] # <<>> /\ Len(subs[id]) \in DOMAIN subs[id]
  BY <1>1, <1>2, <1>3, EmptySeq
<1> DEFINE last == Last(id)
<1>5. last \in Attempts(id) /\ last.tip \in Nat /\ last.cap \in Nat
  BY <1>4, AttemptTyped, LastTyped
<1>6. tx.tip \in Nat /\ tx.cap \in Nat  BY AttemptTyped
<1>7. tx = last \/ Replaces(last, tx)
  BY <1>2, <1>3, <1>4 DEF AttemptsReplace, Last
<1>8. RetryFee(id, fee) = Raise(fee, last)  BY <1>4 DEF RetryFee
<1> HIDE DEF last
<1>9. fee.tip \in Nat /\ fee.cap \in Nat  BY ConstantsTyped DEF FeeRecords
<1>10. /\ Bump(last.tip) \in Nat /\ 10 * Bump(last.tip) >= 11 * last.tip
       /\ Bump(last.cap) \in Nat /\ 10 * Bump(last.cap) >= 11 * last.cap
  BY <1>5, BumpReplaces
<1> DEFINE r == Raise(fee, last)
<1>11. /\ r.tip \in Nat /\ r.tip >= Bump(last.tip)
       /\ r.cap \in Nat /\ r.cap >= Bump(last.cap)
  BY <1>9, <1>10 DEF Raise, MaxInt
<1> HIDE DEF r
<1>12. 10 * r.tip >= 11 * last.tip /\ 10 * r.cap >= 11 * last.cap
  BY <1>5, <1>10, <1>11
<1>13. Replaces(r, tx)  BY <1>5, <1>6, <1>7, <1>11, <1>12 DEF Replaces
<1>14. QED  BY <1>8, <1>13 DEF r

LEMMA AttemptsReplaceKept == ASSUME RInv, [Next]_vars PROVE AttemptsReplace'
PROOF
<1>0. TInv /\ AttemptsReplace /\ subs \in [IDs -> Seq(Txs)]
  BY DEF RInv, SInv, TInv, TypeOK, StoreTypeOK
<1>1. CASE subs' = subs  BY <1>0, <1>1 DEF AttemptsReplace
<1>2. CASE /\ AppendAttempt
           /\ op.id \in IDs /\ Recorded(op.id) /\ OpTx \in Txs
           /\ subs' = [subs EXCEPT ![op.id] = Append(@, OpTx)]
  <2> SUFFICES ASSUME NEW id \in IDs,
                      NEW i \in DOMAIN subs'[id], NEW j \in DOMAIN subs'[id], i < j
               PROVE  Replaces(subs'[id][j], subs'[id][i])
    BY DEF AttemptsReplace
  <2>1. CASE id # op.id
    <3>1. subs'[id] = subs[id]  BY <1>0, <1>2, <2>1
    <3>2. QED  BY <1>0, <3>1 DEF AttemptsReplace
  <2>2. CASE id = op.id
    <3> DEFINE s == subs[id]
               t == Append(s, OpTx)
    <3>1. s \in Seq(Txs) /\ subs'[id] = t  BY <1>0, <1>2, <2>2
    <3>2. \A k \in DOMAIN s : s[k] \in Attempts(op.id)  BY <2>2 DEF Attempts
    <3>3. \A k, l \in DOMAIN s : k < l => Replaces(s[l], s[k])
      BY <1>0 DEF AttemptsReplace
    <3> HIDE DEF s
    <3>4. /\ Len(s) \in Nat /\ DOMAIN s = 1 .. Len(s)
          /\ DOMAIN t = 1 .. Len(s) + 1
          /\ \A k \in 1 .. Len(s) : t[k] = s[k]
          /\ t[Len(s) + 1] = OpTx
      BY <1>2, <3>1, AppendProperties, LenProperties
    <3> HIDE DEF t
    <3>5. OpTx.tip = op.fee.tip /\ OpTx.cap = op.fee.cap  BY DEF OpTx, Sign
    <3>6. i \in 1 .. Len(s) + 1 /\ j \in 1 .. Len(s) + 1 /\ i < j /\ i \in 1 .. Len(s)
      BY <3>1, <3>4
    <3>7. t[i] = s[i]  BY <3>4, <3>6
    <3>8. CASE j = Len(s) + 1
      <4>1. Replaces(op.fee, s[i])
        BY <1>2, <3>2, <3>4, <3>6 DEF RInv, Raised, AppendAttempt
      <4>2. Replaces(OpTx, s[i])  BY <4>1, <3>5 DEF Replaces
      <4>3. QED  BY <3>1, <3>4, <3>7, <3>8, <4>2
    <3>9. CASE j # Len(s) + 1
      <4>1. j \in 1 .. Len(s)  BY <3>4, <3>6, <3>9
      <4>2. t[j] = s[j]  BY <3>4, <4>1
      <4>3. QED  BY <3>1, <3>3, <3>4, <3>6, <3>7, <4>1, <4>2
    <3>10. QED  BY <3>8, <3>9
  <2>3. QED  BY <2>1, <2>2
<1>3. QED  BY <1>0, <1>1, <1>2, SubsStep

LEMMA RaisedKept == ASSUME RInv, [Next]_vars PROVE Raised'
PROOF
<1>0. TypeOK /\ op \in Ops /\ FactsAreTrue /\ Free /\ AttemptsMatch
  BY DEF RInv, SInv, FInv, OInv, TInv, TypeOK
<1> SUFFICES ASSUME pc' = "append"
             PROVE  \A tx \in Attempts(op.id)' : Replaces(op'.fee, tx)
  BY DEF Raised
\* A new intent has no attempts: PutIntent either takes its identifier for the
\* first time, or leaves one whose nonce is already behind the settled head.
<1>1. CASE Record
  <2>1. op'.id = OpID /\ subs' = subs  BY <1>1, NoOpTyped DEF Record, Return, Goto, Ops
  <2>2. OpID \in IDs
    BY <1>0, <1>1, RefillIDs_, ConstantsTyped DEF Record, OpID, Ops, Nonces
  <2>3. ~Recorded(OpID)
    <3> SUFFICES ASSUME Recorded(OpID) PROVE FALSE
      OBVIOUS
    <3>1. intents[OpID].nonce = op.at /\ op.at = settled
      BY <1>1 DEF Record, MayPutIntent, SameTerms, OpIntent, NonceAgrees
    <3>2. PendingIDs = {}  BY <1>0, <1>1 DEF Free, Record
    <3>3. facts[OpID].known  BY <2>2, <3>2 DEF PendingIDs
    <3>4. intents[OpID].nonce < settled  BY <1>0, <2>2, <3>3 DEF FactsAreTrue
    <3>5. settled \in Nat  BY <1>0, ConstantsTyped DEF TypeOK, ChainTypeOK
    <3>6. QED  BY <3>1, <3>4, <3>5
  <2>4. Attempts(OpID) = {}  BY <1>0, <2>2, <2>3 DEF AttemptsMatch
  <2>5. Attempts(op.id)' = Attempts(OpID)  BY <2>1 DEF Attempts
  <2>6. QED  BY <2>4, <2>5
<1>2. ASSUME NEW id \in IDs, NEW fee \in Fees, CallSend(id, fee)
      PROVE  \A tx \in Attempts(op.id)' : Replaces(op'.fee, tx)
  <2>1. subs[id] = <<>>  BY <1>2 DEF CallSend, Goto
  <2>2. op'.id = id /\ subs' = subs
    BY <1>2, <2>1, NoOpTyped DEF CallSend, Goto, Ops, storeVars
  <2>3. Attempts(op.id)' = {}  BY <2>1, <2>2 DEF Attempts
  <2>4. QED  BY <2>3
<1>3. ASSUME NEW id \in IDs, NEW fee \in Fees, CallRetry(id, fee)
      PROVE  \A tx \in Attempts(op.id)' : Replaces(op'.fee, tx)
  <2>1. op'.id = id /\ op'.fee = RetryFee(id, fee) /\ subs' = subs
    BY <1>3, NoOpTyped DEF CallRetry, Goto, Ops, storeVars
  <2>2. Attempts(op.id)' = Attempts(id)  BY <2>1 DEF Attempts
  <2>3. QED  BY <1>0, <2>1, <2>2, RaiseReplaces DEF RInv
<1>4. CASE subs' = subs /\ op' = op /\ pc = "append"
  BY <1>4 DEF RInv, Raised, Attempts
<1>5. CASE Call
  BY <1>2, <1>3, <1>4, <1>5 DEF Call, CallPrepare, CallWithdrawAll, CallRefill,
     CallReconcile, CallStatus, StartReconcile, Goto, railVars
<1>6. CASE Step /\ ~Record
  BY <1>6 DEF Step, FirstFloor, ReconcileNonce, ReconcileDone, SettleOne, SettleDone,
     DecidePrepare, DecideWithdrawAll, DecideRefill, ReadNonce, AppendAttempt,
     Broadcast, Return, Goto
<1>7. CASE Stop  BY <1>7 DEF Stop, Return, Goto
<1>8. CASE Network \/ UNCHANGED vars
  BY <1>4, <1>8 DEF Network, vars, railVars, storeVars
<1>9. QED  BY <1>1, <1>5, <1>6, <1>7, <1>8 DEF Next

\* Every attempt may replace all before it at any node, over any number of
\* retries and whatever fees the node suggests (rail.go Retry, bump).  It needs
\* true facts: an identifier whose intent is wrongly taken for settled could be
\* signed again by WithdrawAll, at fees of the moment.
THEOREM EachReplaces == Endpoints = {"right"} /\ Spec => []AttemptsReplace
PROOF
<1> SUFFICES ASSUME Endpoints = {"right"} PROVE Spec => []AttemptsReplace
  OBVIOUS
<1>1. RInv /\ [Next]_vars => RInv'
  <2> SUFFICES ASSUME RInv, [Next]_vars PROVE RInv'
    OBVIOUS
  <2>1. SInv' /\ FInv'  BY NextSInv, NextFInv DEF RInv
  <2>2. QED  BY <2>1, AttemptsReplaceKept, RaisedKept DEF RInv
<1>2. RInv => AttemptsReplace  BY DEF RInv
<1>3. QED  BY <1>1, <1>2, InitRInv, PTL DEF Spec

----------------------------------------------------------------------------
(* The nonce floor                                                         *)

\* What reconciliation has passed since the floor is explained: an intent owns
\* it, and its fact names one of that intent's attempts.
Explained(n) ==
  \E id \in IDs : Owns(id, n) /\ facts[id].known /\ facts[id].tx \in Attempts(id)
Passed ==
  pc = "reconcile" /\ floor # NoFloor => \A n \in floor .. op.at - 1 : Explained(n)
FactNamed ==
  \A id \in IDs : facts[id].known => facts[id].tx = NoTx \/ facts[id].tx \in Attempts(id)
LInv == TInv /\ FactNamed /\ Passed

LEMMA InitLInv == Init => LInv
PROOF
<1> SUFFICES ASSUME Init PROVE LInv
  OBVIOUS
<1>1. \A id \in IDs : ~facts[id].known  BY DEF Init, StoreInit, NoFact
<1>2. pc = "idle"  BY DEF Init
<1>3. QED  BY <1>1, <1>2, InitTInv DEF LInv, FactNamed, Passed

LEMMA OutcomeNamed ==
  ASSUME NEW id \in IDs
  PROVE  Outcome(id).tx = NoTx \/ Outcome(id).tx \in Attempts(id)
PROOF
  BY DEF Outcome

LEMMA FactNamedKept == ASSUME LInv, [Next]_vars PROVE FactNamed'
PROOF
<1>0. TInv /\ FactNamed  BY DEF LInv
<1> SUFFICES ASSUME NEW id \in IDs, facts'[id].known
             PROVE  facts'[id].tx = NoTx \/ facts'[id].tx \in Attempts(id)'
  BY DEF FactNamed
<1>1. Attempts(id) \subseteq Attempts(id)'  BY <1>0, AttemptsStep
<1>2. CASE facts[id].known
  BY <1>0, <1>1, <1>2, KnownStays DEF FactNamed
<1>3. CASE ~facts[id].known
  <2>1. facts'[id] = Outcome(id)
    BY <1>0, <1>3, FactsStep DEF TInv, TypeOK, StoreTypeOK
  <2>2. QED  BY <1>1, <2>1, OutcomeNamed
<1>4. QED  BY <1>2, <1>3

LEMMA ExplainedStays ==
  ASSUME TInv, [Next]_vars, NEW n, Explained(n)
  PROVE  \E id \in IDs : /\ intents'[id] # NoIntent /\ intents'[id].nonce = n
                         /\ facts'[id].known /\ facts'[id].tx \in Attempts(id)'
PROOF
<1>1. PICK id \in IDs : Owns(id, n) /\ facts[id].known /\ facts[id].tx \in Attempts(id)
  BY DEF Explained
<1>2. intents'[id] = intents[id] /\ Recorded(id)'
  BY <1>1, RecordedStays DEF Owns
<1>3. facts'[id] = facts[id] /\ Attempts(id) \subseteq Attempts(id)'
  BY <1>1, KnownStays, AttemptsStep
<1>4. QED  BY <1>1, <1>2, <1>3 DEF Owns, Recorded

LEMMA PassedKept == ASSUME LInv, [Next]_vars PROVE Passed'
PROOF
<1>0. TInv /\ FactNamed /\ Passed /\ op \in Ops /\ floor \in {NoFloor} \cup 0 .. MaxNonce + 1
  BY DEF LInv, TInv, TypeOK, StoreTypeOK
<1> SUFFICES ASSUME pc' = "reconcile", floor' # NoFloor, NEW n \in floor' .. op'.at - 1
             PROVE  \E id \in IDs :
                      /\ intents'[id] # NoIntent /\ intents'[id].nonce = n
                      /\ facts'[id].known /\ facts'[id].tx \in Attempts(id)'
  BY DEF Passed, Explained, Owns, Recorded
\* An operation that starts has passed nothing.
<1>1. ASSUME NEW o \in Ops, StartReconcile(o), floor' = floor PROVE FALSE
  <2>1. op'.at = MaxInt(floor, 0)  BY <1>1 DEF StartReconcile, Goto, Ops
  <2>2. op'.at = floor /\ floor \in Nat
    BY <1>0, <1>1, <2>1, ConstantsTyped DEF MaxInt, NoFloor
  <2>3. QED  BY <1>1, <2>2
<1>2. CASE pc = "reconcile" /\ floor' = floor /\ op'.at = op.at
  <2>1. Explained(n)  BY <1>0, <1>2 DEF Passed
  <2>2. QED  BY <1>0, <2>1, ExplainedStays
<1>3. ASSUME NEW id \in IDs, ReconcileNonce(id)
      PROVE  \E x \in IDs :
               /\ intents'[x] # NoIntent /\ intents'[x].nonce = n
               /\ facts'[x].known /\ facts'[x].tx \in Attempts(x)'
  <2> DEFINE fact == IF facts[id].known THEN facts[id] ELSE Outcome(id)
  <2>1. ~Unexplained(fact) /\ op'.at = op.at + 1 /\ pc = "reconcile" /\ floor # NoFloor
    BY <1>0, <1>3 DEF ReconcileNonce, Return, Goto, Ops
  <2>2. facts'[id] = fact /\ fact.known
    BY <1>0, <1>3 DEF ReconcileNonce, PutFact, TInv, TypeOK, StoreTypeOK, Outcome
  <2>3. fact.tx \in Attempts(id)
    BY <1>0, <2>1, OutcomeNamed DEF Unexplained, FactNamed
  <2> HIDE DEF fact
  <2>4. /\ floor' = floor /\ intents' = intents /\ Owns(id, op.at)
        /\ Attempts(id)' = Attempts(id)
    BY <1>3 DEF ReconcileNonce, Attempts
  <2>5. CASE n = op.at
    BY <2>2, <2>3, <2>4, <2>5 DEF Owns, Recorded
  <2>6. CASE n # op.at
    <3>1. floor \in Nat /\ op.at \in Nat
      BY <1>0, <2>1, ConstantsTyped DEF Ops
    <3>2. n \in floor .. op.at - 1  BY <2>1, <2>4, <2>6, <3>1
    <3>3. Explained(n)  BY <1>0, <2>1, <3>2 DEF Passed
    <3>4. QED  BY <1>0, <3>3, ExplainedStays
  <2>7. QED  BY <2>5, <2>6
<1>4. CASE Call
  <2>1. ASSUME NEW id \in CallerIDs, NEW r \in Requests, CallPrepare(id, r) PROVE FALSE
    <3> DEFINE o == [NoOp EXCEPT !.verb = "prepare", !.id = id, !.kind = r.kind,
                                 !.to = r.to, !.amount = r.amount]
    <3>1. o \in Ops  BY NoOpTyped, ConstantsTyped DEF Ops, Verbs, Kinds, IDs
    <3>2. StartReconcile(o) /\ floor' = floor  BY <2>1 DEF CallPrepare, storeVars
    <3> HIDE DEF o
    <3>3. QED  BY <1>1, <3>1, <3>2
  <2>2. ASSUME NEW id \in CallerIDs, NEW to \in Places, CallWithdrawAll(id, to) PROVE FALSE
    <3> DEFINE o == [NoOp EXCEPT !.verb = "withdrawAll", !.id = id,
                                 !.kind = "withdraw", !.to = to]
    <3>1. o \in Ops  BY NoOpTyped DEF Ops, Verbs, Kinds, IDs
    <3>2. StartReconcile(o) /\ floor' = floor  BY <2>2 DEF CallWithdrawAll, storeVars
    <3> HIDE DEF o
    <3>3. QED  BY <1>1, <3>1, <3>2
  <2>3. ASSUME NEW reserve \in {0} \cup {r.amount : r \in Requests}, CallRefill(reserve)
        PROVE  FALSE
    <3> DEFINE o == [NoOp EXCEPT !.verb = "refill", !.kind = "refill", !.amount = reserve]
    <3>1. reserve \in Nat  BY ConstantsTyped
    <3>2. o \in Ops  BY <3>1, NoOpTyped DEF Ops, Verbs, Kinds
    <3>3. StartReconcile(o) /\ floor' = floor  BY <2>3 DEF CallRefill, storeVars
    <3> HIDE DEF o
    <3>4. QED  BY <1>1, <3>2, <3>3
  <2>4. CASE CallReconcile
    <3> DEFINE o == [NoOp EXCEPT !.verb = "reconcile"]
    <3>1. o \in Ops  BY NoOpTyped DEF Ops, Verbs
    <3>2. StartReconcile(o) /\ floor' = floor  BY <2>4 DEF CallReconcile, storeVars
    <3> HIDE DEF o
    <3>3. QED  BY <1>1, <3>1, <3>2
  <2>5. ASSUME NEW id \in IDs, NEW fee \in Fees,
               CallSend(id, fee) \/ CallRetry(id, fee) \/ CallStatus(id)
        PROVE  FALSE
    BY <2>5 DEF CallSend, CallRetry, CallStatus, Goto, railVars
  <2>6. QED
    <3>1. \A id \in IDs : CallStatus(id) => pc' = "idle"
      BY DEF CallStatus, railVars
    <3>2. QED  BY <1>4, <2>1, <2>2, <2>3, <2>4, <2>5, <3>1 DEF Call
<1>5. CASE Step
  <2>1. \E id \in IDs : ReconcileNonce(id)
    BY <1>5 DEF Step, FirstFloor, ReconcileDone, SettleOne, SettleDone, DecidePrepare,
       DecideWithdrawAll, DecideRefill, ReadNonce, Record, AppendAttempt, Broadcast,
       Return, Goto
  <2>2. QED  BY <1>3, <2>1
<1>6. CASE Stop  BY <1>6 DEF Stop, Return, Goto
<1>7. CASE Network \/ UNCHANGED vars
  BY <1>2, <1>7 DEF Network, vars, railVars, storeVars
<1>8. QED  BY <1>4, <1>5, <1>6, <1>7 DEF Next

\* The floor moves only past nonces the records explain, whatever chain the
\* process was pointed at (status.go reconcile).
THEOREM FloorExplained == Spec => FloorStep
PROOF
<1> DEFINE Explains ==
      floor # NoFloor =>
        /\ floor' >= floor
        /\ \A n \in floor .. floor' - 1 :
             \E id \in IDs : Owns(id, n) /\ facts'[id].tx \in Attempts(id)
<1>1. LInv /\ [Next]_vars => [Explains]_vars
  <2> SUFFICES ASSUME LInv, [Next]_vars, floor # NoFloor
               PROVE  /\ floor' >= floor
                      /\ \A n \in floor .. floor' - 1 :
                           \E id \in IDs : Owns(id, n) /\ facts'[id].tx \in Attempts(id)
    OBVIOUS
  <2>0. /\ TInv /\ Passed /\ floor \in Nat
        /\ op.at \in Nat /\ op.upto \in Nat
    BY ConstantsTyped DEF LInv, TInv, TypeOK, StoreTypeOK, Ops
  <2>1. CASE floor' = floor
    BY <2>0, <2>1
  <2>2. CASE ReconcileDone
    <3>1. floor' = MaxInt(MaxInt(floor, 0), op.upto) /\ op.at >= op.upto
          /\ pc = "reconcile" /\ facts' = facts
      BY <2>2 DEF ReconcileDone, PutNonceFloor
    <3>2. floor' \in Nat /\ floor' >= floor /\ (floor' = floor \/ floor' <= op.at)
      BY <2>0, <3>1 DEF MaxInt
    <3>3. \A n \in floor .. floor' - 1 : n \in floor .. op.at - 1
      <4> DEFINE m == floor
                 k == op.at
                 l == floor'
      <4>1. m \in Nat /\ k \in Nat /\ l \in Nat /\ (l = m \/ l <= k)
        BY <2>0, <3>2
      <4> HIDE DEF m, k, l
      <4>2. \A n \in m .. l - 1 : n \in m .. k - 1  BY <4>1
      <4>3. QED  BY <4>2 DEF m, k, l
    <3>4. \A n \in floor .. floor' - 1 : Explained(n)
      BY <2>0, <3>1, <3>3 DEF Passed
    <3>5. QED  BY <3>1, <3>2, <3>4 DEF Explained
  <2>3. floor' = floor \/ ReconcileDone
    <3>1. CASE Call
      BY <3>1 DEF Call, CallPrepare, CallWithdrawAll, CallRefill, CallReconcile, CallSend,
         CallRetry, CallStatus, storeVars
    <3>2. CASE Step
      BY <3>2 DEF Step, FirstFloor, ReconcileNonce, SettleOne, SettleDone, DecidePrepare,
         DecideWithdrawAll, DecideRefill, ReadNonce, Record, AppendAttempt, Broadcast,
         storeVars
    <3>3. CASE Stop \/ Network \/ UNCHANGED vars
      BY <3>3 DEF Stop, Network, vars, storeVars
    <3>4. QED  BY <3>1, <3>2, <3>3 DEF Next
  <2>4. QED  BY <2>1, <2>2, <2>3
<1>2. LInv /\ [Next]_vars => LInv'
  <2> SUFFICES ASSUME LInv, [Next]_vars PROVE LInv'
    OBVIOUS
  <2>1. TInv'  BY NextTInv DEF LInv
  <2>2. QED  BY <2>1, FactNamedKept, PassedKept DEF LInv
<1>3. QED  BY InitLInv, <1>1, <1>2, PTL DEF Spec, FloorStep
=============================================================================
