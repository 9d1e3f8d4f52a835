-------------------------- MODULE RefinementProofs --------------------------
(***************************************************************************)
(* With one endpoint, of the right chain, Rail implements Payments, for    *)
(* any number of identifiers, nonces and attempts, with or without another *)
(* signer on the key.                                                      *)
(***************************************************************************)
EXTENDS RailRefinement, RailProofs

AbsTruth == [id \in IDs |-> Truth(id)]
AbsTold == [id \in IDs |-> Told(id)]
BothInv == SInv /\ FInv

----------------------------------------------------------------------------
(* What a step leaves of the truth                                         *)

\* The settled head moves alone.
LEMMA HeadStep ==
  ASSUME TInv, [Next]_vars
  PROVE  settled' = settled \/ UNCHANGED <<winner, storeVars>>
PROOF
<1>1. CASE Call
  BY <1>1 DEF Call, CallPrepare, CallWithdrawAll, CallRefill, CallReconcile, CallSend,
     CallRetry, CallStatus, chainVars
<1>2. CASE Step
  BY <1>2 DEF Step, FirstFloor, ReconcileNonce, ReconcileDone, SettleOne, SettleDone,
     DecidePrepare, DecideWithdrawAll, DecideRefill, ReadNonce, Record, AppendAttempt,
     Broadcast, chainVars
<1>3. CASE Network
  BY <1>3 DEF Network, ChainNext, Mine, ForeignMine, Include, Settle, Reorg, Deposit, TopUp
<1>4. CASE Stop \/ UNCHANGED vars  BY <1>4 DEF Stop, vars, chainVars
<1>5. QED  BY <1>1, <1>2, <1>3, <1>4 DEF Next

\* A new attempt is never what was mined at its nonce already: that one is on
\* the wire, so on record, so among this intent's attempts.
LEMMA WinnerNotNew ==
  ASSUME SInv, [Next]_vars, NEW id \in IDs, Recorded(id)
  PROVE  LET won == winner[intents[id].nonce].tx
         IN  won \in Attempts(id)' <=> won \in Attempts(id)
PROOF
<1> DEFINE n == intents[id].nonce
           won == winner[n].tx
<1>0. TInv /\ TypeOK  BY DEF SInv, TInv
<1>1. n \in Nonces  BY <1>0, RecordedTyped DEF Intents
<1> HIDE DEF n
<1>2. CASE Attempts(id)' = Attempts(id)  BY <1>2 DEF n
<1>3. CASE /\ AppendAttempt /\ id = op.id /\ Recorded(id)
           /\ Attempts(id)' = Attempts(id) \cup {OpTx}
  <2>1. SUFFICES ASSUME won = OpTx PROVE won \in Attempts(id)
    BY <1>3 DEF n
  <2>2. OpTx \in Txs
    BY <1>0, <1>3, OpTxTyped DEF AppendAttempt
  <2>3. won \in wire /\ won.nonce = n
    BY <1>1, <2>1, <2>2 DEF SInv, WinnersWired
  <2>4. PICK other \in IDs : won \in Attempts(other)
    BY <2>3 DEF SInv, WireRecorded
  <2>5. Recorded(other) /\ won.nonce = intents[other].nonce
    BY <2>4 DEF SInv, AttemptsMatch, Sign
  <2>6. other = id  BY <2>3, <2>5 DEF SInv, OwnNonces, n
  <2>7. QED  BY <2>4, <2>6
<1>4. QED  BY <1>0, <1>2, <1>3, AttemptsStep

\* The truth about a recorded intent is final once settled, and changes only
\* by the settled head passing its nonce.
LEMMA TruthStays ==
  ASSUME SInv, [Next]_vars, NEW id \in IDs, Recorded(id),
         (intents[id].nonce < settled <=> intents[id].nonce < settled')
  PROVE  Truth(id)' = Truth(id)
PROOF
<1> DEFINE n == intents[id].nonce
<1>0. TInv /\ TypeOK  BY DEF SInv, TInv
<1>1. n \in Nonces /\ n \in Nat
  BY <1>0, RecordedTyped, ConstantsTyped DEF Intents, Nonces
<1>2. intents'[id] = intents[id] /\ Recorded(id)'  BY <1>0, RecordedStays
<1>3. settled \in Nat /\ settled' \in Nat
  BY <1>0, SettledStays, ConstantsTyped DEF TypeOK, ChainTypeOK
<1>4. CASE n >= settled  BY <1>1, <1>2, <1>3, <1>4 DEF Truth
<1>5. CASE n < settled
  <2>1. winner'[n] = winner[n]  BY <1>0, <1>1, <1>5, SettledWinner
  <2>2. winner[n].tx \in Attempts(id)' <=> winner[n].tx \in Attempts(id)
    BY WinnerNotNew
  <2>3. n < settled'  BY <1>5
  <2>4. Truth(id) = IF winner[n].tx \in Attempts(id) /\ winner[n].result = "executed"
                    THEN "executed" ELSE "failed"
    BY <1>1, <1>3, <1>5 DEF Truth
  <2>5. Truth(id)' = IF winner[n].tx \in Attempts(id)' /\ winner[n].result = "executed"
                     THEN "executed" ELSE "failed"
    BY <1>1, <1>2, <1>3, <2>1, <2>3 DEF Truth
  <2>6. QED  BY <2>2, <2>4, <2>5
<1>6. QED  BY <1>1, <1>3, <1>4, <1>5

\* While the settled head stands still, so does the truth about all of them.
LEMMA TruthStandsStill ==
  ASSUME SInv, [Next]_vars, settled' = settled, NEW id \in IDs,
         Recorded(id) \/ ~Recorded(id)'
  PROVE  Truth(id)' = Truth(id)
PROOF
<1>1. CASE Recorded(id)  BY <1>1, TruthStays
<1>2. CASE ~Recorded(id)  BY <1>2 DEF Truth
<1>3. QED  BY <1>1, <1>2

----------------------------------------------------------------------------
(* Every step of the rail is a step of Payments or none                    *)

LEMMA RecordAccepts ==
  ASSUME BothInv, [Next]_vars, intents' # intents
  PROVE  P!Next
PROOF
<1>0. SInv /\ FInv /\ TInv /\ TypeOK /\ FactsAreTrue /\ Free
  BY DEF BothInv, FInv, OInv, TInv
<1>1. /\ Record
      /\ op.at \in Nonces /\ op.at = settled
      /\ OpID \in IDs /\ ~Recorded(OpID) /\ OpIntent \in Intents
      /\ intents' = [intents EXCEPT ![OpID] = OpIntent]
  BY <1>0, IntentsStep
<1>2. PICK new \in IDs : new = OpID  BY <1>1
<1>3. settled' = settled /\ facts' = facts /\ pc = "record"
  BY <1>1 DEF Record, chainVars
<1>4. intents'[new] = OpIntent /\ OpIntent.nonce = settled
  BY <1>0, <1>1, <1>2 DEF TypeOK, StoreTypeOK, OpIntent
<1>5. \A id \in IDs : id # new => intents'[id] = intents[id]
  BY <1>0, <1>1, <1>2 DEF TypeOK, StoreTypeOK
<1>6. Recorded(new)'
  <2>1. NoIntent \notin Intents  BY NoneIsNoKind DEF NoIntent, Intents
  <2>2. QED  BY <1>1, <1>4, <1>2, <2>1 DEF Recorded
<1>7. settled \in Nat  BY <1>0, ConstantsTyped DEF TypeOK, ChainTypeOK
<1>8. Truth(new) = "none" /\ Truth(new)' = "open"
  BY <1>1, <1>3, <1>4, <1>6, <1>7, <1>2 DEF Truth
<1>9. \A id \in IDs : id # new => Truth(id)' = Truth(id)
  BY <1>0, <1>3, <1>5, TruthStandsStill DEF Recorded
<1>10. ~facts[new].known  BY <1>0, <1>1, <1>2 DEF FactsAreTrue
<1>11. Told(new)' = "pending"  BY <1>3, <1>6, <1>10 DEF Told
<1>12. \A id \in IDs : id # new => Told(id)' = Told(id)
  BY <1>3, <1>5 DEF Told, Recorded
<1>13. \A id \in IDs : Told(id) # "pending"
  BY <1>0, <1>3 DEF Free, PendingIDs, Told
<1>14. AbsTruth' = [AbsTruth EXCEPT ![new] = "open"]  BY <1>8, <1>9 DEF AbsTruth
<1>15. AbsTold' = [AbsTold EXCEPT ![new] = "pending"]  BY <1>11, <1>12 DEF AbsTold
<1>16. P!Accept(new)
  BY <1>1, <1>8, <1>13, <1>14, <1>15 DEF P!Accept, AbsTruth, AbsTold
<1>17. QED  BY <1>16 DEF P!Next

LEMMA FactLearns ==
  ASSUME Endpoints = {"right"}, BothInv, [Next]_vars, intents' = intents, facts' # facts
  PROVE  P!Next
PROOF
<1>0. SInv /\ FInv /\ TInv /\ TypeOK /\ FactsAreTrue /\ FactsAreTrue'
  BY FactsAreTrueKept DEF BothInv, FInv, OInv, TInv
<1>1. PICK id \in IDs :
        /\ UNCHANGED <<chainVars, intents, subs>>
        /\ Recorded(id) /\ ~facts[id].known
        /\ facts' = [facts EXCEPT ![id] = Outcome(id)]
  BY <1>0, FactsStep
<1>2. settled' = settled /\ winner' = winner /\ Attempts(id)' = Attempts(id)
  BY <1>1 DEF chainVars, Attempts
<1>3. facts'[id] = Outcome(id) /\ Outcome(id).known = TRUE
      /\ \A other \in IDs : other # id => facts'[other] = facts[other]
  BY <1>0, <1>1 DEF TypeOK, StoreTypeOK, Outcome
<1>4. \A other \in IDs : Truth(other)' = Truth(other)
  BY <1>0, <1>1, <1>2, TruthStandsStill DEF Recorded
<1>5. AbsTruth' = AbsTruth  BY <1>4 DEF AbsTruth
<1>6. Recorded(id)' /\ facts'[id].known  BY <1>1, <1>3 DEF Recorded
<1> DEFINE r == winner[intents[id].nonce]
<1>7. /\ intents[id].nonce < settled
      /\ facts'[id].executed <=> (r.tx \in Attempts(id) /\ r.result = "executed")
  BY <1>0, <1>1, <1>2, <1>6 DEF FactsAreTrue
<1>8. intents[id].nonce \in Nat /\ settled \in Nat
  BY <1>0, <1>1, RecordedTyped, ConstantsTyped
     DEF TypeOK, ChainTypeOK, Intents, Nonces
<1>9. Truth(id) = IF facts'[id].executed THEN "executed" ELSE "failed"
  BY <1>1, <1>7, <1>8 DEF Truth
<1>10. Told(id) = "pending"  BY <1>1 DEF Told
<1>11. Told(id)' = IF Truth(id) = "executed" THEN "confirmed" ELSE "failed"
  BY <1>6, <1>9 DEF Told
<1>12. \A other \in IDs : other # id => Told(other)' = Told(other)
  BY <1>1, <1>3 DEF Told, Recorded
<1>13. AbsTold' = [AbsTold EXCEPT ![id] =
                     IF AbsTruth[id] = "executed" THEN "confirmed" ELSE "failed"]
  BY <1>11, <1>12 DEF AbsTold, AbsTruth
<1>14. P!Learn(id)
  BY <1>5, <1>9, <1>10, <1>13 DEF P!Learn, AbsTruth, AbsTold
<1>15. QED  BY <1>14 DEF P!Next

\* The head passes at most one operation's nonce at a time: only one is open.
LEMMA HeadSettles ==
  ASSUME BothInv, [Next]_vars, intents' = intents, facts' = facts
  PROVE  P!Next \/ UNCHANGED P!vars
PROOF
<1>0. SInv /\ FInv /\ OInv /\ TInv /\ TypeOK /\ NoGap
  BY DEF BothInv, FInv, OInv, TInv
<1>1. settled \in Nat /\ settled' \in Nat /\ settled <= settled'
  BY <1>0, SettledStays, ConstantsTyped DEF TypeOK, ChainTypeOK
<1>2. AbsTold' = AbsTold  BY DEF AbsTold, Told, Recorded
<1>3. \A id \in IDs : Recorded(id)' <=> Recorded(id)  BY DEF Recorded
<1>4. \A id \in IDs : Recorded(id) => intents[id].nonce \in Nat
  BY <1>0, RecordedTyped, ConstantsTyped DEF Intents, Nonces
<1>5. \A id \in IDs : ~Recorded(id) => Truth(id)' = Truth(id)
  BY <1>3 DEF Truth
<1>6. CASE \E id \in IDs : Recorded(id) /\ settled <= intents[id].nonce /\ intents[id].nonce < settled'
  <2>1. PICK id \in IDs : Recorded(id) /\ settled <= intents[id].nonce /\ intents[id].nonce < settled'
    BY <1>6
  <2>2. intents[id].nonce = settled  BY <1>0, <1>1, <1>4, <2>1 DEF NoGap
  <2>3. \A other \in IDs : other # id => Truth(other)' = Truth(other)
    <3> SUFFICES ASSUME NEW other \in IDs, other # id, Recorded(other)
                 PROVE  Truth(other)' = Truth(other)
      BY <1>5
    <3>1. intents[other].nonce # settled /\ intents[other].nonce <= settled
      BY <1>0, <2>1, <2>2 DEF SInv, OwnNonces, NoGap
    <3>2. intents[other].nonce < settled /\ intents[other].nonce < settled'
      BY <1>1, <1>4, <3>1
    <3>3. QED  BY <1>0, <3>2, TruthStays
  <2>4. Truth(id) = "open"  BY <1>1, <2>1, <2>2 DEF Truth
  <2>5. Truth(id)' \in {"executed", "failed"}
    BY <1>1, <1>3, <1>4, <2>1 DEF Truth
  <2>6. AbsTruth' = [AbsTruth EXCEPT ![id] = Truth(id)']  BY <2>3 DEF AbsTruth
  <2>7. P!Settle(id, Truth(id)')
    BY <1>2, <2>4, <2>6 DEF P!Settle, AbsTruth, AbsTold
  <2>8. QED  BY <2>5, <2>7 DEF P!Next
<1>7. CASE ~\E id \in IDs : Recorded(id) /\ settled <= intents[id].nonce /\ intents[id].nonce < settled'
  <2>1. \A id \in IDs : Recorded(id) =>
          (intents[id].nonce < settled <=> intents[id].nonce < settled')
    BY <1>1, <1>4, <1>7
  <2>2. \A id \in IDs : Truth(id)' = Truth(id)
    BY <1>0, <1>5, <2>1, TruthStays
  <2>3. AbsTruth' = AbsTruth  BY <2>2 DEF AbsTruth
  <2>4. QED  BY <1>2, <2>3 DEF P!vars, AbsTruth, AbsTold
<1>8. QED  BY <1>6, <1>7

LEMMA StepImplements ==
  ASSUME Endpoints = {"right"}, BothInv, [Next]_vars
  PROVE  [P!Next]_P!vars
PROOF
<1>1. CASE intents' # intents  BY <1>1, RecordAccepts
<1>2. CASE intents' = intents /\ facts' # facts  BY <1>2, FactLearns
<1>3. CASE intents' = intents /\ facts' = facts  BY <1>3, HeadSettles
<1>4. QED  BY <1>1, <1>2, <1>3

LEMMA InitImplements == Init => P!Init
PROOF
<1> SUFFICES ASSUME Init PROVE P!Init
  OBVIOUS
<1>1. \A id \in IDs : ~Recorded(id)  BY DEF Init, StoreInit, Recorded
<1>2. \A id \in IDs : Truth(id) = "none" /\ Told(id) = "unknown"
  BY <1>1 DEF Truth, Told
<1>3. QED  BY <1>2 DEF P!Init

\* What a host is told of its payments follows what the settled chain says of
\* them: an identifier is taken on at most once and one at a time, settles
\* once, and is then reported as it settled, for ever (status.go Status;
\* README 4).
THEOREM Implements == Endpoints = {"right"} /\ Spec => ImplementsPayments
PROOF
<1> SUFFICES ASSUME Endpoints = {"right"} PROVE Spec => P!Spec
  BY DEF ImplementsPayments
<1>1. Init => BothInv  BY InitSInv, InitFInv DEF BothInv
<1>2. BothInv /\ [Next]_vars => BothInv'  BY NextSInv, NextFInv DEF BothInv
<1>3. BothInv /\ [Next]_vars => [P!Next]_P!vars  BY StepImplements
<1>4. QED  BY <1>1, <1>2, <1>3, InitImplements, PTL DEF Spec, P!Spec
=============================================================================
