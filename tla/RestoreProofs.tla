--------------------------- MODULE RestoreProofs ---------------------------
(***************************************************************************)
(* What survives the restore of a backup, for any number of restores and   *)
(* of everything else, and from any endpoint.                              *)
(***************************************************************************)
EXTENDS Restore, RailProofs, FiniteSetTheorems

Backups == [intents : [IDs -> Intents \cup {NoIntent}], subs : [IDs -> Seq(Txs)],
            facts : [IDs -> Facts \cup {NoFact}], floor : {NoFloor} \cup 0 .. MaxNonce + 1]

\* The attempts a set of records holds under an identifier.
In(R, id, tx) == \E k \in DOMAIN R.subs[id] : R.subs[id][k] = tx

\* Every fact of a set of records that names a transaction names the settled
\* one of its intent, and says executed only if that moved the money.
Truthful(R) ==
  \A id \in IDs :
    /\ R.facts[id].executed => R.facts[id].tx # NoTx
    /\ R.facts[id].tx # NoTx =>
         /\ R.intents[id] \in Intents
         /\ R.intents[id].nonce < settled
         /\ In(R, id, R.facts[id].tx)
         /\ R.facts[id].tx = winner[R.intents[id].nonce].tx
         /\ R.facts[id].executed => winner[R.intents[id].nonce].result = "executed"

MatchedIn(R, n) ==
  /\ n < settled
  /\ \E id \in IDs : R.intents[id] \in Intents /\ R.intents[id].nonce = n
                     /\ In(R, id, winner[n].tx)

\* Its floor has passed only nonces it explains.
Reconciled(R) == \A n \in Nonces : n \in first .. R.floor - 1 => MatchedIn(R, n)

\* The bound of a reconciliation on this chain is at most the settled nonce.
UptoHere == pc = "reconcile" /\ endpoint # "wrong" => op.upto <= settled

\* A floor once set is never lost, in the records or in a backup.
Floored == floor = NoFloor => backup.floor = NoFloor

RestoreInv ==
  /\ LInv /\ UptoHere
  /\ backup \in Backups /\ Floored /\ first \in {NoFloor} \cup Nat
  /\ Truthful(Records) /\ Truthful(backup)
  /\ Reconciled(Records) /\ Reconciled(backup)

LEMMA NoTxIsNone == NoTx \notin Txs /\ ForeignTx \notin Txs /\ ForeignTx # NoTx
PROOF
  BY NoneIsNoKind DEF NoTx, ForeignTx, Txs

LEMMA EmptyRange == \A f \in Int : f .. f - 1 = {}
PROOF
  OBVIOUS

LEMMA RecordsTyped == TypeOK => Records \in Backups
PROOF
  BY DEF TypeOK, StoreTypeOK, Records, Backups

LEMMA RestoreInitInv == RestoreInit => RestoreInv
PROOF
<1> SUFFICES ASSUME RestoreInit PROVE RestoreInv
  OBVIOUS
<1>1. LInv /\ TypeOK  BY InitLInv, InitTyped DEF RestoreInit
<1>2. backup = Records /\ Records \in Backups
  BY <1>1, RecordsTyped DEF RestoreInit
<1>3. \A id \in IDs : Records.facts[id] = NoFact
  BY DEF RestoreInit, Init, StoreInit, Records
<1>4. Truthful(Records)  BY <1>3 DEF Truthful, NoFact
<1>5. Records.floor = NoFloor /\ first = NoFloor /\ floor = NoFloor
  BY DEF RestoreInit, Init, StoreInit, Records
<1>6. Reconciled(Records)  BY <1>5 DEF Reconciled, NoFloor, Nonces
<1>7. pc = "idle"  BY DEF RestoreInit, Init
<1>8. QED  BY <1>1, <1>2, <1>4, <1>5, <1>6, <1>7 DEF RestoreInv, UptoHere, Floored

----------------------------------------------------------------------------
(* A step of the rail or of the chain                                      *)

\* What is settled stays settled, so what was true of it stays true.
LEMMA BackupKept ==
  ASSUME RestoreInv, [Next]_vars, backup' = backup,
         floor = NoFloor \/ first' = first
  PROVE  Truthful(backup)' /\ Reconciled(backup)'
PROOF
<1>0. /\ TInv /\ backup \in Backups /\ settled \in Nat
      /\ Truthful(backup) /\ Reconciled(backup)
      /\ settled' \in Nat /\ settled <= settled'
  BY SettledStays, ConstantsTyped DEF RestoreInv, LInv, TInv, TypeOK, ChainTypeOK
<1>1. \A n \in Nonces : n < settled => winner'[n] = winner[n] /\ n < settled'
  <2>1. \A n \in Nonces : n \in Nat  BY ConstantsTyped DEF Nonces
  <2>2. QED  BY <1>0, <2>1, SettledWinner
<1>2. Truthful(backup)'
  <2> SUFFICES ASSUME NEW id \in IDs
               PROVE  /\ backup'.facts[id].executed => backup'.facts[id].tx # NoTx
                      /\ backup'.facts[id].tx # NoTx =>
                           /\ backup'.intents[id] \in Intents
                           /\ backup'.intents[id].nonce < settled'
                           /\ In(backup', id, backup'.facts[id].tx)
                           /\ backup'.facts[id].tx = winner'[backup'.intents[id].nonce].tx
                           /\ backup'.facts[id].executed =>
                                winner'[backup'.intents[id].nonce].result = "executed"
    BY DEF Truthful, In
  <2>1. backup.intents[id] \in Intents => backup.intents[id].nonce \in Nonces
    BY DEF Intents
  <2>2. QED  BY <1>0, <1>1, <2>1 DEF Truthful
<1>3. Reconciled(backup)'
  <2> SUFFICES ASSUME NEW n \in Nonces, n \in first' .. backup'.floor - 1
               PROVE  /\ n < settled'
                      /\ \E id \in IDs : /\ backup'.intents[id] \in Intents
                                         /\ backup'.intents[id].nonce = n
                                         /\ In(backup', id, winner'[n].tx)
    BY DEF Reconciled, MatchedIn, In
  <2>1. first' = first
    <3>1. CASE floor = NoFloor
      <4>1. backup.floor = NoFloor  BY <3>1 DEF RestoreInv, Floored
      <4>2. n \in Nat  BY ConstantsTyped DEF Nonces
      <4>3. QED  BY <4>1, <4>2 DEF NoFloor
    <3>2. QED  BY <3>1
  <2>2. MatchedIn(backup, n)  BY <1>0, <2>1 DEF Reconciled
  <2>3. QED  BY <1>0, <1>1, <2>2 DEF MatchedIn
<1>4. QED  BY <1>2, <1>3

LEMMA UptoHereKept ==
  ASSUME RestoreInv, [Next]_vars
  PROVE  UptoHere'
PROOF
<1>0. TInv /\ op \in Ops /\ (endpoint # "wrong" => SettledNonce = settled)
  BY DEF RestoreInv, LInv, TInv, TypeOK, SettledNonce
<1>1. settled \in Nat /\ settled' \in Nat /\ settled <= settled'
  BY <1>0, SettledStays, ConstantsTyped DEF TInv, TypeOK, ChainTypeOK
<1> SUFFICES ASSUME pc' = "reconcile", endpoint' # "wrong" PROVE op'.upto <= settled'
  BY DEF UptoHere
<1>2. /\ endpoint' = endpoint
      /\ op'.upto = SettledNonce \/ (pc = "reconcile" /\ op'.upto = op.upto)
  <2>1. CASE Call
    BY <1>0, <2>1 DEF Call, CallPrepare, CallWithdrawAll, CallRefill, CallReconcile,
       CallSend, CallRetry, CallStatus, StartReconcile, Goto, NoOp, railVars
  <2>2. CASE Step
    BY <1>0, <2>2 DEF Step, FirstFloor, ReconcileNonce, ReconcileDone, SettleOne,
       SettleDone, DecidePrepare, DecideWithdrawAll, DecideRefill, ReadNonce, Record,
       AppendAttempt, Broadcast, Return, Goto, Ops
  <2>3. CASE Stop  BY <2>3 DEF Stop, Return, Goto
  <2>4. CASE Network \/ UNCHANGED vars  BY <2>4 DEF Network, vars, railVars
  <2>5. QED  BY <2>1, <2>2, <2>3, <2>4 DEF Next
<1>3. op.upto \in Nat  BY <1>0, ConstantsTyped DEF Ops
<1>4. QED  BY <1>0, <1>1, <1>2, <1>3 DEF RestoreInv, UptoHere

\* A fact that names a transaction is written only where the receipt is seen,
\* and that is on this chain and at a settled nonce.
LEMMA OutcomeTruthful ==
  ASSUME RestoreInv, NEW id \in IDs, Recorded(id),
         \/ intents[id].nonce < SettledNonce
         \/ pc = "reconcile" /\ intents[id].nonce < op.upto
  PROVE  LET r == winner[intents[id].nonce] IN
         /\ Outcome(id).executed => Outcome(id).tx # NoTx
         /\ Outcome(id).tx # NoTx =>
              /\ intents[id].nonce < settled
              /\ Outcome(id).tx \in Attempts(id)
              /\ Outcome(id).tx = r.tx
              /\ Outcome(id).executed => r.result = "executed"
PROOF
<1> DEFINE r == winner[intents[id].nonce]
           e == r.result = "executed"
<1>1. CASE endpoint = "right" /\ r.tx \in Attempts(id)
  <2>1. r.tx # NoTx
    <3>1. Attempts(id) \subseteq Txs
      BY ElementOfSeq DEF RestoreInv, LInv, TInv, TypeOK, StoreTypeOK, Attempts
    <3>2. QED  BY <1>1, <3>1, NoTxIsNone
  <2>2. intents[id].nonce < settled
    <3>1. /\ intents[id].nonce \in Nat /\ op.upto \in Nat /\ settled \in Nat
          /\ SettledNonce = settled
      BY <1>1, RecordedTyped, ConstantsTyped
         DEF RestoreInv, LInv, TInv, TypeOK, ChainTypeOK, Intents, Nonces, Ops, SettledNonce
    <3>2. QED  BY <1>1, <3>1 DEF RestoreInv, UptoHere
  <2>3. Outcome(id) = [known |-> TRUE, tx |-> r.tx, executed |-> e]
    BY <1>1 DEF Outcome
  <2>4. e \in BOOLEAN  OBVIOUS
  <2> HIDE DEF e
  <2>5. Outcome(id).tx = r.tx /\ (Outcome(id).executed <=> e)  BY <2>3, <2>4
  <2>6. Outcome(id).executed => r.result = "executed"  BY <2>5, Zenon DEF e
  <2>7. QED  BY <1>1, <2>1, <2>2, <2>5, <2>6
<1>2. CASE ~(endpoint = "right" /\ r.tx \in Attempts(id))
  <2>1. Outcome(id) = [known |-> TRUE, tx |-> NoTx, executed |-> FALSE]
    BY <1>2 DEF Outcome
  <2>2. QED  BY <2>1
<1>3. QED  BY <1>1, <1>2

LEMMA RecordsKept ==
  ASSUME RestoreInv, [Next]_vars
  PROVE  Truthful(Records)'
PROOF
<1>0. /\ TInv /\ TInv' /\ settled \in Nat /\ settled' \in Nat /\ settled <= settled'
      /\ Truthful(Records)
  BY SettledStays, NextTInv, ConstantsTyped DEF RestoreInv, LInv, TInv, TypeOK, ChainTypeOK
<1> SUFFICES ASSUME NEW id \in IDs
             PROVE  /\ facts'[id].executed => facts'[id].tx # NoTx
                    /\ facts'[id].tx # NoTx =>
                         /\ intents'[id] \in Intents
                         /\ intents'[id].nonce < settled'
                         /\ facts'[id].tx \in Attempts(id)'
                         /\ facts'[id].tx = winner'[intents'[id].nonce].tx
                         /\ facts'[id].executed =>
                              winner'[intents'[id].nonce].result = "executed"
  BY DEF Truthful, In, Records, Attempts
<1>1. CASE facts'[id] = facts[id]
  <2>1. facts[id].executed => facts[id].tx # NoTx
    BY <1>0 DEF Truthful, Records
  <2>2. SUFFICES ASSUME facts[id].tx # NoTx
                 PROVE  /\ intents'[id] \in Intents
                        /\ intents'[id].nonce < settled'
                        /\ facts[id].tx \in Attempts(id)'
                        /\ facts[id].tx = winner'[intents'[id].nonce].tx
                        /\ facts[id].executed =>
                             winner'[intents'[id].nonce].result = "executed"
    BY <1>1, <2>1
  <2>3. /\ intents[id] \in Intents /\ intents[id].nonce < settled
        /\ facts[id].tx \in Attempts(id) /\ facts[id].tx = winner[intents[id].nonce].tx
        /\ facts[id].executed => winner[intents[id].nonce].result = "executed"
    BY <1>0, <2>2 DEF Truthful, Records, In, Attempts
  <2>4. intents'[id] = intents[id]
    BY <1>0, <2>3, RecordedStays, RecordedTyped DEF TInv
  <2>5. intents[id].nonce \in Nonces /\ intents[id].nonce \in Nat
    BY <2>3, ConstantsTyped DEF Intents, Nonces
  <2>6. winner'[intents[id].nonce] = winner[intents[id].nonce]
    BY <1>0, <2>3, <2>5, SettledWinner
  <2>7. intents[id].nonce < settled'  BY <1>0, <2>3, <2>5
  <2>8. facts[id].tx \in Attempts(id)'  BY <1>0, <2>3, AttemptsStep
  <2>9. QED  BY <2>3, <2>4, <2>6, <2>7, <2>8
<1>2. CASE facts'[id] # facts[id]
  <2>1. /\ UNCHANGED <<chainVars, intents, subs>>
        /\ Recorded(id) /\ facts'[id] = Outcome(id)
        /\ \/ intents[id].nonce < SettledNonce
           \/ pc = "reconcile" /\ intents[id].nonce < op.upto
    BY <1>0, <1>2, FactsStep DEF TInv, TypeOK, StoreTypeOK
  <2>2. /\ winner' = winner /\ settled' = settled /\ intents' = intents
        /\ Attempts(id)' = Attempts(id) /\ intents[id] \in Intents
    BY <1>0, <2>1, RecordedTyped DEF chainVars, Attempts, TInv
  <2>3. QED  BY <2>1, <2>2, OutcomeTruthful
<1>3. QED  BY <1>1, <1>2

\* Only the first reconciliation and the end of a later one write the floor.
LEMMA FloorWritten ==
  ASSUME TInv, [Next]_vars
  PROVE  /\ floor' = floor \/ FirstFloor \/ ReconcileDone
         /\ floor # NoFloor => floor' \in Nat
         /\ floor' \in {NoFloor} \cup Nat
PROOF
<1>1. floor' = floor \/ FirstFloor \/ ReconcileDone
  <2>1. CASE Call
    BY <2>1 DEF Call, CallPrepare, CallWithdrawAll, CallRefill, CallReconcile, CallSend,
       CallRetry, CallStatus, storeVars
  <2>2. CASE Step
    BY <2>2 DEF Step, ReconcileNonce, SettleOne, SettleDone, DecidePrepare,
       DecideWithdrawAll, DecideRefill, ReadNonce, Record, AppendAttempt, Broadcast,
       storeVars
  <2>3. CASE Stop \/ Network \/ UNCHANGED vars  BY <2>3 DEF Stop, Network, vars, storeVars
  <2>4. QED  BY <2>1, <2>2, <2>3 DEF Next
<1>2. floor \in {NoFloor} \cup Nat /\ op.upto \in Nat
  BY ConstantsTyped DEF TInv, TypeOK, StoreTypeOK, Ops
<1>3. FirstFloor \/ ReconcileDone => floor' \in Nat
  BY <1>2 DEF FirstFloor, ReconcileDone, PutNonceFloor, MaxInt, NoFloor
<1>4. QED  BY <1>1, <1>2, <1>3

\* What reconciliation passed is matched: an intent owns each nonce, and the
\* fact it was judged by is truthful.
LEMMA ReconciledKept ==
  ASSUME RestoreInv, [Next]_vars,
         first' = IF floor = NoFloor THEN floor' ELSE first
  PROVE  Reconciled(Records)'
PROOF
<1>0. /\ TInv /\ TInv' /\ settled \in Nat /\ settled' \in Nat /\ settled <= settled'
      /\ Truthful(Records) /\ Reconciled(Records) /\ Passed
      /\ floor \in {NoFloor} \cup Nat /\ first \in {NoFloor} \cup Nat
      /\ op.at \in Nat /\ op.upto \in Nat
  <2>1. /\ TInv /\ Truthful(Records) /\ Reconciled(Records) /\ Passed
        /\ first \in {NoFloor} \cup Nat
    BY DEF RestoreInv, LInv
  <2>2. TInv' /\ settled' \in Nat /\ settled <= settled'
    BY <2>1, SettledStays, NextTInv
  <2>3. /\ settled \in Nat /\ floor \in {NoFloor} \cup Nat
        /\ op.at \in Nat /\ op.upto \in Nat
    BY <2>1, ConstantsTyped DEF TInv, TypeOK, ChainTypeOK, StoreTypeOK, Ops
  <2>4. QED  BY <2>1, <2>2, <2>3
<1> SUFFICES ASSUME NEW n \in Nonces, n \in first' .. floor' - 1
             PROVE  /\ n < settled'
                    /\ \E id \in IDs : /\ intents'[id] \in Intents /\ intents'[id].nonce = n
                                       /\ winner'[n].tx \in Attempts(id)'
  BY DEF Reconciled, MatchedIn, In, Records, Attempts
<1>1. n \in Nat /\ floor # NoFloor /\ first' = first /\ floor' \in Nat
  <2>1. n \in Nat  BY ConstantsTyped DEF Nonces
  <2>2. floor' \in {NoFloor} \cup Nat  BY <1>0, FloorWritten
  <2>3. floor # NoFloor
    <3> SUFFICES ASSUME floor = NoFloor PROVE FALSE
      OBVIOUS
    <3>1. first' = floor'  OBVIOUS
    <3>2. n \in floor' .. floor' - 1  BY <3>1
    <3>3. floor' \in Int  BY <2>2 DEF NoFloor
    <3>4. QED  BY <3>2, <3>3, EmptyRange
  <2>4. QED  BY <1>0, <2>1, <2>3, FloorWritten
<1>2. /\ n < settled
      /\ \E id \in IDs : /\ intents[id] \in Intents /\ intents[id].nonce = n
                         /\ winner[n].tx \in Attempts(id)
  <2>1. CASE n < floor
    <3>1. n \in first .. Records.floor - 1
      BY <1>0, <1>1, <2>1 DEF Records
    <3>2. MatchedIn(Records, n)  BY <1>0, <3>1 DEF Reconciled
    <3>3. QED  BY <3>2 DEF MatchedIn, In, Records, Attempts
  <2>2. CASE ~(n < floor)
    <3>1. floor' # floor /\ ~FirstFloor  BY <1>1, <2>2 DEF FirstFloor
    <3>2. ReconcileDone  BY <1>0, <3>1, FloorWritten
    <3>3. /\ floor' = MaxInt(MaxInt(floor, 0), op.upto) /\ op.at >= op.upto
          /\ pc = "reconcile"
      BY <3>2 DEF ReconcileDone, PutNonceFloor
    <3>4. n \in floor .. op.at - 1
      BY <1>0, <1>1, <2>2, <3>3 DEF MaxInt, NoFloor
    <3>5. PICK id \in IDs : Owns(id, n) /\ facts[id].known /\ facts[id].tx \in Attempts(id)
      BY <1>0, <1>1, <3>3, <3>4 DEF Passed, Explained
    <3>6. facts[id].tx # NoTx
      <4>1. Attempts(id) \subseteq Txs
        BY <1>0, ElementOfSeq DEF TInv, TypeOK, StoreTypeOK, Attempts
      <4>2. QED  BY <3>5, <4>1, NoTxIsNone
    <3>7. /\ intents[id] \in Intents /\ intents[id].nonce = n /\ n < settled
          /\ facts[id].tx = winner[n].tx
      BY <1>0, <3>5, <3>6 DEF Truthful, Records, Owns
    <3>8. QED  BY <3>5, <3>7
  <2>3. QED  BY <2>1, <2>2
<1>3. PICK id \in IDs : /\ intents[id] \in Intents /\ intents[id].nonce = n
                        /\ winner[n].tx \in Attempts(id)
  BY <1>2
<1>4. intents'[id] = intents[id]
  BY <1>0, <1>3, RecordedStays, RecordedTyped DEF TInv
<1>5. winner'[n] = winner[n]  BY <1>0, <1>2, SettledWinner
<1>6. Attempts(id) \subseteq Attempts(id)'  BY <1>0, AttemptsStep
<1>7. n < settled'  BY <1>0, <1>1, <1>2
<1>8. QED  BY <1>3, <1>4, <1>5, <1>6, <1>7

LEMMA RunKept ==
  ASSUME RestoreInv, Run \/ UNCHANGED allVars
  PROVE  RestoreInv'
PROOF
<1>0. LInv /\ TInv /\ [Next]_vars /\ backup' = backup
  BY DEF RestoreInv, LInv, Run, allVars, restoreVars
<1>1. LInv'  BY <1>0, NextTInv, FactNamedKept, PassedKept DEF LInv
<1>2. floor' \in {NoFloor} \cup Nat /\ (floor # NoFloor => floor' # NoFloor)
  BY <1>0, FloorWritten DEF NoFloor
<1>3. CASE Run
  <2>1. first' = IF floor = NoFloor THEN floor' ELSE first  BY <1>3 DEF Run
  <2>2. QED
    BY <1>0, <1>1, <1>2, <2>1, UptoHereKept, RecordsKept, ReconciledKept, BackupKept
       DEF RestoreInv, Floored
<1>4. CASE UNCHANGED allVars
  <2>1. first' = first /\ floor' = floor /\ Records' = Records
        /\ settled' = settled /\ winner' = winner
    BY <1>4 DEF allVars, vars, restoreVars, storeVars, chainVars, Records
  <2>2. Reconciled(Records)'  BY <2>1 DEF RestoreInv, Reconciled, MatchedIn, In
  <2>3. QED
    BY <1>0, <1>1, <2>1, <2>2, UptoHereKept, RecordsKept, BackupKept DEF RestoreInv, Floored
<1>5. QED  BY <1>3, <1>4

----------------------------------------------------------------------------
(* Backups                                                                 *)

LEMMA TakeBackupKept ==
  ASSUME RestoreInv, TakeBackup
  PROVE  RestoreInv'
PROOF
<1>1. /\ UNCHANGED vars /\ first' = first /\ backup' = Records /\ floor # NoFloor
      /\ TypeOK
  BY DEF TakeBackup, RestoreInv, LInv, TInv
<1>2. /\ Records' = Records /\ settled' = settled /\ winner' = winner /\ floor' = floor
      /\ pc' = pc /\ op' = op /\ endpoint' = endpoint
  BY <1>1 DEF vars, storeVars, chainVars, railVars, Records
<1>3. LInv'
  <2>1. [Next]_vars  BY <1>1
  <2>2. QED  BY <2>1, NextTInv, FactNamedKept, PassedKept DEF RestoreInv, LInv
<1>4. backup' \in Backups  BY <1>1, RecordsTyped
<1>5. Truthful(Records)' /\ Reconciled(Records)'
  BY <1>1, <1>2 DEF RestoreInv, Truthful, Reconciled, MatchedIn, In
<1>6. Truthful(backup)' /\ Reconciled(backup)'
  BY <1>1, <1>2 DEF RestoreInv, Truthful, Reconciled, MatchedIn, In
<1>7. UptoHere' /\ Floored'
  BY <1>1, <1>2 DEF RestoreInv, UptoHere, Floored
<1>8. QED  BY <1>1, <1>3, <1>4, <1>5, <1>6, <1>7 DEF RestoreInv

LEMMA RestoreBackupKept ==
  ASSUME RestoreInv, RestoreBackup
  PROVE  RestoreInv'
PROOF
<1>1. /\ UNCHANGED <<chainVars, backup, first>> /\ backup.floor # NoFloor
      /\ intents' = backup.intents /\ subs' = backup.subs
      /\ facts' = backup.facts /\ floor' = backup.floor
      /\ endpoint' \in Endpoints /\ pc' = "idle" /\ op' = NoOp
      /\ TypeOK /\ backup \in Backups
  BY DEF RestoreBackup, Return, Goto, RestoreInv, LInv, TInv
<1>2. settled' = settled /\ winner' = winner  BY <1>1 DEF chainVars
<1>3. Records'.intents = backup.intents /\ Records'.subs = backup.subs
      /\ Records'.facts = backup.facts /\ Records'.floor = backup.floor
  BY <1>1 DEF Records
<1>4. Truthful(Records)' /\ Truthful(backup)'
  BY <1>1, <1>2, <1>3 DEF RestoreInv, Truthful, In
<1>5. Reconciled(Records)' /\ Reconciled(backup)'
  BY <1>1, <1>2, <1>3 DEF RestoreInv, Reconciled, MatchedIn, In
<1>6. TInv'
  <2>1. ChainTypeOK'  BY <1>1, ChainKept
  <2>2. StoreTypeOK'  BY <1>1 DEF Backups, StoreTypeOK
  <2>3. QED  BY <1>1, <2>1, <2>2, NoOpTyped DEF TypeOK, Labels, TInv, Purpose, Signing, Makers, NoOp
<1>7. FactNamed'
  <2> SUFFICES ASSUME NEW id \in IDs
               PROVE  facts'[id].tx = NoTx \/ facts'[id].tx \in Attempts(id)'
    BY DEF FactNamed
  <2>1. backup.facts[id].tx # NoTx => In(backup, id, backup.facts[id].tx)
    BY DEF RestoreInv, Truthful
  <2>2. QED  BY <1>1, <2>1 DEF In, Attempts
<1>8. Passed' /\ UptoHere' /\ Floored'  BY <1>1 DEF Passed, UptoHere, Floored
<1>9. QED  BY <1>1, <1>4, <1>5, <1>6, <1>7, <1>8 DEF RestoreInv, LInv

LEMMA RestoreNextInv == RestoreInv /\ [RestoreNext]_allVars => RestoreInv'
PROOF
  BY RunKept, TakeBackupKept, RestoreBackupKept DEF RestoreNext

LEMMA RestoreAlways == RestoreSpec => []RestoreInv
PROOF
  BY RestoreInitInv, RestoreNextInv, PTL DEF RestoreSpec

\* Whatever is restored, and whatever a node hides, nothing is ever reported
\* confirmed that did not happen (requirements.md 7; status.go executed).
THEOREM ConfirmedStaysTrue == RestoreSpec => []ConfirmedIsTrue
PROOF
<1>1. RestoreInv => ConfirmedIsTrue
  <2> SUFFICES ASSUME RestoreInv, NEW id \in IDs, facts[id].executed
               PROVE  LET r == winner[intents[id].nonce] IN
                      /\ Recorded(id)
                      /\ intents[id].nonce < settled
                      /\ facts[id].tx = r.tx /\ r.tx \in Attempts(id)
                      /\ r.result = "executed"
    BY DEF ConfirmedIsTrue
  <2>1. Truthful(Records) /\ TypeOK  BY DEF RestoreInv, LInv, TInv
  <2>2. /\ intents[id] \in Intents /\ intents[id].nonce < settled
        /\ facts[id].tx \in Attempts(id)
        /\ facts[id].tx = winner[intents[id].nonce].tx
        /\ winner[intents[id].nonce].result = "executed"
    BY <2>1 DEF Truthful, Records, In, Attempts
  <2>3. QED  BY <2>1, <2>2, RecordedTyped
<1>2. QED  BY <1>1, RestoreAlways, PTL

\* The floor, restored or not, has passed only nonces whose settled
\* transaction is on record (status.go reconcile).
THEOREM FloorStaysMatched == RestoreSpec => []FloorMatched
PROOF
<1>1. RestoreInv => FloorMatched
  <2> SUFFICES ASSUME RestoreInv, NEW n \in Nonces, n \in first .. floor - 1
               PROVE  n < settled /\ Matched(n)
    BY DEF FloorMatched
  <2>1. Reconciled(Records) /\ TypeOK  BY DEF RestoreInv, LInv, TInv
  <2>2. MatchedIn(Records, n)  BY <2>1 DEF Reconciled, Records
  <2>3. n < settled /\ \E id \in IDs :
          intents[id] \in Intents /\ intents[id].nonce = n /\ winner[n].tx \in Attempts(id)
    BY <2>2 DEF MatchedIn, Records, In, Attempts
  <2>4. QED  BY <2>1, <2>3, RecordedTyped DEF Matched, Owns
<1>2. QED  BY <1>1, RestoreAlways, PTL

----------------------------------------------------------------------------
(* What a lost record costs                                                *)

\* The attempt signed last under an identifier, and its intent, come after at
\* most two nonces that were mined for it.  They were recorded between the
\* first floor and the settled nonce of their time.
NoThird(id, n) == \A k, m \in MinedFor(id) : ~(k < m /\ m < n)
Spans(n) == first # NoFloor /\ first <= n /\ n <= settled

SignedOnce ==
  /\ signed \subseteq IDs \X Txs
  /\ \A id \in IDs, tx \in Txs :
       <<id, tx>> \in signed => Spans(tx.nonce) /\ NoThird(id, tx.nonce)

KeptBy(R) ==
  \A id \in IDs :
    /\ R.intents[id] \in Intents =>
         Spans(R.intents[id].nonce) /\ NoThird(id, R.intents[id].nonce)
    /\ \A tx \in Txs : In(R, id, tx) =>
         /\ R.intents[id] \in Intents
         /\ tx = Sign(R.intents[id], [tip |-> tx.tip, cap |-> tx.cap])
         /\ <<id, tx>> \in signed

\* The first floor is the first settled nonce that was read.
Floors == (floor = NoFloor <=> first = NoFloor) /\ (first # NoFloor => first <= settled)

\* An operation on its way to a record has reconciled all that was signed
\* before it, or is about to.
Past == {"settle", "decide", "nonce", "record"}
ReadPast ==
  /\ pc = "reconcile" => \A s \in signed : s[2].nonce <= op.upto
  /\ pc \in Past => floor # NoFloor /\ \A s \in signed : s[2].nonce <= floor

WireSigned == \A tx \in wire : \E id \in IDs : <<id, tx>> \in signed

TwiceInv ==
  /\ RestoreInv /\ SignedOnce /\ KeptBy(Records) /\ KeptBy(backup)
  /\ Floors /\ ReadPast /\ WireSigned /\ WinnersWired /\ AboutToSend

LEMMA NonceNat == Nonces \subseteq Nat /\ \A tx \in Txs : tx.nonce \in Nonces
PROOF
  BY ConstantsTyped DEF Nonces, Txs

\* What TwiceInv says, in the terms the steps below need it.
LEMMA TwiceTyped ==
  ASSUME TwiceInv
  PROVE  /\ TInv /\ TypeOK /\ settled \in Nat /\ first \in {NoFloor} \cup Nat
         /\ floor \in {NoFloor} \cup Nat /\ op \in Ops /\ op.upto \in Nat
         /\ subs \in [IDs -> Seq(Txs)]
         /\ \A id \in IDs : Attempts(id) \subseteq Txs
PROOF
<1>1. TInv /\ TypeOK /\ first \in {NoFloor} \cup Nat
  BY DEF TwiceInv, RestoreInv, LInv, TInv
<1>2. /\ settled \in Nat /\ floor \in {NoFloor} \cup Nat /\ op \in Ops /\ op.upto \in Nat
      /\ subs \in [IDs -> Seq(Txs)]
  BY <1>1, ConstantsTyped DEF TypeOK, ChainTypeOK, StoreTypeOK, Ops
<1>3. \A id \in IDs : Attempts(id) \subseteq Txs
  BY <1>1, AttemptTyped
<1>4. QED  BY <1>1, <1>2, <1>3

LEMMA KeptHere ==
  ASSUME TwiceInv, NEW id \in IDs
  PROVE  /\ Recorded(id) => Spans(intents[id].nonce) /\ NoThird(id, intents[id].nonce)
         /\ \A tx \in Attempts(id) :
              /\ Recorded(id)
              /\ tx = Sign(intents[id], [tip |-> tx.tip, cap |-> tx.cap])
              /\ <<id, tx>> \in signed
PROOF
<1>1. KeptBy(Records) /\ TypeOK /\ Attempts(id) \subseteq Txs
  BY TwiceTyped DEF TwiceInv
<1>2. Recorded(id) <=> intents[id] \in Intents  BY <1>1, RecordedTyped
<1>3. \A tx \in Attempts(id) : In(Records, id, tx)  BY DEF In, Records, Attempts
<1>4. QED  BY <1>1, <1>2, <1>3 DEF KeptBy, Records

LEMMA MatchHere == TwiceInv => AttemptsMatch
PROOF
  BY KeptHere DEF AttemptsMatch

\* One attempt more is signed at a time.
LEMMA SignedStep ==
  ASSUME TwiceInv, [Next]_vars, signed' = signed \cup OnRecord'
  PROVE  \/ signed' = signed
         \/ /\ AppendAttempt /\ op.id \in IDs /\ Recorded(op.id) /\ OpTx \in Txs
            /\ signed' = signed \cup {<<op.id, OpTx>>}
PROOF
<1>0. TInv /\ \A id \in IDs : \A tx \in Attempts(id) : <<id, tx>> \in signed
  BY TwiceTyped, KeptHere
<1>1. \A s : s \in OnRecord' <=> \E id \in IDs : \E tx \in Attempts(id)' : s = <<id, tx>>
  BY DEF OnRecord, IDs, RefillIDs, Nonces
<1>2. CASE \A id \in IDs : Attempts(id)' = Attempts(id)
  <2>1. OnRecord' \subseteq signed  BY <1>0, <1>1, <1>2
  <2>2. QED  BY <2>1
<1>3. ASSUME NEW x \in IDs, Attempts(x)' # Attempts(x)
      PROVE  /\ AppendAttempt /\ op.id \in IDs /\ Recorded(op.id) /\ OpTx \in Txs
             /\ signed' = signed \cup {<<op.id, OpTx>>}
  <2>1. /\ AppendAttempt /\ x = op.id /\ Recorded(x)
        /\ Attempts(x)' = Attempts(x) \cup {OpTx}
    BY <1>0, <1>3, AttemptsStep
  <2>2. \A id \in IDs : id # op.id => Attempts(id)' = Attempts(id)
    BY <1>0, AttemptsStep
  <2>3. OpTx \in Txs  BY <1>0, <2>1, OpTxTyped DEF AppendAttempt
  <2>4. ASSUME NEW s \in OnRecord' PROVE s \in signed \/ s = <<op.id, OpTx>>
    <3>1. PICK id \in IDs : \E tx \in Attempts(id)' : s = <<id, tx>>  BY <1>1, <2>4
    <3>2. PICK tx \in Attempts(id)' : s = <<id, tx>>  BY <3>1
    <3>3. CASE id = op.id  BY <1>0, <2>1, <3>2, <3>3
    <3>4. CASE id # op.id  BY <1>0, <2>2, <3>2, <3>4
    <3>5. QED  BY <3>3, <3>4
  <2>5. <<op.id, OpTx>> \in OnRecord'  BY <1>1, <2>1
  <2>6. QED  BY <2>1, <2>3, <2>4, <2>5
<1>4. QED  BY <1>2, <1>3

\* What is mined and settled for an identifier was so before: if it signs what
\* was mined already, somebody else had signed it, since a node had it.
LEMMA MinedForStep ==
  ASSUME TwiceInv, [Next]_vars, signed' = signed \cup OnRecord',
         NEW id \in IDs, NEW n \in Nonces, n < settled, n \in MinedFor(id)'
  PROVE  n \in MinedFor(id)
PROOF
<1> DEFINE w == winner[n].tx
<1>0. TInv /\ WireSigned /\ WinnersWired  BY TwiceTyped DEF TwiceInv
<1>1. winner'[n] = winner[n]  BY <1>0, SettledWinner
<1>2. /\ <<id, w>> \in signed'
      /\ \A other \in IDs : <<other, w>> \in signed' => other = id
  BY <1>1 DEF MinedFor, IDs, RefillIDs, Nonces
<1>3. \A other \in IDs : <<other, w>> \in signed => other = id  BY <1>2
<1>4. <<id, w>> \in signed
  <2> SUFFICES ASSUME <<id, w>> \notin signed PROVE FALSE
    OBVIOUS
  <2>1. w \in Txs  BY <1>2, SignedStep
  <2>2. w \in wire  BY <1>0, <2>1 DEF WinnersWired
  <2>3. PICK other \in IDs : <<other, w>> \in signed  BY <1>0, <2>2 DEF WireSigned
  <2>4. QED  BY <1>3, <2>3
<1>5. QED  BY <1>3, <1>4 DEF MinedFor

LEMMA NoThirdKept ==
  ASSUME TwiceInv, [Next]_vars, signed' = signed \cup OnRecord',
         NEW id \in IDs, NEW n \in Nonces, n <= settled, NoThird(id, n)
  PROVE  NoThird(id, n)'
PROOF
<1> SUFFICES ASSUME NEW k \in MinedFor(id)', NEW m \in MinedFor(id)', k < m, m < n
             PROVE  FALSE
  BY DEF NoThird
<1>1. k \in Nonces /\ m \in Nonces  BY DEF MinedFor, Nonces
<1>2. k \in Nat /\ m \in Nat /\ n \in Nat /\ settled \in Nat  BY <1>1, NonceNat, TwiceTyped
<1>3. k < settled /\ m < settled  BY <1>2
<1>4. k \in MinedFor(id) /\ m \in MinedFor(id)  BY <1>1, <1>3, MinedForStep
<1>5. QED  BY <1>4 DEF NoThird

LEMMA SpansKept ==
  ASSUME TwiceInv, [Next]_vars, floor = NoFloor \/ first' = first,
         NEW n \in Nonces, Spans(n)
  PROVE  Spans(n)'
PROOF
<1>1. TInv /\ settled \in Nat /\ settled' \in Nat /\ settled <= settled'
  BY TwiceTyped, SettledStays
<1>2. first' = first  BY DEF TwiceInv, Floors, Spans
<1>3. n \in Nat /\ first \in Nat  BY NonceNat, TwiceTyped DEF Spans
<1>4. QED  BY <1>1, <1>2, <1>3 DEF Spans


\* A new record follows at most two nonces mined for its identifier: all below
\* the floor are explained by intents of others, who signed what was mined
\* there, and nothing was signed above it.
LEMMA RecordThird ==
  ASSUME TwiceInv, pc = "record", NEW id \in IDs, ~Recorded(id)
  PROVE  NoThird(id, settled)
PROOF
<1> SUFFICES ASSUME NEW k \in MinedFor(id), NEW m \in MinedFor(id), k < m
             PROVE  FALSE
  BY DEF NoThird
<1>0. /\ k \in Nonces /\ m \in Nonces /\ k \in Nat /\ m \in Nat
      /\ <<id, winner[k].tx>> \in signed /\ <<id, winner[m].tx>> \in signed
      /\ \A other \in IDs : <<other, winner[k].tx>> \in signed => other = id
  BY NonceNat DEF MinedFor
<1>1. winner[k].tx \in Txs /\ winner[m].tx \in Txs  BY <1>0 DEF TwiceInv, SignedOnce
<1>2. winner[k].tx.nonce = k /\ winner[m].tx.nonce = m
  BY <1>0, <1>1 DEF TwiceInv, WinnersWired
<1>3. first <= k /\ first # NoFloor  BY <1>0, <1>1, <1>2 DEF TwiceInv, SignedOnce, Spans
<1>4. m <= floor /\ floor # NoFloor  BY <1>0, <1>2 DEF TwiceInv, ReadPast, Past
<1>5. k \in first .. Records.floor - 1  BY <1>0, <1>3, <1>4, TwiceTyped DEF Records
<1>6. MatchedIn(Records, k)  BY <1>0, <1>5 DEF TwiceInv, RestoreInv, Reconciled
<1>7. PICK other \in IDs : intents[other] \in Intents /\ winner[k].tx \in Attempts(other)
  BY <1>6 DEF MatchedIn, In, Records, Attempts
<1>8. Recorded(other) /\ <<other, winner[k].tx>> \in signed
  BY <1>7, KeptHere, RecordedTyped, TwiceTyped
<1>9. QED  BY <1>0, <1>8

LEMMA SignedOnceKept ==
  ASSUME TwiceInv, [Next]_vars, signed' = signed \cup OnRecord',
         floor = NoFloor \/ first' = first
  PROVE  SignedOnce'
PROOF
<1>1. signed' \subseteq IDs \X Txs  BY SignedStep DEF TwiceInv, SignedOnce
<1>2. ASSUME NEW id \in IDs, NEW tx \in Txs, <<id, tx>> \in signed'
      PROVE  Spans(tx.nonce)' /\ NoThird(id, tx.nonce)'
  <2>1. Spans(tx.nonce) /\ NoThird(id, tx.nonce)
    <3>1. CASE <<id, tx>> \in signed  BY <3>1 DEF TwiceInv, SignedOnce
    <3>2. CASE id = op.id /\ tx = OpTx /\ Recorded(id)
      <4>1. tx.nonce = intents[id].nonce  BY <3>2 DEF OpTx, Sign
      <4>2. QED  BY <3>2, <4>1, KeptHere
    <3>3. QED  BY <1>2, <3>1, <3>2, SignedStep
  <2>2. tx.nonce \in Nonces /\ tx.nonce <= settled  BY <2>1, NonceNat DEF Spans
  <2>3. QED  BY <2>1, <2>2, SpansKept, NoThirdKept
<1>3. QED  BY <1>1, <1>2 DEF SignedOnce, IDs, RefillIDs, Nonces, Txs

\* Records as they were.
LEMMA SameKept ==
  ASSUME TwiceInv, [Next]_vars, signed' = signed \cup OnRecord',
         floor = NoFloor \/ first' = first, NEW id \in IDs, NEW in \in Intents,
         Spans(in.nonce), NoThird(id, in.nonce)
  PROVE  Spans(in.nonce)' /\ NoThird(id, in.nonce)'
PROOF
<1>1. in.nonce \in Nonces /\ in.nonce <= settled  BY DEF Intents, Spans
<1>2. QED  BY <1>1, SpansKept, NoThirdKept

LEMMA BackupKeptBy ==
  ASSUME TwiceInv, [Next]_vars, signed' = signed \cup OnRecord',
         floor = NoFloor \/ first' = first, backup' = backup
  PROVE  KeptBy(backup)'
PROOF
<1>1. ASSUME NEW id \in IDs, backup.intents[id] \in Intents
      PROVE  Spans(backup.intents[id].nonce)' /\ NoThird(id, backup.intents[id].nonce)'
  <2>1. Spans(backup.intents[id].nonce) /\ NoThird(id, backup.intents[id].nonce)
    BY <1>1 DEF TwiceInv, KeptBy
  <2> DEFINE in == backup.intents[id]
  <2>2. in \in Intents /\ Spans(in.nonce) /\ NoThird(id, in.nonce)  BY <1>1, <2>1
  <2>3. in' = in  OBVIOUS
  <2> HIDE DEF in
  <2>4. Spans(in.nonce)' /\ NoThird(id, in.nonce)'
    BY <2>2, <2>3, SameKept DEF Spans, NoThird
  <2>5. QED  BY <2>4 DEF in
<1>2. ASSUME NEW id \in IDs, NEW tx \in Txs, In(backup', id, tx)
      PROVE  /\ backup'.intents[id] \in Intents
             /\ tx = Sign(backup'.intents[id], [tip |-> tx.tip, cap |-> tx.cap])
             /\ <<id, tx>> \in signed'
  BY <1>2 DEF TwiceInv, KeptBy
<1>3. QED
  BY <1>1, <1>2 DEF KeptBy, In, IDs, RefillIDs, Nonces, Txs, Intents, NoThird, Spans, Sign


LEMMA RecordsKeptBy ==
  ASSUME "wrong" \notin Endpoints, TwiceInv, [Next]_vars, signed' = signed \cup OnRecord',
         floor = NoFloor \/ first' = first
  PROVE  KeptBy(Records)'
PROOF
<1>0. TInv /\ AttemptsMatch /\ OnRecord' \subseteq signed'
  BY TwiceTyped, MatchHere
<1>1. ASSUME NEW id \in IDs, Recorded(id)', NEW n \in Nonces, n = intents'[id].nonce
      PROVE  Spans(n)' /\ NoThird(id, n)'
  <2>1. Spans(n) /\ NoThird(id, n)
    <3>1. CASE Recorded(id)
      <4>1. intents'[id] = intents[id]  BY <1>0, <3>1, RecordedStays
      <4>2. QED  BY <1>1, <3>1, <4>1, KeptHere
    <3>2. CASE ~Recorded(id)
      <4>1. intents' # intents  BY <1>1, <3>2 DEF Recorded
      <4>2. /\ Record /\ op.at = settled
            /\ intents' = [intents EXCEPT ![OpID] = OpIntent]
        BY <1>0, <4>1, IntentsStep
      <4>3. pc = "record" /\ intents'[id] = OpIntent
        BY <1>0, <1>1, <3>2, <4>2 DEF Record, Recorded, TInv, TypeOK, StoreTypeOK
      <4>4. n = settled  BY <1>1, <4>2, <4>3 DEF OpIntent
      <4>5. floor # NoFloor  BY <4>3 DEF TwiceInv, ReadPast, Past
      <4>6. Spans(settled)  BY <4>5, TwiceTyped DEF TwiceInv, Floors, Spans
      <4>7. NoThird(id, settled)  BY <3>2, <4>3, RecordThird
      <4>8. QED  BY <4>4, <4>6, <4>7
    <3>3. QED  BY <3>1, <3>2
  <2>2. n <= settled  BY <2>1 DEF Spans
  <2>3. QED  BY <2>1, <2>2, SpansKept, NoThirdKept
<1>2. TInv' /\ AttemptsMatch'  BY <1>0, NextTInv, AttemptsMatchKept
<1>3. ASSUME NEW id \in IDs, NEW tx \in Attempts(id)'
      PROVE  /\ Recorded(id)'
             /\ tx = Sign(intents'[id], [tip |-> tx.tip, cap |-> tx.cap])
             /\ <<id, tx>> \in signed'
  <2>1. Recorded(id)' /\ tx = Sign(intents'[id], [tip |-> tx.tip, cap |-> tx.cap])
    BY <1>2 DEF AttemptsMatch, Sign, IDs, RefillIDs, Nonces
  <2>2. <<id, tx>> \in OnRecord'  BY DEF OnRecord, IDs, RefillIDs, Nonces
  <2>3. QED  BY <1>0, <2>1, <2>2
<1>4. \A id \in IDs : Recorded(id)' <=> intents'[id] \in Intents
  <2>1. StoreTypeOK'  BY <1>2 DEF TInv, TypeOK
  <2>2. NoIntent \notin Intents  BY NoneIsNoKind DEF NoIntent, Intents
  <2>3. QED  BY <2>1, <2>2 DEF StoreTypeOK, Recorded, IDs, RefillIDs, Nonces, Intents, NoIntent
<1>5. Records'.intents = intents' /\ Records'.subs = subs'  BY DEF Records
<1>7. ASSUME NEW id \in IDs, intents'[id] \in Intents
      PROVE  (Spans(intents[id].nonce) /\ NoThird(id, intents[id].nonce))'
  <2>1. Recorded(id)' /\ intents'[id].nonce \in Nonces  BY <1>4, <1>7 DEF Intents
  <2>2. PICK n \in Nonces : n = intents'[id].nonce  BY <2>1
  <2>3. Spans(n)' /\ NoThird(id, n)'  BY <1>1, <2>1, <2>2
  <2>4. QED  BY <2>2, <2>3 DEF Spans, NoThird
<1>6. ASSUME NEW id \in IDs, NEW tx, In(Records', id, tx) PROVE tx \in Attempts(id)'
  BY <1>5, <1>6 DEF In, Attempts
<1>8. QED
  BY <1>3, <1>4, <1>5, <1>6, <1>7
     DEF KeptBy, In, IDs, RefillIDs, Nonces, Txs, Intents, NoThird, Spans, Sign


LEMMA FloorsKept ==
  ASSUME "wrong" \notin Endpoints, TwiceInv, [Next]_vars,
         first' = IF floor = NoFloor THEN floor' ELSE first
  PROVE  Floors'
PROOF
<1>0. /\ TInv /\ floor \in {NoFloor} \cup Nat /\ settled \in Nat
      /\ settled' \in Nat /\ settled <= settled'
      /\ first \in {NoFloor} \cup Nat /\ op.upto \in Nat /\ UptoHere /\ endpoint # "wrong"
  BY TwiceTyped, SettledStays DEF TwiceInv, RestoreInv, TypeOK
<1>1. CASE floor # NoFloor
  BY <1>0, <1>1, FloorWritten DEF NoFloor, Floors, TwiceInv
<1>2. CASE floor = NoFloor /\ floor' = floor
  BY <1>0, <1>2 DEF Floors
<1>3. CASE floor = NoFloor /\ floor' # floor
  <2>1. FirstFloor \/ ReconcileDone  BY <1>0, <1>3, FloorWritten
  <2>2. FirstFloor  BY <1>3, <2>1 DEF ReconcileDone
  <2>3. floor' = op.upto /\ op.upto <= settled
    BY <1>0, <1>3, <2>2 DEF FirstFloor, PutNonceFloor, MaxInt, NoFloor, UptoHere
  <2>4. QED  BY <1>0, <1>3, <2>3 DEF Floors, NoFloor
<1>4. QED  BY <1>1, <1>2, <1>3

\* Where an operation reads the settled nonce, and where it has read past it.
LEMMA PastStep ==
  ASSUME TInv, [Next]_vars
  PROVE  /\ pc' = "reconcile" =>
              \/ op'.upto = SettledNonce
              \/ pc = "reconcile" /\ op'.upto = op.upto
         /\ pc' \in Past => FirstFloor \/ ReconcileDone \/ (pc \in Past /\ floor' = floor)
         /\ pc' \in Past \cup {"reconcile"} => ~AppendAttempt
PROOF
<1>0. op \in Ops  BY DEF TInv, TypeOK
<1>1. CASE Call
  BY <1>0, <1>1 DEF Call, CallPrepare, CallWithdrawAll, CallRefill, CallReconcile,
     CallSend, CallRetry, CallStatus, StartReconcile, Goto, NoOp, railVars, storeVars, Past,
     AppendAttempt
<1>2. CASE Step
  <2>1. CASE FirstFloor \/ ReconcileDone
    BY <1>0, <2>1 DEF FirstFloor, ReconcileDone, Return, Goto, AppendAttempt
  <2>2. CASE AppendAttempt  BY <2>2 DEF AppendAttempt, Goto, Past
  <2>3. CASE ~(FirstFloor \/ ReconcileDone \/ AppendAttempt)
    BY <1>0, <1>2, <2>3 DEF Step, ReconcileNonce, SettleOne,
       SettleDone, DecidePrepare, DecideWithdrawAll, DecideRefill, ReadNonce, Record,
       Broadcast, Return, Goto, Ops, Past, storeVars, NoOp
  <2>4. QED  BY <2>1, <2>2, <2>3
<1>3. CASE Stop  BY <1>3 DEF Stop, Return, Goto, Past
<1>4. CASE Network \/ UNCHANGED vars
  <2>1. pc' = pc /\ op' = op /\ floor' = floor /\ subs' = subs
    BY <1>4 DEF Network, vars, railVars, storeVars
  <2>2. AppendAttempt => pc' = "send"  BY DEF AppendAttempt, Goto
  <2>3. QED  BY <2>1, <2>2 DEF Past
<1>5. QED  BY <1>1, <1>2, <1>3, <1>4 DEF Next

LEMMA ReadPastKept ==
  ASSUME "wrong" \notin Endpoints, TwiceInv, [Next]_vars, signed' = signed \cup OnRecord'
  PROVE  ReadPast'
PROOF
<1>0. /\ TInv /\ floor \in {NoFloor} \cup Nat /\ settled \in Nat /\ op.upto \in Nat
      /\ SettledNonce = settled
      /\ \A s \in signed : s[2].nonce \in Nat /\ s[2].nonce <= settled
  <2>1. SettledNonce = settled  BY TwiceTyped DEF TypeOK, SettledNonce
  <2>2. ASSUME NEW s \in signed PROVE s[2].nonce \in Nat /\ s[2].nonce <= settled
    <3>1. s[1] \in IDs /\ s[2] \in Txs /\ s = <<s[1], s[2]>>
      BY DEF TwiceInv, SignedOnce
    <3>2. QED  BY <3>1, NonceNat DEF TwiceInv, SignedOnce, Spans
  <2>3. QED  BY <2>1, <2>2, TwiceTyped
<1>1. ASSUME pc' \in Past \cup {"reconcile"} PROVE signed' = signed
  BY <1>0, <1>1, PastStep, SignedStep
<1>2. ASSUME pc' = "reconcile" PROVE \A s \in signed' : s[2].nonce <= op'.upto
  BY <1>0, <1>1, <1>2, PastStep DEF TwiceInv, ReadPast
<1>3. ASSUME pc' \in Past
      PROVE  floor' # NoFloor /\ \A s \in signed' : s[2].nonce <= floor'
  <2>1. signed' = signed  BY <1>1, <1>3
  <2>2. CASE FirstFloor
    <3>1. signed = {}
      <4>1. first = NoFloor  BY <2>2 DEF FirstFloor, TwiceInv, Floors
      <4>2. \A s \in signed : s[1] \in IDs /\ s[2] \in Txs /\ s = <<s[1], s[2]>>
        BY DEF TwiceInv, SignedOnce
      <4>3. QED  BY <4>1, <4>2 DEF TwiceInv, SignedOnce, Spans
    <3>2. floor' # NoFloor
      BY <1>0, <2>2 DEF FirstFloor, PutNonceFloor, MaxInt, NoFloor
    <3>3. QED  BY <2>1, <3>1, <3>2
  <2>3. CASE ReconcileDone
    <3>1. floor' \in Nat /\ floor' >= op.upto /\ pc = "reconcile"
      BY <1>0, <2>3 DEF ReconcileDone, PutNonceFloor, MaxInt, NoFloor
    <3>2. \A s \in signed : s[2].nonce <= op.upto  BY <3>1 DEF TwiceInv, ReadPast
    <3>3. QED  BY <1>0, <2>1, <3>1, <3>2 DEF NoFloor
  <2>4. CASE pc \in Past /\ floor' = floor
    BY <2>1, <2>4 DEF TwiceInv, ReadPast
  <2>5. QED  BY <1>0, <1>3, <2>2, <2>3, <2>4, PastStep
<1>4. QED  BY <1>2, <1>3 DEF ReadPast, Past

LEMMA WireSignedKept ==
  ASSUME TwiceInv, [Next]_vars, signed' = signed \cup OnRecord'
  PROVE  WireSigned'
PROOF
<1>0. TInv /\ op.id \in IDs  BY TwiceTyped DEF Ops
<1> SUFFICES ASSUME NEW tx \in wire' PROVE \E id \in IDs : <<id, tx>> \in signed'
  BY DEF WireSigned, IDs, RefillIDs, Nonces
<1>1. CASE tx \in wire  BY <1>1 DEF TwiceInv, WireSigned
<1>2. CASE pc = "send" /\ tx = OpTx
  <2>1. tx \in Attempts(op.id)  BY <1>2 DEF TwiceInv, AboutToSend
  <2>2. QED  BY <1>0, <2>1, KeptHere
<1>3. QED  BY <1>0, <1>1, <1>2, WireStep

LEMMA TwiceRun ==
  ASSUME "wrong" \notin Endpoints, TwiceInv, Run
  PROVE  TwiceInv'
PROOF
<1>1. /\ [Next]_vars /\ backup' = backup /\ signed' = signed \cup OnRecord'
      /\ first' = IF floor = NoFloor THEN floor' ELSE first
      /\ floor = NoFloor \/ first' = first
      /\ RestoreInv /\ TInv /\ AttemptsMatch /\ AboutToSend /\ WinnersWired
  BY TwiceTyped, MatchHere DEF Run, TwiceInv
<1>2. RestoreInv'  BY <1>1, RunKept
<1>3. SignedOnce' /\ KeptBy(backup)'  BY <1>1, SignedOnceKept, BackupKeptBy
<1>4. KeptBy(Records)'  BY <1>1, RecordsKeptBy
<1>5. Floors' /\ ReadPast' /\ WireSigned'
  BY <1>1, FloorsKept, ReadPastKept, WireSignedKept
<1>6. WinnersWired' /\ AboutToSend'  BY <1>1, WinnersWiredKept, AboutToSendKept
<1>7. QED  BY <1>2, <1>3, <1>4, <1>5, <1>6 DEF TwiceInv

\* A copy of the records keeps what the records kept, as does no step at all.
LEMMA TwiceCopy ==
  ASSUME TwiceInv, RestoreInv', UNCHANGED <<vars, first, signed>>,
         backup' = backup \/ backup' = Records
  PROVE  TwiceInv'
PROOF
<1>1. /\ intents' = intents /\ subs' = subs /\ floor' = floor /\ Records' = Records
      /\ settled' = settled /\ winner' = winner /\ wire' = wire
      /\ pc' = pc /\ op' = op /\ first' = first /\ signed' = signed
  BY DEF vars, storeVars, chainVars, railVars, Records
<1>2. \A id \in IDs, n \in Nonces :
        /\ Spans(n)' <=> Spans(n)
        /\ NoThird(id, n)' <=> NoThird(id, n)
  BY <1>1 DEF Spans, NoThird, MinedFor
<1>3. SignedOnce'
  BY <1>1, <1>2, NonceNat DEF TwiceInv, SignedOnce
<1>4. KeptBy(Records)'
  BY <1>1 DEF TwiceInv, KeptBy, Spans, NoThird, MinedFor, In
<1>5. KeptBy(backup)'
  BY <1>1 DEF TwiceInv, KeptBy, Spans, NoThird, MinedFor, In
<1>6. Floors' /\ ReadPast' /\ WireSigned' /\ WinnersWired'
  BY <1>1 DEF TwiceInv, Floors, ReadPast, WireSigned, WinnersWired
<1>7. AboutToSend'
  BY <1>1 DEF TwiceInv, AboutToSend, OpTx, Attempts
<1>8. QED  BY <1>3, <1>4, <1>5, <1>6, <1>7 DEF TwiceInv

\* The copy put back: what it holds was signed, at nonces settled then.
LEMMA TwiceRestored ==
  ASSUME TwiceInv, RestoreBackup
  PROVE  TwiceInv'
PROOF
<1>1. /\ UNCHANGED <<chainVars, backup, first, signed>> /\ backup.floor # NoFloor
      /\ intents' = backup.intents /\ subs' = backup.subs /\ floor' = backup.floor
      /\ pc' = "idle" /\ RestoreInv
  BY DEF RestoreBackup, Return, Goto, TwiceInv
<1>2. RestoreInv'  BY <1>1, RestoreBackupKept
<1>3. /\ settled' = settled /\ winner' = winner /\ wire' = wire /\ first' = first
      /\ signed' = signed /\ backup' = backup
      /\ Records'.intents = backup.intents /\ Records'.subs = backup.subs
  BY <1>1 DEF chainVars, Records
<1>4. \A id \in IDs, n \in Nonces :
        /\ Spans(n)' <=> Spans(n)
        /\ NoThird(id, n)' <=> NoThird(id, n)
  BY <1>3 DEF Spans, NoThird, MinedFor
<1>5. SignedOnce'
  BY <1>3, <1>4, NonceNat DEF TwiceInv, SignedOnce
<1>6. KeptBy(Records)' /\ KeptBy(backup)'
  BY <1>3 DEF TwiceInv, KeptBy, Spans, NoThird, MinedFor, In
<1>7. Floors'
  BY <1>1, <1>3 DEF TwiceInv, RestoreInv, Floored, Floors
<1>8. ReadPast' /\ WireSigned' /\ WinnersWired' /\ AboutToSend'
  BY <1>1, <1>3 DEF TwiceInv, ReadPast, Past, WireSigned, WinnersWired, AboutToSend
<1>9. QED  BY <1>2, <1>5, <1>6, <1>7, <1>8 DEF TwiceInv

LEMMA TwiceNext ==
  ASSUME "wrong" \notin Endpoints, TwiceInv, [RestoreNext]_allVars
  PROVE  TwiceInv'
PROOF
<1>1. RestoreInv'  BY RestoreNextInv DEF TwiceInv
<1>2. CASE Run  BY <1>2, TwiceRun
<1>3. CASE TakeBackup  BY <1>1, <1>3, TwiceCopy DEF TakeBackup
<1>4. CASE RestoreBackup  BY <1>4, TwiceRestored
<1>5. CASE UNCHANGED allVars
  BY <1>1, <1>5, TwiceCopy DEF allVars, restoreVars
<1>6. QED  BY <1>2, <1>3, <1>4, <1>5 DEF RestoreNext

LEMMA TwiceInit == RestoreInit => TwiceInv
PROOF
<1> SUFFICES ASSUME RestoreInit PROVE TwiceInv
  OBVIOUS
<1>1. /\ RestoreInv /\ SInv /\ signed = {} /\ first = NoFloor /\ floor = NoFloor
      /\ backup = Records /\ pc = "idle" /\ wire = {}
  BY RestoreInitInv, InitSInv DEF RestoreInit, Init, StoreInit, ChainInit
<1>2. \A id \in IDs : Records.intents[id] = NoIntent /\ Records.subs[id] = <<>>
  BY DEF RestoreInit, Init, StoreInit, Records
<1>3. NoIntent \notin Intents  BY NoneIsNoKind DEF NoIntent, Intents
<1>4. KeptBy(Records)  BY <1>2, <1>3 DEF KeptBy, In
<1>5. QED
  BY <1>1, <1>4 DEF TwiceInv, SignedOnce, Floors, ReadPast, Past, WireSigned, SInv

\* A set of naturals with no three in a row has at most two.
LEMMA AtMostTwo ==
  ASSUME NEW S, S \subseteq Nat, IsFiniteSet(S),
         \A k, m, n \in S : ~(k < m /\ m < n)
  PROVE  Cardinality(S) <= 2
PROOF
<1>1. CASE \E a, b \in Nat : S \subseteq {a, b}
  <2>1. PICK a \in Nat, b \in Nat : S \subseteq {a, b}  BY <1>1
  <2>2. IsFiniteSet({a, b}) /\ Cardinality({a, b}) <= 2
    <3>1. IsFiniteSet({}) /\ Cardinality({}) = 0  BY FS_EmptySet
    <3>2. IsFiniteSet({a}) /\ Cardinality({a}) = 1  BY FS_Singleton
    <3>3. IsFiniteSet({a} \cup {b})
          /\ Cardinality({a} \cup {b}) = IF b \in {a} THEN Cardinality({a}) ELSE Cardinality({a}) + 1
      BY <3>2, FS_AddElement
    <3>4. {a, b} = {a} \cup {b}  OBVIOUS
    <3>5. QED  BY <3>2, <3>3, <3>4
  <2>3. Cardinality(S) <= Cardinality({a, b})  BY <2>1, <2>2, FS_Subset
  <2>4. Cardinality(S) \in Nat /\ Cardinality({a, b}) \in Nat
    BY <2>2, FS_CardinalityType
  <2>5. QED  BY <2>2, <2>3, <2>4
<1>2. CASE ~ \E a, b \in Nat : S \subseteq {a, b}
  <2>1. PICK a \in S : TRUE  BY <1>2
  <2>2. PICK b \in S : b # a  BY <1>2, <2>1
  <2>3. PICK c \in S : c # a /\ c # b  BY <1>2, <2>1, <2>2
  <2>4. a \in Nat /\ b \in Nat /\ c \in Nat  OBVIOUS
  <2>5. \E k, m, n \in {a, b, c} : k < m /\ m < n
    BY <2>2, <2>3, <2>4
  <2>6. QED  BY <2>1, <2>2, <2>3, <2>5
<1>3. QED  BY <1>1, <1>2

\* However often the records are put back, no identifier is mined at a third
\* nonce of its own (requirements.md 7; status.go reconcile, rail.go
\* nextNonce).  The one thing asked is that no endpoint serves another chain
\* while the first floor is set: it would be that chain's nonce.
THEOREM AtMostTwiceEver == "wrong" \notin Endpoints /\ RestoreSpec => []AtMostTwice
PROOF
<1> SUFFICES ASSUME "wrong" \notin Endpoints PROVE RestoreSpec => []AtMostTwice
  OBVIOUS
<1>1. TwiceInv => AtMostTwice
  <2> SUFFICES ASSUME TwiceInv, NEW id \in IDs PROVE Cardinality(MinedFor(id)) <= 2
    BY DEF AtMostTwice
  <2>1. MinedFor(id) \subseteq Nonces /\ Nonces \subseteq Nat
    BY NonceNat DEF MinedFor
  <2>2. IsFiniteSet(MinedFor(id))
    <3>1. IsFiniteSet(Nonces)  BY ConstantsTyped, FS_Interval DEF Nonces
    <3>2. QED  BY <2>1, <3>1, FS_Subset
  <2>3. ASSUME NEW k \in MinedFor(id), NEW m \in MinedFor(id), NEW n \in MinedFor(id),
               k < m, m < n
        PROVE  FALSE
    <3>1. <<id, winner[n].tx>> \in signed /\ n \in Nonces  BY DEF MinedFor
    <3>2. winner[n].tx \in Txs  BY <3>1 DEF TwiceInv, SignedOnce
    <3>3. winner[n].tx.nonce = n  BY <3>1, <3>2 DEF TwiceInv, WinnersWired
    <3>4. NoThird(id, n)  BY <3>1, <3>2, <3>3 DEF TwiceInv, SignedOnce
    <3>5. QED  BY <2>3, <3>4 DEF NoThird
  <2>4. QED  BY <2>1, <2>2, <2>3, AtMostTwo
<1>2. TwiceInv /\ [RestoreNext]_allVars => TwiceInv'  BY TwiceNext
<1>3. QED  BY <1>1, <1>2, TwiceInit, PTL DEF RestoreSpec

----------------------------------------------------------------------------
(* How far reconciliation may be behind                                    *)

\* Where nobody else signs with the key, all that is mined is ours.
Ours == \A n \in Nonces : n < spent => winner[n].tx \in Txs
LastInv == TwiceInv /\ Ours

LEMMA OursKept ==
  ASSUME ~Foreigners, TInv, Ours, [Next]_vars
  PROVE  Ours'
PROOF
<1>0. /\ spent \in Nat /\ settled \in Nat /\ settled <= spent /\ wire \subseteq Txs
      /\ winner \in [Nonces -> Receipts]
  BY ConstantsTyped DEF TInv, TypeOK, ChainTypeOK
<1> SUFFICES ASSUME NEW n \in Nonces, n < spent' PROVE winner'[n].tx \in Txs
  BY DEF Ours, Nonces, Txs
<1>1. n \in Nat  BY NonceNat
<1>2. CASE UNCHANGED <<spent, winner>>  BY <1>2 DEF Ours
<1>3. ASSUME NEW tx \in wire, NEW result, NEW out, NEW fee, Mine(tx, result, out, fee)
      PROVE  winner'[n].tx \in Txs
  BY <1>0, <1>1, <1>3 DEF Mine, Include, Ours
<1>4. CASE Reorg  BY <1>0, <1>1, <1>4 DEF Reorg, Ours
<1>5. CASE Network
  BY <1>2, <1>3, <1>4, <1>5 DEF Network, ChainNext, ForeignMine, Settle, Deposit, TopUp
<1>6. CASE Call
  BY <1>2, <1>6 DEF Call, CallPrepare, CallWithdrawAll, CallRefill, CallReconcile,
     CallSend, CallRetry, CallStatus, chainVars
<1>7. CASE Step
  BY <1>2, <1>7 DEF Step, FirstFloor, ReconcileNonce, ReconcileDone, SettleOne, SettleDone,
     DecidePrepare, DecideWithdrawAll, DecideRefill, ReadNonce, Record, AppendAttempt,
     Broadcast, chainVars
<1>8. CASE Stop \/ UNCHANGED vars  BY <1>2, <1>8 DEF Stop, vars, chainVars
<1>9. QED  BY <1>5, <1>6, <1>7, <1>8 DEF Next

LEMMA LastNext ==
  ASSUME ~Foreigners, "wrong" \notin Endpoints, LastInv, [RestoreNext]_allVars
  PROVE  LastInv'
PROOF
<1>1. TwiceInv' /\ TInv  BY TwiceNext, TwiceTyped DEF LastInv
<1>2. CASE Run  BY <1>1, <1>2, OursKept DEF LastInv, Run
<1>3. CASE UNCHANGED chainVars  BY <1>1, <1>3 DEF LastInv, Ours, chainVars, Nonces, Txs
<1>4. QED
  BY <1>1, <1>2, <1>3 DEF RestoreNext, TakeBackup, RestoreBackup, allVars, vars

\* Everything ours that is settled below the floor has been matched, and what
\* an operation on its way to a record finds signed is not above it.
LEMMA AllButLast ==
  ASSUME LastInv, pc = "record", NEW n \in Nonces, n \in first .. settled - 2
  PROVE  Matched(n)
PROOF
<1>0. /\ settled \in Nat /\ spent \in Nat /\ settled <= spent /\ spent <= MaxNonce + 1
      /\ MaxNonce \in Nat /\ n \in Nat /\ floor \in {NoFloor} \cup Nat /\ TypeOK
      /\ first \in {NoFloor} \cup Nat /\ TwiceInv
  BY TwiceTyped, NonceNat, ConstantsTyped DEF LastInv, TypeOK, ChainTypeOK
<1> DEFINE last == settled - 1
<1>1. last \in Nonces /\ last < spent /\ n < last  BY <1>0 DEF Nonces, NoFloor
<1> HIDE DEF last
<1>2. winner[last].tx \in Txs  BY <1>1 DEF LastInv, Ours
<1>3. winner[last].tx \in wire /\ winner[last].tx.nonce = last
  BY <1>0, <1>1, <1>2 DEF TwiceInv, WinnersWired
<1>4. PICK id \in IDs : <<id, winner[last].tx>> \in signed
  BY <1>0, <1>3 DEF TwiceInv, WireSigned
<1>5. last <= floor /\ floor # NoFloor  BY <1>0, <1>3, <1>4 DEF TwiceInv, ReadPast, Past
<1>6. n \in first .. Records.floor - 1
  BY <1>0, <1>1, <1>5 DEF Records, last, NoFloor
<1>7. MatchedIn(Records, n)  BY <1>0, <1>6 DEF TwiceInv, RestoreInv, Reconciled
<1>8. PICK x \in IDs : /\ intents[x] \in Intents /\ intents[x].nonce = n
                       /\ winner[n].tx \in Attempts(x)
  BY <1>7 DEF MatchedIn, In, Records, Attempts
<1>9. QED  BY <1>0, <1>8, RecordedTyped DEF Matched, Owns

\* Whatever is restored, the next nonce is assigned with at most the last
\* settled one unmatched (rail.go nextNonce after status.go reconcile).
THEOREM OnlyLastUnmatched ==
  ~Foreigners /\ "wrong" \notin Endpoints /\ RestoreSpec => AssignsMatchedButLast
PROOF
<1> SUFFICES ASSUME ~Foreigners, "wrong" \notin Endpoints
             PROVE  RestoreSpec => AssignsMatchedButLast
  OBVIOUS
<1>1. RestoreInit => LastInv
  BY TwiceInit, NonceNat DEF RestoreInit, Init, ChainInit, LastInv, Ours
<1>2. LastInv /\ [RestoreNext]_allVars => LastInv'  BY LastNext
<1>3. LastInv =>
        [Record /\ ~Recorded(OpID) =>
           \A n \in Nonces : n \in first .. settled - 2 => Matched(n)]_allVars
  BY AllButLast DEF Record
<1>4. QED  BY <1>1, <1>2, <1>3, PTL DEF RestoreSpec, AssignsMatchedButLast

----------------------------------------------------------------------------
(* What a restored store has in flight                                     *)

\* OneInFlight and NoGap of a set of records.
OneIn(R) ==
  \A a, b \in IDs :
    /\ R.intents[a] \in Intents /\ ~R.facts[a].known
    /\ R.intents[b] \in Intents /\ ~R.facts[b].known
    => a = b
LowIn(R) == \A id \in IDs : R.intents[id] \in Intents => R.intents[id].nonce <= settled

FlightInv == RestoreInv /\ OInv /\ OneIn(backup) /\ LowIn(backup)

LEMMA FlightOfRecords ==
  ASSUME TypeOK
  PROVE  /\ OneIn(Records) <=> OneInFlight
         /\ LowIn(Records) <=> NoGap
PROOF
<1>1. \A id \in IDs : Recorded(id) <=> intents[id] \in Intents  BY RecordedTyped
<1>2. QED  BY <1>1 DEF Records, OneIn, LowIn, OneInFlight, NoGap, PendingIDs

LEMMA LowStays ==
  ASSUME backup \in Backups, LowIn(backup), settled \in Nat, settled' \in Nat,
         settled <= settled', backup' = backup
  PROVE  LowIn(backup)'
PROOF
<1> SUFFICES ASSUME NEW id \in IDs, backup.intents[id] \in Intents
             PROVE  backup.intents[id].nonce <= settled'
  BY DEF LowIn
<1>1. backup.intents[id].nonce \in Nat  BY ConstantsTyped DEF Intents, Nonces
<1>2. QED  BY <1>1 DEF LowIn

LEMMA FlightKept ==
  ASSUME FlightInv, [RestoreNext]_allVars
  PROVE  FlightInv'
PROOF
<1>0. /\ RestoreInv /\ RestoreInv' /\ OInv /\ TInv /\ TypeOK /\ backup \in Backups
      /\ settled \in Nat
  BY RestoreNextInv, ConstantsTyped
     DEF FlightInv, OInv, RestoreInv, LInv, TInv, TypeOK, ChainTypeOK
<1>1. CASE Run \/ UNCHANGED allVars
  <2>1. [Next]_vars /\ backup' = backup  BY <1>1 DEF Run, allVars, restoreVars
  <2>2. OInv'  BY <1>0, <2>1, NextOInv
  <2>3. LowIn(backup)'  BY <1>0, <2>1, SettledStays, LowStays DEF FlightInv
  <2>4. QED  BY <1>0, <2>1, <2>2, <2>3 DEF FlightInv, OneIn
<1>2. CASE TakeBackup
  <2>1. UNCHANGED vars /\ backup' = Records  BY <1>2 DEF TakeBackup
  <2>2. OInv'  BY <1>0, <2>1, NextOInv
  <2>3. OneIn(Records) /\ LowIn(Records)  BY <1>0, FlightOfRecords DEF OInv
  <2>4. settled' = settled  BY <2>1 DEF vars, chainVars
  <2>5. QED  BY <1>0, <2>1, <2>2, <2>3, <2>4 DEF FlightInv, OneIn, LowIn
<1>3. CASE RestoreBackup
  <2>1. /\ backup' = backup /\ settled' = settled /\ pc' = "idle"
        /\ intents' = backup.intents /\ facts' = backup.facts
    BY <1>3 DEF RestoreBackup, Return, Goto, chainVars
  <2>2. OneIn(backup)' /\ LowIn(backup)'  BY <2>1 DEF FlightInv, OneIn, LowIn
  <2>3. OneIn(Records)' /\ LowIn(Records)'
    BY <2>1 DEF FlightInv, Records, OneIn, LowIn
  <2>4. TInv' /\ TypeOK'  BY <1>0 DEF RestoreInv, LInv, TInv
  <2>5. OneInFlight' /\ NoGap'
    <3>1. \A id \in IDs : Recorded(id)' <=> intents'[id] \in Intents
      <4>1. NoIntent \notin Intents  BY RecordedTyped, NoneIsNoKind DEF NoIntent, Intents
      <4>2. QED  BY <2>4, <4>1 DEF Recorded, TypeOK, StoreTypeOK
    <3>2. QED  BY <2>3, <3>1 DEF Records, OneIn, LowIn, OneInFlight, NoGap, PendingIDs
  <2>6. QED  BY <1>0, <2>1, <2>2, <2>4, <2>5 DEF FlightInv, OInv, Free
<1>4. QED  BY <1>1, <1>2, <1>3 DEF RestoreNext

LEMMA FlightInit == RestoreInit => FlightInv
PROOF
<1> SUFFICES ASSUME RestoreInit PROVE FlightInv
  OBVIOUS
<1>1. RestoreInv /\ OInv /\ backup = Records  BY RestoreInitInv, InitOInv DEF RestoreInit
<1>2. OneIn(backup) /\ LowIn(backup)  BY <1>1, FlightOfRecords DEF OInv, TInv
<1>3. QED  BY <1>1, <1>2 DEF FlightInv

LEMMA FlightAlways == RestoreSpec => []FlightInv
PROOF
  BY FlightInit, FlightKept, PTL DEF RestoreSpec

\* A restored store, too, has at most one operation without an outcome,
\* from any endpoint (rail.go ready).
THEOREM RestoredOneAtATime == RestoreSpec => []OneInFlight
PROOF
<1>1. FlightInv => OneInFlight  BY DEF FlightInv, OInv
<1>2. QED  BY <1>1, FlightAlways, PTL

\* And none of its operations is at a nonce the chain cannot reach next
\* (rail.go nextNonce).
THEOREM RestoredNoneAhead == RestoreSpec => []NoGap
PROOF
<1>1. FlightInv => NoGap  BY DEF FlightInv, OInv
<1>2. QED  BY <1>1, FlightAlways, PTL

----------------------------------------------------------------------------
(* What a restored store says                                              *)

\* FactsAreTrue of a set of records.
TrueIn(R) ==
  \A id \in IDs : R.facts[id].known =>
    LET r == winner[R.intents[id].nonce] IN
    /\ R.intents[id] \in Intents
    /\ R.intents[id].nonce < settled
    /\ R.facts[id].tx = IF In(R, id, r.tx) THEN r.tx ELSE NoTx
    /\ R.facts[id].executed <=> (In(R, id, r.tx) /\ r.result = "executed")

FactInv == FlightInv /\ FInv /\ TrueIn(backup)

LEMMA TrueOfRecords == TypeOK => (TrueIn(Records) <=> FactsAreTrue)
PROOF
<1> SUFFICES ASSUME TypeOK PROVE TrueIn(Records) <=> FactsAreTrue
  OBVIOUS
<1>1. \A id \in IDs : Recorded(id) <=> intents[id] \in Intents  BY RecordedTyped
<1>2. \A id \in IDs : \A tx : In(Records, id, tx) <=> tx \in Attempts(id)
  BY DEF In, Records, Attempts
<1>3. QED  BY <1>1, <1>2 DEF TrueIn, FactsAreTrue, Records

LEMMA TrueStays ==
  ASSUME TInv, [Next]_vars, TrueIn(backup), backup' = backup, settled' \in Nat
  PROVE  TrueIn(backup)'
PROOF
<1>0. settled \in Nat /\ settled <= settled'
  BY SettledStays, ConstantsTyped DEF TInv, TypeOK, ChainTypeOK
<1> SUFFICES ASSUME NEW id \in IDs, backup.facts[id].known
    PROVE  LET r == winner'[backup.intents[id].nonce] IN
           /\ backup.intents[id] \in Intents
           /\ backup.intents[id].nonce < settled'
           /\ backup.facts[id].tx = IF In(backup, id, r.tx) THEN r.tx ELSE NoTx
           /\ backup.facts[id].executed <=> (In(backup, id, r.tx) /\ r.result = "executed")
  BY DEF TrueIn, In
<1>1. backup.intents[id] \in Intents /\ backup.intents[id].nonce < settled
  BY DEF TrueIn
<1>2. backup.intents[id].nonce \in Nonces /\ backup.intents[id].nonce \in Nat
  BY <1>1, ConstantsTyped DEF Intents, Nonces
<1>3. winner'[backup.intents[id].nonce] = winner[backup.intents[id].nonce]
  BY <1>1, <1>2, SettledWinner
<1>4. QED  BY <1>0, <1>1, <1>2, <1>3 DEF TrueIn

LEMMA FactKept ==
  ASSUME Endpoints = {"right"}, FactInv, [RestoreNext]_allVars
  PROVE  FactInv'
PROOF
<1>0. /\ FlightInv' /\ FInv /\ TInv /\ TypeOK /\ TInv' /\ TypeOK' /\ OInv'
      /\ settled' \in Nat
  BY FlightKept, ConstantsTyped DEF FactInv, FlightInv, FInv, OInv, TInv, TypeOK, ChainTypeOK
<1>1. CASE Run \/ UNCHANGED allVars
  <2>1. [Next]_vars /\ backup' = backup  BY <1>1 DEF Run, allVars, restoreVars
  <2>2. QED  BY <1>0, <2>1, NextFInv, TrueStays DEF FactInv
<1>2. CASE TakeBackup
  <2>1. UNCHANGED vars /\ backup' = Records  BY <1>2 DEF TakeBackup
  <2>2. FInv'  BY <1>0, <2>1, NextFInv
  <2>3. TrueIn(Records)  BY <1>0, TrueOfRecords DEF FInv
  <2>4. settled' = settled /\ winner' = winner  BY <2>1 DEF vars, chainVars
  <2>5. TrueIn(backup)'  BY <2>1, <2>3, <2>4 DEF TrueIn, In
  <2>6. QED  BY <1>0, <2>2, <2>5 DEF FactInv
<1>3. CASE RestoreBackup
  <2>1. /\ backup' = backup /\ settled' = settled /\ winner' = winner /\ pc' = "idle"
        /\ intents' = backup.intents /\ facts' = backup.facts /\ subs' = backup.subs
    BY <1>3 DEF RestoreBackup, Return, Goto, chainVars
  <2>2. TrueIn(backup)'  BY <2>1 DEF FactInv, TrueIn, In
  <2>3. FactsAreTrue'
    <3> SUFFICES ASSUME NEW id \in IDs, facts'[id].known
        PROVE  LET r == winner[intents'[id].nonce] IN
               /\ Recorded(id)'
               /\ intents'[id].nonce < settled
               /\ facts'[id].tx = IF r.tx \in Attempts(id)' THEN r.tx ELSE NoTx
               /\ facts'[id].executed <=> (r.tx \in Attempts(id)' /\ r.result = "executed")
      BY <2>1 DEF FactsAreTrue
    <3>1. \A tx : In(backup, id, tx) <=> tx \in Attempts(id)'
      BY <2>1 DEF In, Attempts
    <3>2. intents'[id] \in Intents => Recorded(id)'
      BY NoneIsNoKind DEF Recorded, NoIntent, Intents
    <3>3. QED  BY <2>1, <3>1, <3>2 DEF FactInv, TrueIn
  <2>4. Upto' /\ Untouched'  BY <2>1 DEF Upto, Untouched
  <2>5. QED  BY <1>0, <2>2, <2>3, <2>4 DEF FactInv, FInv
<1>4. QED  BY <1>1, <1>2, <1>3 DEF RestoreNext

\* Against its own chain, a restored store says of every intent what is true of
\* the attempts it has on record: a "failed" that the chain contradicts is
\* always about an attempt the restore lost, never about one still there
\* (status.go Outcome; sqlite.go PutFact).
THEOREM RestoredFactsAreTrue == Endpoints = {"right"} /\ RestoreSpec => []FactsAreTrue
PROOF
<1> SUFFICES ASSUME Endpoints = {"right"} PROVE RestoreSpec => []FactsAreTrue
  OBVIOUS
<1>1. RestoreInit => FactInv
  <2> SUFFICES ASSUME RestoreInit PROVE FactInv
    OBVIOUS
  <2>1. FlightInv /\ FInv /\ backup = Records  BY FlightInit, InitFInv DEF RestoreInit
  <2>2. TrueIn(backup)  BY <2>1, TrueOfRecords DEF FInv, OInv, TInv
  <2>3. QED  BY <2>1, <2>2 DEF FactInv
<1>2. FactInv /\ [RestoreNext]_allVars => FactInv'  BY FactKept
<1>3. FactInv => FactsAreTrue  BY DEF FactInv, FInv
<1>4. QED  BY <1>1, <1>2, <1>3, PTL DEF RestoreSpec

=============================================================================
