------------------------------ MODULE Restore ------------------------------
(***************************************************************************)
(* The rail over a store that may be restored from a backup.  A backup is  *)
(* a copy of every record at one moment; restoring it forgets what was     *)
(* recorded since, while the chain and the nodes keep what they were       *)
(* given.  Nothing in the code tells it that this has happened: all it has *)
(* is reconciliation (requirements.md 7: "After a crash or restore ...").  *)
(*                                                                         *)
(* Only the latest backup is kept, and none is taken before the first      *)
(* reconciliation: an empty store is a first use, and what the account did *)
(* before it had records is by design not explained (status.go reconcile). *)
(***************************************************************************)
EXTENDS Rail, FiniteSets

CONSTANT MaxRestores   \* bound: restores

ASSUME MaxRestoresAssumption == MaxRestores \in Nat

VARIABLES
  backup,     \* the records as they were when last copied
  restores,   \* restores so far
  first,      \* history: the floor the first reconciliation set
  signed      \* history: every attempt ever recorded, and under which identifier

restoreVars == <<backup, restores, first, signed>>
allVars == <<vars, restoreVars>>

Records == [intents |-> intents, subs |-> subs, facts |-> facts, floor |-> floor]
OnRecord == UNION {{<<id, tx>> : tx \in Attempts(id)} : id \in IDs}

RestoreInit ==
  /\ Init
  /\ backup = Records
  /\ restores = 0
  /\ first = NoFloor
  /\ signed = {}

\* Whatever the rail and the chain do.
Run ==
  /\ Next
  /\ first' = IF floor = NoFloor THEN floor' ELSE first
  /\ signed' = signed \cup OnRecord'
  /\ UNCHANGED <<backup, restores>>

TakeBackup ==
  /\ floor # NoFloor
  /\ backup # Records
  /\ backup' = Records
  /\ UNCHANGED <<vars, restores, first, signed>>

\* The process is stopped for it, and may be started against another endpoint.
RestoreBackup ==
  /\ restores < MaxRestores
  /\ backup.floor # NoFloor
  /\ backup # Records
  /\ intents' = backup.intents /\ subs' = backup.subs
  /\ facts' = backup.facts /\ floor' = backup.floor
  /\ endpoint' \in Endpoints
  /\ Return
  /\ restores' = restores + 1
  /\ UNCHANGED <<chainVars, backup, first, signed>>

RestoreNext == Run \/ TakeBackup \/ RestoreBackup

RestoreSpec == RestoreInit /\ [][RestoreNext]_allVars

----------------------------------------------------------------------------
(* Properties *)

\* The transaction the settled chain has at a nonce is one the records name.
Matched(n) == \E id \in IDs : Owns(id, n) /\ winner[n].tx \in Attempts(id)

\* "confirmed" is never said of what did not happen: whatever a restore or a
\* lagging node has hidden, a fact that says executed names the settled
\* transaction of its intent, and that one moved the money (requirements.md 7:
\* "confirmed: a settled successful transaction matching the intent").
ConfirmedIsTrue ==
  \A id \in IDs : facts[id].executed =>
    LET r == winner[intents[id].nonce] IN
    /\ Recorded(id)
    /\ intents[id].nonce < settled
    /\ facts[id].tx = r.tx /\ r.tx \in Attempts(id) /\ r.result = "executed"

\* Reconciliation goes past a nonce only with its settled transaction on
\* record, and no restore takes that back (status.go Reconcile: anything else
\* "is reported rather than papered over").
FloorMatched ==
  \A n \in Nonces : n \in first .. floor - 1 => n < settled /\ Matched(n)

\* What a lost record may cost: however many restores, no identifier is mined
\* at a third nonce.  The first loss may go unseen once, while the lost attempt
\* is still in flight; from its settlement on, reconciliation refuses
\* everything (requirements.md 7: "an intent executes at most once").  A
\* transaction says nothing of identifiers, so one that two of them signed, the
\* same terms at the same nonce, answers for both and is not counted.
MinedFor(id) == {n \in Nonces :
  /\ <<id, winner[n].tx>> \in signed
  /\ \A other \in IDs : <<other, winner[n].tx>> \in signed => other = id}
AtMostTwice == \A id \in IDs : Cardinality(MinedFor(id)) <= 2

\* requirements.md 7: "After a crash or restore, the client assigns no new
\* nonce until every nonce below the settled account nonce is matched to an
\* intent by calldata".
AssignsMatched ==
  [][Record /\ ~Recorded(OpID) =>
       \A n \in Nonces : n \in first .. settled - 1 => Matched(n)]_allVars

\* How far that race reaches where nobody else signs with the key: only the
\* last settled nonce may be unmatched when the next is assigned, the one
\* attempt that was in flight when reconciliation looked.
AssignsMatchedButLast ==
  [][Record /\ ~Recorded(OpID) =>
       \A n \in Nonces : n \in first .. settled - 2 => Matched(n)]_allVars
=============================================================================
