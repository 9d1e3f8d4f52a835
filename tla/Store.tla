------------------------------- MODULE Store -------------------------------
(***************************************************************************)
(* The durable records of go/rail/store.go as go/sqlite/sqlite.go keeps    *)
(* them: intents, submissions and facts by identifier, and the nonce       *)
(* floor.  Each operator is one SQL transaction, so one atomic write.      *)
(***************************************************************************)
EXTENDS Chain, Sequences

CONSTANTS
  CallerIDs,     \* identifiers a host may choose
  MaxAttempts    \* bound: submissions per intent

\* refillID: derived from the nonce, and never a caller's own.
RefillID(n) == <<"refill", n>>
RefillIDs == {RefillID(n) : n \in Nonces}
IDs == CallerIDs \cup RefillIDs

ASSUME IDsDisjoint == CallerIDs \cap RefillIDs = {}

VARIABLES
  intents,   \* which operation owns which nonce
  subs,      \* signed attempts, in order
  facts,     \* settled outcomes
  floor      \* the nonce below which everything is reconciled

storeVars == <<intents, subs, facts, floor>>

Intents == [kind : Kinds, to : Places \cup {Venue}, amount : Nat, delta : Nat,
            nonce : Nonces]
NoIntent == [kind |-> "none", to |-> Venue, amount |-> 0, delta |-> 0, nonce |-> 0]

\* A fact with NoTx is the zero hash: the nonce went to a transaction this
\* account never recorded.
Facts == [known : {TRUE}, tx : Txs \cup {NoTx}, executed : BOOLEAN]
NoFact == [known |-> FALSE, tx |-> NoTx, executed |-> FALSE]
NoFloor == -1

StoreTypeOK ==
  /\ intents \in [IDs -> Intents \cup {NoIntent}]
  /\ subs \in [IDs -> Seq(Txs)]
  /\ facts \in [IDs -> Facts \cup {NoFact}]
  /\ floor \in {NoFloor} \cup 0 .. MaxNonce + 1

StoreInit ==
  /\ intents = [id \in IDs |-> NoIntent]
  /\ subs = [id \in IDs |-> <<>>]
  /\ facts = [id \in IDs |-> NoFact]
  /\ floor = NoFloor

Recorded(id) == intents[id] # NoIntent
Owns(id, n) == Recorded(id) /\ intents[id].nonce = n
PendingIDs == {id \in IDs : Recorded(id) /\ ~facts[id].known}

\* Intent.SameTerms: delta and calldata follow from the rest.
SameTerms(a, b) ==
  a.kind = b.kind /\ a.to = b.to /\ a.amount = b.amount /\ a.nonce = b.nonce

\* PutIntent: INSERT OR IGNORE under two unique keys, (account, id) and
\* (account, nonce), then the comparison.
MayPutIntent(id, in) ==
  IF Recorded(id) THEN SameTerms(intents[id], in)
  ELSE \A other \in IDs : ~Owns(other, in.nonce)
PutIntent(id, in) ==
  intents' = IF Recorded(id) THEN intents ELSE [intents EXCEPT ![id] = in]

AppendSubmission(id, tx) == subs' = [subs EXCEPT ![id] = Append(@, tx)]

\* PutFact: INSERT OR IGNORE.
PutFact(id, fact) ==
  facts' = IF facts[id].known THEN facts ELSE [facts EXCEPT ![id] = fact]

\* PutNonceFloor: MAX(COALESCE(floor, 0), excluded).
SlipPutNonceFloor(n) == floor' = n + 1
PutNonceFloor(n) == floor' = MaxInt(MaxInt(floor, 0), n)

Attempts(id) == {subs[id][i] : i \in DOMAIN subs[id]}
Last(id) == subs[id][Len(subs[id])]
=============================================================================
