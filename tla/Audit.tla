-------------------------------- MODULE Audit --------------------------------
(***************************************************************************)
(* A host that keeps books of its own and checks them against the chain,   *)
(* by the procedure of README 8: ScanDeposits, SettledBalances,            *)
(* DepositsScannedTo, Outcome and RefillCost per operation, then compare.  *)
(*                                                                         *)
(* Operations are numbered as their nonces.  How one comes to be signed    *)
(* and resolved exactly once is module Rail's subject; here it is recorded *)
(* in one step, and what counts is where its money went, in which block,   *)
(* and what the host gets to know of it.                                   *)
(***************************************************************************)
EXTENDS Deposits, Functions

CONSTANTS
  Payees,            \* where the host pays to: "other", "self"
  Amounts,           \* what a payment moves and what a refill may take
  MaxOps,            \* bound: operations
  AsksAfterErrors    \* the host asks Pending after a failed Pay, not only
                     \* after a restart and in an audit

ASSUME PaymentsAssumption ==
  Payees \subseteq {"self", "other"} /\ Amounts \subseteq Nat \ {0} /\ MaxOps \in Nat

\* One signer moves the account's money (rail.go Rail: "a key must be driven by
\* exactly one signer"), so what others put in a block can only add to it; and
\* the token's transfers are well formed.
ASSUME OthersAssumption ==
  \A c \in Contents : \A i \in DOMAIN c :
    c[i].from = "other" /\ c[i].formed /\ c[i].by = 0

VARIABLES
  ops,      \* the recorded operations, by nonce
  known,    \* those whose fact is cached
  heard,    \* those the host has in its books
  host,     \* "running", "unsure" (a Pay failed) or "stopped"
  audit     \* the audit under way

bookVars == <<ops, known, heard>>
hostVars == <<bookVars, host, audit>>
vars == <<scanVars, hostVars>>

\* block 0: not mined.
Operations == [kind : {"payment", "refill"}, to : Payees \cup {"other"},
               amount : Amounts, block : 0 .. MaxBlock, success : BOOLEAN]
NoAudit == [pc |-> "idle", block |-> 0, balance |-> 0, todo |-> {}, out |-> 0]
Audits == [pc : {"idle", "balances", "outcomes"}, block : Nat, balance : Int,
           todo : SUBSET (1 .. MaxOps), out : Nat]

TypeOK ==
  /\ ScanTypeOK
  /\ ops \in Seq(Operations)
  /\ known \subseteq DOMAIN ops
  /\ heard \subseteq DOMAIN ops
  /\ host \in {"running", "unsure", "stopped"}
  /\ audit \in Audits

Init ==
  /\ ScanInit
  /\ ops = <<>>
  /\ known = {}
  /\ heard = {}
  /\ host = "running"
  /\ audit = NoAudit

----------------------------------------------------------------------------
(* The chain                                                               *)

Worth(t) ==
  (IF t.to = "self" THEN t.amount ELSE 0) - (IF t.from = "self" THEN t.amount ELSE 0)

\* The transfers up to a block, by position, and what they left in the account.
Logs(n) == UNION {{<<b, i>> : i \in DOMAIN chain[b]} : b \in 1 .. n}
BalanceAt(n) == SumFunction([p \in Logs(n) |-> Worth(chain[p[1]][p[2]])])

\* What the transaction of operation k may emit: a payment its one transfer,
\* or none from a token that answers false; a swap one transfer within its
\* bound, or two when the route splits.
Send(k, to, amount) ==
  [from |-> "self", to |-> to, amount |-> amount, formed |-> TRUE, by |-> k]
Emits(k) ==
  LET o == ops[k] IN
  IF o.kind = "payment" THEN {<<Send(k, o.to, o.amount)>>, <<>>}
  ELSE {<<Send(k, "other", n)>> : n \in 1 .. o.amount}
       \cup {<<Send(k, "other", n), Send(k, "other", 1)>> : n \in 1 .. o.amount - 1}

Taken(emitted) == SumFunction([i \in DOMAIN emitted |-> emitted[i].amount])

MineOperation(k, others, emitted, success) ==
  /\ ops[k].block = 0
  /\ \A j \in 1 .. k - 1 : ops[j].block # 0
  /\ Len(chain) < MaxBlock
  /\ ~success => emitted = <<>>
  /\ Taken(emitted) <= BalanceAt(Len(chain))
  /\ chain' = Append(chain, others \o emitted)
  /\ ops' = [ops EXCEPT ![k].block = Len(chain) + 1, ![k].success = success]
  /\ UNCHANGED <<head, recordVars, scan, known, heard, host, audit>>

\* Undoing a block puts its transactions back; what is below FromBlock has
\* nothing of this account's.
Undo ==
  /\ UndoBlock
  /\ ops' = [k \in DOMAIN ops |->
              IF ops[k].block = Len(chain)
              THEN [ops[k] EXCEPT !.block = 0, !.success = FALSE] ELSE ops[k]]
  /\ UNCHANGED <<known, heard, host, audit>>

ChainMoves ==
  \/ \E c \in Contents :
       /\ Len(chain) + 1 < FromBlock => c = <<>>
       /\ MineBlock(c)
       /\ UNCHANGED hostVars
  \/ Undo
  \/ SettleBlock /\ UNCHANGED hostVars
  \/ \E k \in DOMAIN ops, c \in Contents, success \in BOOLEAN :
       \E emitted \in Emits(k) \cup {<<>>} :
         MineOperation(k, c, emitted, success) /\ Len(chain) + 1 >= FromBlock

----------------------------------------------------------------------------
(* What the rail says                                                      *)

Settled(k) == ops[k].block \in 1 .. head

\* executed, with the transferLog a payment must show; a refill's receipt is
\* enough.
Executed(k) ==
  /\ ops[k].success
  /\ ops[k].kind = "payment" =>
       \E i \in DOMAIN chain[ops[k].block] :
         LET t == chain[ops[k].block][i]
         IN  t.by = k /\ t.from = "self" /\ t.to = ops[k].to /\ t.amount = ops[k].amount

\* sentTransferValues: what the account sent in the winning transaction,
\* wherever it went.
Sent(k) ==
  LET block == chain[ops[k].block]
  IN  {i \in DOMAIN block : block[i].by = k /\ block[i].from = "self"}

\* RefillCost: nothing for a failed refill, an error unless it paid once.
SlipRefillSign(k) ==
  IF Executed(k) THEN {Worth(chain[ops[k].block][i]) : i \in Sent(k)} ELSE {0}
SlipRefillCost(k) == IF Executed(k) THEN {ops[k].amount} ELSE {0}
RefillCost(k) ==
  IF ~Executed(k) THEN {0}
  ELSE {chain[ops[k].block][i].amount : i \in {j \in Sent(k) : Sent(k) = {j}}}

\* What the host deducts for one operation.
Costs(k) ==
  IF ops[k].kind = "refill" THEN RefillCost(k)
  ELSE {IF Executed(k) THEN ops[k].amount ELSE 0}

Pending == DOMAIN ops \ known

----------------------------------------------------------------------------
(* The host's calls                                                        *)

New(kind, to, amount) ==
  [kind |-> kind, to |-> to, amount |-> amount, block |-> 0, success |-> FALSE]

\* ready settles what is pending, and refuses while anything is left; simulate
\* refuses what the account does not hold.
Ready == \A k \in DOMAIN ops : Settled(k)
Holds(amount) == BalanceAt(Len(chain)) >= amount

\* Pay lets a payment go; its identifier is the host's own.
PayOut(to, amount) ==
  /\ host = "running"
  /\ Len(ops) < MaxOps
  /\ Ready
  /\ Holds(amount)
  /\ ops' = Append(ops, New("payment", to, amount))
  /\ known' = DOMAIN ops
  /\ heard' = heard \cup {Len(ops) + 1}
  /\ UNCHANGED <<scanVars, host, audit>>

\* Pay buys gas instead.  The refill is recorded, and may be sent, whatever
\* Pay then returns: its identifier, an error without it, or nothing because
\* the process was killed.
PayRefill(amount, answer) ==
  /\ host = "running"
  /\ Len(ops) < MaxOps
  /\ Ready
  /\ Holds(amount)
  /\ ops' = Append(ops, New("refill", "other", amount))
  /\ known' = DOMAIN ops
  /\ heard' = IF answer = "id" THEN heard \cup {Len(ops) + 1} ELSE heard
  /\ host' = IF answer = "killed" THEN "stopped"
             ELSE IF answer = "error" /\ AsksAfterErrors THEN "unsure"
             ELSE host
  /\ scan' = IF answer = "killed" THEN NoScan ELSE scan
  /\ audit' = IF answer = "killed" THEN NoAudit ELSE audit
  /\ UNCHANGED <<chainVars, recordVars>>

\* A Pay that comes no further than ready: what has settled is cached.
PayRefused ==
  /\ host = "running"
  /\ known' = {k \in DOMAIN ops : Settled(k)}
  /\ UNCHANGED <<scanVars, ops, heard, host, audit>>

\* Status of an operation in the books, outside an audit.
AskStatus(k) ==
  /\ host = "running"
  /\ k \in heard
  /\ Settled(k)
  /\ known' = known \cup {k}
  /\ UNCHANGED <<scanVars, ops, heard, host, audit>>

\* A host that was killed, or is unsure, asks Pending first.
AskPending ==
  /\ host \in {"stopped", "unsure"}
  /\ heard' = heard \cup Pending
  /\ host' = "running"
  /\ UNCHANGED <<scanVars, ops, known, audit>>

Die ==
  /\ host' = "stopped"
  /\ host # "stopped"
  /\ scan' = NoScan
  /\ audit' = NoAudit
  /\ UNCHANGED <<chainVars, recordVars, bookVars>>

----------------------------------------------------------------------------
(* The audit                                                               *)

\* SettledBalances: both figures at the settled head, and its number.
AuditHead == head
SettledBalances ==
  /\ host = "running"
  /\ audit.pc = "idle"
  /\ audit' = [NoAudit EXCEPT !.pc = "balances", !.block = AuditHead,
                              !.balance = BalanceAt(AuditHead)]
  /\ UNCHANGED <<scanVars, bookVars, host>>

\* DepositsScannedTo: go on only from a cursor at or past the block.  The
\* operations to ask about are those in the books and those still pending.
DepositsScannedTo ==
  /\ host = "running"
  /\ audit.pc = "balances"
  /\ cursor # NoCursor /\ cursor >= audit.block
  /\ audit' = [audit EXCEPT !.pc = "outcomes", !.todo = heard \cup Pending]
  /\ heard' = heard \cup Pending
  /\ UNCHANGED <<scanVars, ops, known, host>>

\* Outcome, and RefillCost for a refill; only what settled at or before the
\* block is counted.
CountOutcome(k) ==
  /\ host = "running"
  /\ audit.pc = "outcomes"
  /\ k \in audit.todo
  /\ IF Settled(k) /\ ops[k].block <= audit.block
     THEN \E cost \in Costs(k) :
            audit' = [audit EXCEPT !.todo = @ \ {k}, !.out = @ + cost]
     ELSE audit' = [audit EXCEPT !.todo = @ \ {k}]
  /\ known' = IF Settled(k) THEN known \cup {k} ELSE known
  /\ UNCHANGED <<scanVars, ops, heard, host>>

EndAudit ==
  /\ audit.pc # "idle"
  /\ audit' = NoAudit
  /\ UNCHANGED <<scanVars, bookVars, host>>

Scanning == host = "running" /\ (StartScan \/ ScanStep \/ StopScan) /\ UNCHANGED hostVars

Calls ==
  \/ \E to \in Payees, n \in Amounts : PayOut(to, n)
  \/ \E n \in Amounts, answer \in {"id", "error", "killed"} : PayRefill(n, answer)
  \/ PayRefused
  \/ \E k \in heard : AskStatus(k)
  \/ AskPending
  \/ Die

Auditing ==
  \/ SettledBalances
  \/ DepositsScannedTo
  \/ \E k \in audit.todo : CountOutcome(k)
  \/ EndAudit

Next == ChainMoves \/ Scanning \/ Calls \/ Auditing

Spec == Init /\ [][Next]_vars

----------------------------------------------------------------------------
(* Properties *)

\* What the books hold at the audited block.
DepositedBy(n) == SumFunction([d \in {r \in deposits : r.block <= n} |-> d.amount])

\* When the procedure has been followed to its end, the host's books and the
\* chain agree at the settled block, whatever was in flight, undone, scanned
\* or killed meanwhile (README 8: "chain balance at N == your ledger at N").
BooksAgree ==
  audit.pc = "outcomes" /\ audit.todo = {} =>
    audit.balance = DepositedBy(audit.block) - audit.out
=============================================================================
