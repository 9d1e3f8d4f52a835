------------------------------ MODULE Deposits ------------------------------
(***************************************************************************)
(* Deposit observation: status.go ScanDeposits over a chain of blocks, and *)
(* the deposits table and cursor of go/sqlite/sqlite.go.                   *)
(*                                                                         *)
(* A scan walks from the cursor to the settled head in spans, records each *)
(* span's transfers and then moves the cursor.  It holds Rail.mu, so one   *)
(* scan is under way at a time; it may end after any of its writes (an     *)
(* error, or the process is killed), and the chain moves between its       *)
(* steps.                                                                  *)
(***************************************************************************)
EXTENDS Integers, Sequences

CONSTANTS
  FromBlock,     \* Domain.FromBlock: no history before it
  MaxScanSpan,   \* maxScanSpan: how many blocks one query covers
  Contents,      \* what a block may hold: sequences of token transfers
  MaxBlock       \* bound: blocks ever mined

\* One Transfer log of the token.  One that is not `formed' has other topics
\* or too little data.  `by' is the account's operation that made it, or 0.
Transfers == [from : {"self", "other"}, to : {"self", "other"}, amount : Nat,
              formed : BOOLEAN, by : Nat]

ASSUME ScanAssumption == FromBlock \in Nat \ {0} /\ MaxScanSpan \in Nat \ {0}
ASSUME ContentsAssumption == Contents \subseteq Seq(Transfers) /\ MaxBlock \in Nat

VARIABLES
  chain,     \* the blocks, up to the latest
  head,      \* the settled head's number
  deposits,  \* recorded deposits
  cursor,    \* the block observation has reached
  scan       \* the local variables of the scan under way

chainVars == <<chain, head>>
recordVars == <<deposits, cursor>>
scanVars == <<chainVars, recordVars, scan>>

Positions == Nat \X Nat
Deposit(p) == [block |-> p[1], index |-> p[2], amount |-> chain[p[1]][p[2]].amount]
Records == [block : Nat, index : Nat, amount : Nat \ {0}]

NoCursor == -1
NoScan == [pc |-> "idle", from |-> 0, to |-> 0, last |-> 0, todo |-> {}]
Scans == [pc : {"idle", "query", "put"}, from : Nat, to : Nat, last : Nat,
          todo : SUBSET Positions]

ScanTypeOK ==
  /\ chain \in Seq(Seq(Transfers))
  /\ head \in 0 .. Len(chain)
  /\ deposits \subseteq Records
  /\ cursor \in Nat \cup {NoCursor}
  /\ scan \in Scans

ScanInit ==
  /\ chain = <<>>
  /\ head = 0
  /\ deposits = {}
  /\ cursor = NoCursor
  /\ scan = NoScan

----------------------------------------------------------------------------
(* The chain                                                               *)

MineBlock(transfers) ==
  /\ Len(chain) < MaxBlock
  /\ chain' = Append(chain, transfers)
  /\ UNCHANGED <<head, recordVars, scan>>

\* The latest block is undone: only above the settled head.
UndoBlock ==
  /\ head < Len(chain)
  /\ chain' = SubSeq(chain, 1, Len(chain) - 1)
  /\ UNCHANGED <<head, recordVars, scan>>

SettleBlock ==
  /\ head < Len(chain)
  /\ head' = head + 1
  /\ UNCHANGED <<chain, recordVars, scan>>

\* FilterLogs: the token's transfers to this account in a range of blocks.
FilterLogs(from, last) ==
  UNION {{<<b, i>> : i \in {j \in DOMAIN chain[b] : chain[b][j].to = "self"}} :
           b \in (from .. last) \cap DOMAIN chain}

----------------------------------------------------------------------------
(* ScanDeposits                                                            *)

Latest(a, b) == IF a >= b THEN a ELSE b
Earliest(a, b) == IF a <= b THEN a ELSE b

\* The settled head is the end of the scan; it starts after the cursor.
SettledHead == head
SlipScanFrom == cursor
ScanFrom == IF cursor = NoCursor THEN FromBlock ELSE cursor + 1
StartScan ==
  /\ scan.pc = "idle"
  /\ scan' = [NoScan EXCEPT !.pc = "query", !.from = ScanFrom, !.to = SettledHead]
  /\ UNCHANGED <<chainVars, recordVars>>

SlipMoreToScan == scan.from < scan.to
MoreToScan == scan.from <= scan.to

\* One query covers at most MaxScanSpan blocks.
SpanEnd == Earliest(scan.to, scan.from + MaxScanSpan - 1)
QuerySpan ==
  /\ scan.pc = "query"
  /\ MoreToScan
  /\ scan' = [scan EXCEPT !.pc = "put", !.last = SpanEnd,
                          !.todo = FilterLogs(scan.from, SpanEnd)]
  /\ UNCHANGED <<chainVars, recordVars>>

\* What counts as incoming money: a transfer of something from somebody else.
Incoming(p) ==
  LET t == chain[p[1]][p[2]] IN t.formed /\ t.from # "self" /\ t.amount > 0

Before(p, q) == p[1] < q[1] \/ (p[1] = q[1] /\ p[2] <= q[2])

\* PutDeposit: INSERT OR IGNORE by the log's identity; what does not count is
\* passed over.
PutDeposit(p) ==
  /\ scan.pc = "put"
  /\ p \in scan.todo
  /\ \A q \in scan.todo : Before(p, q)
  /\ scan' = [scan EXCEPT !.todo = @ \ {p}]
  /\ deposits' = IF Incoming(p) THEN deposits \cup {Deposit(p)} ELSE deposits
  /\ UNCHANGED <<chainVars, cursor>>

\* PutCursor: forward only, and only once the span is recorded.
SlipSpanDone == TRUE
SpanDone == scan.todo = {}
PutCursor ==
  /\ scan.pc = "put"
  /\ SpanDone
  /\ cursor' = Latest(Latest(cursor, 0), scan.last)
  /\ scan' = [scan EXCEPT !.pc = "query", !.from = scan.last + 1, !.todo = {}]
  /\ UNCHANGED <<chainVars, deposits>>

EndScan ==
  /\ scan.pc = "query"
  /\ ~MoreToScan
  /\ scan' = NoScan
  /\ UNCHANGED <<chainVars, recordVars>>

\* An error return, or the process is killed: with nothing left to scan that is
\* no different from EndScan.
StopScan ==
  /\ scan.pc = "put" \/ (scan.pc = "query" /\ MoreToScan)
  /\ scan' = NoScan
  /\ UNCHANGED <<chainVars, recordVars>>

----------------------------------------------------------------------------
ScanStep ==
  \/ QuerySpan
  \/ \E p \in scan.todo : PutDeposit(p)
  \/ PutCursor
  \/ EndScan

ChainStep ==
  \/ \E c \in Contents : MineBlock(c)
  \/ UndoBlock
  \/ SettleBlock

ScanNext == StartScan \/ ScanStep \/ StopScan \/ ChainStep

ScanSpec == ScanInit /\ [][ScanNext]_scanVars

----------------------------------------------------------------------------
(* Properties *)

Arrived(p) ==
  /\ p[1] \in FromBlock .. head
  /\ p[2] \in DOMAIN chain[p[1]]
  /\ chain[p[1]][p[2]].to = "self"
  /\ Incoming(p)

\* Up to the cursor the records hold every settled deposit, and nothing they
\* hold is anything else: no gap and no repetition across spans, errors, kills
\* and undone blocks (requirements.md 4: "one settled transfer is recognized
\* exactly once"; status.go DepositsScannedTo).
ObservedToCursor ==
  /\ cursor <= head
  /\ \A b \in FromBlock .. cursor : \A i \in DOMAIN chain[b] :
       Arrived(<<b, i>>) => Deposit(<<b, i>>) \in deposits
  /\ \A d \in deposits : Arrived(<<d.block, d.index>>) /\ d = Deposit(<<d.block, d.index>>)

\* The host scans again and again, and a scan that has begun goes on.
ScanLive == ScanSpec /\ WF_scanVars(StartScan) /\ WF_scanVars(ScanStep)

Uninterrupted == <>[][~StopScan]_scanVars

\* Once scans are no longer cut off, every settled deposit is recorded,
\* wherever the earlier ones were cut off (status.go: "an interrupted scan
\* resumes where it stopped rather than starting over").
EveryDepositObserved ==
  Uninterrupted =>
    \A b \in 1 .. MaxBlock, i \in 1 .. 2 :
      Arrived(<<b, i>>) ~> (Arrived(<<b, i>>) /\ Deposit(<<b, i>>) \in deposits)
=============================================================================
