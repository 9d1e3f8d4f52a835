--------------------------- MODULE DepositsProofs ---------------------------
(***************************************************************************)
(* What ScanDeposits keeps for any span, any first block, any blocks and   *)
(* any number of interrupted scans.                                        *)
(***************************************************************************)
EXTENDS Deposits, SequenceTheorems, TLAPS

\* Where the scan under way stands: it has come as far as the cursor, and of
\* the span it is in, all that is no longer to do is recorded.
Standing ==
  /\ cursor # NoCursor => cursor >= FromBlock
  /\ scan.pc # "idle" => scan.from = ScanFrom /\ scan.to <= head
  /\ scan.pc = "put" =>
       /\ scan.last \in scan.from .. scan.to
       /\ scan.todo \subseteq FilterLogs(scan.from, scan.last)
       /\ \A p \in FilterLogs(scan.from, scan.last) \ scan.todo :
            Incoming(p) => Deposit(p) \in deposits

Inv == ScanTypeOK /\ ObservedToCursor /\ Standing

----------------------------------------------------------------------------
LEMMA Constants_ == FromBlock \in Nat /\ FromBlock > 0 /\ MaxScanSpan \in Nat /\ MaxScanSpan > 0
PROOF
  BY ScanAssumption

LEMMA LogMember ==
  ASSUME NEW from, NEW last, NEW p
  PROVE  p \in FilterLogs(from, last) <=>
           \E b \in (from .. last) \cap DOMAIN chain : \E i \in DOMAIN chain[b] :
             chain[b][i].to = "self" /\ p = <<b, i>>
PROOF
  BY DEF FilterLogs

\* A block and its transfers, typed.
LEMMA BlockTyped ==
  ASSUME ScanTypeOK, NEW b \in DOMAIN chain, NEW i \in DOMAIN chain[b]
  PROVE  /\ b \in Nat /\ i \in Nat
         /\ chain[b][i] \in Transfers
         /\ chain[b][i].amount \in Nat
PROOF
<1>1. chain \in Seq(Seq(Transfers))  BY DEF ScanTypeOK
<1>2. b \in 1 .. Len(chain)  BY <1>1, LenProperties
<1>3. chain[b] \in Seq(Transfers)  BY <1>1, <1>2, ElementOfSeq
<1>4. i \in 1 .. Len(chain[b])  BY <1>3, LenProperties
<1>5. chain[b][i] \in Transfers  BY <1>3, <1>4, ElementOfSeq
<1>6. Len(chain) \in Nat /\ Len(chain[b]) \in Nat  BY <1>1, <1>3, LenProperties
<1>7. QED  BY <1>2, <1>4, <1>5, <1>6 DEF Transfers

LEMMA LogTyped ==
  ASSUME ScanTypeOK, NEW from \in Nat, NEW last \in Nat, NEW p \in FilterLogs(from, last)
  PROVE  /\ p \in Positions
         /\ p[1] \in from .. last /\ p[1] \in DOMAIN chain /\ p[2] \in DOMAIN chain[p[1]]
         /\ chain[p[1]][p[2]].to = "self"
         /\ Incoming(p) => Deposit(p) \in Records
PROOF
<1>1. PICK b \in (from .. last) \cap DOMAIN chain : \E i \in DOMAIN chain[b] :
        chain[b][i].to = "self" /\ p = <<b, i>>
  BY LogMember
<1>2. PICK i \in DOMAIN chain[b] : chain[b][i].to = "self" /\ p = <<b, i>>
  BY <1>1
<1>3. b \in Nat /\ i \in Nat /\ chain[b][i].amount \in Nat  BY BlockTyped
<1>4. p[1] = b /\ p[2] = i  BY <1>2
<1>5. p \in Positions  BY <1>2, <1>3 DEF Positions
<1>6. Incoming(p) => Deposit(p) \in Records
  BY <1>3, <1>4 DEF Incoming, Deposit, Records
<1>7. QED  BY <1>1, <1>2, <1>4, <1>5, <1>6

\* What is settled stays: a step that leaves the scan and the records alone
\* and every settled block as it was keeps the invariant.
LEMMA SettledStays ==
  ASSUME Inv, chain' \in Seq(Seq(Transfers)), head' \in head .. Len(chain'),
         \A b \in 1 .. head : chain'[b] = chain[b],
         UNCHANGED <<recordVars, scan>>
  PROVE  Inv'
PROOF
<1>1. ScanTypeOK'  BY DEF Inv, ScanTypeOK, recordVars
<1>2. /\ head \in Nat /\ head' \in Nat /\ head' >= head
      /\ DOMAIN chain = 1 .. Len(chain) /\ DOMAIN chain' = 1 .. Len(chain')
      /\ head <= Len(chain) /\ Len(chain) \in Nat /\ Len(chain') \in Nat
  BY LenProperties DEF Inv, ScanTypeOK
<1>3. \A b \in 1 .. head : b \in DOMAIN chain /\ b \in DOMAIN chain' /\ chain'[b] = chain[b]
  BY <1>2
<1>4. /\ cursor' = cursor /\ deposits' = deposits /\ scan' = scan
      /\ cursor \in Nat \cup {NoCursor}
  BY DEF Inv, ScanTypeOK, recordVars
<1>5. \A b \in 1 .. head : \A i :
        /\ Incoming(<<b, i>>)' <=> Incoming(<<b, i>>)
        /\ Deposit(<<b, i>>)' = Deposit(<<b, i>>)
  BY <1>3 DEF Incoming, Deposit
<1>6. FromBlock \in Nat /\ FromBlock > 0  BY Constants_
<1>7. \A b \in FromBlock .. head : \A i : Arrived(<<b, i>>)' <=> Arrived(<<b, i>>)
  <2> SUFFICES ASSUME NEW b \in FromBlock .. head, NEW i
               PROVE  Arrived(<<b, i>>)' <=> Arrived(<<b, i>>)
    OBVIOUS
  <2>1. b \in 1 .. head /\ b \in FromBlock .. head'  BY <1>2, <1>6
  <2>2. chain'[b] = chain[b]  BY <2>1, <1>3
  <2>3. Incoming(<<b, i>>)' <=> Incoming(<<b, i>>)  BY <2>1, <1>5
  <2>4. <<b, i>>[1] = b /\ <<b, i>>[2] = i  OBVIOUS
  <2>5. QED  BY <2>1, <2>2, <2>3, <2>4 DEF Arrived
<1>8. ObservedToCursor'
  <2>1. (cursor <= head)'  BY <1>2, <1>4 DEF Inv, ObservedToCursor, NoCursor
  <2>2. ASSUME NEW b \in FromBlock .. cursor, NEW i \in DOMAIN (chain'[b]), Arrived(<<b, i>>)'
        PROVE  Deposit(<<b, i>>)' \in deposits'
    <3>1. b \in 1 .. head /\ b \in FromBlock .. head
      BY <1>2, <1>4, <1>6 DEF Inv, ObservedToCursor, NoCursor
    <3>2. i \in DOMAIN chain[b]  BY <1>3, <3>1, <2>2
    <3>3. Arrived(<<b, i>>)  BY <1>7, <3>1, <2>2
    <3>4. Deposit(<<b, i>>) \in deposits  BY <3>2, <3>3 DEF Inv, ObservedToCursor
    <3>5. QED  BY <3>4, <3>1, <1>4, <1>5
  <2>3. ASSUME NEW d \in deposits
        PROVE  Arrived(<<d.block, d.index>>)' /\ d = Deposit(<<d.block, d.index>>)'
    <3>1. Arrived(<<d.block, d.index>>) /\ d = Deposit(<<d.block, d.index>>)
      BY DEF Inv, ObservedToCursor
    <3>2. d.block \in FromBlock .. head  BY <3>1 DEF Arrived
    <3>3. d.block \in 1 .. head  BY <3>2, <1>6, <1>2
    <3>4. QED  BY <3>1, <3>2, <3>3, <1>5, <1>7
  <2>4. QED  BY <2>1, <2>2, <2>3, <1>4 DEF ObservedToCursor
<1>9. Standing'
  <2>1. (cursor # NoCursor => cursor >= FromBlock)'  BY <1>4 DEF Inv, Standing
  <2>2. (scan.pc # "idle" => scan.from = ScanFrom /\ scan.to <= head)'
    BY <1>2, <1>4 DEF Inv, Standing, ScanFrom, ScanTypeOK, Scans
  <2>3. SUFFICES ASSUME scan.pc = "put"
        PROVE  /\ (scan.last \in scan.from .. scan.to)'
               /\ (scan.todo \subseteq FilterLogs(scan.from, scan.last))'
               /\ (\A p \in FilterLogs(scan.from, scan.last) \ scan.todo :
                     Incoming(p) => Deposit(p) \in deposits)'
    BY <2>1, <2>2, <1>4 DEF Standing
  <2>4. /\ scan.last \in scan.from .. scan.to /\ scan.to <= head
        /\ scan.from = ScanFrom
        /\ scan.from \in Nat /\ scan.to \in Nat /\ scan.last \in Nat
    BY <2>3 DEF Inv, Standing, ScanTypeOK, Scans
  <2>5. scan.from >= FromBlock
    BY <2>4, <1>4, <1>6 DEF Inv, Standing, ScanFrom, NoCursor
  <2>6. \A b \in scan.from .. scan.last : b \in 1 .. head
    BY <2>4, <2>5, <1>2, <1>6
  <2>7. FilterLogs(scan.from, scan.last)' = FilterLogs(scan.from, scan.last)
    <3>1. (scan.from .. scan.last) \cap DOMAIN chain = scan.from .. scan.last
      BY <2>6, <1>3
    <3>2. (scan.from .. scan.last) \cap DOMAIN chain' = scan.from .. scan.last
      BY <2>6, <1>3
    <3>3. \A b \in scan.from .. scan.last : chain'[b] = chain[b]  BY <2>6, <1>3
    <3>4. scan' = scan  BY <1>4
    <3>5. QED  BY <3>1, <3>2, <3>3, <3>4 DEF FilterLogs
  <2>8. \A p \in FilterLogs(scan.from, scan.last) :
          /\ Incoming(p)' <=> Incoming(p)
          /\ Deposit(p)' = Deposit(p)
    <3> SUFFICES ASSUME NEW p \in FilterLogs(scan.from, scan.last)
                 PROVE  (Incoming(p)' <=> Incoming(p)) /\ Deposit(p)' = Deposit(p)
      OBVIOUS
    <3>1. p[1] \in scan.from .. scan.last  BY LogTyped, <2>4 DEF Inv
    <3>2. chain'[p[1]] = chain[p[1]]  BY <3>1, <2>6, <1>3
    <3>3. QED  BY <3>2 DEF Incoming, Deposit
  <2>9. QED  BY <2>3, <2>4, <2>7, <2>8, <1>4 DEF Inv, Standing
<1>10. QED  BY <1>1, <1>8, <1>9 DEF Inv

----------------------------------------------------------------------------
(* The steps                                                               *)

LEMMA InitInv == ScanInit => Inv
PROOF
<1> SUFFICES ASSUME ScanInit PROVE Inv
  OBVIOUS
<1>1. ScanTypeOK
  <2>1. <<>> \in Seq(Seq(Transfers)) /\ Len(<<>>) = 0  BY EmptySeq
  <2>2. NoScan \in Scans  BY DEF NoScan, Scans
  <2>3. QED  BY <2>1, <2>2 DEF ScanInit, ScanTypeOK
<1>2. ObservedToCursor
  <2>1. cursor = -1 /\ head = 0 /\ deposits = {}  BY DEF ScanInit, NoCursor
  <2>2. FromBlock .. cursor = {}  BY <2>1, Constants_
  <2>3. QED  BY <2>1, <2>2 DEF ObservedToCursor
<1>3. Standing  BY DEF ScanInit, Standing, NoScan, NoCursor
<1>4. QED  BY <1>1, <1>2, <1>3 DEF Inv

LEMMA MineKeeps == ASSUME Inv, NEW c \in Seq(Transfers), MineBlock(c) PROVE Inv'
PROOF
<1>1. c \in Seq(Transfers)  OBVIOUS
<1>2. chain \in Seq(Seq(Transfers)) /\ head \in 0 .. Len(chain) /\ Len(chain) \in Nat
  BY LenProperties DEF Inv, ScanTypeOK
<1>3. /\ chain' \in Seq(Seq(Transfers))
      /\ Len(chain') = Len(chain) + 1
      /\ \A b \in 1 .. Len(chain) : chain'[b] = chain[b]
  BY <1>1, <1>2, AppendProperties DEF MineBlock
<1>4. head' = head /\ head' \in head .. Len(chain')  BY <1>2, <1>3 DEF MineBlock
<1>5. \A b \in 1 .. head : chain'[b] = chain[b]  BY <1>2, <1>3
<1>6. UNCHANGED <<recordVars, scan>>  BY DEF MineBlock
<1>7. QED  BY <1>3, <1>4, <1>5, <1>6, SettledStays

\* The block undone is the latest, and above the settled head.
LEMMA UndoShortens ==
  ASSUME Inv, UndoBlock
  PROVE  /\ head \in Nat /\ Len(chain) \in Nat /\ head < Len(chain)
         /\ chain' \in Seq(Seq(Transfers))
         /\ Len(chain') = Len(chain) - 1
         /\ \A b \in 1 .. Len(chain) - 1 : chain'[b] = chain[b]
PROOF
<1>1. chain \in Seq(Seq(Transfers)) /\ head \in 0 .. Len(chain) /\ Len(chain) \in Nat
  BY LenProperties DEF Inv, ScanTypeOK
<1>2. head < Len(chain) /\ head \in Nat  BY <1>1 DEF UndoBlock
<1>3. /\ chain' \in Seq(Seq(Transfers))
      /\ Len(chain') = Len(chain) - 1
      /\ \A b \in 1 .. Len(chain) - 1 : chain'[b] = chain[b]
  <2>1. chain' = SubSeq(chain, 1, Len(chain) - 1)  BY DEF UndoBlock
  <2> DEFINE n == Len(chain) - 1
  <2>2. n \in Int /\ n >= 0 /\ n < Len(chain)  BY <1>2, <1>1
  <2>3. \A i \in 1 .. n : chain[i] \in Seq(Transfers)
    BY <2>2, <1>1, ElementOfSeq
  <2> HIDE DEF n
  <2>4. /\ SubSeq(chain, 1, n) \in Seq(Seq(Transfers))
        /\ Len(SubSeq(chain, 1, n)) = IF 1 <= n THEN n - 1 + 1 ELSE 0
        /\ \A i \in 1 .. n - 1 + 1 : SubSeq(chain, 1, n)[i] = chain[1 + i - 1]
    BY <2>2, <2>3, SubSeqProperties
  <2>5. Len(SubSeq(chain, 1, n)) = n /\ \A i \in 1 .. n : SubSeq(chain, 1, n)[i] = chain[i]
    BY <2>2, <2>4
  <2>6. QED  BY <2>1, <2>4, <2>5 DEF n
<1>4. QED  BY <1>1, <1>2, <1>3

LEMMA UndoKeeps == ASSUME Inv, UndoBlock PROVE Inv'
PROOF
<1>1. /\ head \in Nat /\ Len(chain) \in Nat /\ head < Len(chain)
      /\ chain' \in Seq(Seq(Transfers))
      /\ Len(chain') = Len(chain) - 1
      /\ \A b \in 1 .. Len(chain) - 1 : chain'[b] = chain[b]
  BY UndoShortens
<1>2. head' = head /\ head' \in head .. Len(chain')  BY <1>1 DEF UndoBlock
<1>3. \A b \in 1 .. head : chain'[b] = chain[b]  BY <1>1
<1>4. UNCHANGED <<recordVars, scan>>  BY DEF UndoBlock
<1>5. QED  BY <1>1, <1>2, <1>3, <1>4, SettledStays

LEMMA SettleKeeps == ASSUME Inv, SettleBlock PROVE Inv'
PROOF
<1>1. chain \in Seq(Seq(Transfers)) /\ head \in 0 .. Len(chain) /\ Len(chain) \in Nat
  BY LenProperties DEF Inv, ScanTypeOK
<1>2. chain' = chain /\ head' \in head .. Len(chain')  BY <1>1 DEF SettleBlock
<1>3. UNCHANGED <<recordVars, scan>>  BY DEF SettleBlock
<1>4. QED  BY <1>1, <1>2, <1>3, SettledStays

\* A step of the scan that records nothing.
LEMMA ScanOnly ==
  ASSUME Inv, UNCHANGED <<chainVars, recordVars>>, scan' \in Scans, Standing'
  PROVE  Inv'
PROOF
<1>1. ScanTypeOK'  BY DEF Inv, ScanTypeOK, chainVars, recordVars
<1>2. ObservedToCursor'
  BY DEF Inv, ObservedToCursor, Arrived, Incoming, Deposit, chainVars, recordVars
<1>3. QED  BY <1>1, <1>2 DEF Inv

LEMMA StartKeeps == ASSUME Inv, StartScan PROVE Inv'
PROOF
<1>1. /\ UNCHANGED <<chainVars, recordVars>>
      /\ scan' = [NoScan EXCEPT !.pc = "query", !.from = ScanFrom, !.to = SettledHead]
  BY DEF StartScan
<1>2. head \in Nat /\ cursor \in Nat \cup {NoCursor}
  BY LenProperties DEF Inv, ScanTypeOK
<1>3. ScanFrom \in Nat  BY <1>2, Constants_ DEF ScanFrom
<1>4. scan' \in Scans  BY <1>1, <1>2, <1>3 DEF Scans, NoScan, SettledHead
<1>5. Standing'
  BY <1>1, <1>2 DEF Inv, Standing, NoScan, SettledHead, ScanFrom, chainVars, recordVars
<1>6. QED  BY <1>1, <1>4, <1>5, ScanOnly

\* A scan that is dropped, for whatever reason, leaves what it recorded.
LEMMA DropKeeps ==
  ASSUME Inv, UNCHANGED <<chainVars, recordVars>>, scan' = NoScan
  PROVE  Inv'
PROOF
<1>1. scan' \in Scans  BY DEF Scans, NoScan
<1>2. Standing'  BY DEF Inv, Standing, NoScan, chainVars, recordVars
<1>3. QED  BY <1>1, <1>2, ScanOnly

LEMMA EndKeeps == ASSUME Inv, EndScan \/ StopScan PROVE Inv'
PROOF
  BY DropKeeps DEF EndScan, StopScan

\* The span ends within the scan and within reach of one query.
LEMMA SpanEndWithin ==
  ASSUME Inv, scan.pc = "query", MoreToScan
  PROVE  SpanEnd \in scan.from .. scan.to /\ SpanEnd < scan.from + MaxScanSpan
PROOF
<1>1. scan.from \in Nat /\ scan.to \in Nat  BY DEF Inv, ScanTypeOK, Scans
<1>2. QED  BY <1>1, Constants_ DEF SpanEnd, Earliest, MoreToScan

LEMMA QueryKeeps == ASSUME Inv, QuerySpan PROVE Inv'
PROOF
<1>1. /\ scan.pc = "query" /\ MoreToScan
      /\ UNCHANGED <<chainVars, recordVars>>
      /\ scan' = [scan EXCEPT !.pc = "put", !.last = SpanEnd,
                              !.todo = FilterLogs(scan.from, SpanEnd)]
  BY DEF QuerySpan
<1>2. scan \in Scans /\ scan.from \in Nat /\ scan.to \in Nat
  BY DEF Inv, ScanTypeOK, Scans
<1>3. SpanEnd \in scan.from .. scan.to /\ SpanEnd \in Nat
  BY <1>1, <1>2, SpanEndWithin
<1>4. FilterLogs(scan.from, SpanEnd) \in SUBSET Positions
  BY <1>2, <1>3, LogTyped DEF Inv
<1>5. scan' \in Scans  BY <1>1, <1>2, <1>3, <1>4 DEF Scans
<1>6. Standing'
  <2>1. /\ scan'.pc = "put" /\ scan'.last = SpanEnd /\ scan'.from = scan.from
        /\ scan'.to = scan.to /\ scan'.todo = FilterLogs(scan.from, SpanEnd)
    BY <1>1, <1>2 DEF Scans
  <2>2. FilterLogs(scan.from, scan.last)' = FilterLogs(scan.from, SpanEnd)
    BY <2>1, <1>1 DEF FilterLogs, chainVars
  <2>3. cursor' = cursor /\ head' = head /\ deposits' = deposits /\ chain' = chain
    BY <1>1 DEF chainVars, recordVars
  <2>4. ScanFrom' = ScanFrom  BY <2>3 DEF ScanFrom
  <2>5. (cursor # NoCursor => cursor >= FromBlock)'  BY <2>3 DEF Inv, Standing
  <2>6. (scan.pc # "idle" => scan.from = ScanFrom /\ scan.to <= head)'
    BY <1>1, <2>1, <2>3, <2>4 DEF Inv, Standing
  <2>7. QED  BY <2>1, <2>2, <2>5, <2>6, <1>3 DEF Standing
<1>7. QED  BY <1>1, <1>5, <1>6, ScanOnly

LEMMA PutDepositKeeps == ASSUME Inv, NEW p \in scan.todo, PutDeposit(p) PROVE Inv'
PROOF
<1>1. /\ scan.pc = "put"
      /\ scan' = [scan EXCEPT !.todo = @ \ {p}]
      /\ deposits' = IF Incoming(p) THEN deposits \cup {Deposit(p)} ELSE deposits
      /\ chain' = chain /\ head' = head /\ cursor' = cursor
  BY DEF PutDeposit, chainVars
<1>2. /\ scan \in Scans /\ scan.from \in Nat /\ scan.to \in Nat /\ scan.last \in Nat
      /\ scan.todo \in SUBSET Positions /\ cursor \in Nat \cup {NoCursor}
  BY DEF Inv, ScanTypeOK, Scans
<1>3. /\ scan.last \in scan.from .. scan.to /\ scan.to <= head /\ scan.from = ScanFrom
      /\ p \in FilterLogs(scan.from, scan.last)
  BY <1>1 DEF Inv, Standing
<1>4. head \in Nat  BY LenProperties DEF Inv, ScanTypeOK
<1>5. scan.from >= FromBlock
  BY <1>2, <1>3, Constants_ DEF Inv, Standing, ScanFrom, NoCursor
<1>6. /\ p[1] \in scan.from .. scan.last /\ p[2] \in DOMAIN chain[p[1]]
      /\ chain[p[1]][p[2]].to = "self" /\ p \in Positions
      /\ Incoming(p) => Deposit(p) \in Records
  BY <1>2, <1>3, LogTyped DEF Inv
<1>7. p = <<p[1], p[2]>>  BY <1>6 DEF Positions
<1>8. Incoming(p) => Arrived(p)
  BY <1>2, <1>3, <1>4, <1>5, <1>6, Constants_ DEF Arrived
<1>9. deposits \subseteq deposits'  BY <1>1
<1>10. ScanTypeOK'
  <2>1. scan' \in Scans  BY <1>1, <1>2 DEF Scans
  <2>2. deposits' \subseteq Records  BY <1>1, <1>6 DEF Inv, ScanTypeOK
  <2>3. QED  BY <2>1, <2>2, <1>1 DEF Inv, ScanTypeOK
<1>11. \A q : /\ Incoming(q)' <=> Incoming(q)
              /\ Deposit(q)' = Deposit(q)
              /\ Arrived(q)' <=> Arrived(q)
  BY <1>1 DEF Incoming, Deposit, Arrived
<1>12. ObservedToCursor'
  <2>1. \A d \in deposits' : Arrived(<<d.block, d.index>>) /\ d = Deposit(<<d.block, d.index>>)
    <3> SUFFICES ASSUME NEW d \in deposits'
                 PROVE  Arrived(<<d.block, d.index>>) /\ d = Deposit(<<d.block, d.index>>)
      OBVIOUS
    <3>1. CASE d \in deposits  BY <3>1 DEF Inv, ObservedToCursor
    <3>2. CASE d \notin deposits
      <4>1. Incoming(p) /\ d = Deposit(p)  BY <3>2, <1>1
      <4>2. d.block = p[1] /\ d.index = p[2]  BY <4>1 DEF Deposit
      <4>3. QED  BY <4>1, <4>2, <1>7, <1>8
    <3>3. QED  BY <3>1, <3>2
  <2>2. (cursor <= head)'  BY <1>1 DEF Inv, ObservedToCursor
  <2>3. \A b \in FromBlock .. cursor : \A i \in DOMAIN chain[b] :
          Arrived(<<b, i>>) => Deposit(<<b, i>>) \in deposits'
    BY <1>9 DEF Inv, ObservedToCursor
  <2>4. QED  BY <2>1, <2>2, <2>3, <1>1, <1>11 DEF ObservedToCursor
<1>13. Standing'
  <2>1. /\ scan'.pc = "put" /\ scan'.from = scan.from /\ scan'.to = scan.to
        /\ scan'.last = scan.last /\ scan'.todo = scan.todo \ {p}
    BY <1>1, <1>2 DEF Scans
  <2>2. FilterLogs(scan.from, scan.last)' = FilterLogs(scan.from, scan.last)
    BY <2>1, <1>1 DEF FilterLogs
  <2>3. ScanFrom' = ScanFrom  BY <1>1 DEF ScanFrom
  <2>4. scan'.todo \subseteq FilterLogs(scan.from, scan.last)
    BY <2>1, <1>1 DEF Inv, Standing
  <2>5. \A q \in FilterLogs(scan.from, scan.last) \ scan'.todo :
          Incoming(q) => Deposit(q) \in deposits'
    <3> SUFFICES ASSUME NEW q \in FilterLogs(scan.from, scan.last), q \notin scan'.todo,
                        Incoming(q)
                 PROVE  Deposit(q) \in deposits'
      OBVIOUS
    <3>1. CASE q = p  BY <3>1, <1>1
    <3>2. CASE q # p
      <4>1. q \notin scan.todo  BY <3>2, <2>1
      <4>2. Deposit(q) \in deposits  BY <4>1, <1>1 DEF Inv, Standing
      <4>3. QED  BY <4>2, <1>9
    <3>3. QED  BY <3>1, <3>2
  <2>6. (cursor # NoCursor => cursor >= FromBlock)'  BY <1>1 DEF Inv, Standing
  <2>7. (scan.pc # "idle" => scan.from = ScanFrom /\ scan.to <= head)'
    BY <2>1, <2>3, <1>1, <1>3
  <2>8. (scan.last \in scan.from .. scan.to)'  BY <2>1, <1>3
  <2>9. (\A q \in FilterLogs(scan.from, scan.last) \ scan.todo :
           Incoming(q) => Deposit(q) \in deposits)'
    BY <2>2, <2>5, <1>11
  <2>10. QED  BY <2>2, <2>4, <2>6, <2>7, <2>8, <2>9 DEF Standing
<1>14. QED  BY <1>10, <1>12, <1>13 DEF Inv

LEMMA PutCursorKeeps == ASSUME Inv, PutCursor PROVE Inv'
PROOF
<1>1. /\ scan.pc = "put" /\ scan.todo = {}
      /\ cursor' = Latest(Latest(cursor, 0), scan.last)
      /\ scan' = [scan EXCEPT !.pc = "query", !.from = scan.last + 1, !.todo = {}]
      /\ chain' = chain /\ head' = head /\ deposits' = deposits
  BY DEF PutCursor, SpanDone, chainVars
<1>2. /\ scan \in Scans /\ scan.from \in Nat /\ scan.to \in Nat /\ scan.last \in Nat
      /\ cursor \in Nat \cup {NoCursor} /\ head \in Nat
  BY LenProperties DEF Inv, ScanTypeOK, Scans
<1>3. /\ scan.last \in scan.from .. scan.to /\ scan.to <= head /\ scan.from = ScanFrom
      /\ cursor # NoCursor => cursor >= FromBlock
      /\ \A p \in FilterLogs(scan.from, scan.last) : Incoming(p) => Deposit(p) \in deposits
  BY <1>1 DEF Inv, Standing
\* The cursor arrives at the end of the span, whatever it was.
<1>4. /\ cursor' = scan.last /\ cursor' >= FromBlock /\ cursor' <= head /\ cursor' \in Nat
      /\ cursor < cursor'
  BY <1>1, <1>2, <1>3, Constants_ DEF Latest, ScanFrom, NoCursor
<1>5. ScanTypeOK'
  <2>1. scan.last + 1 \in Nat /\ {} \in SUBSET Positions  BY <1>2
  <2>2. scan' \in Scans  BY <2>1, <1>1, <1>2, Zenon DEF Scans
  <2>3. QED  BY <2>2, <1>1, <1>4 DEF Inv, ScanTypeOK
<1>6. \A q : /\ Deposit(q)' = Deposit(q)
             /\ Arrived(q)' <=> Arrived(q)
  BY <1>1 DEF Incoming, Deposit, Arrived
<1>7. ObservedToCursor'
  <2>1. ASSUME NEW b \in FromBlock .. cursor', NEW i \in DOMAIN chain[b], Arrived(<<b, i>>)
        PROVE  Deposit(<<b, i>>) \in deposits
    <3>1. b \in Nat /\ b <= scan.last  BY <1>4, <1>2, Constants_
    <3>2. CASE cursor # NoCursor /\ b <= cursor
      <4>1. b \in FromBlock .. cursor  BY <3>2, <1>2, Constants_, <3>1
      <4>2. QED  BY <4>1, <2>1 DEF Inv, ObservedToCursor
    <3>3. CASE cursor = NoCursor \/ b > cursor
      <4>1. b \in scan.from .. scan.last
        BY <3>1, <3>3, <1>2, <1>3, Constants_ DEF ScanFrom, NoCursor
      <4>2. chain[b][i].to = "self" /\ Incoming(<<b, i>>)  BY <2>1 DEF Arrived
      <4>3. b \in DOMAIN chain
        <5>1. DOMAIN chain = 1 .. Len(chain) /\ Len(chain) \in Nat /\ head <= Len(chain)
          BY LenProperties DEF Inv, ScanTypeOK
        <5>2. QED  BY <5>1, <3>1, <1>2, <1>3, <2>1, Constants_
      <4>4. <<b, i>> \in FilterLogs(scan.from, scan.last)
        BY <4>1, <4>2, <4>3, LogMember
      <4>5. QED  BY <4>2, <4>4, <1>3
    <3>4. QED  BY <3>2, <3>3, <3>1, <1>2 DEF NoCursor
  <2>2. \A d \in deposits : Arrived(<<d.block, d.index>>) /\ d = Deposit(<<d.block, d.index>>)
    BY DEF Inv, ObservedToCursor
  <2>3. QED  BY <2>1, <2>2, <1>1, <1>4, <1>6 DEF ObservedToCursor
<1>8. Standing'
  <2>1. scan'.pc = "query" /\ scan'.from = scan.last + 1 /\ scan'.to = scan.to
    BY <1>1, <1>2 DEF Scans
  <2>2. scan'.from = ScanFrom'  BY <2>1, <1>4 DEF ScanFrom, NoCursor
  <2>3. QED  BY <2>1, <2>2, <1>1, <1>3, <1>4 DEF Standing
<1>9. QED  BY <1>5, <1>7, <1>8 DEF Inv

LEMMA StepInv == Inv /\ [ScanNext]_scanVars => Inv'
PROOF
<1> SUFFICES ASSUME Inv, [ScanNext]_scanVars PROVE Inv'
  OBVIOUS
<1>1. CASE StartScan  BY <1>1, StartKeeps
<1>2. CASE QuerySpan  BY <1>2, QueryKeeps
<1>3. CASE \E p \in scan.todo : PutDeposit(p)  BY <1>3, PutDepositKeeps
<1>4. CASE PutCursor  BY <1>4, PutCursorKeeps
<1>5. CASE EndScan \/ StopScan  BY <1>5, EndKeeps
<1>6. CASE \E c \in Contents : MineBlock(c)  BY <1>6, MineKeeps, ContentsAssumption
<1>7. CASE UndoBlock  BY <1>7, UndoKeeps
<1>8. CASE SettleBlock  BY <1>8, SettleKeeps
<1>9. CASE UNCHANGED scanVars
  <2>1. UNCHANGED <<chainVars, recordVars>> /\ scan' = scan  BY <1>9 DEF scanVars
  <2>2. scan' \in Scans  BY <2>1 DEF Inv, ScanTypeOK
  <2>3. Standing'
    BY <2>1 DEF Inv, Standing, ScanFrom, FilterLogs, Incoming, Deposit, chainVars, recordVars
  <2>4. QED  BY <2>1, <2>2, <2>3, ScanOnly
<1>10. QED
  BY <1>1, <1>2, <1>3, <1>4, <1>5, <1>6, <1>7, <1>8, <1>9 DEF ScanNext, ScanStep, ChainStep

LEMMA AlwaysInv == ScanSpec => []Inv
PROOF
  BY InitInv, StepInv, PTL DEF ScanSpec

\* The blocks, the records and the scan under way keep their shape.
THEOREM ScanTypeCorrect == ScanSpec => []ScanTypeOK
PROOF
<1>1. Inv => ScanTypeOK  BY DEF Inv
<1>2. QED  BY <1>1, AlwaysInv, PTL

\* Up to the cursor the records hold the settled deposits, all of them and
\* nothing else, whatever the spans and wherever a scan was cut off.
THEOREM ObservedExactly == ScanSpec => []ObservedToCursor
PROOF
<1>1. Inv => ObservedToCursor  BY DEF Inv
<1>2. QED  BY <1>1, AlwaysInv, PTL
=============================================================================
