------------------------------- MODULE Chain -------------------------------
(***************************************************************************)
(* One account as its chain sees it: a line of nonces, at most one mined   *)
(* transaction on each, a settled prefix of them, and two balances.        *)
(* External to the repository: modelled from what go/rail asks of a node   *)
(* (rail.go Chain) and from the outcomes status.go distinguishes.          *)
(*                                                                         *)
(* `wire' is every transaction that ever reached a node.  A node may       *)
(* forget one, and include it all the same later.  What is settled is      *)
(* final (requirements.md 12); what is mined above it may be undone.       *)
(***************************************************************************)
EXTENDS Integers, GasPolicy

CONSTANTS
  MaxNonce,      \* bound: the account never uses a nonce above it
  Places,        \* destinations
  Venue,         \* the swap venue
  PaymentGas,    \* gas bound of a payment (GasPolicy.limits)
  SwapGas,       \* gas bound of a refill  (GasPolicy.limits)
  Foreigners,    \* TRUE: something else may sign with this key
  MaxReorgs,     \* bound: reorganisations
  GasBound,      \* bound: top-ups never take the reserve past it
  TokenBound     \* bound: deposits never take the money past it

VARIABLES
  spent,     \* transactions mined: the account's nonce at the latest head
  settled,   \* its nonce at the settled head
  winner,    \* what was mined on each nonce below spent
  wire,      \* transactions that reached a node
  token,     \* stablecoin balance at the latest head
  gas,       \* native balance at the latest head
  reorgs     \* reorganisations so far

chainVars == <<spent, settled, winner, wire, token, gas, reorgs>>

Nonces == 0 .. MaxNonce
Kinds == {"transfer", "withdraw", "refill"}

\* A transaction's hash commits to all of this, so the record stands for it.
Txs == [kind : Kinds, to : Places \cup {Venue}, amount : Nat, delta : Nat,
        nonce : Nonces, tip : Nat, cap : Nat]
NoTx == [kind |-> "none", to |-> Venue, amount |-> 0, delta |-> 0,
         nonce |-> 0, tip |-> 0, cap |-> 0]
ForeignTx == [NoTx EXCEPT !.kind = "foreign"]

\* A receipt, and what including the transaction did to the balances.
Receipts == [tx : Txs \cup {NoTx, ForeignTx},
             result : {"none", "executed", "silent", "reverted"},
             out : Nat, fee : Nat, bought : Nat]
NoReceipt == [tx |-> NoTx, result |-> "none", out |-> 0, fee |-> 0, bought |-> 0]

\* gasLimit: what a transaction of this kind is bounded by.
GasLimit(kind) == IF kind = "refill" THEN SwapGas ELSE PaymentGas
Cost(tx) == tx.cap * GasLimit(tx.kind)

\* Between the base fee at its lowest and at the cap.
FeesCharged(tx) == {tx.tip * GasLimit(tx.kind), Cost(tx)}

ChainTypeOK ==
  /\ spent \in 0 .. MaxNonce + 1
  /\ settled \in 0 .. spent
  /\ winner \in [Nonces -> Receipts]
  /\ wire \subseteq Txs
  /\ token \in Nat /\ gas \in Nat /\ reorgs \in Nat

ChainInit(tokens, reserve) ==
  /\ spent = 0
  /\ settled = 0
  /\ winner = [n \in Nonces |-> NoReceipt]
  /\ wire = {}
  /\ token = tokens
  /\ gas = reserve
  /\ reorgs = 0

Include(receipt) ==
  /\ spent <= MaxNonce
  /\ spent' = spent + 1
  /\ winner' = [winner EXCEPT ![spent] = receipt]
  /\ token' = token - receipt.out
  /\ gas' = gas - receipt.fee + receipt.bought
  /\ UNCHANGED <<settled, wire, reorgs>>

\* The transaction at the next nonce is included.  A payment moves its whole
\* amount; a swap at most its input bound, and delivers exactly delta; either
\* may revert, must when the money is short, and a token may answer false
\* without reverting ("silent").
Mine(tx, result, out, fee) ==
  /\ tx \in wire
  /\ tx.nonce = spent
  /\ gas >= Cost(tx)
  /\ fee \in FeesCharged(tx) /\ fee <= gas
  /\ \/ result = "executed" /\ out \in 1 .. tx.amount /\ out <= token
        /\ (tx.kind # "refill" => out = tx.amount)
     \/ result = "silent" /\ tx.kind # "refill" /\ out = 0
     \/ result = "reverted" /\ out = 0
  /\ Include([tx |-> tx, result |-> result, out |-> out, fee |-> fee,
              bought |-> IF result = "executed" THEN tx.delta ELSE 0])

\* A second signer on the same key uses the next nonce.
ForeignMine(out, fee) ==
  /\ Foreigners
  /\ out \in {0, token}
  /\ fee \in {0, gas}
  /\ Include([tx |-> ForeignTx, result |-> "executed", out |-> out, fee |-> fee,
              bought |-> 0])

Settle(n) ==
  /\ n \in settled + 1 .. spent
  /\ settled' = n
  /\ UNCHANGED <<spent, winner, wire, token, gas, reorgs>>

\* The latest unsettled inclusion is undone.  What a refill bought is still
\* there to give back: nothing has been mined above it.
Reorg ==
  /\ settled < spent
  /\ reorgs < MaxReorgs
  /\ gas + winner[spent - 1].fee >= winner[spent - 1].bought
  /\ reorgs' = reorgs + 1
  /\ spent' = spent - 1
  /\ winner' = [winner EXCEPT ![spent - 1] = NoReceipt]
  /\ token' = token + winner[spent - 1].out
  /\ gas' = gas + winner[spent - 1].fee - winner[spent - 1].bought
  /\ UNCHANGED <<settled, wire>>

Deposit(n) ==
  /\ token + n <= TokenBound
  /\ token' = token + n
  /\ UNCHANGED <<spent, settled, winner, wire, gas, reorgs>>

TopUp(n) ==
  /\ gas + n <= GasBound
  /\ gas' = gas + n
  /\ UNCHANGED <<spent, settled, winner, wire, token, reorgs>>

ChainNext ==
  \/ \E tx \in wire, result \in {"executed", "silent", "reverted"} :
       \E out \in 0 .. tx.amount, fee \in FeesCharged(tx) : Mine(tx, result, out, fee)
  \/ \E out \in {0, token}, fee \in {0, gas} : ForeignMine(out, fee)
  \/ \E n \in Nonces \cup {MaxNonce + 1} : Settle(n)
  \/ Reorg
  \/ \E n \in 1 .. TokenBound : Deposit(n)
  \/ \E n \in 1 .. GasBound : TopUp(n)

----------------------------------------------------------------------------
(* What a node answers.                                                    *)

\* PendingNonceAt: the mined transactions, and those the node still holds in
\* an unbroken line above them.
PendingReads ==
  {m \in spent .. MaxNonce + 1 :
     \A n \in Nonces : n \in spent .. m - 1 => \E tx \in wire : tx.nonce = n}

\* SendTransaction reaches the network only at an unspent nonce and with the
\* funds for its cost; "already known" is one that had reached it before.
Accepts(tx) == tx.nonce >= spent /\ gas >= Cost(tx)
=============================================================================
