# Verification of juice-rail

juice-rail (`src/go/rail`) moves one stablecoin out of one account on one EVM
domain. It is a library: no goroutine, no timer, no server. Its state is a set
of SQLite records (`src/go/sqlite`) and whatever the chain says; `railctl`
(`src/cmd/railctl`) is a command around it, with two files of its own. Everything it
promises (README 4, requirements.md) is about what happens when its host is
killed, when a node loses or delays what it was given, when fees move under a
recorded payment, and when the gas reserve runs low.

This directory holds TLA+ models of that library, TLC instances of them and
TLAPS proofs about them. Line numbers are those of the source at this commit.

## 1. The system

### Components

| Component | Code | State it keeps | Operations | Module |
|---|---|---|---|---|
| Rail | `rail.go` | `mu`; nothing else between calls | Prepare, WithdrawAll, Refill, Pay, Send, Retry, Pending | `Rail` |
| Status and reconciliation | `status.go` | none: reads the chain, caches facts | Status, Outcome, Reconcile (and `settle` inside `ready`) | `Rail`, `RailRefinement`, `Restore` |
| Gas policy and fees | `gas.go`, `types.go`, the arithmetic of `rail.go` | none | Decide, withSlippage, Validate, fees, bump | `GasPolicy` |
| The reserve over time | the same, in sequence, and `Balances` | native and token balances (on chain) | what Decide allows, refused or raised, over many transactions | `Reserve` |
| Swap venue and permit | `venue.go`, `rail.go` target | the recorded batch; on chain the permit nonce and the allowances | quote, build, include, revert | `Venue` |
| SQLite store | `store.go`, `sqlite.go` | intents, submissions, facts, cursors, deposits, the ledger it is bound to | PutIntent, AppendSubmission, PutFact, PutNonceFloor, PutDeposit, PutDepositCursor, bindDomain, reads | `Store`, `Deposits`, `Restore`, `Railctl` |
| The chain | external | account nonce, mined and settled blocks, mempool, balances | mine, settle, undo, forget | `Chain` |
| Deposit observation | `status.go` ScanDeposits | a cursor and the deposits seen | ScanDeposits, Deposits, DepositsScannedTo | `Deposits` |
| Audit reads | `status.go` RefillCost, SettledBalances, Outcome; `venue.go` transferLog, sentTransferValues | none; the host keeps the books | reads | `Audit` |
| Amounts, addresses, domains | `types.go`, CheckDomain | none | validation; parsing and formatting | `Domain` (not parsing, formatting) |
| railctl | `cmd/railctl` | `config.json`, `credentials.json`, one store per profile | init; every other command up to its open rail | `Railctl`, `Domain` |
| Contracts, deployments, integration stories | `contracts/`, `deployments/`, `integration-tests/` | none | fixtures and tests | no |

### How they interact

A host calls the Rail under `Rail.mu`. `Prepare`, `WithdrawAll` and `Refill`
begin with `ready`: check the chain id, **reconcile** (every nonce spent at the
settled head must be explained by a recorded transaction), **settle** what is
pending, and refuse with `ErrInFlight` if anything still is. Then they decide
(policy, or balance), simulate, take a nonce from two chain reads, and write the
intent. The intent is the write-ahead record: it owns its nonce. `Send` and
`Retry` sign the intent's terms at its nonce under some fees, append the
attempt to the records, and only then broadcast. `Status` says nothing until
the nonce is spent at the *settled* head, then looks up which recorded attempt
has a receipt, and caches the answer as a permanent *fact*. `ScanDeposits`
walks the blocks from its cursor to the settled head in spans of `maxScanSpan`,
records each span's incoming transfers, and only then moves the cursor. A host
that keeps books compares them with `SettledBalances` at one settled block
(README 8), from the recorded deposits, `Outcome` and `RefillCost`.

A refill is one batch (permit, exact-output swap, unwrapping) built and
recorded once and sent until it settles; only the chain executes it. `railctl`
runs one library call per process: it reads the settings, then the credentials,
opens the profile's store (which claims its ledger the first time), and then the
rail. `init` is the one command that writes the two files, one after the other.

### What is hard

* a process killed between any two of: intent, attempt, broadcast, answer;
* a broadcast that reaches the network although it reported an error, or does
  not although it reported success; a node that forgets and later includes;
* replacement: several signed attempts compete for one nonce while it may
  already be mined, undone, or mined again with another winner;
* two chain reads (`nextNonce`) with the chain moving between them;
* a decision taken from `ready` and used several reads later;
* a second signer on the key, or an endpoint of another chain;
* a reserve that pays for the transaction that refills it;
* fees, money and reserve read in calls of their own, while money arrives;
* a refill built now and executed later: price, hour, permit nonce and the
  configured router move in between;
* a store restored from a backup, which forgets what the chain and the nodes
  still hold, and a node whose receipts lag behind the settled nonce;
* a scan cut off between any two of its writes, and first blocks, cursors and
  spans that must meet without a gap;
* two files that only one rename each can change, and commands side by side
  that read them one after the other;
* an audit of several calls, between which the chain and the host move on.

`PROJECT.json` lists each hazard at its line with the properties aimed at it.

### What makes each component correct

* **Rail**: nothing reaches a node that the records do not explain; no
  intent is carried out twice; one operation at a time; no operation sits at a
  nonce the chain cannot reach; every operation is eventually resolved.
* **Status**: a fact is what the settled chain says, for ever; the nonce floor
  passes only what the records explain.
* **Policy and fees**: a refill leaves the payment it is for affordable and
  makes it executable; a replacement is one a node accepts.
* **Reserve**: the account never reaches a level it cannot buy itself back from.
* **Venue**: a recorded refill keeps working while its price and its hour
  allow, and leaves no allowance but its own rest.
* **Restored records**: "confirmed" stays true and reconciliation stays strict;
  a nonce is assigned with at most the last settled one unmatched; a lost
  record costs at most one second execution.
* **Deposits**: up to the cursor the records hold every settled deposit, once,
  and nothing else; every deposit is recorded in the end.
* **Audit**: books kept as README 8 says agree with the chain at the settled
  block they are compared at.
* **railctl**: a profile that exists is whole, the account shown for it stays
  its account, a store holds one ledger, no domain is redefined under a profile.

## 2. Modules

```
GasPolicy ──> Chain ──> Store ──> Rail ──> RailRefinement ──┐  (INSTANCE Payments)
    │                              │  └──> RailLiveness ────┴──> MCRail ──> MCRestore
    │                              ├──> RailProofs ──> RefinementProofs (with RailRefinement)
    │                              └──> Restore ──> MCRestore, RestoreProofs (with RailProofs)
    ├──> Reserve ──> MCReserve
    │       └──> Venue ──> MCVenue (with MCReserve), ReserveProofs (with GasPolicyProofs)
    ├──> Domain ──> Railctl ──> MCRailctl, RailctlProofs
    └──> GasPolicyProofs

Deposits ──> Audit ──> MCAudit, AuditProofs (with DepositsProofs)
    └──> MCDeposits, DepositsProofs
```

**`GasPolicy`**: pure operators. `Decide` has one line per early return of
`gas.go` `Decide`, in its order; `NoQuote` is the nil quote. `FeesAt`, `Bump`
and `Raise` are `fees`, `bump` and the maximum that `Retry` takes. Integers are
unbounded, as `big.Int`.

**`Reserve`**: what the policy does to the reserve over time. An operation reads
the fees and the token balance (`ReadToken`), then the reserve (`ReadGas`), and
decides on what it has read (`seen`) while money arrives and fees move. One
transaction is in flight; `SignPayment`, `SignRefill`, `SignExit`, `Retry` are
what the library may sign, `Land` is its inclusion with any charge up to its
cap, any input up to its bound, or a revert. `excuses` is a history variable:
what has happened that no reserve could be sized for (a signature above the
reference fee, a raised refill, a revert, an exit).

**`Venue`** puts the reasons of a refill's success and revert under `Reserve`.
`BuyGas` is SignRefill with the batch it records: the router of the moment and
a permit for the input bound under the token's nonce. `Swap` is its inclusion:
it `Executes` if the permit is still the token's next, its hour has not passed
and the price is within the bound, and then spends the permit and leaves the rest of
it as an allowance. `MoveVenue`, `PriceMoves` and `Expire` happen at any time.
Every step is one of `Reserve`'s or leaves the reserve alone (proved,
`VenueIsReserve`), so `Reserve`'s theorems hold of it. What is checked of the
reserve is checked here.

**`Chain`** (external): one account as its chain sees it. `winner[n]` is what
was mined at nonce `n`, `spent` and `settled` are the account nonce at the
latest and at the settled head, `wire` is every transaction that ever reached a
node. A transaction record stands for its hash, since the hash commits to all
of its fields and signing is deterministic. A node may forget (`PendingReads`
chooses how much of the line it still holds), and include later whatever it was
ever given.

**`Store`**: the tables as functions on identifiers; each operator is one SQL
transaction with its unique keys. `refillID` is injective in the nonce and never
a host's own identifier (`IDsDisjoint`: a keccak image).

**`Rail`**: one operation under way, because `mu` serialises a process. `pc`
is how far it has come, `op` its local variables.

| `pc` | Code between here and the next step |
|---|---|
| `idle` | a `Call…` action: the entry of a verb, its early returns, its first read |
| `reconcile` | `status.go` reconcile, one spent nonce per step |
| `settle` | `status.go` settle, one pending intent per step; then `ready`'s `ErrInFlight` |
| `decide` | `policyInput` and `Decide`, or WithdrawAll's balance test |
| `nonce` | `simulate` and `PendingNonceAt` |
| `record` | the settled nonce, the comparison, `PutIntent` |
| `append` | `submit`: sign, `AppendSubmission` |
| `send` | `SendTransaction` |

`Stop` ends an operation at any step: an error of the node or the store, or the
process killed and restarted, possibly against another endpoint. An error
return writes nothing more, so the state after it is that after a kill. Two
reads next to a write that does not depend on what happens between them share a
step: `Status` reads the settled nonce and the receipt in one, because what is
settled cannot change between them, and `record` reads the settled nonce with the
write, because the settled nonce only grows and the comparison is an equality
with a number that was read *before* it. The fees and the two balances of a
decision share a step here; `Reserve` reads them one after the other, and checks
and proves what `Decide` does with every combination of them. An endpoint is
`right`, `wrong` (another chain) or `lagging`: its receipts come from a node
that may not have them, and `outcome` then takes "not found" for "never mined". `Pay` is not an action: it
is Prepare, Send and Refill called one after the other, releasing `mu` between them, so
its behaviours are among those of the host's calls.

**`Payments`** is the abstract service: an identifier is taken on once, one at
a time; the chain settles it one way; the host is told that, later, and nothing
else. **`RailRefinement`** maps `Rail` onto it: `Truth` is read off the settled
chain, `Told` off the records.

**`RailLiveness`** adds fairness and the two liveness properties.

**`Restore`** is `Rail` (`Run`) with `TakeBackup`, a copy of all records at one
moment, and `RestoreBackup`, which puts them back, ends the operation under way
and may start the process against another endpoint. The code has no action for
this: nothing tells it, and all it can do is reconcile. `first` (the floor of
the first reconciliation) and `signed` (every attempt ever recorded) are
history: they remember what a restored store has forgotten, for `FloorMatched`,
`AssignsMatched` and `AtMostTwice`. `AtMostTwice` counts, per identifier, the
nonces whose settled transaction was signed under it *and under no other*: a
transaction carries no identifier, so two identifiers of the same request, one
of them lost in a restore and the other recorded at the same nonce, share one
transaction, and which of them it executed is not a question the chain answers.

**`Deposits`**: the chain as a sequence of blocks, each a sequence of token
transfers; `head` is the settled one. A scan is at `query` (before
`FilterLogs`) or at `put` (with the span's logs still to record in `todo`):
`StartScan` reads the cursor and the settled head, `QuerySpan` reads one span,
`PutDeposit` records or passes over its first log, `PutCursor` ends the span,
`EndScan` returns. `StopScan` cuts it off anywhere (an error, or the process
killed). The chain grows, settles, and is undone above the settled head between
any two steps. Only transfers *to* the account are in a query's answer; one
from itself, of nothing, or misshapen (`formed` false) is passed over as in the code.

**`Audit`** composes `Deposits` with a host that also pays and buys gas. An
operation's way through records and nonces is `Rail`'s; here it is recorded in
one step (`PayOut`, `PayRefill`), mined in a block with or without transfers
(a token may answer false, a swap's route may split), undone, and settled.
`known` is the facts cached, `heard` what the host has in its books. `PayRefill`
has Pay's three answers: the identifier, an error without it, or the process
killed. A killed host asks `Pending` before anything else; one that got an
error from Pay does so only with `AsksAfterErrors`, which README 8 does not
ask for. `PayRefused` is any later Pay, which caches facts in `ready`
and so takes them out of `Pending`. The audit has the steps of README 8:
`SettledBalances`, `DepositsScannedTo` (no further unless the cursor has
reached the block), `CountOutcome` per operation, comparison. Where
`RefillCost` answers with an error (the account sent the token twice), the
audit does not come to its end and says nothing. Payees are others: a payment
to the account's own address would be deducted as executed while ScanDeposits
passes it over, and the books would be off by it (with `"self"` in `Payees`
`BooksAgree` fails). Balances and costs are sums over sets of positions: `Logs(n)`
is every transfer's place up to block `n`, `Sent(k)` the places of operation
`k`'s own in its block. `OthersAssumption` says what the rest of a block may
hold: transfers of others, well formed. It is rail.go's "a key must be driven
by exactly one signer", and a fact about ERC-20 logs.

**`Domain`**: pure operators. What a domain file becomes (`AsDomain`,
`Converts`), what identifies a ledger (`Ledger`), `Domain.Validate`, and
`CheckDomain` against what an endpoint answers, one conjunct per early return.

**`Railctl`**: `settings` and `creds` are the two files, `stores` what each
database is bound to and has records of, `proc` what each running command holds
in memory. An init is `InitCheck` (load, validate, look at the settings),
`InitKey` (credentials, key, CheckDomain), `InitWrite` (credentials) and
`InitDone` (settings, then the account is shown); it writes the copies it read,
changed. Every other command resolves its domain, store and key from its flags
alone (`ResolveGiven`) or with a profile's (`ResolveProfile`, then `ResolveKey`
from the second file), opens the store (`OpenStore`: INSERT OR IGNORE, and only
`OpenRail` looks at what is there), and then records or shows the account.
`Stop` ends a command anywhere. `Overlap` says whether two inits may run side by side.

## 3. Runs

| Run | cfg | Bounds | What it shows |
|---|---|---|---|
| `reserve` | `Venue` | reserve ≤ 7, money ≤ 5, caps {1,2}, prices {1,3}, 2 routers, 2 permits, minimum 3 = payment + refill at the reference fee | `NeverStranded`, `RefillKeepsPayment`, `RefillEnables`, `RefillExecutes`, `ResidueOfOne` |
| `reserve_minimal` | `ReserveMinimal` | `Reserve` alone, minimum 2 = fee bound, which Validate accepts | **violated**: one ordinary payment strands the account |
| `rail` | `Rail` | 2 identifiers + refills, 2 nonces, 2 attempts, 2 fee levels, a second signer, 1 reorganisation | `RecordedBeforeBroadcast`, `AtMostOnce`, `OneInFlight`, `NoGap`, `FactsAreTrue`, `AttemptsReplace`, `FloorStep`, refinement of `Payments` |
| `rail_elsewhere` | `RailElsewhere` | 1 identifier, an endpoint of another chain | **violated**: `FactsAreTrue` |
| `rail_live` | `RailLive` | 1 identifier + refills, 2 nonces, 2 attempts, 1 reorganisation | `PayableResolves` |
| `rail_wedge` | `RailWedge` | 1 identifier, 2 fee levels | **violated**: `CheapGasResolves` |
| `restore` | `Restore` | 1 identifier + refills, 3 nonces, 1 attempt, deposits, top-ups, 2 restores, a lagging endpoint | `ConfirmedIsTrue`, `FloorMatched`, `AtMostTwice`, `OneInFlight`, `NoGap`, `AssignsMatchedButLast` |
| `restore_race` | `RestoreRace` | the same with 1 restore, the right endpoint | **violated**: `AssignsMatched` |
| `deposits` | `Deposits` | 5 blocks of 4 contents, first block 2, spans of 2 | `ObservedToCursor`, `EveryDepositObserved` |
| `audit` | `Audit` | 4 blocks, first block 2, spans of 2, 2 operations, payments to others, `Pending` asked after errors | `BooksAgree` |
| `audit_error` | `AuditError` | 4 blocks, 2 operations, `Pending` not asked after errors | **violated**: `BooksAgree` |
| `railctl` | `Railctl` | 2 commands, 2 profiles, 4 domain files of 2 ledgers, a given and a generated key, one init at a time | `ProfileComplete`, `PrintedKept`, `StoreOneLedger`, `ProfileStoreOwn`, `DomainsStable` |

The passing runs check their type invariant as well. Deadlock is checked in
every run (a `Call` is always possible in `Rail`, a command in `Railctl`).

*Why the bounds suffice.* Everything in `Rail` is about a nonce, its neighbour
and the operations at them: two nonces give an operation that follows another,
three (in `restore`) one between, which a restore may leave on record with its
neighbours lost. Two attempts give a replacement; chains of three and more, where
rounding could accumulate, are the theorem `EachReplaces`. The two fee levels are
those of a node that suggests a tip of nothing or of one wei over a base fee of nothing or one,
where rounding down matters most. One reorganisation lets one inclusion be
replaced by another attempt or a stranger's. Two identifiers and the refills'
own are operations competing for a nonce. `rail` has the right endpoint only: with
one on another chain `FactsAreTrue` is false (`rail_elsewhere`), and what holds
even so is proved (`RecordedFirst`, `CarriedOnce`). In `restore`, two restores
give one from a backup taken after another, or the same backup twice. In
`reserve` all quantities are small against the policy's thresholds but lie on
both sides of each of them, the prices on both sides of what a quote with
slippage allows, and two permits let a second refill follow a first from another
router. In `Deposits` the four blocks from the second on are two whole spans, or
one and a rest, from a fresh or a resumed cursor; a block holds none, one or two
transfers, of every sort the code distinguishes. In `Audit` two operations give
one that settled behind one in flight, and a refill that a later Pay settles. In
`Railctl` two files give one name to different ledgers, one shares a ledger with
another, one is invalid; with two names each profile has another's store to be pointed
at, and two commands are enough for each to come between the other's steps. The
proofs (section 5) are for all values of these bounds.

The bounded constants are `MaxNonce`, `MaxAttempts`, `MaxReorgs`, `MaxRestores`,
`MaxPermits`, `GasBound`, `TokenBound`, `MaxBlock`, `MaxOps` and `MaxKeys`; with
`GasBound` and `TokenBound` at 0, deposits and top-ups are off (`reserve` and
`restore` have them on). Identifiers in `Rail`, routers in `Venue`, and processes
and profile names in `Railctl` are interchangeable, so symmetry over them is
sound; it is used in `rail`, `reserve` and `railctl`, which have no liveness property.

*Fairness* (`RailLiveness.Fairness`). The library does nothing unless called, so
every fairness condition is about somebody: an operation that has begun returns
or dies (`WF Returns`: the library's loops are over finite reads); the network
includes what has reached it and can be paid for, and settles it (`WF Mining`,
`WF Settling`: the trust base of README); the host keeps asking and resending
until an operation is resolved, not every time at high fees (`SF CallStatus`,
`SF CallSend(id, Cheapest)`: strong, because a call is possible only while
nothing else is under way; README 4 tells the host to do this); and not every
append or broadcast fails (`SF AppendAttempt`, `SF Broadcast(TRUE)`: otherwise
nothing could ever be said).
`PayableResolves` has the condition `[]Payable(id)`; `rail_wedge` shows that it
is needed, and is a finding.

`Deposits.ScanLive` asks that a host scans again and again and that a scan
which has begun makes its next step (its loops are over finite ranges). An
interruption is never fair or unfair by itself, so `EveryDepositObserved` is
about behaviours in which scans are, from some time on, no longer cut off
(`Uninterrupted`), wherever the earlier ones were. A kill when nothing is left to
scan changes what `EndScan` changes, and is not an interruption.

## 4. Slips

Each property of a passing run is broken by a plausible mistake in the code.
The mistakes are the definitions named `Slip…`; no specification uses them.

| Property (run) | Slip, in place of | The mistake |
|---|---|---|
| `TypeOK` (`reserve`) | `SlipRefillSign`, `RefillSize` | the subtraction the wrong way round: a negative delta |
| `NeverStranded` | `SlipAboveMinimum`, `AboveMinimum` | the reorder point is the fee bound instead of the minimum |
| `RefillKeepsPayment` | `SlipLeavesPayment`, `LeavesPayment` | the pending payment is forgotten |
| `RefillEnables` | `SlipRefillSize`, `RefillSize` | the refill's own gas is not counted |
| `RefillExecutes` | `SlipTarget`, `Target` | a resend goes to the router configured now |
| `ResidueOfOne` | `SlipPermitValue`, `PermitValue` | the permit is for the whole balance |
| `TypeOK` (`rail`) | `SlipPutNonceFloor`, `PutNonceFloor` | the floor stored one too high |
| `RecordedBeforeBroadcast` | `SlipAppendAttempt`, `AppendAttempt` | broadcast without the durable record |
| `AtMostOnce` (`rail`) | `SlipOpTx`, `OpTx` | an attempt is signed at the current nonce, not the intent's |
| `OneInFlight` | `SlipInFlight`, `InFlight` | `ready` does not ask whether anything is pending |
| `AttemptsReplace` | `SlipBump`, `Bump` | the `+ 1` is dropped |
| `NoGap` | `SlipNonceAgrees`, `NonceAgrees` | `nextNonce` trusts the pending nonce |
| `FactsAreTrue` | `SlipOutcome`, `Outcome` | the receipt's status is taken for execution |
| `FloorStep` | `SlipUnexplained`, `Unexplained` | a zero-hash fact is taken as explained |
| `ImplementsPayments` | `SlipResolveEarly`, `Resolve` | `<=` instead of `<` at the settled nonce |
| `PayableResolves` | `SlipResolveLate`, `Resolve` | one nonce too late |
| `ConfirmedIsTrue` (`restore`) | `SlipOutcome`, `Outcome` | the receipt's status is taken for execution |
| `FloorMatched` | `SlipUnexplained`, `Unexplained` | a zero-hash fact is taken as explained |
| `AtMostTwice` | `SlipNonceAgrees`, `NonceAgrees` | `nextNonce` trusts the pending nonce |
| `AssignsMatchedButLast` | `SlipNonceAgrees`, `NonceAgrees` | the same |
| `OneInFlight` (`restore`) | `SlipInFlight`, `InFlight` | `ready` does not ask whether anything is pending |
| `NoGap` (`restore`) | `SlipNonceAgrees`, `NonceAgrees` | `nextNonce` trusts the pending nonce |
| `ScanTypeOK` | `SlipScanFrom`, `ScanFrom` | a fresh cursor is not told from a real one |
| `ObservedToCursor` | `SlipSpanDone`, `SpanDone` | the cursor moves before the span is recorded |
| `EveryDepositObserved` | `SlipMoreToScan`, `MoreToScan` | `<` instead of `<=` at the settled head |
| `TypeOK` (`audit`) | `SlipRefillSign`, `RefillCost` | the cost with the sign of a balance change |
| `BooksAgree` | `SlipRefillCost`, `RefillCost` | the input bound is booked instead of what was taken |
| `TypeOK` (`railctl`) | `SlipInstalled`, `Installed` | the profile is put on a domain of its own name |
| `ProfileComplete` | `SlipFirstFile`, `FirstFile` | the settings are written before the credentials |
| `PrintedKept` | `SlipMayReinstall`, `MayInstall` | init does not refuse a profile that exists |
| `StoreOneLedger` | `SlipBind`, `Bind` | binding replaces the ledger instead of keeping the first |
| `ProfileStoreOwn` | `SlipMayOverride`, `MayOverride` | `-config` may change the ledger of a profile |
| `DomainsStable` | `SlipMayInstall`, `MayInstall` | init redefines a domain of the same name |

## 5. Proofs

Checked by TLAPS, for every value of the constants that satisfies the named
assumptions. These say no more than what the code insists on or the trust base
states: the policy is one `Validate` accepts; gas limits, fees and amounts are
positive (`fees` never returns a zero tip); bounds are naturals; a venue is not
a destination; caller identifiers are not refill identifiers; a generated key is
not one somebody holds; and in `Reserve`, a refill at the reference fee is within
the fee bound (`RefCapAssumption`).

**`GasPolicyProofs`**. `BumpReplaces`: from one wei up, `bump` clears the tenth
a node asks. `RefillDecision`: whatever `Decide` returns as a refill buys back
to exactly the maximum after its own gas, within the bound, and leaves the
payment covered.

**`ReserveProofs`**. A balance read is at most what is still there while nothing
is in flight, since only a transaction takes any away (`SeenHeld`): this is why
reads in two calls are enough. `Inv` says, of what is in flight: the tokens it may take
and the payment it is for are there (`RefillKeepsPayment`); its latest cap is
at least its first; and a refill whose fees were not raised leaves the maximum
even if charged all it may be (`RefillRestores`). `Kept` says, while nothing has happened
that is an excuse: with nothing in flight the reserve covers a refill at the
reference cap; a payment in flight was signed at or above the minimum, at no
more than that cap. `NeverStranded` alone is not
inductive: it says nothing while a transaction is in flight, and the transaction is what
lowers the reserve. `ReserveReplenishes` needs `MinCoversBoth`, the
requirement requirements.md states and `Validate` does not check; without it
the property is false (`reserve_minimal`). `RefillKeeps` and `RefillThenPay`
need nothing but the policy's validity.

Of `Venue`, in the same module: `VenueIsReserve`, every behaviour of `Venue` is
one of `Reserve`. `Built` is the invariant of a refill in flight: the permit nonce in it
is the token's (nothing else of the account spends one, and one transaction is
in flight) and the permit is for the input bound. With `RefillKeepsPayment`'s
invariant, that the money is there, it gives `RefillStillExecutes`, and with the
one step that moves allowances, `ResidueIsRest`.

**`RailProofs`**. Six layers.

* `TInv` = `TypeOK`, with `Purpose` (which verb may be at each `pc`, and that one
  which makes an intent knows its kind) and `Signing` (from `append` on, `op.id`
  names a recorded intent). Typing is not inductive without them: `Record` writes
  an intent of `op.kind`, `AppendAttempt` signs `intents[op.id]`. It gives
  `TypeCorrect`.
* `SInv` adds: distinct identifiers own distinct nonces (`OwnNonces`); every
  attempt is its intent's terms at its nonce (`AttemptsMatch`); at `send` the
  attempt about to be broadcast is on record (`AboutToSend`); what is on the wire
  is on record (`WireRecorded`); what was mined is on the wire, at its own nonce
  (`WinnersWired`). Gives `RecordedFirst` and
  `CarriedOnce`: two nonces carrying one identifier would be two winners at the
  intent's one nonce. It does not depend on the endpoint, so it holds even with
  one on another chain.
* `OInv` adds `Free`: from `decide` on (in the operations that take a nonce)
  nothing is pending. That is what makes the stale result of `ready` sound
  under `mu`: no other operation of the process can record anything in
  between, and the chain cannot make a resolved intent pending. Gives `OneAtATime` and
  `NoOperationAhead` (the nonce taken equals the settled nonce at `record`,
  and that only grows).
* `FInv` adds that the bound of a reconciliation is at most the settled nonce
  (`Upto`), and that the intent being signed or sent has no fact (`Untouched`):
  an attempt appended to a resolved intent could make its zero-hash fact false.
  Gives `FactsStayTrue`: for `Endpoints = {"right"}`.
* `RInv` adds to `SInv` and `FInv` that the attempts of an intent are in order
  (`AttemptsReplace`) and that the one about to be signed replaces all there are
  (`Raised`): it is a raise of the last, by `BumpReplaces`, or there are none,
  since an intent just recorded had no record before. Gives `EachReplaces`, for
  `Endpoints = {"right"}`: a false fact would let WithdrawAll sign a re-used
  identifier at fees of the moment.
* `LInv` (on `TInv`) adds that a fact names one of its intent's attempts or
  none (`FactNamed`), and, of a reconciliation under way, that every nonce from the
  floor to where it has come is owned by an intent whose cached fact names an
  attempt (`Passed`). Gives `FloorExplained`.

**`RefinementProofs`**. `Implements`: `Rail` implements `Payments`, for
`Endpoints = {"right"}`. From `SInv` and `FInv`, one lemma for each way a step
can change what the host may see: a record is an `Accept` (`Free`: nothing
pending), a new fact is a `Learn` (`FactsAreTrue`), the settled head passing a
nonce is a `Settle` (`NoGap` and `OwnNonces`: it passes at most one operation's,
however far it goes), and nothing else changes the truth, since a new
attempt is never what was mined at its nonce already (`WinnerNotNew`).

**`RestoreProofs`**. `RestoreInv` takes `LInv` and says of the records *and* of
the backup that every fact which names a transaction names the settled one of its
intent (`Truthful`), and that every nonce from the first floor to theirs has its
settled transaction in them (`Reconciled`). Both are about what is settled, which
no restore changes, so they pass from the records to a backup and back. Gives
`ConfirmedStaysTrue` and `FloorStaysMatched`, for every endpoint, lagging and of
another chain too.

`AtMostTwiceEver` needs `TwiceInv`. `AtMostTwice` is about what was mined, which
may be decided long after it was signed, so the invariant is about what was
*signed*: every attempt ever signed, and every intent in the records or in the
backup, stands at a nonce between the first floor and the settled nonce, with at most
two nonces mined for its identifier before it (`NoThird`, in `SignedOnce` and
`KeptBy`). A new record keeps this because of when it is made: reconciliation
has passed everything ever signed before it (`ReadPast`: no attempt signed is above
the nonce reconcile reads up to), so the nonces mined for the identifier below
the floor are matched to what is on record. The identifier is not, so the one at
the floor is all there can be. The hypothesis is that no endpoint serves another chain: the
first floor would be that chain's nonce, and below it nothing is ever asked.

`OnlyLastUnmatched` is how far the race of finding 5 reaches: where nobody else
signs with the key, a nonce is assigned with every settled nonce but possibly
the last matched. `LastInv` adds `Ours` (all that was mined is ours): then the
last settled nonce is one we signed, so by `ReadPast` it is at most the floor, and
everything below the floor is matched (`Reconciled`).

Three of `Rail`'s own properties come through a restore. `FlightInv` says
`OneInFlight` and `NoGap` of the backup as well (`OneIn`, `LowIn`), which only the
settled head growing could change and does not: `RestoredOneAtATime` and
`RestoredNoneAhead`, from any endpoint. `FactInv` does the same for facts
(`TrueIn`): `RestoredFactsAreTrue`, for `Endpoints = {"right"}`. `FactsAreTrue`
speaks of the attempts on record, so what it says of a restored store is that a
"failed" which the chain contradicts is about an attempt that was lost, and that
no attempt mined is ever put back on record after the fact was taken. A
lagging endpoint makes it false even of attempts on record, so `restore` does not
check it; with the right endpoint alone TLC finds it holds on the same bounds.
What does not come through a restore is what needs every attempt ever signed:
`RecordedBeforeBroadcast` and `AtMostOnce`.

**`DepositsProofs`**. `ObservedToCursor` says nothing of a scan under way, and
the scan is what moves the cursor. `Standing` says where it is: it continues the
cursor (`from` is what `ScanFrom` would be now: nobody else moves the cursor)
within the settled head it read, and whatever of the span's logs is no longer to
do is recorded. Settled blocks do not change, so neither does the answer of a
query already made (`SettledStays`). Gives `ObservedExactly`, for any span
length, any first block and any contents.

**`AuditProofs`**. `BooksTyped` and `AuditBalances`: for any number of blocks,
payments and scans, an audit that comes to its end finds the chain's balance at its block
equal to deposits less payments less refill costs. It assumes that payments go to
others, and that the host asks `Pending` after a failed Pay too, which README 8 does
not ask for; `audit_error` shows that without this it is false.
The library's sums have no theorems, and its induction theorems take an operator
as a parameter. So the module begins with what `SumFunctionOnSet` of a finite set
is, each fact shown of a smallest set it would fail for (`Smallest`): a sum takes one
element at a time in any order (`SumTakes`), depends on the values only
(`SumSame`), leaves zeros out (`SumLeavesZeros`), is the difference of two
(`SumOfDifferences`), and does not change when its index is renamed
(`SumRenamed`). `AInv` then has these parts:

* `Made`: a transfer in a block is somebody else's, or one operation's, mined in
  that block and successful, and of a payment's amount if it is one; `Single`: a
  payment sends once, so `Outcome` and its amount say what the chain took;
  `Quiet`: nothing before the first block a scan looks at; `Placed`: operations are in blocks there are.
* `Heard`: a running host has every operation in its books. It fails for a host
  that never asks after errors, and only there.
* `Count`: of an audit under way, its block is settled and so its balance stays what was
  read, the cursor is past it, and `out` is the sum of all that operations no
  longer in `todo` sent up to the block. One `CountOutcome` adds one operation's
  transfers: all of them, since `RefillCost` reads the whole of its block's
  logs and a payment has at most one.

At the comparison `todo` is empty, so `out` is everything the account sent
(`BalanceSplits`), and `ObservedToCursor` says the deposits on record up to the
block are everything others sent it (`DepositsAreIncome`).

**`RailctlProofs`**. For any number of commands, profiles, files and keys, with
`~Overlap`. The two files alone are not inductive, because an init writes back
copies it took earlier: `Copied` says the copies are still the files, and between its
two writes that its key is on file; it needs `OneInit`. `Agrees` says of every other
command that what it holds fits the files it read one after the other, which
stays so because profiles, their domains and their keys never change once there
(`Grow`). `Bound` says every store's ledger is its profile's or its file was named
by somebody. Gives `ProfilesComplete`, `PrintedAccountsKept`, `StoresOneLedger`,
`ProfileStoresOwn`, `DomainsStay` and `FilesTyped`.

**Only model-checked**: `PayableResolves` and `EveryDepositObserved` (liveness
under fairness, which the prover does not do). Every other property of a passing
run is a theorem. The five violated properties are false and have only their runs.

## 6. Findings

Each is a violated run; `PROJECT.json` quotes both sides.

1. `types.go:234`: `Validate` requires `Min >= FeeBound`, whose stated purpose
   is that the reserve cannot fall too low to replenish itself. It can: a
   payment signed just above the minimum takes it there. What requirements.md
   asks, a minimum covering a payment *and* a swap, is checked nowhere.
2. `status.go:73`: only `ready` checks the chain id. A process whose endpoint
   serves another chain, where the account's nonce is higher, caches a permanent
   "failed" for a payment that is still in flight and then executes. (`CarriedOnce`
   proves that even so nothing is carried twice.)
3. `rail.go:402`: Send and Retry may sign an attempt the reserve cannot pay for
   (the reserve was asked about in Prepare, the fees are those of the moment), and
   after that waiting for cheaper gas does not help: Send repeats its fees and
   Retry only raises them.
4. `rail.go:307`: Pay drops the identifier of a refill when its submission
   reports an error. If a later Pay settles that refill, `Pending` does not list
   it any more, and books kept by README 8 are off by its cost.
5. `rail.go:564`: after a restore that lost the latest attempt, that attempt may
   settle between reconcile's read of the settled nonce and nextNonce's. A nonce
   is then assigned above one nobody has matched, which requirements.md:224 rules
   out, and the same request is paid again. `AtMostTwice` and
   `AssignsMatchedButLast` bound it, and are proved.

Seen while modelling and not a run: Retry may raise a refill past
`gas.feeBound`, "the most a refill may cost", since it does not ask the policy
(`raised` in `Reserve`).

## 7. Plan

Done: every component that keeps state, its faults (crash, lost sends,
reorganisation, a second signer, another chain, lagging receipts, a restored
store), the abstract service and its refinement, and the proofs above. Left:

1. That a scan and an audit of `Audit` are a refinement of books that simply
   move with the settled chain.
2. Which steps of `Payments` a restored store still implements: what it forgets
   is an `Accept` that must not be told of twice.
3. `Restore` with two attempts and a second signer, each beyond a run's time now.

## 8. What is not modelled, and why

* Parsing and formatting of amounts, addresses and keys: data without state,
  unit tested. ABI and EIP-712 encoding of the batch and of the permit: a
  signature stands for what it commits to. Somebody else presenting the permit
  before the batch does is outside `Venue`: only the account's transactions
  move its permit nonce.
* Of a refill's hour, that it passes (`Expire`), not when.
* What ScanDeposits returns beside what it records: a host reads `Deposits`.
* A query of logs answered by a backend behind the settled head another
  reported: beneath the trust base (README: "the RPC tells the truth"), and the
  code has no defence to model. `lagging` is about receipts, where it has one.
* Older backups than the latest, and a backup from before the first
  reconciliation: restoring an empty store is a first use, and what the account
  did before it had records is by design not explained.
* Two processes on one database. `mu` is per process and the README asks for
  one signer; the second signer of `rail` stands for the other process's
  effect on the chain, not on the records.
* Two inits of railctl side by side: nothing in the code keeps them apart, and
  with `Overlap = TRUE` `ProfileComplete`, `PrintedKept`, `ProfileStoreOwn` and
  `DomainsStable` fail. The run and the theorems assume a person runs one at a time.
* railctl's flags, JSON and printed text, and what a command asks of the library
  once its rail is open: that is `Rail`, `Deposits` and `Audit`.
* The directory a file is renamed in is not synced; a rename is taken for durable,
  as are the store's transactions (its pragmas).
* Test contracts, deployment files and integration stories: fixtures and tests.
* Beneath the trust base (README): what is settled is final, the node tells
  the truth about it, one signer holds the key, the store's transactions are
  atomic and durable. The second signer of `rail`, `rail_elsewhere`, the lagging
  endpoint and `Restore` go past these one by one.
