---------------------------- MODULE RailLiveness ----------------------------
(***************************************************************************)
(* What must eventually happen, and what that takes of the host and of the *)
(* network.  The library runs nothing by itself: it has no goroutine and   *)
(* no timer, so every step of progress is a call somebody makes.           *)
(***************************************************************************)
EXTENDS Rail

Mining == \E tx \in wire, result \in {"executed", "silent", "reverted"} :
            \E out \in 0 .. tx.amount, fee \in FeesCharged(tx) :
              Mine(tx, result, out, fee) /\ UNCHANGED <<storeVars, railVars>>
Settling == \E n \in Nonces \cup {MaxNonce + 1} :
              Settle(n) /\ UNCHANGED <<storeVars, railVars>>

\* The cheapest fees a node ever asks, and the host sending at them.
Cheapest == CHOOSE fee \in Fees : \A other \in Fees : fee.cap <= other.cap

\* An operation that has begun returns, or its process dies.
Returns == pc # "idle" /\ (Step \/ Stop)

(* The network includes what has reached it and can be paid for, and       *)
(* settles it.  The host asks again (Status) and sends again (Send) for as *)
(* long as an operation is unresolved, also when the fees are low; not     *)
(* every attempt to append or to broadcast fails.                          *)
Fairness ==
  /\ WF_vars(Returns)
  /\ WF_vars(Mining)
  /\ WF_vars(Settling)
  /\ \A id \in IDs : SF_vars(CallStatus(id)) /\ SF_vars(CallSend(id, Cheapest))
  /\ SF_vars(AppendAttempt)
  /\ SF_vars(Broadcast(TRUE))

LiveSpec == Spec /\ Fairness

\* The reserve can pay for every attempt on record.
Payable(id) == \A tx \in Attempts(id) : gas >= Cost(tx)

\* An operation whose attempts stay affordable is resolved, whatever crashed,
\* was lost or was undone on the way (README 4: "it may still happen" ends in
\* one of the two permanent answers).
PayableResolves ==
  \A id \in IDs : []((Recorded(id) /\ []Payable(id)) => <>facts[id].known)

\* Every recorded operation is resolved once gas is cheap again: waiting
\* helps (requirements.md 3: "ETH < swap cost: wait for cheaper gas or
\* external top-up"; rail.go Prepare: "Blocked is not lost").
CheapGasResolves ==
  \A id \in IDs : Recorded(id) ~> facts[id].known
=============================================================================
