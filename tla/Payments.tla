------------------------------ MODULE Payments ------------------------------
(***************************************************************************)
(* What the rail promises a host, with no nonces, fees or transactions in  *)
(* it (README 4, status.go Status): an identifier is taken on at most once *)
(* and one at a time; the chain settles it once, one way or the other; the *)
(* host is told exactly that, later, and is never told anything else.      *)
(***************************************************************************)
CONSTANT IDs

VARIABLES
  truth,   \* what has settled: "none", "open", "executed" or "failed"
  told     \* the status the host gets

vars == <<truth, told>>

Truths == {"none", "open", "executed", "failed"}
Statuses == {"unknown", "pending", "confirmed", "failed"}

TypeOK == truth \in [IDs -> Truths] /\ told \in [IDs -> Statuses]

Init ==
  /\ truth = [id \in IDs |-> "none"]
  /\ told = [id \in IDs |-> "unknown"]

Accept(id) ==
  /\ truth[id] = "none"
  /\ \A other \in IDs : told[other] # "pending"
  /\ truth' = [truth EXCEPT ![id] = "open"]
  /\ told' = [told EXCEPT ![id] = "pending"]

Settle(id, result) ==
  /\ truth[id] = "open"
  /\ truth' = [truth EXCEPT ![id] = result]
  /\ UNCHANGED told

Learn(id) ==
  /\ told[id] = "pending"
  /\ truth[id] \in {"executed", "failed"}
  /\ told' = [told EXCEPT ![id] =
                IF truth[id] = "executed" THEN "confirmed" ELSE "failed"]
  /\ UNCHANGED truth

Next == \E id \in IDs :
          \/ Accept(id)
          \/ \E result \in {"executed", "failed"} : Settle(id, result)
          \/ Learn(id)

Spec == Init /\ [][Next]_vars
=============================================================================
