--------------------------- MODULE RailRefinement ---------------------------
(***************************************************************************)
(* The rail implements Payments: truth is read off the settled chain, what *)
(* the host is told off the records.                                       *)
(***************************************************************************)
EXTENDS Rail

Truth(id) ==
  LET r == winner[intents[id].nonce]
  IN  IF ~Recorded(id) THEN "none"
      ELSE IF intents[id].nonce >= settled THEN "open"
      ELSE IF r.tx \in Attempts(id) /\ r.result = "executed" THEN "executed"
      ELSE "failed"

\* classify, and Status's answer for an identifier with no record.
Told(id) ==
  IF ~Recorded(id) THEN "unknown"
  ELSE IF ~facts[id].known THEN "pending"
  ELSE IF facts[id].executed THEN "confirmed"
  ELSE "failed"

P == INSTANCE Payments WITH
       IDs <- IDs,
       truth <- [id \in IDs |-> Truth(id)],
       told <- [id \in IDs |-> Told(id)]

\* Status is a property of the intent and follows the settled chain: the rail
\* takes on one identifier at a time, and what it reports is what settled,
\* once and for ever (README 4; status.go: "confirmed and failed are both
\* permanent").
ImplementsPayments == P!Spec
=============================================================================
