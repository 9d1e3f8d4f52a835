----------------------------- MODULE MCDeposits -----------------------------
(* A small instance of Deposits: blocks with and without deposits, with the *)
(* account's own money moving out or to itself, and with nothing countable. *)
EXTENDS Deposits

Transfer(from, to, amount, formed) ==
  [from |-> from, to |-> to, amount |-> amount, formed |-> formed, by |-> 0]

In == Transfer("other", "self", 1, TRUE)
Own == Transfer("self", "self", 1, TRUE)
Odd == Transfer("other", "self", 1, FALSE)

MCContents == {<<>>, <<In>>, <<Own, In>>, <<Transfer("self", "other", 1, TRUE), Odd>>}
=============================================================================
