------------------------------ MODULE MCVenue ------------------------------
(* A small instance of Venue, under the covering policy of MCReserve. *)
EXTENDS Venue, MCReserve, TLC

CONSTANTS here, there

Interchangeable == Permutations({here, there})
=============================================================================
