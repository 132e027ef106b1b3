------------------------------- MODULE MCScra -------------------------------
(* A small instance of Scra for TLC. *)
EXTENDS Scra

CONSTANTS w1, w2

TwoWorkers == {w1, w2}
=============================================================================
