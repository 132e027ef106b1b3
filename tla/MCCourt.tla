------------------------------- MODULE MCCourt -------------------------------
(* Small instances of Court for TLC. *)
EXTENDS Court

CONSTANTS c1, c2

TwoCallers == {c1, c2}
=============================================================================
