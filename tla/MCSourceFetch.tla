---------------------------- MODULE MCSourceFetch ----------------------------
(* Small instances of SourceFetch for TLC. *)
EXTENDS SourceFetch

CONSTANTS w1, w2, w3

TwoWorkers == {w1, w2}
ThreeWorkers == {w1, w2, w3}
=============================================================================
