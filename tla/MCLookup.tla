------------------------------ MODULE MCLookup ------------------------------
(* Small instances of Lookup for TLC. *)
EXTENDS Lookup

CONSTANTS r1, r2, r3

TwoRequests == {r1, r2}
ThreeRequests == {r1, r2, r3}

\* ORDER BY source: 1 is court_records, 2 property_records, 3 scra.
TwoSources == 2..3
ThreeSources == 1..3
\* A case in the pre-filing stage has no court case number.
PreFiling == 2..3
=============================================================================
