-------------------------------- MODULE MCApi --------------------------------
(* Small instances of Api for TLC. *)
EXTENDS Api, Sequences

CONSTANTS r1, r2, r3, q1

TwoRequests == {r1, r2}
ThreeRequests == {r1, r2, r3}

\* The case is listed three times.
ThriceInBulk == <<r1, r2, r3>>
\* One client triggers the lookup by itself, another one in bulk.
OneInBulk == <<r2>>
NoBulk == <<>>

OneReader == {q1}

\* ORDER BY source: 1 is court_records, 2 property_records, 3 scra.
TwoSources == 2..3
ThreeSources == 1..3
\* A case in the pre-filing stage has no court case number.
PreFiling == 2..3
=============================================================================
