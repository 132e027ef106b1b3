------------------------------ MODULE MCStartup ------------------------------
(* Small instances of Startup for TLC. *)
EXTENDS Startup, TLC

CONSTANTS s1, s2

TwoServers == {s1, s2}
Symmetry == Permutations(TwoServers)

\* 002_cases.sql, 003_lookup_runs.sql and 004_lookup_sources.sql create the
\* tables cases (1), lookup_runs (2) and lookup_sources (3), and the indexes
\* idx_lookup_sources_run (4) and idx_lookup_runs_case (5).
TheFiles == 2..4
TheCreates == 2 :> {1} @@ 3 :> {2} @@ 4 :> {3, 4, 5}
TheRequires == 1 :> {} @@ 2 :> {1} @@ 3 :> {2} @@ 4 :> {3} @@ 5 :> {2}
=============================================================================
