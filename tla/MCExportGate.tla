---------------------------- MODULE MCExportGate ----------------------------
(***************************************************************************)
(* Five exports on three slots and three rows.  One background job is as   *)
(* large as the budget, one HTTP job is larger than it (and is clamped),   *)
(* three are small.                                                        *)
(***************************************************************************)
EXTENDS ExportGate

CONSTANTS nen, lon, vua, nho, be    \* background, large, three small ones

MCJobs == {nen, lon, vua, nho, be}
MCRows == [j \in MCJobs |-> CASE j = nen -> 3 [] j = lon -> 4 [] OTHER -> 1]

\* Progress is checked with two HTTP jobs, fairness with three that are alike.
MostInBackground == {nen, vua, nho}
OneInBackground  == {nen}
Alike            == Permutations({vua, nho, be})
=============================================================================
