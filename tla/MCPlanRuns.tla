----------------------------- MODULE MCPlanRuns -----------------------------
(* Instances of PlanRuns for TLC.                                          *)
EXTENDS PlanRuns, TLC

\* Two backups, a group that resolves to none, one backup.
WithEmptyGroup == <<2, 0, 1>>
OneEach == <<1, 1>>

\* The request threads of the API are alike.
Symmetry == Permutations(Operators)
=============================================================================
