----------------------------- MODULE MCPlanRecord -----------------------------
(* The instance of PlanRecord that TLC checks.                             *)
EXTENDS PlanRecord, TLC

CONSTANTS w, o1, m1, m2

PlanWithSchedule == {<<m1, "scheduled">>}
=============================================================================
