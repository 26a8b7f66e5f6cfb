------------------------------ MODULE RunOptions ------------------------------
(***************************************************************************)
(* How a plan is run: what the API asks before it starts a run, and the    *)
(* options the run's restores get.  The two are decided in different       *)
(* places, from the same location and request.                             *)
(*                                                                         *)
(* Times in seconds are kept as far as they are told apart: 0 or more.     *)
(***************************************************************************)
EXTENDS Integers

\* The fields of a location, of a request and of a plan that matter here.
\* http_check: a URL is given.  verified: its verification is VERIFIED.
Location ==
    [isolated : BOOLEAN, network : {"none", "unlink", "remap"}, dr : BOOLEAN,
     power_on : BOOLEAN, live_restore : BOOLEAN, qga : Nat, http_check : BOOLEAN]
PlanRunRequest ==
    [drill : BOOLEAN, auto_teardown : BOOLEAN, power_on : BOOLEAN, qga : Nat,
     powered_off : {"yes", "no", "default"}, overwrite : BOOLEAN, confirm_overwrite : BOOLEAN,
     confirm_dr : BOOLEAN, allow_non_isolated : BOOLEAN, allow_unverified : BOOLEAN]
Policy ==
    [enabled : BOOLEAN, verified : BOOLEAN, schedule_drill : BOOLEAN, assurance_enabled : BOOLEAN,
     require_qga : BOOLEAN, require_http : BOOLEAN, max_rto : Nat]

\* normalize_location: a location that has guests' networks unlinked or
\* remapped counts as isolated, whatever was asked.
IsolatedLocation(isolated, network) == isolated \/ network \in {"unlink", "remap"}

\* start_plan_run: do_power_on, and the seconds to wait for the guest agent.
\* A recovery run takes the location's defaults, a drill does not.
WaitFor(loc, ask) ==
    IF ask.qga > 0 \/ ask.drill \/ ~(ask.power_on \/ loc.power_on) THEN ask.qga ELSE loc.qga
PowerOn(loc, ask) ==
    ask.power_on \/ ask.qga > 0 \/ (~ask.drill /\ loc.power_on)

\* powered_off is asked for, refused, or left to the default: off in drills.
PoweredOff(loc, ask) ==
    /\ ~PowerOn(loc, ask)
    /\ ask.powered_off = "yes" \/ (ask.powered_off = "default" /\ ask.drill)

\* The options of the jobs of a run.
Options(loc, ask) ==
    [power_on |-> PowerOn(loc, ask),
     qga |-> WaitFor(loc, ask),
     live |-> loc.live_restore /\ ~PoweredOff(loc, ask),
     http |-> loc.http_check,
     overwrite |-> ask.overwrite,
     auto_teardown |-> ask.auto_teardown /\ ask.drill]

\* A restore boots its guest in the end, or while it is restored.
Boots(options) == options.power_on \/ options.live \/ options.qga > 0
-----------------------------------------------------------------------------
(* The gates.                                                              *)

\* _assert_power_on_isolation
IsolationGate(loc, wantsBoot, allowNonIsolated) ==
    wantsBoot /\ ~allowNonIsolated => IsolatedLocation(loc.isolated, loc.network)

\* _assert_overwrite_confirm, and the confirmation of a DR restore.
OverwriteGate(loc, ask) ==
    /\ ask.overwrite => loc.dr /\ ask.confirm_overwrite
    /\ loc.dr => ask.confirm_dr

\* require_verified_to_run
VerifiedGate(plan, ask, required) ==
    plan.enabled /\ (required => plan.verified \/ ask.allow_unverified)

\* Mutant of RunWantsBoot: the default of the location is not looked at.
RunWantsBootAsked(loc, ask) ==
    \/ ask.power_on \/ ask.qga > 0
    \/ loc.live_restore /\ ~ask.drill /\ ask.powered_off # "yes"

\* What api_run_plan takes for a run that boots guests.
RunWantsBoot(loc, ask) ==
    \/ ask.power_on \/ ask.qga > 0
    \/ ~ask.drill /\ loc.power_on
    \/ loc.live_restore /\ ~ask.drill /\ ask.powered_off # "yes"

\* api_run_plan
RunAccepted(plan, loc, ask, required) ==
    /\ VerifiedGate(plan, ask, required)
    /\ OverwriteGate(loc, ask)
    /\ IsolationGate(loc, RunWantsBoot(loc, ask), ask.allow_non_isolated)

\* Mutant of AssureAsk: the guest agent is waited for only if it is required.
AssureAskQga(plan, loc, ask) ==
    [ask EXCEPT !.drill = TRUE, !.auto_teardown = TRUE,
                !.power_on = plan.require_qga,
                !.powered_off = IF @ = "yes" THEN "yes" ELSE "default",
                !.qga = 0]

\* api_assure_plan: a drill that powers on when the plan requires a check.
AssureAsk(plan, loc, ask) ==
    LET powers == plan.require_qga \/ plan.require_http
    IN [ask EXCEPT !.drill = TRUE, !.auto_teardown = TRUE,
                   !.power_on = powers,
                   !.powered_off = IF powers THEN "no" ELSE "yes",
                   !.qga = IF ~powers THEN 0 ELSE IF loc.qga > 0 THEN loc.qga ELSE 120]

AssureAccepted(plan, loc, ask, required) ==
    /\ plan.assurance_enabled
    /\ VerifiedGate(plan, ask, required)
    /\ OverwriteGate(loc, ask)
    /\ plan.require_http => loc.http_check
    /\ IsolationGate(loc, plan.require_qga \/ plan.require_http, ask.allow_non_isolated)

\* _start_scheduled: the schedule passes no gate.
ScheduledAsk(plan) ==
    [drill |-> plan.schedule_drill, auto_teardown |-> plan.schedule_drill,
     power_on |-> FALSE, powered_off |-> "default", qga |-> 0, overwrite |-> FALSE]
-----------------------------------------------------------------------------
(* The verdict on an assurance drill.                                      *)

Unknown == -1

\* aggregate_plan_run: the summary of a job has no HTTP fields.
JobSummary(job) == [state |-> job.state, qga_ok |-> job.qga_ok, http |-> FALSE, http_ok |-> ""]

AllPass(jobs, Passes(_)) == jobs # {} /\ \A j \in jobs : Passes(j)

\* evaluate_assurance_policy; jobs: the summaries of the run's jobs.
AssuranceVerdict(plan, run, jobs) ==
    IF ~plan.assurance_enabled \/ ~run.drill THEN "UNKNOWN"
    ELSE IF /\ run.status = "COMPLETED"
            /\ run.auto_teardown => run.teardown \in {"", "completed"}
            /\ plan.require_qga => AllPass(jobs, LAMBDA j : j.qga_ok = "1")
            /\ plan.require_http => AllPass(jobs, LAMBDA j : j.http /\ j.http_ok = "1")
            /\ plan.max_rto > 0 => run.rto # Unknown /\ run.rto <= plan.max_rto
         THEN "ASSURED" ELSE "FAILED"

\* What process_job leaves of a job with these options, when all is well.
JobResult(options) ==
    [state |-> "COMPLETED",
     qga_ok |-> IF options.qga > 0 THEN "1" ELSE "",
     http |-> options.http,
     http_ok |-> IF options.http /\ Boots(options) THEN "1" ELSE ""]
=============================================================================
