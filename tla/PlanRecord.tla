------------------------------ MODULE PlanRecord ------------------------------
(***************************************************************************)
(* The record of a recovery plan.  A plan is one JSON document in Redis.   *)
(* Everyone who changes it reads the whole document, works for a while,    *)
(* and writes the whole document back: an operator who edits it, a         *)
(* readiness check, the start of a run, the schedule, the report and the   *)
(* assurance of a run that has ended.  Nothing locks it in between.        *)
(*                                                                         *)
(* What a run does is in PlanRuns; here it starts, is running and ends.    *)
(* The worker is modelled while the queue is not paused: a paused worker   *)
(* ticks nothing.                                                          *)
(***************************************************************************)
EXTENDS Integers, FiniteSets

CONSTANTS
    Worker,          \* the worker process
    Operators,       \* requests of the API that run at the same time
    Memberships,     \* what group_ids and location_id may be
    Plans,           \* the plans there may be at first: <<membership, mode>>
    CheckEvery,      \* days between readiness checks
    RunEvery,        \* days between scheduled runs
    MaxDays,         \* bound: days
    MaxRuns,         \* bound: runs
    MaxCalls,        \* bound: requests of operators
    MaxMishaps       \* bound: kills and starts that fail

\* A plan is disabled, enabled, or enabled with a schedule.
Mode == {"disabled", "enabled", "scheduled"}

ASSUME RecordAssumption ==
    /\ Worker \notin Operators
    /\ Plans \subseteq Memberships \X Mode
    /\ {CheckEvery, RunEvery} \subseteq Nat \ {0}
    /\ {MaxDays, MaxRuns, MaxCalls, MaxMishaps} \subseteq Nat

Procs == Operators \cup {Worker}
Runs == 1 .. MaxRuns
Never == -1
Days == Never .. MaxDays

VARIABLES
    stored,  \* the document: {}, or {document} while the plan exists
    mine,    \* the copy each process works on: {} or {document}
    at,      \* where each process is
    day,     \* the clock
    begun,   \* runs that have begun
    active,  \* those that are running
    mineRun, \* the run a process finishes
    stale,   \* processes whose copy others have written over since (history)
    noted,   \* the day of the last scheduled run that was noted in the plan,
             \* Never once an old copy was saved over it (history)
    calls, mishaps

runVars == <<begun, active>>
vars == <<stored, mine, at, day, runVars, mineRun, stale, noted, calls, mishaps>>

\* PlanVerification
Verification == {"NOT_VERIFIED", "NEEDS_VERIFIED", "VERIFIED"}

\* passed: the membership last_check passed with, if it did (history).
\* reported, judged: the runs of last_run_report_id and assurance_last_run_id.
Document == [members : Memberships, mode : Mode, verification : Verification,
             passed : SUBSET Memberships, checkedAt : Days, scheduledAt : Days,
             reported : {0} \cup Runs, judged : {0} \cup Runs]

\* The places of a process; the worker goes round advance, sched.
Place == {"idle", "edit", "check", "attach", "run", "started",
          "advance", "sched", "due", "stamp", "reporting", "judge", "judging"}

TypeOK ==
    /\ stored \in SUBSET Document /\ Cardinality(stored) <= 1
    /\ mine \in [Procs -> SUBSET Document]
    /\ at \in [Procs -> Place]
    /\ day \in 0 .. MaxDays
    /\ begun \in 0 .. MaxRuns /\ active \subseteq 1 .. begun
    /\ mineRun \in [Procs -> {0} \cup Runs]
    /\ stale \subseteq Procs
    /\ noted \in Days
    /\ calls \in 0 .. MaxCalls /\ mishaps \in 0 .. MaxMishaps

\* create_plan
Created(m, mode) ==
    [members |-> m, mode |-> mode, verification |-> "NOT_VERIFIED",
     passed |-> {}, checkedAt |-> Never, scheduledAt |-> Never,
     reported |-> 0, judged |-> 0]

Rest(p) == IF p = Worker THEN "advance" ELSE "idle"

Init ==
    /\ \E plan \in Plans : stored = {Created(plan[1], plan[2])}
    /\ mine = [p \in Procs |-> {}]
    /\ at = [p \in Procs |-> Rest(p)]
    /\ day = 0
    /\ begun = 0 /\ active = {}
    /\ mineRun = [p \in Procs |-> 0]
    /\ stale = {}
    /\ noted = Never
    /\ calls = 0 /\ mishaps = 0
-----------------------------------------------------------------------------
Goes(p, place) == at' = [at EXCEPT ![p] = place]

\* get_plan, list_plans: the process takes a copy of the document.
Take(p) ==
    /\ mine' = [mine EXCEPT ![p] = stored]
    /\ stale' = stale \ {p}
Drop(p) ==
    /\ mine' = [mine EXCEPT ![p] = {}]
    /\ stale' = stale \ {p}

\* _save_entity: the whole document d, whatever is stored by now.  The copies
\* the others hold are old from here on.  p goes on with the copy it keeps.
Save(p, d, keeps) ==
    /\ stored' = {d}
    /\ mine' = [mine EXCEPT ![p] = keeps]
    /\ stale' = {q \in Procs \ {p} : mine[q] # {}}
    /\ noted' = IF p \in stale THEN Never ELSE noted

Call == calls < MaxCalls /\ calls' = calls + 1
Mishap == mishaps < MaxMishaps /\ mishaps' = mishaps + 1
Bounds == <<day, calls, mishaps>>

PassDay ==
    /\ day < MaxDays
    /\ day' = day + 1
    /\ UNCHANGED <<stored, mine, at, runVars, mineRun, stale, noted, calls, mishaps>>
-----------------------------------------------------------------------------
(* Operators edit and delete the plan.                                     *)

EditRead(o) ==
    /\ at[o] = "idle" /\ stored # {} /\ Call
    /\ Take(o)
    /\ Goes(o, "edit")
    /\ UNCHANGED <<stored, day, runVars, mineRun, noted, mishaps>>

\* Mutant of Edited: the verification survives every edit.
EditedKeeping(d) ==
    {[d EXCEPT !.members = m] : m \in Memberships}
    \cup {[d EXCEPT !.mode = mode] : mode \in Mode}

\* Mutant of Edited: the time of the last check is not carried over.
EditedForgetting(d) ==
    {[d EXCEPT !.members = m, !.checkedAt = Never,
               !.verification = IF m = d.members THEN @ ELSE "NEEDS_VERIFIED"] : m \in Memberships}
    \cup {[d EXCEPT !.mode = mode] : mode \in Mode}

\* update_plan: changing the membership takes the verification away.
\* An edit of other fields saves these as they were read.
Edited(d) ==
    {[d EXCEPT !.members = m,
               !.verification = IF m = d.members THEN @ ELSE "NEEDS_VERIFIED"] : m \in Memberships}
    \cup {[d EXCEPT !.mode = mode] : mode \in Mode}

EditSave(o) ==
    /\ at[o] = "edit"
    /\ \E d \in mine[o] : \E e \in Edited(d) : Save(o, e, {})
    /\ Goes(o, "idle")
    /\ UNCHANGED <<runVars, mineRun, Bounds>>

Delete(o) ==
    /\ at[o] = "idle" /\ stored # {} /\ Call
    /\ stored' = {}
    /\ stale' = {p \in Procs : mine[p] # {}}
    /\ UNCHANGED <<mine, at, day, runVars, mineRun, noted, mishaps>>
-----------------------------------------------------------------------------
(* Readiness checks, of an operator and of the worker's daily tick.        *)

\* The plan is read; checked_at is the time the check begins.
BeginCheck(p) ==
    /\ mine' = [mine EXCEPT ![p] = {[d EXCEPT !.checkedAt = day] : d \in stored}]
    /\ stale' = stale \ {p}
    /\ Goes(p, "check")

CheckRead(o) ==
    /\ at[o] = "idle" /\ stored # {} /\ Call
    /\ BeginCheck(o)
    /\ UNCHANGED <<stored, day, runVars, mineRun, noted, mishaps>>

\* plans_due_for_check
DueForCheck(d) == d.mode # "disabled" /\ (d.checkedAt = Never \/ day - d.checkedAt >= CheckEvery)

ReadyTick ==
    /\ at[Worker] = "advance"
    /\ IF \E d \in stored : DueForCheck(d)
       THEN BeginCheck(Worker)
       ELSE Goes(Worker, "sched") /\ UNCHANGED <<mine, stale>>
    /\ UNCHANGED <<stored, runVars, mineRun, noted, Bounds>>

AfterCheck(p) == IF p = Worker THEN "sched" ELSE "idle"

Checked(d, ok) ==
    [d EXCEPT !.passed = IF ok THEN {d.members} ELSE {},
              !.verification = IF ok THEN "VERIFIED" ELSE "NOT_VERIFIED"]

\* Mutant of CheckSave: the report is attached to the plan as it was read.
CheckSaveAside(p, ok) ==
    /\ at[p] = "check"
    /\ \E d \in mine[p] : Save(p, Checked(d, ok), {d})
    /\ Goes(p, "attach")
    /\ UNCHANGED <<runVars, mineRun, Bounds>>

\* Mutant of CheckSave: a check of the worker that crashes is not recorded.
CheckSaveUnlessCrash(p, ok) ==
    /\ at[p] = "check"
    /\ IF ok
       THEN \E d \in mine[p] : Save(p, Checked(d, ok), {Checked(d, ok)}) /\ Goes(p, "attach")
       ELSE Drop(p) /\ Goes(p, AfterCheck(p)) /\ UNCHANGED <<stored, noted>>
    /\ UNCHANGED <<runVars, mineRun, Bounds>>

\* Mutant of CheckSave: a verdict of another enumeration.
CheckSaveAssured(p, ok) ==
    /\ at[p] = "check"
    /\ \E d \in mine[p] :
           LET e == [Checked(d, ok) EXCEPT !.verification = IF ok THEN @ ELSE "FAILED"]
           IN Save(p, e, {e})
    /\ Goes(p, "attach")
    /\ UNCHANGED <<runVars, mineRun, Bounds>>

\* apply_check_result saves the verdict, then once more with the report.  A
\* check that crashes in the worker is saved as one that failed.
CheckSave(p, ok) ==
    /\ at[p] = "check"
    /\ \E d \in mine[p] : Save(p, Checked(d, ok), {Checked(d, ok)})
    /\ Goes(p, "attach")
    /\ UNCHANGED <<runVars, mineRun, Bounds>>

AttachReport(p) ==
    /\ at[p] = "attach"
    /\ \E d \in mine[p] : Save(p, d, {})
    /\ Goes(p, AfterCheck(p))
    /\ UNCHANGED <<runVars, mineRun, Bounds>>

\* The report cannot be saved, or a check of the API crashes: nothing is said.
CheckGivesUp(p) ==
    /\ at[p] = "attach" \/ (at[p] = "check" /\ p # Worker)
    /\ Drop(p)
    /\ Goes(p, AfterCheck(p))
    /\ UNCHANGED <<stored, runVars, mineRun, noted, Bounds>>
-----------------------------------------------------------------------------
(* Runs: those operators ask for, and those of the schedule.               *)

\* api_run_plan, api_assure_plan.  Whether an unverified plan may run is a
\* setting and a flag of the request: RunOptions has the gates.
RunRead(o) ==
    /\ at[o] = "idle" /\ Call
    /\ \E d \in stored : d.mode # "disabled"
    /\ Take(o)
    /\ Goes(o, "run")
    /\ UNCHANGED <<stored, day, runVars, mineRun, noted, mishaps>>

\* Mutant of DueForRun: due a day early.
DueForRunEarly(d) ==
    d.mode = "scheduled" /\ (d.scheduledAt = Never \/ day - d.scheduledAt + 1 >= RunEvery)

\* plans_due_for_schedule
DueForRun(d) ==
    d.mode = "scheduled" /\ (d.scheduledAt = Never \/ day - d.scheduledAt >= RunEvery)

SchedTick ==
    /\ at[Worker] = "sched"
    /\ IF \E d \in stored : DueForRun(d)
       THEN Take(Worker) /\ Goes(Worker, "due")
       ELSE Goes(Worker, "advance") /\ UNCHANGED <<mine, stale>>
    /\ UNCHANGED <<stored, runVars, mineRun, noted, Bounds>>

\* A plan with a run that is active is skipped.
SchedLooks ==
    /\ at[Worker] = "due"
    /\ IF active = {}
       THEN Goes(Worker, "run") /\ UNCHANGED <<mine, stale>>
       ELSE Goes(Worker, "advance") /\ Drop(Worker)
    /\ UNCHANGED <<stored, runVars, mineRun, noted, Bounds>>

BeginRun ==
    /\ begun < MaxRuns
    /\ begun' = begun + 1
    /\ active' = active \cup {begun'}

\* start_plan_run, up to the plan: the shell and the jobs of the first group.
StartRun(p) ==
    /\ at[p] = "run"
    /\ BeginRun
    /\ Goes(p, "started")
    /\ UNCHANGED <<stored, mine, mineRun, stale, noted, Bounds>>

\* It raises before the shell: no backups, a source that does not answer.
StartRefused(p) ==
    /\ at[p] = "run"
    /\ Drop(p)
    /\ Goes(p, Rest(p))
    /\ UNCHANGED <<stored, runVars, mineRun, noted, Bounds>>

\* It raises after the shell, which stays active.
StartFails(p) ==
    /\ at[p] = "run" /\ Mishap
    /\ BeginRun
    /\ Drop(p)
    /\ Goes(p, Rest(p))
    /\ UNCHANGED <<stored, day, mineRun, noted, calls>>

Started(d) ==
    [d EXCEPT !.verification = IF @ = "VERIFIED" THEN "NEEDS_VERIFIED" ELSE @]

\* A run uses the verification up.
StartSave(p) ==
    /\ at[p] = "started"
    /\ \E d \in mine[p] : Save(p, Started(d), IF p = Worker THEN {d} ELSE {})
    /\ Goes(p, IF p = Worker THEN "stamp" ELSE "idle")
    /\ UNCHANGED <<runVars, mineRun, Bounds>>

\* tick_scheduled_plan_runs writes the plan as it was before start_plan_run.
SchedSave ==
    /\ at[Worker] = "stamp"
    /\ \E d \in mine[Worker] :
           /\ stored' = {[d EXCEPT !.scheduledAt = day]}
           /\ mine' = [mine EXCEPT ![Worker] = {}]
           /\ stale' = {q \in Procs : mine'[q] # {}}
    /\ noted' = day
    /\ Goes(Worker, "advance")
    /\ UNCHANGED <<runVars, mineRun, Bounds>>
-----------------------------------------------------------------------------
(* Runs end, and are written to their plan.                                *)

\* advance_plan_runs, or a cancel.  _finalize_plan_run_report reads the plan,
\* and saves the report of the run.
RunEnds(p, r) ==
    /\ at[p] = Rest(p) /\ r \in active
    /\ p # Worker => calls < MaxCalls
    /\ calls' = IF p = Worker THEN calls ELSE calls + 1
    /\ active' = active \ {r}
    /\ mineRun' = [mineRun EXCEPT ![p] = r]
    /\ Take(p)
    /\ Goes(p, "reporting")
    /\ UNCHANGED <<stored, day, begun, noted, mishaps>>

ReportSave(p) ==
    /\ at[p] = "reporting"
    /\ \E d \in mine[p] : Save(p, [d EXCEPT !.reported = mineRun[p]], {})
    /\ Goes(p, "judge")
    /\ UNCHANGED <<runVars, mineRun, Bounds>>

\* The plan is gone, or saving the report raises.
ReportGivenUp(p) ==
    /\ at[p] = "reporting"
    /\ Drop(p)
    /\ Goes(p, "judge")
    /\ UNCHANGED <<stored, runVars, mineRun, noted, Bounds>>

\* apply_assurance_from_run reads the plan again: the teardown is in between.
JudgeRead(p) ==
    /\ at[p] = "judge"
    /\ Take(p)
    /\ Goes(p, "judging")
    /\ UNCHANGED <<stored, runVars, mineRun, noted, Bounds>>

JudgeSave(p) ==
    /\ at[p] = "judging"
    /\ \E d \in mine[p] : Save(p, [d EXCEPT !.judged = mineRun[p]], {})
    /\ mineRun' = [mineRun EXCEPT ![p] = 0]
    /\ Goes(p, Rest(p))
    /\ UNCHANGED <<runVars, Bounds>>

\* The plan is gone or has no assurance, or the run is no drill.
NotJudged(p) ==
    /\ at[p] = "judging"
    /\ Drop(p)
    /\ mineRun' = [mineRun EXCEPT ![p] = 0]
    /\ Goes(p, Rest(p))
    /\ UNCHANGED <<stored, runVars, noted, Bounds>>

\* A process is killed, wherever it is; the worker starts again.
Kill(p) ==
    /\ at[p] # Rest(p) /\ Mishap
    /\ Goes(p, Rest(p))
    /\ Drop(p)
    /\ mineRun' = [mineRun EXCEPT ![p] = 0]
    /\ UNCHANGED <<stored, day, runVars, noted, calls>>

Works(p) ==
    \/ \E ok \in BOOLEAN : CheckSave(p, ok)
    \/ AttachReport(p) \/ CheckGivesUp(p)
    \/ StartRun(p) \/ StartRefused(p) \/ StartFails(p) \/ StartSave(p)
    \/ \E r \in Runs : RunEnds(p, r)
    \/ ReportSave(p) \/ ReportGivenUp(p) \/ JudgeRead(p)
    \/ JudgeSave(p) \/ NotJudged(p)

WorkerStep == Works(Worker) \/ ReadyTick \/ SchedTick \/ SchedLooks \/ SchedSave
OperatorStep(o) == EditRead(o) \/ EditSave(o) \/ Delete(o) \/ CheckRead(o) \/ RunRead(o) \/ Works(o)

Next ==
    \/ WorkerStep \/ (\E o \in Operators : OperatorStep(o))
    \/ (\E p \in Procs : Kill(p)) \/ PassDay

\* The loop of the worker goes on.
FairSpec == Init /\ [][Next]_vars /\ WF_vars(WorkerStep)
-----------------------------------------------------------------------------
(* What is lost when whole documents are written, and what is not.         *)

\* A VERIFIED plan passed its last check, with the groups and the location it
\* has now.
VerifiedIsChecked ==
    \A d \in stored : d.verification = "VERIFIED" => d.passed = {d.members}

\* The step of a process p.
Acts(p) == at'[p] # at[p]

\* Only a check that passes makes a plan VERIFIED; or an old copy does, or
\* the note of a scheduled run, which is written over what its start wrote.
CheckVerifies ==
    \A d \in stored, e \in stored' : \A p \in Procs :
        Acts(p) /\ e.verification = "VERIFIED" /\ d.verification # "VERIFIED" =>
            at[p] \in {"check", "stamp"} \/ p \in stale
VerifiedOnlyByCheck == [][CheckVerifies]_vars

\* A save changes what it is about, unless its copy was old: it keeps the
\* edits, the times, the report and the verdict others have written, and
\* brings no deleted plan back.
KeepsTheRest(place, d, e) ==
    /\ e.members # d.members \/ e.mode # d.mode => place = "edit"
    /\ e.checkedAt # d.checkedAt => place = "check"
    /\ e.scheduledAt # d.scheduledAt => place = "stamp"
    /\ e.reported # d.reported => place = "reporting"
    /\ e.judged # d.judged => place = "judging"
NothingUndone ==
    \A p \in Procs : Acts(p) /\ p \notin stale =>
        /\ stored = {} => stored' = {}
        /\ \A d \in stored, e \in stored' : KeepsTheRest(at[p], d, e)
OnlyStaleCopiesUndo == [][NothingUndone]_vars

\* Scheduled runs begin an interval apart: none begins within an interval of
\* one that was noted in the plan, unless an old copy was saved over the note.
RunApart == noted = Never \/ day - noted >= RunEvery
ScheduledOnce == [][at[Worker] = "run" /\ begun' > begun => RunApart]_vars

\* The worker checks the plan whenever it is due, however often operators
\* write over the check: it is never due for good.
DueIsChecked == []<>(\A d \in stored : ~ DueForCheck(d))
=============================================================================
