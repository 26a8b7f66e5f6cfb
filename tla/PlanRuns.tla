------------------------------- MODULE PlanRuns -------------------------------
(***************************************************************************)
(* Plan runs: the groups of a recovery plan restored one after the other.  *)
(*                                                                         *)
(* A run is one JSON document in Redis.  A request thread of the API or    *)
(* the worker's schedule starts it (start_plan_run), the worker's tick     *)
(* moves it forward (advance_plan_runs), an operator cancels it or tears   *)
(* it down.  Each of them reads the document, works on its copy and writes *)
(* the whole copy back (save_plan_run): nothing detects a write in between.*)
(* A step here is one such read or write, with the reads that lead to it.  *)
(*                                                                         *)
(* The restore jobs are the ones of RestoreQueue, seen from the plan: a    *)
(* state, a cancel request, a thread, and a guest that Proxmox creates.    *)
(***************************************************************************)
EXTENDS Integers, FiniteSets

CONSTANTS
    Runs,        \* plan runs (each of a plan of its own)
    Scheduled,   \* the runs the worker's schedule starts; the API the others
    Groups,      \* number of groups of a plan
    Rows,        \* Rows[g]: how many backups group g resolves to
    Attempts,    \* bound: times a group may be enqueued
    Workers,     \* worker processes
    Operators,   \* API request threads
    Halt,        \* the plan's halt_on_error
    AutoTeardown,\* the run is a drill with auto_teardown
    Stops,       \* whether operators stop single jobs
    Failing,     \* calls that may fail: enqueues of "start" and "advance",
                 \* "teardown" (no connection), "listing" (of the cluster)
    MaxOutages,  \* bound: such failures
    MaxCancels,  \* bound: cancel requests
    MaxTeardowns,\* bound: teardown requests
    MaxCrashes   \* bound: kills of a process

ASSUME PlanAssumption ==
    /\ Groups \in Nat \ {0}
    /\ Rows \in [1 .. Groups -> Nat] /\ \E g \in 1 .. Groups : Rows[g] > 0
    /\ Attempts \in Nat \ {0}
    /\ Scheduled \subseteq Runs
    /\ Workers \cap Operators = {}
    /\ {Halt, AutoTeardown, Stops} \subseteq BOOLEAN
    /\ Failing \subseteq {"start", "advance", "teardown", "listing"}
    /\ {MaxOutages, MaxCancels, MaxTeardowns, MaxCrashes} \subseteq Nat

Group == 1 .. Groups
Procs == Workers \cup Operators
Terminal == {"COMPLETED", "FAILED", "CANCELLED"}

\* The a-th time group g of run r is enqueued, its rows become these jobs.
JobsOf(r, g, a) == {<<r, g, k, a>> : k \in 1 .. Rows[g]}
Job == UNION {JobsOf(r, g, a) : r \in Runs, g \in Group, a \in 1 .. Attempts}

VARIABLES
    doc,       \* the document of each run, as Redis holds it
    active,    \* the Redis set of active runs
    state,     \* the state in the hash of each job
    cancelReq, \* jobs with cancel_requested
    running,   \* jobs a worker's thread is working on
    guest,     \* the guest of each job: none, locked by its task, there, gone
    at,        \* where each process is
    on,        \* the run it works on: {} or {r}
    mine,      \* its copy of the document
    todo,      \* what its loop has left: runs of a tick, jobs of a cancel
    seen,      \* the job state a cancel has just read: {} or {<<j, state>>}
    reports,   \* reports saved for each run
    notices,   \* notifications sent for each run
    outages,   \* failed calls so far
    cancels,   \* cancel requests so far
    teardowns, \* teardown requests so far
    crashes    \* kills so far

jobVars == <<state, cancelReq, running, guest>>
docVars == <<doc, active>>
procVars == <<at, on, mine, todo, seen>>
logVars == <<reports, notices>>
bounds == <<outages, cancels, teardowns, crashes>>
vars == <<jobVars, docVars, procVars, logVars, bounds>>

\* The fields of a run that the code decides on.  pend: the rows of every
\* group are stashed on the run; verdict: assurance_status.
NoDoc == [status |-> "NONE", idx |-> 1, ids |-> [g \in Group |-> {}], pend |-> FALSE,
          report |-> FALSE, torn |-> "", evaluated |-> FALSE, verdict |-> "",
          notified |-> FALSE]
Doc == [status : {"NONE", "RUNNING"} \cup Terminal, idx : 1 .. Groups + 1,
        ids : [Group -> SUBSET Job], pend : BOOLEAN, report : BOOLEAN,
        torn : {"", "completed", "partial", "failed"}, evaluated : BOOLEAN,
        verdict : {"", "UNKNOWN", "ASSURED", "FAILED"}, notified : BOOLEAN]

StartLabel == {"first", "ids", "stash"}
AdvanceLabel == {"judge", "drop", "record"}
FinalLabel == {"report", "teardown", "assure", "verdict", "notify", "sent"}
Labels == {"idle", "next", "cancel", "mark", "destroy"}
             \cup StartLabel \cup AdvanceLabel \cup FinalLabel

TypeOK ==
    /\ doc \in [Runs -> Doc]
    /\ active \subseteq Runs
    /\ state \in [Job -> {"NONE", "PENDING", "RESTORING"} \cup Terminal]
    /\ cancelReq \subseteq Job
    /\ running \subseteq Job
    /\ guest \in [Job -> {"none", "locked", "there", "gone"}]
    /\ at \in [Procs -> Labels]
    /\ on \in [Procs -> SUBSET Runs]
    /\ mine \in [Procs -> Doc]
    /\ todo \in [Procs -> SUBSET (Runs \cup Job)]
    /\ seen \in [Procs -> SUBSET (Job \X {"PENDING", "RESTORING"})]
    /\ reports \in [Runs -> Nat]
    /\ notices \in [Runs -> Nat]
    /\ {outages, cancels, teardowns, crashes} \subseteq Nat

Init ==
    /\ doc = [r \in Runs |-> NoDoc]
    /\ active = {}
    /\ state = [j \in Job |-> "NONE"]
    /\ cancelReq = {}
    /\ running = {}
    /\ guest = [j \in Job |-> "none"]
    /\ at = [p \in Procs |-> "idle"]
    /\ on = [p \in Procs |-> {}]
    /\ mine = [p \in Procs |-> NoDoc]
    /\ todo = [p \in Procs |-> {}]
    /\ seen = [p \in Procs |-> {}]
    /\ reports = [r \in Runs |-> 0]
    /\ notices = [r \in Runs |-> 0]
    /\ outages = 0 /\ cancels = 0 /\ teardowns = 0 /\ crashes = 0

Recorded(d) == UNION {d.ids[g] : g \in Group}
Created(r) == {j \in Job : j[1] = r /\ state[j] # "NONE"}
NonEmpty == {g \in Group : Rows[g] > 0}

\* Process p has done its work on a run: a tick goes to the next one.
Ends(p) ==
    /\ at' = [at EXCEPT ![p] = IF todo[p] # {} THEN "next" ELSE "idle"]
    /\ on' = [on EXCEPT ![p] = {}]
    /\ mine' = [mine EXCEPT ![p] = NoDoc]
    /\ UNCHANGED <<todo, seen>>

\* Process p works on with its copy d of the document.
Goes(p, label, d) ==
    /\ at' = [at EXCEPT ![p] = label]
    /\ mine' = [mine EXCEPT ![p] = d]
    /\ UNCHANGED <<on, todo, seen>>

\* save_plan_run: one MULTI that writes the document and the active set.
Save(r, d) ==
    /\ doc' = [doc EXCEPT ![r] = d]
    /\ active' = IF d.status = "RUNNING" THEN active \cup {r} ELSE active \ {r}

\* A call fails: Proxmox is away, or has no free VMID.
Raises(call) ==
    /\ call \in Failing
    /\ outages < MaxOutages
    /\ outages' = outages + 1
    /\ UNCHANGED <<cancels, teardowns, crashes>>

\* enqueue_restores for group g of run r creates the jobs new.
Unused(r, g) == {a \in 1 .. Attempts : \A j \in JobsOf(r, g, a) : state[j] = "NONE"}
NextJobs(r, g) == JobsOf(r, g, CHOOSE a \in Unused(r, g) : \A b \in Unused(r, g) : a <= b)
Enqueue(new) ==
    /\ state' = [j \in Job |-> IF j \in new THEN "PENDING" ELSE state[j]]
    /\ UNCHANGED <<cancelReq, running, guest>>

\* Mutant of FirstFrom: rows still to enqueue are forgotten.
FirstRecorded(d, k) ==
    LET open == {g \in k .. Groups : d.ids[g] # {}}
    IN IF open = {} THEN Groups + 1 ELSE CHOOSE g \in open : \A h \in open : g <= h

\* Mutant of FirstFrom: one too far at the end.
FirstOrPast(d, k) ==
    LET open == {g \in k .. Groups : d.ids[g] # {} \/ (d.pend /\ Rows[g] > 0)}
    IN IF open = {} THEN Groups + 2 ELSE CHOOSE g \in open : \A h \in open : g <= h

\* The first group from k on that has jobs, or rows still to enqueue.
FirstFrom(d, k) ==
    LET open == {g \in k .. Groups : d.ids[g] # {} \/ (d.pend /\ Rows[g] > 0)}
    IN IF open = {} THEN Groups + 1 ELSE CHOOSE g \in open : \A h \in open : g <= h

-----------------------------------------------------------------------------
(* start_plan_run: four writes, with the enqueue in between.               *)

\* The shell of the run is saved first, so that jobs can refer to it.
StartShell(p, r) ==
    /\ at[p] = "idle"
    /\ doc[r].status = "NONE"
    /\ IF r \in Scheduled THEN p \in Workers ELSE p \in Operators
    /\ LET d == [NoDoc EXCEPT !.status = "RUNNING",
                              !.idx = CHOOSE g \in NonEmpty : \A h \in NonEmpty : g <= h]
       IN /\ Save(r, d)
          /\ mine' = [mine EXCEPT ![p] = d]
    /\ at' = [at EXCEPT ![p] = "first"]
    /\ on' = [on EXCEPT ![p] = {r}]
    /\ UNCHANGED <<jobVars, todo, seen, logVars, bounds>>

StartEnqueue(p, r) ==
    /\ at[p] = "first" /\ Unused(r, mine[p].idx) # {}
    /\ LET new == NextJobs(r, mine[p].idx)
       IN /\ Enqueue(new)
          /\ Goes(p, "ids", [mine[p] EXCEPT !.ids[mine[p].idx] = new])
    /\ UNCHANGED <<docVars, logVars, bounds>>

\* enqueue_restores raises; the shell stays as it is.
StartRaises(p) ==
    /\ at[p] = "first"
    /\ Raises("start")
    /\ Ends(p)
    /\ UNCHANGED <<jobVars, docVars, logVars>>

StartSaveIds(p, r) ==
    /\ at[p] = "ids"
    /\ Save(r, mine[p])
    /\ Goes(p, "stash", mine[p])
    /\ UNCHANGED <<jobVars, logVars, bounds>>

\* The rows of all groups are stashed on the run for the worker's tick.
StartStash(p, r) ==
    /\ at[p] = "stash"
    /\ Save(r, [mine[p] EXCEPT !.pend = TRUE])
    /\ Ends(p)
    /\ UNCHANGED <<jobVars, logVars, bounds>>

-----------------------------------------------------------------------------
(* advance_plan_runs, once per iteration of the worker's loop.             *)

Tick(p) ==
    /\ p \in Workers
    /\ at[p] = "idle" /\ active # {}
    /\ at' = [at EXCEPT ![p] = "next"]
    /\ todo' = [todo EXCEPT ![p] = active]
    /\ UNCHANGED <<jobVars, docVars, on, mine, seen, logVars, bounds>>

\* Mutant of TakeRun: the status is not looked at.
TakeAnyRun(p, r) ==
    /\ at[p] = "next" /\ r \in todo[p]
    /\ todo' = [todo EXCEPT ![p] = @ \ {r}]
    /\ on' = [on EXCEPT ![p] = {r}]
    /\ mine' = [mine EXCEPT ![p] = doc[r]]
    /\ at' = [at EXCEPT ![p] = "judge"]
    /\ UNCHANGED <<jobVars, docVars, seen, logVars, bounds>>

\* The tick reads the document of the next active run.
TakeRun(p, r) ==
    /\ at[p] = "next" /\ r \in todo[p]
    /\ todo' = [todo EXCEPT ![p] = @ \ {r}]
    /\ on' = [on EXCEPT ![p] = {r}]
    /\ mine' = [mine EXCEPT ![p] = doc[r]]
    /\ at' = [at EXCEPT ![p] = IF doc[r].status = "RUNNING" THEN "judge" ELSE "drop"]
    /\ UNCHANGED <<jobVars, docVars, seen, logVars, bounds>>

\* A run that is not RUNNING is taken off the active set.
Drop(p, r) ==
    /\ at[p] = "drop"
    /\ active' = active \ {r}
    /\ Ends(p)
    /\ UNCHANGED <<jobVars, doc, logVars, bounds>>

\* The group the tick looks at, its jobs and their states.  The states are
\* read one by one; only a group whose jobs have all ended is acted on, and
\* an ended job stays so: they may as well be read together, at the end.
Current(p) == FirstFrom(mine[p], mine[p].idx)
CurrentJobs(p) == mine[p].ids[Current(p)]
SomeJob(p, s) == \E j \in CurrentJobs(p) : state[j] = s

\* Mutants of HasEnded: a job that runs counts as ended; a failed one does not.
NonePending(p) == ~SomeJob(p, "PENDING")
AllCompleted(p) == \A j \in CurrentJobs(p) : state[j] = "COMPLETED"

HasEnded(p) == \A j \in CurrentJobs(p) : state[j] \in Terminal

GroupFails(p) == Halt /\ SomeJob(p, "FAILED")
GroupCancelled(p) == SomeJob(p, "CANCELLED") /\ ~SomeJob(p, "COMPLETED")

\* Every outcome is saved, then _finalize_plan_run_report is called.
EndRun(p, r, status, idx) ==
    LET d == [mine[p] EXCEPT !.status = status, !.idx = idx]
    IN Save(r, d) /\ Goes(p, "report", d)

NothingLeft(p, r) ==
    /\ at[p] = "judge" /\ Current(p) > Groups
    /\ EndRun(p, r, "COMPLETED", Current(p))
    /\ UNCHANGED <<jobVars, logVars, bounds>>

EnqueueGroup(p, r) ==
    /\ at[p] = "judge" /\ Current(p) \in Group /\ CurrentJobs(p) = {}
    /\ Unused(r, Current(p)) # {}
    /\ LET new == NextJobs(r, Current(p))
       IN /\ Enqueue(new)
          /\ Goes(p, "record", [mine[p] EXCEPT !.ids[Current(p)] = new, !.idx = Current(p)])
    /\ UNCHANGED <<docVars, logVars, bounds>>

\* The exception ends the whole tick, the other runs of it included.
EnqueueRaises(p) ==
    /\ at[p] = "judge" /\ Current(p) \in Group /\ CurrentJobs(p) = {}
    /\ Raises("advance")
    /\ at' = [at EXCEPT ![p] = "idle"]
    /\ on' = [on EXCEPT ![p] = {}]
    /\ mine' = [mine EXCEPT ![p] = NoDoc]
    /\ todo' = [todo EXCEPT ![p] = {}]
    /\ UNCHANGED <<jobVars, docVars, seen, logVars>>

\* Mutant of RecordGroup: the ids of the new jobs are not saved.
RecordNothing(p, r) ==
    /\ at[p] = "record"
    /\ Save(r, [mine[p] EXCEPT !.ids = doc[r].ids])
    /\ Ends(p)
    /\ UNCHANGED <<jobVars, logVars, bounds>>

RecordGroup(p, r) ==
    /\ at[p] = "record"
    /\ Save(r, mine[p])
    /\ Ends(p)
    /\ UNCHANGED <<jobVars, logVars, bounds>>

\* Jobs of the group are still PENDING or RESTORING.
StillRunning(p) ==
    /\ at[p] = "judge" /\ Current(p) \in Group /\ CurrentJobs(p) # {} /\ ~HasEnded(p)
    /\ Ends(p)
    /\ UNCHANGED <<jobVars, docVars, logVars, bounds>>

\* All of them have ended: the run fails, is cancelled, is over or goes on.
JudgeGroup(p, r) ==
    /\ at[p] = "judge" /\ Current(p) \in Group /\ CurrentJobs(p) # {} /\ HasEnded(p)
    /\ LET next == FirstFrom(mine[p], Current(p) + 1)
       IN IF GroupFails(p)
          THEN EndRun(p, r, "FAILED", mine[p].idx)
          ELSE IF GroupCancelled(p)
          THEN EndRun(p, r, "CANCELLED", mine[p].idx)
          ELSE IF next > Groups
          THEN EndRun(p, r, "COMPLETED", next)
          ELSE Save(r, [mine[p] EXCEPT !.idx = next]) /\ Ends(p)
    /\ UNCHANGED <<jobVars, logVars, bounds>>
-----------------------------------------------------------------------------
(* _finalize_plan_run_report, after the status of a run has been saved.    *)

Report(p, r) ==
    /\ at[p] = "report"
    /\ IF mine[p].report
       THEN /\ Goes(p, "teardown", mine[p])
            /\ UNCHANGED <<docVars, reports>>
       ELSE LET d == [mine[p] EXCEPT !.report = TRUE]
            IN /\ Save(r, d)
               /\ Goes(p, "teardown", d)
               /\ reports' = [reports EXCEPT ![r] = @ + 1]
    /\ UNCHANGED <<jobVars, notices, bounds>>

\* Mutant of Torn: one destroyed guest is enough.
TornIfAny(targets, failed) ==
    IF targets # {} /\ failed = targets THEN "failed" ELSE "completed"

Torn(targets, failed) ==
    CASE failed = {} -> "completed"
      [] failed # {} /\ failed = targets -> "failed"
      [] OTHER -> "partial"

\* teardown_plan_run: each recorded guest is destroyed, unless its restore
\* task still holds the lock.  A guest that the cluster does not list counts
\* as destroyed, and so does one (of blind) whose listing failed.
TearDown(p, r, blind) ==
    LET targets == Recorded(mine[p])
        failed == {j \in targets \ blind : guest[j] = "locked"}
    IN /\ guest' = [j \in Job |-> IF j \in targets \ blind /\ guest[j] = "there"
                                  THEN "gone" ELSE guest[j]]
       /\ Save(r, [mine[p] EXCEPT !.torn = Torn(targets, failed)])
       /\ UNCHANGED <<state, cancelReq, running, logVars>>

TeardownDue(p) == AutoTeardown /\ mine[p].torn = ""

AutoTear(p, r) ==
    /\ at[p] = "teardown" /\ TeardownDue(p)
    /\ TearDown(p, r, {})
    /\ Goes(p, "assure", mine[p])
    /\ UNCHANGED bounds

\* The listing of the cluster fails for some guests: _cluster_vm_resources
\* returns no guest at all.
AutoTearBlind(p, r) ==
    /\ at[p] = "teardown" /\ TeardownDue(p)
    /\ Raises("listing")
    /\ \E blind \in (SUBSET Recorded(mine[p])) \ {{}} : TearDown(p, r, blind)
    /\ Goes(p, "assure", mine[p])

\* Proxmox cannot be reached: the exception is swallowed.
AutoTearRaises(p) ==
    /\ at[p] = "teardown" /\ TeardownDue(p)
    /\ Raises("teardown")
    /\ Goes(p, "assure", mine[p])
    /\ UNCHANGED <<jobVars, docVars, logVars>>

NoTeardown(p) ==
    /\ at[p] = "teardown" /\ ~TeardownDue(p)
    /\ Goes(p, "assure", mine[p])
    /\ UNCHANGED <<jobVars, docVars, logVars, bounds>>

\* The run is read again before its assurance is judged.
AssureRead(p, r) ==
    /\ at[p] = "assure"
    /\ Goes(p, IF doc[r].evaluated THEN "notify" ELSE "verdict", doc[r])
    /\ UNCHANGED <<jobVars, docVars, logVars, bounds>>

\* Mutant of Verdict: a teardown that was only partial is not looked at.
VerdictOfStatus(d) ==
    IF ~AutoTeardown THEN ""
    ELSE IF d.status = "COMPLETED" THEN "ASSURED" ELSE "FAILED"

\* evaluate_assurance_policy with the default policy: only drills are judged.
Verdict(d) ==
    IF ~AutoTeardown THEN ""
    ELSE IF d.status = "COMPLETED" /\ d.torn \in {"", "completed"} THEN "ASSURED"
    ELSE "FAILED"

AssureSave(p, r) ==
    /\ at[p] = "verdict"
    /\ Save(r, [mine[p] EXCEPT !.evaluated = TRUE, !.verdict = Verdict(mine[p])])
    /\ Goes(p, "notify", mine[p])
    /\ UNCHANGED <<jobVars, logVars, bounds>>

\* The run is read again; the notification goes out unless it has been sent.
Notify(p, r) ==
    /\ at[p] = "notify" /\ ~doc[r].notified
    /\ notices' = [notices EXCEPT ![r] = @ + 1]
    /\ Goes(p, "sent", doc[r])
    /\ UNCHANGED <<jobVars, docVars, reports, bounds>>

AlreadyNotified(p, r) ==
    /\ at[p] = "notify" /\ doc[r].notified
    /\ Ends(p)
    /\ UNCHANGED <<jobVars, docVars, logVars, bounds>>

NotifySave(p, r) ==
    /\ at[p] = "sent"
    /\ Save(r, [mine[p] EXCEPT !.notified = TRUE])
    /\ Ends(p)
    /\ UNCHANGED <<jobVars, logVars, bounds>>

-----------------------------------------------------------------------------
(* cancel_plan_run and the teardown request, in threads of the API.        *)

CancelRead(p, r) ==
    /\ p \in Operators /\ at[p] = "idle"
    /\ doc[r].status = "RUNNING"
    /\ cancels < MaxCancels
    /\ cancels' = cancels + 1
    /\ at' = [at EXCEPT ![p] = "cancel"]
    /\ on' = [on EXCEPT ![p] = {r}]
    /\ mine' = [mine EXCEPT ![p] = doc[r]]
    /\ todo' = [todo EXCEPT ![p] = Recorded(doc[r])]
    /\ UNCHANGED <<jobVars, docVars, seen, logVars, outages, teardowns, crashes>>

\* Mutant of CancelLook: RESTORING jobs are left alone as well.
CancelLookPending(p, j) ==
    /\ at[p] = "cancel" /\ j \in todo[p]
    /\ todo' = [todo EXCEPT ![p] = @ \ {j}]
    /\ IF state[j] # "PENDING" THEN UNCHANGED <<at, seen>>
       ELSE /\ at' = [at EXCEPT ![p] = "mark"]
            /\ seen' = [seen EXCEPT ![p] = {<<j, state[j]>>}]
    /\ UNCHANGED <<jobVars, docVars, on, mine, logVars, bounds>>

\* The hash of the next job is read; one that has ended is left alone.
CancelLook(p, j) ==
    /\ at[p] = "cancel" /\ j \in todo[p]
    /\ todo' = [todo EXCEPT ![p] = @ \ {j}]
    /\ IF state[j] \in Terminal THEN UNCHANGED <<at, seen>>
       ELSE /\ at' = [at EXCEPT ![p] = "mark"]
            /\ seen' = [seen EXCEPT ![p] = {<<j, state[j]>>}]
    /\ UNCHANGED <<jobVars, docVars, on, mine, logVars, bounds>>

\* A PENDING job is CANCELLED and removed from the queue; a RESTORING one is
\* asked to stop.
CancelMark(p) ==
    /\ at[p] = "mark"
    /\ \E e \in seen[p] :
         /\ cancelReq' = cancelReq \cup {e[1]}
         /\ state' = IF e[2] = "PENDING" THEN [state EXCEPT ![e[1]] = "CANCELLED"]
                     ELSE state
    /\ at' = [at EXCEPT ![p] = "cancel"]
    /\ seen' = [seen EXCEPT ![p] = {}]
    /\ UNCHANGED <<running, guest, docVars, on, mine, todo, logVars, bounds>>

CancelSave(p, r) ==
    /\ at[p] = "cancel" /\ todo[p] = {}
    /\ LET d == [mine[p] EXCEPT !.status = "CANCELLED", !.pend = FALSE]
       IN Save(r, d) /\ Goes(p, "report", d)
    /\ UNCHANGED <<jobVars, logVars, bounds>>

\* With force a RUNNING run is cancelled first: the two requests in turn.
TeardownRead(p, r) ==
    /\ p \in Operators /\ at[p] = "idle"
    /\ doc[r].status \in Terminal /\ doc[r].torn # "completed"
    /\ teardowns < MaxTeardowns
    /\ teardowns' = teardowns + 1
    /\ at' = [at EXCEPT ![p] = "destroy"]
    /\ on' = [on EXCEPT ![p] = {r}]
    /\ mine' = [mine EXCEPT ![p] = doc[r]]
    /\ UNCHANGED <<jobVars, docVars, todo, seen, logVars, outages, cancels, crashes>>

Teardown(p, r) ==
    /\ at[p] = "destroy"
    /\ TearDown(p, r, {})
    /\ Ends(p)
    /\ UNCHANGED bounds

-----------------------------------------------------------------------------
(* The restore jobs, as RestoreQueue has them, and the guests of Proxmox.  *)

otherVars == <<docVars, procVars, logVars, bounds>>

JobStart(j) ==
    /\ state[j] = "PENDING" /\ j \notin running
    /\ state' = [state EXCEPT ![j] = "RESTORING"]
    /\ running' = running \cup {j}
    /\ UNCHANGED <<cancelReq, guest, otherVars>>

\* The restore is submitted: the guest exists, locked by its task.  A cancel
\* that came after the job has been started is not looked at before.
JobSubmit(j) ==
    /\ j \in running /\ guest[j] = "none"
    /\ guest' = [guest EXCEPT ![j] = "locked"]
    /\ UNCHANGED <<state, cancelReq, running, otherVars>>

\* The task of Proxmox ends, in success or, stopped or failed, in nothing.
\* It may end long after the job has given up on it.
TaskEnds(j, result) ==
    /\ guest[j] = "locked"
    /\ guest' = [guest EXCEPT ![j] = result]
    /\ UNCHANGED <<state, cancelReq, running, otherVars>>

JobEnds(j, s) ==
    /\ j \in running
    /\ s = "COMPLETED" => guest[j] = "there"
    /\ s = "CANCELLED" => j \in cancelReq
    /\ state' = [state EXCEPT ![j] = s]
    /\ running' = running \ {j}
    /\ UNCHANGED <<cancelReq, guest, otherVars>>

\* An operator stops one job.
StopJob(j) ==
    /\ Stops
    /\ state[j] \in {"PENDING", "RESTORING"} /\ j \notin cancelReq
    /\ cancelReq' = cancelReq \cup {j}
    /\ state' = IF state[j] = "PENDING" THEN [state EXCEPT ![j] = "CANCELLED"] ELSE state
    /\ UNCHANGED <<running, guest, otherVars>>

-----------------------------------------------------------------------------
\* A process is killed and started again; the only worker takes every job
\* thread with it, one of several some of them.
Crash(p) ==
    /\ crashes < MaxCrashes
    /\ at[p] # "idle"
    /\ crashes' = crashes + 1
    /\ at' = [at EXCEPT ![p] = "idle"]
    /\ on' = [on EXCEPT ![p] = {}]
    /\ mine' = [mine EXCEPT ![p] = NoDoc]
    /\ todo' = [todo EXCEPT ![p] = {}]
    /\ seen' = [seen EXCEPT ![p] = {}]
    /\ \E lost \in SUBSET running :
         /\ p \in Operators => lost = {}
         /\ Workers = {p} => lost = running
         /\ running' = running \ lost
    /\ UNCHANGED <<state, cancelReq, guest, docVars, logVars, outages, cancels, teardowns>>

\* The steps of process p on the run it works on.
WorksOn(p, r) ==
    \/ StartEnqueue(p, r) \/ StartSaveIds(p, r) \/ StartStash(p, r)
    \/ Drop(p, r) \/ NothingLeft(p, r) \/ EnqueueGroup(p, r) \/ RecordGroup(p, r)
    \/ JudgeGroup(p, r)
    \/ Report(p, r) \/ AutoTear(p, r) \/ AssureRead(p, r) \/ AssureSave(p, r)
    \/ Notify(p, r) \/ AlreadyNotified(p, r) \/ NotifySave(p, r)
    \/ CancelSave(p, r) \/ Teardown(p, r)

Proceeds(p) ==
    \/ \E r \in on[p] : WorksOn(p, r)
    \/ \E r \in Runs : TakeRun(p, r)
    \/ StillRunning(p) \/ NoTeardown(p) \/ CancelMark(p)
    \/ \E j \in Job : CancelLook(p, j)

JobWorks(j) ==
    \/ JobStart(j) \/ JobSubmit(j)
    \/ \E result \in {"there", "gone"} : TaskEnds(j, result)
    \/ \E s \in Terminal : JobEnds(j, s)

Next ==
    \/ \E p \in Procs :
         \/ Proceeds(p) \/ Tick(p)
         \/ StartRaises(p) \/ EnqueueRaises(p) \/ AutoTearRaises(p) \/ Crash(p)
         \/ \E r \in on[p] : AutoTearBlind(p, r)
         \/ \E r \in Runs : StartShell(p, r) \/ CancelRead(p, r) \/ TeardownRead(p, r)
    \/ \E j \in Job : JobWorks(j) \/ StopJob(j)

Spec == Init /\ [][Next]_vars

\* A process goes on with what it has begun, the worker's loop comes round,
\* and every job ends (process_job gives up on a task after its timeout).
Fairness ==
    /\ \A p \in Procs : WF_vars(Proceeds(p))
    /\ \A p \in Workers : WF_vars(Tick(p))
    /\ \A j \in Job : WF_vars(JobStart(j)) /\ WF_vars(\E s \in Terminal : JobEnds(j, s))

LiveSpec == Spec /\ Fairness
-----------------------------------------------------------------------------
(* What the plan runs promise.                                             *)

Started(r, g) == \E a \in 1 .. Attempts : \E j \in JobsOf(r, g, a) : state[j] # "NONE"
GroupJobs(r, g) == {j \in Created(r) : j[2] = g}
Settled(r, g) == Started(r, g) /\ \A j \in GroupJobs(r, g) : state[j] \in Terminal

\* What the document records is in that order even after a kill: a group with
\* recorded jobs follows groups whose recorded jobs have all ended.
RecordedInOrder ==
    \A r \in Runs : \A g, h \in NonEmpty :
        g < h /\ doc[r].ids[h] # {} =>
            doc[r].ids[g] # {} /\ \A j \in doc[r].ids[g] : state[j] \in Terminal

\* A COMPLETED run has restored every group: the jobs of each exist, are on
\* the document and have ended, and none FAILED if the plan halts on errors.
CompletedIsWhole ==
    \A r \in Runs : doc[r].status = "COMPLETED" =>
        /\ \A g \in NonEmpty : Settled(r, g) /\ GroupJobs(r, g) \subseteq doc[r].ids[g]
        /\ Halt => \A j \in Created(r) : state[j] # "FAILED"

\* No group is restored twice, and a run is reported and notified once.
OnceOnly ==
    \A r \in Runs :
        /\ \A g \in Group : Cardinality(GroupJobs(r, g)) <= Rows[g]
        /\ reports[r] <= 1 /\ notices[r] <= 1

\* A run torn down completely has left no guest in Proxmox.
TornDownIsEmpty ==
    \A r \in Runs : doc[r].torn = "completed" =>
        \A j \in Created(r) : guest[j] # "there"

\* Without requests or kills, the documents, copies and jobs keep what PlanOrder promises.
Order == INSTANCE PlanOrder WITH
    Filled <- NonEmpty,
    phase <- [r \in Runs |-> doc[r].status],
    opened <- [r \in Runs |-> {g \in NonEmpty : Started(r, g)}],
    done <- [r \in Runs |-> {g \in NonEmpty : Settled(r, g)}],
    bad <- [r \in Runs |-> {g \in NonEmpty :
                Settled(r, g) /\ \E j \in GroupJobs(r, g) : state[j] = "FAILED"}]
\* Groups are enqueued in order, each when the jobs of those before it have
\* all ended and, if the plan halts on errors, none has failed; the outcome
\* fits, and is final.
OrderImplemented == Order!Spec

\* With requests beside the tick, only a process whose copy of the document
\* is out of date can change an outcome, or enqueue jobs after it.
Stale(p, r) == on[p] = {r} /\ mine[p].status # doc[r].status
OnlyStaleCopiesRevive ==
    [][\A r \in Runs :
         doc[r].status \in Terminal /\ (\A p \in Procs : ~Stale(p, r))
         => doc'[r].status = doc[r].status /\ Created(r)' = Created(r)]_vars

\* Every job on the document of a CANCELLED run has ended or is asked to.
CancelReaches ==
    \A r \in Runs : doc[r].status = "CANCELLED" =>
        \A j \in Recorded(doc[r]) : state[j] \in Terminal \/ j \in cancelReq

\* A cancelled run is not advanced: no job is created for it any more.
CancelStops ==
    [][\A r \in Runs : doc[r].status = "CANCELLED" => Created(r)' = Created(r)]_vars

\* A drill becomes ASSURED only when every job it created is COMPLETED or was
\* stopped by itself (with halt_on_error) and, unless its teardown raised, none
\* of its guests is left.
AssuredIsProven ==
    [][\A r \in Runs : doc[r].verdict # "ASSURED" /\ doc'[r].verdict = "ASSURED" =>
         /\ Halt => \A j \in Created(r) : state[j] \in {"COMPLETED", "CANCELLED"}
         /\ doc'[r].torn # "" => \A j \in Created(r) : guest[j] # "there"]_vars

\* Every run the schedule starts ends, is reported and notified.
RunsFinish ==
    \A r \in Scheduled :
        doc[r].status = "RUNNING" ~>
            doc[r].status \in Terminal /\ doc[r].report /\ doc[r].notified
=============================================================================
