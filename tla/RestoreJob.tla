------------------------------ MODULE RestoreJob ------------------------------
(***************************************************************************)
(* One restore job: its Redis hash, the thread of the worker that runs     *)
(* worker.process_job on it, and what Proxmox VE does for it (the task the *)
(* thread waits for, the guest being restored).                            *)
(*                                                                         *)
(* A step is one Redis command or one PVE call, because between two of     *)
(* them any other process may run.  Each job restores into a VMID of its   *)
(* own.  The module has no next-state relation: RestoreQueue composes its  *)
(* actions with the queue, the slots and the API.                          *)
(***************************************************************************)
EXTENDS Naturals

CONSTANTS
    Jobs,        \* job ids
    Requests,    \* what the callers of enqueue_restores ask for
    TaskTimeout  \* whether worker.task_timeout_sec is positive (0: wait forever)

JobRequest ==
    [powerOn: BOOLEAN, live: BOOLEAN, qga: BOOLEAN, isolate: BOOLEAN, http: BOOLEAN]

ASSUME JobAssumption ==
    /\ Requests # {}
    /\ Requests \subseteq JobRequest
    /\ TaskTimeout \in BOOLEAN

VARIABLES
    state,            \* hash field state; "NONE" while the hash does not exist
    cancelRequested,  \* hash field cancel_requested
    options,          \* hash fields power_on, live_restore, qga_wait_sec > 0,
                      \* network_mode in {unlink, remap}, http_check_url # ""
    managedMarked,    \* hash fields of the same (Python) names
    qgaOk,
    httpCheckOk,
    pc,               \* where the job's thread is in run_job/process_job
    taskKind,         \* the last PVE task submitted for the job
    taskStatus,
    booted,           \* the restored guest has been powered on
    isolated,         \* its network devices are unlinked or remapped
    managed           \* it carries the ownership tag

result == <<managedMarked, qgaOk, httpCheckOk>>
task == <<taskKind, taskStatus>>
guest == <<booted, isolated, managed>>
jobVars == <<state, cancelRequested, options, result, pc, task, guest>>

RestoreState == {"PENDING", "RESTORING", "COMPLETED", "FAILED", "CANCELLED"}
Terminal == {"COMPLETED", "FAILED", "CANCELLED"}
Flag == {"", "0", "1"}

\* Labels at which the thread is alive and holds a concurrency slot.
Running ==
    {"check", "markCancelled", "begin", "submit", "wait", "poll", "stamp",
     "network", "power", "agent", "ping", "http", "complete", "fail", "release"}
\* "none": not popped yet; "clamp": between DECR and SET 0 of release_slot;
\* "done": the thread has ended; "dead": its process was killed.
Label == Running \cup {"none", "clamp", "done", "dead"}

JobTypeOK ==
    /\ state \in [Jobs -> RestoreState \cup {"NONE"}]
    /\ cancelRequested \in [Jobs -> BOOLEAN]
    /\ options \in [Jobs -> JobRequest]
    /\ managedMarked \in [Jobs -> Flag]
    /\ qgaOk \in [Jobs -> Flag]
    /\ httpCheckOk \in [Jobs -> Flag]
    /\ pc \in [Jobs -> Label]
    /\ taskKind \in [Jobs -> {"none", "restore", "start"}]
    /\ taskStatus \in [Jobs -> {"none", "running", "ok", "failed"}]
    /\ booted \in [Jobs -> BOOLEAN]
    /\ isolated \in [Jobs -> BOOLEAN]
    /\ managed \in [Jobs -> BOOLEAN]

JobInit ==
    /\ state = [j \in Jobs |-> "NONE"]
    /\ cancelRequested = [j \in Jobs |-> FALSE]
    /\ options = [j \in Jobs |-> [powerOn |-> FALSE, live |-> FALSE, qga |-> FALSE,
                                   isolate |-> FALSE, http |-> FALSE]]
    /\ managedMarked = [j \in Jobs |-> ""]
    /\ qgaOk = [j \in Jobs |-> ""]
    /\ httpCheckOk = [j \in Jobs |-> ""]
    /\ pc = [j \in Jobs |-> "none"]
    /\ taskKind = [j \in Jobs |-> "none"]
    /\ taskStatus = [j \in Jobs |-> "none"]
    /\ booted = [j \in Jobs |-> FALSE]
    /\ isolated = [j \in Jobs |-> FALSE]
    /\ managed = [j \in Jobs |-> FALSE]

-----------------------------------------------------------------------------
\* enqueue_restores: a live restore and a QGA wait both imply power-on.
Normalised(req) == [req EXCEPT !.powerOn = req.powerOn \/ req.live \/ req.qga]

\* process_job computes the same thing again from the hash.
PowersOn(j) == options[j].powerOn \/ options[j].live \/ options[j].qga

CreateJob(j) ==
    /\ state[j] = "NONE"
    /\ state' = [state EXCEPT ![j] = "PENDING"]
    /\ \E req \in Requests : options' = [options EXCEPT ![j] = Normalised(req)]
    /\ UNCHANGED <<cancelRequested, result, pc, task, guest>>

-----------------------------------------------------------------------------
(* worker.process_job, one label per Redis command or PVE call.            *)

Goto(j, label) == pc' = [pc EXCEPT ![j] = label]

\* Mutant of CheckCancel: the request to cancel is not looked at.
CheckNothing(j) ==
    /\ pc[j] = "check"
    /\ Goto(j, "begin")
    /\ UNCHANGED <<state, cancelRequested, options, result, task, guest>>

\* The state field read by hgetall is not looked at, only cancel_requested.
CheckCancel(j) ==
    /\ pc[j] = "check"
    /\ Goto(j, IF cancelRequested[j] THEN "markCancelled" ELSE "begin")
    /\ UNCHANGED <<state, cancelRequested, options, result, task, guest>>

MarkCancelled(j) ==
    /\ pc[j] = "markCancelled"
    /\ state' = [state EXCEPT ![j] = "CANCELLED"]
    /\ Goto(j, "release")
    /\ UNCHANGED <<cancelRequested, options, result, task, guest>>

Begin(j) ==
    /\ pc[j] = "begin"
    /\ state' = [state EXCEPT ![j] = "RESTORING"]
    /\ Goto(j, "submit")
    /\ UNCHANGED <<cancelRequested, options, result, task, guest>>

StartTask(j, kind) ==
    /\ taskKind' = [taskKind EXCEPT ![j] = kind]
    /\ taskStatus' = [taskStatus EXCEPT ![j] = "running"]

\* connect_proxmox and submit_restore.  A call that raises may have been
\* carried out all the same (the answer was lost).
Submit(j) ==
    /\ pc[j] = "submit"
    /\ \/ StartTask(j, "restore") /\ Goto(j, "wait")
       \/ StartTask(j, "restore") /\ Goto(j, "fail")
       \/ UNCHANGED task /\ Goto(j, "fail")
    /\ UNCHANGED <<state, cancelRequested, options, result, guest>>

\* Mutant of WaitForTask: called without should_cancel.
WaitUncancellable(j) ==
    /\ pc[j] = "wait"
    /\ Goto(j, "poll") \/ (TaskTimeout /\ Goto(j, "fail"))
    /\ UNCHANGED <<state, cancelRequested, options, result, task, guest>>

\* Top of the loop of wait_for_task: the deadline, then should_cancel().  A
\* cancelled wait deletes the task, best effort.
WaitForTask(j) ==
    /\ pc[j] = "wait"
    /\ \/ /\ TaskTimeout
          /\ Goto(j, "fail")
          /\ UNCHANGED taskStatus
       \/ /\ cancelRequested[j]
          /\ \/ taskStatus' = [taskStatus EXCEPT ![j] = "failed"]
             \/ UNCHANGED taskStatus
          /\ Goto(j, "markCancelled")
       \/ /\ ~cancelRequested[j]
          /\ Goto(j, "poll")
          /\ UNCHANGED taskStatus
    /\ UNCHANGED <<state, cancelRequested, options, result, taskKind, guest>>

\* Rest of the loop: read the status of the task.  An error of the call fails
\* the job; so does a task that did not end with "OK".
PollTask(j) ==
    /\ pc[j] = "poll"
    /\ \/ /\ taskStatus[j] = "running"
          /\ Goto(j, "wait")
       \/ /\ taskStatus[j] = "ok"
          /\ Goto(j, IF taskKind[j] = "restore" THEN "stamp" ELSE "agent")
       \/ Goto(j, "fail")
    /\ UNCHANGED <<state, cancelRequested, options, result, task, guest>>

\* Mutant of Stamp: the network is isolated after the power-on only.
StampThenPower(j) ==
    /\ pc[j] = "stamp"
    /\ managed' = [managed EXCEPT ![j] = TRUE]
    /\ managedMarked' = [managedMarked EXCEPT ![j] = "1"]
    /\ Goto(j, "power")
    /\ UNCHANGED <<state, cancelRequested, options, qgaOk, httpCheckOk, task,
                   booted, isolated>>

\* Up to three attempts to tag the guest; only their outcome is modelled.  An
\* attempt that raised may have been applied by PVE.
Stamp(j) ==
    /\ pc[j] = "stamp"
    /\ \/ /\ managed' = [managed EXCEPT ![j] = TRUE]
          /\ managedMarked' = [managedMarked EXCEPT ![j] = "1"]
          /\ Goto(j, "network")
       \/ /\ managed' = [managed EXCEPT ![j] = TRUE] \/ UNCHANGED managed
          /\ managedMarked' = [managedMarked EXCEPT ![j] = "0"]
          /\ Goto(j, "fail")
    /\ UNCHANGED <<state, cancelRequested, options, qgaOk, httpCheckOk, task,
                   booted, isolated>>

\* apply_network_isolation rewrites the network devices of the guest.
IsolateNetwork(j) ==
    /\ pc[j] = "network"
    /\ \/ /\ ~options[j].isolate
          /\ Goto(j, "power")
          /\ UNCHANGED isolated
       \/ /\ options[j].isolate
          /\ isolated' = [isolated EXCEPT ![j] = TRUE]
          /\ Goto(j, "power") \/ Goto(j, "fail")
       \/ /\ options[j].isolate
          /\ Goto(j, "fail")
          /\ UNCHANGED isolated
    /\ UNCHANGED <<state, cancelRequested, options, result, task, booted, managed>>

\* Power policy: stop the guest (best effort), leave a live-restored guest
\* running, or submit the start task.  start_qemu_vm may return no task id.
Power(j) ==
    /\ pc[j] = "power"
    /\ \/ /\ ~PowersOn(j)
          /\ booted' = [booted EXCEPT ![j] = FALSE] \/ UNCHANGED booted
          /\ Goto(j, "complete")
          /\ UNCHANGED task
       \/ /\ options[j].live
          /\ Goto(j, "agent")
          /\ UNCHANGED <<task, booted>>
       \/ /\ PowersOn(j) /\ ~options[j].live
          /\ \/ /\ StartTask(j, "start")
                /\ Goto(j, "wait") \/ Goto(j, "fail")
                /\ UNCHANGED booted
             \/ /\ booted' = [booted EXCEPT ![j] = TRUE]
                /\ Goto(j, "agent")
                /\ UNCHANGED task
             \/ /\ Goto(j, "fail")
                /\ UNCHANGED <<task, booted>>
    /\ UNCHANGED <<state, cancelRequested, options, result, isolated, managed>>

\* Top of the loop of wait_for_qemu_agent; skipped without a QGA wait.
AwaitAgent(j) ==
    /\ pc[j] = "agent"
    /\ Goto(j, IF ~options[j].qga THEN "http"
               ELSE IF cancelRequested[j] THEN "markCancelled" ELSE "ping")
    /\ UNCHANGED <<state, cancelRequested, options, result, task, guest>>

\* The agent does not answer yet and the deadline is not reached.
AgentSilent(j) ==
    /\ pc[j] = "ping"
    /\ Goto(j, "agent")
    /\ UNCHANGED <<state, cancelRequested, options, result, task, guest>>

\* Mutant of AgentWaitEnds: a silent agent is recorded and the job goes on.
AgentTimeoutIgnored(j) ==
    /\ pc[j] = "ping"
    /\ \E ok \in {"0", "1"} : qgaOk' = [qgaOk EXCEPT ![j] = ok]
    /\ Goto(j, "http")
    /\ UNCHANGED <<state, cancelRequested, options, managedMarked, httpCheckOk, task,
                   guest>>

\* The agent answers, or the deadline has passed.
AgentWaitEnds(j) ==
    /\ pc[j] = "ping"
    /\ \/ /\ qgaOk' = [qgaOk EXCEPT ![j] = "1"]
          /\ Goto(j, "http")
       \/ /\ qgaOk' = [qgaOk EXCEPT ![j] = "0"]
          /\ Goto(j, "fail")
    /\ UNCHANGED <<state, cancelRequested, options, managedMarked, httpCheckOk, task,
                   guest>>

HttpCheck(j) ==
    /\ pc[j] = "http"
    /\ \/ /\ ~options[j].http
          /\ Goto(j, "complete")
          /\ UNCHANGED httpCheckOk
       \/ /\ options[j].http
          /\ httpCheckOk' = [httpCheckOk EXCEPT ![j] = "1"]
          /\ Goto(j, "complete")
       \/ /\ options[j].http
          /\ httpCheckOk' = [httpCheckOk EXCEPT ![j] = "0"]
          /\ Goto(j, "fail")
    /\ UNCHANGED <<state, cancelRequested, options, managedMarked, qgaOk, task, guest>>

Complete(j) ==
    /\ pc[j] = "complete"
    /\ state' = [state EXCEPT ![j] = "COMPLETED"]
    /\ Goto(j, "release")
    /\ UNCHANGED <<cancelRequested, options, result, task, guest>>

\* Mutant of Fail: the name of the log stage is written instead of the state.
FailAsError(j) ==
    /\ pc[j] = "fail"
    /\ state' = [state EXCEPT ![j] = "ERROR"]
    /\ Goto(j, "release")
    /\ UNCHANGED <<cancelRequested, options, result, task, guest>>

\* run_job: any exception of process_job ends here.
Fail(j) ==
    /\ pc[j] = "fail"
    /\ state' = [state EXCEPT ![j] = "FAILED"]
    /\ Goto(j, "release")
    /\ UNCHANGED <<cancelRequested, options, result, task, guest>>

ProcessJob(j) ==
    \/ CheckCancel(j) \/ MarkCancelled(j) \/ Begin(j) \/ Submit(j)
    \/ WaitForTask(j) \/ PollTask(j) \/ Stamp(j) \/ IsolateNetwork(j)
    \/ Power(j) \/ AwaitAgent(j) \/ AgentSilent(j) \/ AgentWaitEnds(j)
    \/ HttpCheck(j) \/ Complete(j) \/ Fail(j)

-----------------------------------------------------------------------------
(* Proxmox VE, as the code above uses it.                                  *)

\* A live restore starts the guest while its disks are still being copied.
PveBootsLiveGuest(j) ==
    /\ taskKind[j] = "restore" /\ taskStatus[j] = "running"
    /\ options[j].live
    /\ ~booted[j]
    /\ booted' = [booted EXCEPT ![j] = TRUE]
    /\ UNCHANGED <<state, cancelRequested, options, result, pc, task, isolated, managed>>

PveTaskEnds(j) ==
    /\ taskStatus[j] = "running"
    /\ \/ /\ taskStatus' = [taskStatus EXCEPT ![j] = "ok"]
          /\ booted' = [booted EXCEPT ![j] =
                            booted[j] \/ taskKind[j] = "start" \/ options[j].live]
       \/ /\ taskStatus' = [taskStatus EXCEPT ![j] = "failed"]
          /\ UNCHANGED booted
    /\ UNCHANGED <<state, cancelRequested, options, result, pc, taskKind, isolated,
                   managed>>

Pve(j) == PveBootsLiveGuest(j) \/ PveTaskEnds(j)

-----------------------------------------------------------------------------
\* COMPLETED is a proof of recovery: when the hash says COMPLETED, the guest
\* was tagged as owned by the tool, its network was isolated if that was asked
\* for, and every check the request asked of a powered-on guest was recorded
\* as passed.  (process_job raises before set_state(COMPLETED) otherwise.)
CompletedIsProven ==
    \A j \in Jobs : state[j] = "COMPLETED" =>
        /\ managed[j] /\ managedMarked[j] = "1"
        /\ options[j].isolate => isolated[j]
        /\ options[j].qga => qgaOk[j] = "1"
        /\ PowersOn(j) /\ options[j].http => httpCheckOk[j] = "1"
        /\ PowersOn(j) => booted[j]

\* A guest whose network was to be unlinked or remapped never runs with its
\* original network (README: "unlink NICs or remap to a lab bridge before
\* power-on").  Live restores are the exception: Proxmox boots the guest while
\* the task runs, and process_job isolates it afterwards.
BootedOnlyIsolated ==
    \A j \in Jobs : options[j].isolate /\ ~options[j].live /\ booted[j] => isolated[j]

-----------------------------------------------------------------------------
(* Why the two invariants hold: what is known at each label.               *)
Ended == {"release", "clamp", "done", "dead"}
BeforeSubmit == {"none", "check", "begin", "submit"}
AfterStamp == {"network", "power", "agent", "ping", "http", "complete"}
WaitsForStart(j) == pc[j] \in {"wait", "poll"} /\ taskKind[j] = "start"

\* The state field against the label of the thread.
StateInv ==
    \A j \in Jobs :
        /\ state[j] = "NONE" => pc[j] = "none"
        /\ state[j] = "PENDING" => pc[j] \in {"none", "check", "begin", "markCancelled", "dead"}
        /\ state[j] = "COMPLETED" => pc[j] \in Ended

\* The PVE task and the guest against the label.
TaskInv ==
    \A j \in Jobs :
        /\ pc[j] \in BeforeSubmit => taskKind[j] = "none" /\ taskStatus[j] = "none" /\ ~booted[j]
        /\ pc[j] \in {"wait", "poll"} => taskKind[j] # "none"
        /\ pc[j] \in {"stamp", "network", "power"} => taskKind[j] = "restore" /\ taskStatus[j] = "ok"
        /\ taskStatus[j] = "ok" /\ taskKind[j] = "start" => booted[j]
        /\ taskStatus[j] = "ok" /\ options[j].live => booted[j]
        /\ taskKind[j] = "start" => PowersOn(j)

\* The checks passed so far against the label.
ChecksInv ==
    \A j \in Jobs :
        /\ pc[j] \in AfterStamp \/ WaitsForStart(j) => managed[j] /\ managedMarked[j] = "1"
        /\ pc[j] \in AfterStamp \ {"network"} /\ options[j].isolate => isolated[j]
        /\ taskKind[j] = "start" /\ options[j].isolate => isolated[j]
        /\ pc[j] \in {"agent", "ping", "http"} => PowersOn(j) /\ booted[j]
        /\ pc[j] = "complete" /\ PowersOn(j) => booted[j]
        /\ pc[j] \in {"http", "complete"} /\ options[j].qga => qgaOk[j] = "1"
        /\ pc[j] = "complete" /\ PowersOn(j) /\ options[j].http => httpCheckOk[j] = "1"

PipelineInv == StateInv /\ TaskInv /\ ChecksInv /\ CompletedIsProven
=============================================================================
