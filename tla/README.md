# A verification project for restore-engine

restore-engine restores Proxmox VE guests from Proxmox Backup Server snapshots:
an API (FastAPI, `main.py`) puts restore jobs on a Redis list, one or more
worker processes (`worker.py`) pop them and drive Proxmox VE, and recovery
plans (`plans.py`) turn groups of guests into ordered batches of jobs whose
outcome proves, or fails to prove, that the site can be recovered. This
directory models that program in TLA+, checks it with TLC and proves its
central theorems with TLAPS. File and line references are to the repository.

## Inventory

| Part | State | Operations | What makes it correct |
|---|---|---|---|
| Restore job (`worker.process_job`, `pve_client`) | the job hash in Redis, the thread, the PVE task, the guest | cancel check, RESTORING, submit, wait, ownership stamp, network isolation, power policy, guest agent, HTTP check, COMPLETED / FAILED / CANCELLED | COMPLETED is written only for a guest that passed every check asked for; a stop marked in time keeps a job from completing; isolation precedes power-on |
| Queue and slots (`jobs`, `queue_control`, `concurrency`, `worker_loop`, `main.stop_job`) | Redis list, pause flag, slot counter, configured limit | enqueue, claim, release, reconcile, stop, pause, resume, drain, kill and restart | FIFO, at most once, never more than the limit; every job ends; a drain leaves nothing pending |
| Plan runs (`plans.start_plan_run`, `advance_plan_runs`, `cancel_plan_run`, `aggregate_plan_run`) | run document, active-run set, run report | start, advance per group, cancel, finalise, auto-teardown | groups in order, each enqueued once, a run ends exactly once and its status tells what its jobs did |
| Assurance (`evaluate_assurance_policy`, `apply_assurance_from_run`) | fields of the plan document | evaluate a finished drill | ASSURED only after a drill that satisfied the plan's policy |
| Gates and options of a run (`api_run_plan`, `api_assure_plan`, `_start_scheduled`, `start_plan_run`) | none | accept or refuse a request, make the options of its jobs | what the gate lets through is what the run does |
| Plan records and readiness (`_save_entity`, `update_plan`, `run_plan_readiness`, the two ticks) | one JSON document per plan | edit, check, schedule, delete | a verification belongs to the inventory that was checked; only an old copy undoes a save; a plan found ready can be run |
| Guest ownership (`enqueue_restores`, `destroy_owned_qemu_vm`, `teardown_plan_run`) | guests of the cluster, their tags, VMIDs | allocate VMIDs, overwrite (DR), stamp, tear down | a guest the batch found in the cluster is kept, unless it is the tool's and its replacement was asked for |
| Groups (`resolve_group_rows`, `_latest_per_vmid`) | none | the backups a group stands for | every guest meant, one backup each |
| Placement (`assign_nodes_least_loaded`, `allocate_sequential_free_vmids`, `normalize_location`) | none | pure functions | level; the lowest free ones; a storage for every job |
| Reports and audit (`reports`, `audit`, `job_hygiene`) | Redis lists, retention | save, trim, purge | what is listed can be read |
| Progress parsing, PBS wire sampling, size and metric estimates, notifications, UI, login | display data | | not modelled: formatting, arithmetic for display, I/O |

The parts interact through Redis only. The API and each worker are processes of
their own; the worker's main thread advances plans and claims jobs, each job has
a thread. Nothing is locked: every read-modify-write of a hash, a JSON document
or the counter can be interleaved with any other process.

What is hard here is exactly that: stale copies written back whole, a check
and the write it guards in two commands, a kill between two of them (threads
are daemons, nothing recovers a half-done procedure), Proxmox answering late,
wrongly or not at all, and a scheduler that polls. `PROJECT.json` lists each such
place with its line under `hazards`.

## The modules

| Module | What it models |
|---|---|
| `RestoreJob` | one job: `process_job` and `run_job` as a thread with a program counter, its Redis hash, its PVE task and its guest |
| `RestoreQueue` | the queue around the jobs: list, pause flag, slot counter, `worker_loop`, stop, drain, kills; EXTENDS `RestoreJob` |
| `RestorePool` | abstract: a FIFO of jobs, slots held, never more than the limit claimed; implemented by `RestoreQueue` (`PoolImplemented`) |
| `PlanRuns` | plan runs: the run document, the copies of it that processes hold, the tick, start, cancel, teardown, finalisation |
| `PlanOrder` | abstract: groups opened in order, none after a group that failed, final outcomes; implemented by `PlanRuns` (`OrderImplemented`) |
| `PlanRecord` | the document of a plan under the processes that read it, work and write it back whole |
| `GuestOwnership` | batches of restores, administrators and teardowns on the guests of one cluster; EXTENDS `Placement` |
| `Placement` | VMIDs, nodes and storages of a batch, as functions |
| `Readiness` | the errors of a readiness check, and what the run of the plan asks for afterwards; EXTENDS `Placement` |
| `GroupResolution` | the backups a group stands for |
| `RunOptions` | the gates of the API, the options of a run, the verdict on an assurance drill |
| `Decisions` | one decision on one input, for every function of the four modules above |
| `MCRestoreQueue`, `MCPlanRuns`, `MCPlanRecord`, `MCGuestOwnership`, `MCDecisions` | values of the constants for TLC |
| `RestorePipelineProofs`, `RestoreStopProofs`, `RestoreSlotsProofs` | theorems on the queue, each module extending the one before |
| `PlanRunsProofs`, `PlanOrderProofs` | theorems on plan runs: under any interference, and on a worker that is not disturbed |
| `RecordProofs`, `GuestProofs`, `DecisionsProofs` | theorems on the record of a plan, on the guests and on the decisions |

### RestoreJob and RestoreQueue

`state`, `cancelRequested` and the fields of a job hash are functions of the job;
`pc` is the place of its thread in `process_job`, one label per Redis command or
PVE call whose order against others matters. `queue`, `paused` and `slots` are the
Redis keys; `limit` the setting the worker re-reads; `wpc`, `cap` and `counted` the
locals of `worker_loop` and `reconcile_slots`; `stopPc`, `drainPc`, `held` and `unseen`
those of `stop_job` and `drain_pending_jobs`. `claimed` and `stopped` are history
variables. A request of the API is a sequence of actions, so that everything else
may happen in between: `StopRead`, `StopMark`, `StopReread`, `StopCancel` are the four
commands of `stop_job`.

A job's progress, sizes, logs and error texts are left out; so is what Proxmox does
besides creating, starting and locking a guest. A time limit is a step that may be
taken at any moment of the wait (`TaskTimeout`).

### PlanRuns

`doc[r]` is the JSON document of run r with the fields the code branches on, `active`
the set of active runs. `at`, `on` and `mine` are the place of a process, the run it
works on and **its copy** of the document; `Save` writes that copy back as
`save_plan_run` does, with no regard to what has been written since. `todo` is the
rest of a loop: the ids of a tick, the job ids of a cancel. The jobs are those of
`RestoreQueue` reduced to what a plan sees of them: `state`, `cancelReq`, `running`
(a thread), `guest` (absent, locked by its task, there, gone). A process is either
a worker (its tick, and the runs its schedule starts) or a thread of the API.

Several reads are merged into the write they lead to, where no other step can tell:
the states of a group are read one after the other, but only ended jobs are acted
on; a guest's listing, provenance and removal are one step of a teardown. Not merged
are the writes of `start_plan_run` (four), the enqueue of a group and its save, the
read and the mark of a cancel, and the re-reads of the finalisation. `enqueue_restores`
is one step here (its commands are in `RestoreQueue`) that either creates the jobs of
all rows or raises. A drill, its automatic teardown and an enabled assurance policy
are one constant, `AutoTeardown`; the pause flag is that the tick need not happen.

### PlanRecord

`stored` is the JSON document of one plan with the fields several writers touch, `mine`
the copy a process works on, `at` where it is. Every writer of the code is there: the
edit, the check (two saves), the start of a run, the schedule (which saves the copy it
had before `start_plan_run` saved its own), the report of a run and its assurance.
`Save` is `_save_entity`: the whole document, whatever is stored by now. `stale` is a
history variable, the processes whose copy others have written over since; the
properties say that what is lost is lost to these and to nothing else.

`enabled` and `schedule_enabled` are one field `mode`, `group_ids` and `location_id` one
field `members`; `last_run_at` is shown and decides nothing, and is left out. A run
has one finaliser here; that a run may have two is in `PlanRuns`. The worker is modelled
while the queue is not paused.

### GuestOwnership

`guest[v]` is what Proxmox has at a VMID, with the mark of the tool and the lock of a
task. A batch is one call of `enqueue_restores`: it lists the cluster once, chooses its
VMIDs (`VmidsFor`), destroys what a DR overwrite reclaims, one guest after the other, and
enqueues; every job then submits, waits and marks at its own pace, and the teardown
looks and destroys by VMID. Everything goes by VMID and nothing reserves one, so each
of these steps may find another guest than the one before. `after` is history: the
batches that had listed the cluster before the guest came.

### The decisions

`Placement`, `GroupResolution`, `Readiness` and `RunOptions` are functions without state.
`Decisions` applies them to every input its constants allow, each behaviour to one
input, so that TLC counts, covers and refutes them like anything else. Its properties
never compare a function with itself: they relate decisions taken in different files
from the same facts. The gate of `api_run_plan` decides from the request whether a run
boots guests, and `start_plan_run` decides it again; the check of a plan looks at all
groups at once, and its run allocates group after group; tags are read of some backups,
and asked for of others; a drill is started with some options, and judged by a policy.

## What the runs show

Runs that pass:

| Run | Instance | Shows |
|---|---|---|
| `pipeline` | 2 workers, 1 job of every shape, a timeout, a stop, a kill of any process | COMPLETED only after every check that was asked for; an offline restore is isolated before its guest runs; a stop marked in time prevents the restore, or its completion |
| `slots` | 1 worker, 2 jobs, 2 limits, a stop, a change, a kill | the counter covers the holders, the limit and a pause are kept, COMPLETED is final, `RestorePool` is implemented |
| `finish` | a job that powers on and waits for its agent, 2 stops, a change, a drain, fairness, no kill | every job ends unless the queue stays paused; every stop ends in a terminal state; a drain leaves nothing it found PENDING |
| `plan_ordered` | 3 groups of 2, 0 and 1 backups, single stops, 2 teardown requests, 2 failures of Proxmox | honest COMPLETED and ASSURED, nothing done twice, complete teardowns, and `PlanOrder`: groups in order, halt on error, final outcomes |
| `plan_finish` | 2 runs, fairness, one failure of any kind | every scheduled run ends, is reported and notified |
| `plan_requests` | API start and a cancel beside the tick, a kill of any process | a cancel reaches every recorded job; recorded groups stay in order; only a stale copy revives a run |
| `plan_record` | the worker, 2 requests of an operator, 2 runs, a day, a mishap, fairness | VERIFIED means a passed check of the membership the plan has; an up-to-date copy undoes nothing; scheduled runs keep their interval; no check stays due |
| `guests` | 2 batches of every mode, 2 VMIDs, an administrator, one mishap | what a batch found in the cluster is kept; a plain DR restore replaces nothing; COMPLETED guests are marked; a complete teardown leaves nothing of the batch |
| `algorithms` | every decision on all small inputs | the lowest free VMIDs, level nodes, whole groups; a ready plan's run goes through; the gates see every run that boots; an assurance drill can pass |

Runs that end in a counterexample, each a finding in `PROJECT.json` with the text it
contradicts:

- `drained_restored`: a drain writes CANCELLED over a job that has been popped, and it is restored.
- `plan_cancel_revived`: the tick writes its older copy over a cancel; the run goes on.
- `drill_boots`: a drill with `powered_off` false at a location of live restores passes
  the isolation gate as a drill, and boots its guests beside production.

### Limits of the properties

Where a property that passes excepts a case, or its instance leaves one out, the case
really fails in the code. These were met while modelling; each is reachable in the
modules by the constants named.

- A live restore boots while its task runs, before its devices are unlinked
  (`BootedOnlyIsolated` excepts it).
- Jobs left RESTORING by a kill are counted as held slots: with as many as the limit, no
  job is popped any more (`JobsFinish` with `MaxCrashes` = 1).
- A worker that ticks between the shell of an API start and the first save of its job
  ids ends that run COMPLETED (`CompletedIsWhole` with an operator and `Scheduled` = {}).
- A kill between the enqueue of a group and its save: the group is restored twice, and
  the next one waits for the second set only (`OrderImplemented`, `OnceOnly` with
  `MaxCrashes` = 1). A kill after the outcome was saved: the drill is never reported,
  torn down or notified (`RunsFinish`).
- A drill is ASSURED whose automatic teardown raised, whose restores failed with
  `halt_on_error` off, or one of whose jobs an operator stopped (`AssuredIsProven`).
- A failed listing of the cluster counts as an empty one, so a teardown is complete that
  destroyed nothing (`TornDownIsEmpty` with "listing" in `Failing`).
- A teardown after a cancel, before the restore is submitted, counts as complete; the
  guest appears afterwards (`TornDownIsEmpty` with `MaxCancels` = `MaxTeardowns` = 1).
- Two workers: the start-up reconciliation of one hides the slots of the other, and
  both run jobs at a limit of one (`ClaimWithinLimit` with two `Workers`).
- The first enqueue of a run raises: the shell left behind, with no job in it, is taken
  for a finished run and saved COMPLETED (`CompletedIsWhole` with "start" in `Failing`).
- Two batches that list the cluster at the same time are given the same VMIDs, and the
  later forced restore replaces the guest of the earlier one; the teardown of one then
  destroys the guest of the other (`FoundIsKept` without its first disjunct).
- A batch whose listing fails takes every VMID for free (`blind` in `FoundIsKept`).
- A plan that requires HTTP is never ASSURED: `aggregate_plan_run` drops the answer
  (`AssuranceIsAttainable` excepts it).
- The scheduled drill of a plan that requires the guest agent waits for none, and its
  assurance fails every time (the property is about drills the API starts).
- A scheduled recovery run passes no gate, and boots at a location that powers on
  (`BootsAreGated` is about the schedule's drills only).
- A group that names sources and tags misses guests whose newest backup is in another
  source (`TagsReachMembers` excepts it).
- An edit of a group or a location leaves the plans that name it VERIFIED. They hold
  ids, so no step of `PlanRecord` sees it.
- An edit saved during a check or a start is lost, and a deleted plan comes back: the
  `stale` copies of `OnlyStaleCopiesUndo`.

### Bounds

Job identities do not matter to the code, so one job shows what a thread can do and
two show what jobs do to each other through the queue and the slots; two limits show
a limit lowered under running jobs. One stop, one pause or limit change, one drain and
one kill can each happen at every step; two stops show a second request after the
first. Two workers with one job show who claims it and who is killed; a job of every
shape replaces several jobs of one. In `PlanRuns` two backups in a
group are the fewest that can end differently, an empty group between two others
exercises the skipping; `Attempts` = 2 allows a second enqueue of every group. `MaxOutages`, `MaxCancels`,
`MaxTeardowns`, `MaxCrashes`, `MaxChanges`, `MaxStops` and `MaxDrains` count requests
and failures. Deadlock is checked for the queue, whose worker never stops polling; the
instances of `PlanRuns` idle when no run is active and the requests are used up, so
there it is not.

`PlanRecord` has one operator, whose copy and the worker's are the two that can cross;
two requests are an edit during a check, a delete during a start, or a check after an
edit; a day is the interval of checks and of scheduled runs. `GuestOwnership` has the
two batches a VMID can be fought over by, and two VMIDs, so that one of a batch can be
lost while the other is kept. One batch is a normal restore or overwrites both VMIDs, the
other is one restore of every mode, or two backups of one guest, which is refused. The window of `Placement` is 100 to
5100 in the code and at least 250 VMIDs for each guest; here it begins at 1 and has 4
VMIDs, or one for each guest and one more: as many as a batch, one less, and one more
are told apart, which is where the arithmetic could be wrong. In `Decisions` three backups
in a list are a guest's oldest, newest and an equal, in all orders; two groups are a group
and its successor. A time of 0 or 1 is none or some: only that is told apart.

### Fairness

Weak fairness of a thread or process that has begun something is the operating
system's; that of the worker's loop is its `while True`. Proxmox tasks end at some time,
and the wait for a guest agent has its deadline: its end is strongly fair, since each
poll that is under way disables it for a moment. Nothing is fair that an operator does:
requests, pauses, resumes and limit changes may never come. Hence `JobsFinish` speaks of
behaviours in which the queue is not left paused for ever; a drain pauses it, and a
resume may follow. The liveness runs have no kill, because nothing in the code recovers
the jobs of a killed worker, and one worker, because the counter is taken, compared and
given back and two workers can in principle keep each other out for ever. `DueIsChecked` of
`PlanRecord` needs only the worker's loop; its mishaps are bounded, and a kill there is
followed by the restart `docker-compose.yml` asks for.

## What is proved

Every theorem holds for any values of the constants under the named assumption of its
module (`QueueAssumption`, `JobAssumption`, `PlanAssumption`, `RecordAssumption`,
`DecisionsAssumption`, `OwnershipAssumption`, `PlacementAssumption`), which state types
and finiteness, and that a plan has a group with a backup.

The queue:

- `TypeCorrect`: `TypeOK` is inductive, action by action.
- `PipelineInvariant`, `CompletedProven`, `IsolationBeforePowerOn`. `CompletedIsProven`
  is not inductive: it says nothing of a job on its way. `PipelineInv` says, for each
  label, what the thread has done when it is there, and `QueueInv` that an id is on the
  list at most once and only before its thread, so a popped job starts from nothing.
  The isolation theorem speaks of offline restores; a live one boots before it is isolated.
- `StopInvariant`, `StoppedInTime`, `StoppedNeverCompletes`: a marked job is trapped in
  the labels before the last look at `cancel_requested` (`StopTrap`).
- `CompletedStays` (without drains: they may overwrite a state they have read) and
  `PauseHolds` (a worker that passed the check claims once more, never twice).
- `OneWorkerInvariant`, `SlotsCover`, `LimitHolds`, `PoolRefined`, for one worker
  process: the counter is at least the number of threads and claims, so an INCR that
  stays within the limit proves there is room; each step maps to a step of
  `RestorePool` or to none. With two workers the limit is broken.

The plan runs (`PlanRunsProofs`), for any number of workers, requests, failures and kills:

- `CopiesAreSound`, `RunsTyped`. Any copy of a document may be saved at any time, so the
  invariant `RunsInv` demands the same of the stored document and of every copy (`Sound`):
  groups before its index have jobs that have ended, groups after it have none, jobs
  of a CANCELLED copy are asked to stop. What other processes do only makes more jobs
  end (`Later`), and keeps a copy sound. `InHand` says what a process has at its place: a
  copy that says RUNNING where it goes on (`Live`), and, in a cancel, every job still to be
  looked at, ended or asked to stop.
- `RecordKeepsOrder`, `CancelsReach`: the two properties, read off the stored documents.
- `OnlyStaleRevive`: an outcome is changed (`OutcomeChangedBy`), and a job created
  (`CreatedBy`), by a process that is `Live` or saves another status than the stored one;
  after an outcome either means that its copy is out of date.
- A group is chosen as the least of a set; that there is one comes from the
  well-foundedness of the naturals (`HasLeast`).

The plan runs of a worker that is not disturbed (`PlanOrderProofs`), for any number of runs,
groups, backups, operators, teardowns and single stops, and any failures but those named.
`Undisturbed(w)` says that w is the only worker, every run is the schedule's, no run is
cancelled, no process is killed, and the first enqueue of a run does not raise. Each part is
needed: without it the property fails in the code, as listed under the limits above. The
run `plan_ordered` has an instance of it. The invariant is `RunsInv` and, beside it:

- `Apart`: the worker's copy is the stored document but for what it is about to save, and an
  operator's agrees with it in all that decides on groups (`SameCore`) and is of a run that
  has ended. So a save overwrites nothing that matters, which is all the rest needs.
- `Honest`, for `CompletedWhole`: the jobs of each group are those on the document or on the
  copy about to be saved, all of them or none, and what the outcome says is true of them.
- `ToldOnce`, for `RestoredOnce`: what has been reported or notified has ended, and the worker
  does not stand before that step again; nothing brings it back there.
- `TornIsBare`, for `TornEmpty`: while a teardown is recorded, or about to be, as complete, no
  job of the run has a guest or a thread that could get one (`Bare`). The listing of the
  cluster must not fail: a failed one counts as an empty one.
- `OrderRefined`: from `Honest`, each step of `PlanRuns` is a step of `PlanOrder` on the same run
  (an enqueue, a group that is done, an outcome) or a stutter.
- `Assured`, for `AssuredProven`: only a run that COMPLETED has a verdict, in its document or in
  a copy, and where an operator's copy may undo a verdict or the worker's may bring it back,
  the teardown it goes with has not failed. One operator at most: of two, one may lose the
  verdict and the other bring it back beside a newer teardown, which TLC shows too.

The record of a plan (`RecordProofs`), all of its safety properties:

- `CopiesAreSound`, `RecordTyped`, `VerdictsAreEarned`. `VerifiedIsChecked` speaks of the
  stored document, and any old copy may be stored again; `IInv` says the same of every
  copy a process holds. A verdict and its membership are only ever written together.
- `OldCopiesLose`, `VerdictsOnlyByCheck`: from `Fresh`, which says that a copy that is not
  stale is the stored document but for what its process has set in it, place by place.
- `ScheduledApart`: the note of a scheduled run stays in the document until a stale copy
  is saved over it (`Noted`), and the worker goes on to a run only when the note is an
  interval old (`Due`), which days only add to.

The guests (`GuestProofs`), all properties of `GuestOwnership`:

- `OwnershipHolds`, `OwnershipTyped`. `OwnershipInv` has three parts for each batch. `Ordered`:
  where it is, and what its lists and its jobs may be there. `FoundGone`: a guest it found
  at one of its VMIDs has gone, or the overwrite has yet to look at it or has seen its
  mark. `PassedGone`: what its teardown has come past holds no guest of its own.
- Every step keeps a guest with its mark, removes it, or puts one there that all batches
  have listed before (`Evolves`), and leaves the other batches alone (`Quiet`); so `FoundGone`
  of a batch survives whatever the others and the administrators do (`QuietKeeps`), and
  only its own steps are looked at one by one (`OwnKeeps`).
- `NothingFoundIsTaken`, `PlainDrIsSafe`: a guest is taken by the overwrite, by the teardown
  or by a restore (`TakenHow`), and each finds only what `FoundGone` leaves.
- `CompletedStaysMarked`; `CompleteTeardownIsComplete`: with no failure, nothing left and
  nothing at hand, every VMID has been come past.

The decisions (`DecisionsProofs`): each behaviour takes one decision, so `Founded` says what
a decision was made from, and a lemma on the functions does the rest.

- `RunsGated`: `RunGate` compares the gate with the options case by case; `AssuranceGate` and
  `ScheduledDrill` do so for the requests of an assurance and of the schedule.
- `TagsAreEnough`: without sources the backups whose tags are read are those that are asked
  for, without tags none is; equal times do not make two newest backups (`NewestIsOne`).
- `AssuranceCanPass`: a plan that requires the agent is drilled with a wait for it.
- The loops of the code are folds, and a fold is a function on the sets of the indices of
  its list. `FoldExists` gives one for a list of any length (the least length without one
  would be one more than a length with one: `IndexInduction`), and `FoldInTurn` lets it take
  one element after the other. The library's induction takes an operator as a parameter;
  here the induction is over a set of indices, and `OneStep` says for each of the five
  folds what it does with one element.
- `AllocationProven`: `Taken` says what the list is when the VMIDs below a bound have been
  scanned; `TakenGrows` keeps it.
- `PlacementProven`: `Listed` holds of the nodes so far, `Level` of the jobs so far: each
  node's load is what it had and what it got, and no node that got a job is more than one
  above another. The next job goes to a node with the fewest, which may be one above the
  others afterwards, and no other node changes (`JobKeepsLevel`).
- `ReadyProven`: a check without errors has looked at nodes, members and VMIDs (`CheckLooked`),
  so one window has room for all guests. `RunOn`: what the groups so far have got are the
  lowest free VMIDs of that window, as many as they have guests; the next group's window
  begins after them and reaches no less far (`NextWindow`), so it gets the next ones
  (`GroupFits`). At a location of DR restores each group has its own VMIDs, which no other
  group and no guest of the cluster has (`RunFitsDr`).

Only model-checked: liveness, `DrainCancelsPending` and `DueIsChecked` included (fairness and
ENABLED are beyond the prover). Every invariant of the passing runs is proved.

## Not modelled

Progress parsing, PBS wire sampling, metrics, the transport of notifications, the UI, login,
settings, error texts and the deployment files: formatting and I/O without control that
others depend on. Reports, the audit log and the deletion of old jobs: a save per run
(which `PlanRuns` counts) and a list that is trimmed; two savers at once may trim the
oldest report early, which no other part would notice. Times are left out where only
their order matters. A name pattern of a group is the set of the names it matches.

## Plan

1. `ReportStore`: save and trim by several processes, and jobs deleted under a run.
