----------------------------- MODULE RestoreQueue -----------------------------
(***************************************************************************)
(* The restore queue: jobs pushed by the API on a Redis list, worker       *)
(* processes that claim a concurrency slot, pop a job and run it in a      *)
(* thread (RestoreJob), and the operator's requests: stop one job, pause,  *)
(* resume, "stop pending" (drain), change the concurrency limit.  Worker   *)
(* and API processes may be killed and restarted.                          *)
(*                                                                         *)
(* All shared state is in Redis; a step is one Redis command (or one       *)
(* MULTI), so a request that reads a hash and writes it later takes two.   *)
(***************************************************************************)
EXTENDS RestoreJob, Integers, Sequences, FiniteSets

CONSTANTS
    Workers,     \* worker processes (python worker.py)
    Limits,      \* values the operator may give max_concurrent_restores
    MaxChanges,  \* bound: pauses and limit changes, together
    MaxStops,    \* bound: requests to stop a job
    MaxDrains,   \* bound: drains ("stop pending")
    MaxCrashes   \* bound: kills of a worker or of the API process

ASSUME QueueAssumption ==
    /\ IsFiniteSet(Jobs) /\ IsFiniteSet(Workers)
    /\ Limits # {} /\ Limits \subseteq Nat \ {0}
    /\ {MaxChanges, MaxStops, MaxDrains, MaxCrashes} \subseteq Nat

VARIABLES
    queue,    \* the Redis list of job ids
    paused,   \* the Redis pause flag
    slots,    \* the Redis counter restore:concurrency:slots
    limit,    \* worker.max_concurrent_restores in the configuration file
    owner,    \* the worker process whose thread runs the job: {} or {w}
    wpc,      \* where the main thread of each worker is in worker_loop
    cap,      \* local of worker_loop: the limit it read
    counted,  \* local of reconcile_slots: RESTORING jobs counted
    pushing,  \* jobs whose hash is written and whose id is not pushed yet
    stopPc,   \* the stop request in progress for each job
    drainPc,  \* the drain in progress
    held,     \* local of the drain: the job id in hand, {} or {j}
    unseen,   \* local of the drain: hashes its scan still has to return
    changes,  \* number of pauses and limit changes so far
    stops,    \* number of stop requests so far
    drains,   \* number of drains so far
    crashes,  \* number of kills so far
    claimed,  \* history: jobs each worker popped since the queue was paused
    stopped   \* history: where the thread was when a stop was first marked

queueVars == <<queue, paused, slots, limit>>
workerVars == <<owner, wpc, cap, counted>>
apiVars == <<pushing, stopPc, drainPc, held, unseen>>
bounds == <<changes, stops, drains, crashes>>
history == <<claimed, stopped>>
vars == <<jobVars, queueVars, workerVars, apiVars, bounds, history>>

WorkerLabel ==
    {"down", "count", "set", "loop", "limit", "acquire", "rollback", "pop",
     "release", "clamp"}
DrainLabel == {"idle", "pop", "check", "cancel", "scan", "sweep"}

QueueTypeOK ==
    /\ queue \in Seq(Jobs)
    /\ paused \in BOOLEAN
    /\ slots \in Int
    /\ limit \in Limits
    /\ owner \in [Jobs -> SUBSET Workers]
    /\ wpc \in [Workers -> WorkerLabel]
    /\ cap \in [Workers -> Limits]
    /\ counted \in [Workers -> Nat]
    /\ pushing \subseteq Jobs
    /\ stopPc \in [Jobs -> {"idle", "mark", "reread", "cancel"}]
    /\ drainPc \in DrainLabel
    /\ held \subseteq Jobs
    /\ unseen \subseteq Jobs
    /\ changes \in Nat
    /\ stops \in Nat
    /\ drains \in Nat
    /\ crashes \in Nat
    /\ claimed \in [Workers -> Nat]
    /\ stopped \in [Jobs -> Label \cup {"never"}]

TypeOK == JobTypeOK /\ QueueTypeOK

Init ==
    /\ JobInit
    /\ queue = <<>>
    /\ paused = FALSE
    /\ slots = 0
    /\ limit \in Limits
    /\ owner = [j \in Jobs |-> {}]
    /\ wpc = [w \in Workers |-> "down"]
    /\ cap \in [Workers -> {limit}]
    /\ counted = [w \in Workers |-> 0]
    /\ pushing = {}
    /\ stopPc = [j \in Jobs |-> "idle"]
    /\ drainPc = "idle"
    /\ held = {}
    /\ unseen = {}
    /\ changes = 0
    /\ stops = 0
    /\ drains = 0
    /\ crashes = 0
    /\ claimed = [w \in Workers |-> 0]
    /\ stopped = [j \in Jobs |-> "never"]

Created == {j \in Jobs : state[j] # "NONE"}
OnQueue(j) == \E k \in DOMAIN queue : queue[k] = j
RemoveAt(q, k) == [i \in 1 .. Len(q) - 1 |-> IF i < k THEN q[i] ELSE q[i + 1]]

-----------------------------------------------------------------------------
(* enqueue_restores writes the hash of a job, then pushes its id.          *)

EnqueueHash(j) ==
    /\ CreateJob(j)
    /\ pushing' = pushing \cup {j}
    /\ UNCHANGED <<queueVars, workerVars, stopPc, drainPc, held, unseen,
                   bounds, history>>

\* Mutant of EnqueuePush: LPUSH for RPUSH.
EnqueuePushFront(j) ==
    /\ j \in pushing
    /\ queue' = <<j>> \o queue
    /\ pushing' = pushing \ {j}
    /\ UNCHANGED <<jobVars, paused, slots, limit, workerVars, stopPc, drainPc,
                   held, unseen, bounds, history>>

EnqueuePush(j) ==
    /\ j \in pushing
    /\ queue' = Append(queue, j)
    /\ pushing' = pushing \ {j}
    /\ UNCHANGED <<jobVars, paused, slots, limit, workerVars, stopPc, drainPc,
                   held, unseen, bounds, history>>

-----------------------------------------------------------------------------
(* The operator's requests that are one Redis command.                     *)

PauseQueue ==
    /\ changes < MaxChanges
    /\ paused' = TRUE
    /\ changes' = changes + 1
    /\ UNCHANGED <<jobVars, queue, slots, limit, workerVars, apiVars, stops, drains,
                   crashes, history>>

ResumeQueue ==
    /\ paused
    /\ paused' = FALSE
    /\ claimed' = [w \in Workers |-> 0]
    /\ UNCHANGED <<jobVars, queue, slots, limit, workerVars, apiVars, bounds, stopped>>

\* The settings page saves a new limit; the workers read it at each iteration.
SetLimit ==
    /\ changes < MaxChanges
    /\ \E n \in Limits \ {limit} : limit' = n
    /\ changes' = changes + 1
    /\ UNCHANGED <<jobVars, queue, paused, slots, workerVars, apiVars, stops, drains, crashes,
                   history>>

-----------------------------------------------------------------------------
(* main.stop_job.  The hash is read, marked (in one MULTI with the removal *)
(* of the id from the queue), read again and, if still PENDING, cancelled. *)
(* An id is on the list at most once (QueueInv), so LREM removes one entry.*)

stopRest == <<queueVars, workerVars, pushing, drainPc, held, unseen, bounds, history>>

StopRead(j) ==
    /\ stopPc[j] = "idle"
    /\ stops < MaxStops
    /\ state[j] \in {"PENDING", "RESTORING"}
    /\ stopPc' = [stopPc EXCEPT ![j] = "mark"]
    /\ stops' = stops + 1
    /\ UNCHANGED <<jobVars, queueVars, workerVars, pushing, drainPc, held, unseen,
                   changes, drains, crashes, history>>

StopMark(j) ==
    /\ stopPc[j] = "mark"
    /\ cancelRequested' = [cancelRequested EXCEPT ![j] = TRUE]
    /\ \/ \E k \in DOMAIN queue : queue[k] = j /\ queue' = RemoveAt(queue, k)
       \/ ~OnQueue(j) /\ UNCHANGED queue
    /\ stopped' = [stopped EXCEPT ![j] = IF @ = "never" THEN pc[j] ELSE @]
    /\ stopPc' = [stopPc EXCEPT ![j] = "reread"]
    /\ UNCHANGED <<state, options, result, pc, task, guest, paused, slots, limit,
                   workerVars, pushing, drainPc, held, unseen, bounds, claimed>>

\* Mutants of StopReread: the second read is trusted to find the job pending;
\* a pending job is left to the worker that will pop it (but LREM took it).
StopBlindly(j) ==
    /\ stopPc[j] = "reread"
    /\ stopPc' = [stopPc EXCEPT ![j] = "cancel"]
    /\ UNCHANGED <<jobVars, stopRest>>

StopOnlyMarks(j) ==
    /\ stopPc[j] = "reread"
    /\ stopPc' = [stopPc EXCEPT ![j] = "idle"]
    /\ UNCHANGED <<jobVars, stopRest>>

StopReread(j) ==
    /\ stopPc[j] = "reread"
    /\ stopPc' = [stopPc EXCEPT ![j] = IF state[j] = "PENDING" THEN "cancel" ELSE "idle"]
    /\ UNCHANGED <<jobVars, stopRest>>

StopCancel(j) ==
    /\ stopPc[j] = "cancel"
    /\ state' = [state EXCEPT ![j] = "CANCELLED"]
    /\ stopPc' = [stopPc EXCEPT ![j] = "idle"]
    /\ UNCHANGED <<cancelRequested, options, result, pc, task, guest, stopRest>>

-----------------------------------------------------------------------------
(* queue_control.drain_pending_jobs: pause, pop the list until it is empty,*)
(* then scan all hashes; every job found PENDING is written CANCELLED.     *)

drainRest == <<queueVars, workerVars, pushing, stopPc, bounds, history>>

DrainStart ==
    /\ drainPc = "idle"
    /\ drains < MaxDrains
    /\ paused' = TRUE
    /\ drainPc' = "pop"
    /\ drains' = drains + 1
    /\ UNCHANGED <<jobVars, queue, slots, limit, workerVars, pushing, stopPc,
                   held, unseen, changes, stops, crashes, history>>

DrainPop ==
    /\ drainPc = "pop"
    /\ queue # <<>>
    /\ held' = {Head(queue)}
    /\ queue' = Tail(queue)
    /\ drainPc' = "check"
    /\ UNCHANGED <<jobVars, paused, slots, limit, workerVars, pushing, stopPc,
                   unseen, bounds, history>>

DrainCheck ==
    /\ drainPc = "check"
    /\ \/ /\ \A j \in held : state[j] = "PENDING"
          /\ drainPc' = "cancel"
          /\ UNCHANGED held
       \/ /\ \A j \in held : state[j] # "PENDING"
          /\ drainPc' = "pop"
          /\ held' = {}
    /\ UNCHANGED <<jobVars, unseen, drainRest>>

WriteCancelled(S) == state' = [j \in Jobs |-> IF j \in S THEN "CANCELLED" ELSE state[j]]

DrainCancel ==
    /\ drainPc = "cancel"
    /\ WriteCancelled(held)
    /\ held' = {}
    /\ drainPc' = "pop"
    /\ UNCHANGED <<cancelRequested, options, result, pc, task, guest, unseen, drainRest>>

\* Mutant of DrainEmpty: no sweep of the hashes that are not on the list.
DrainListOnly ==
    /\ drainPc = "pop"
    /\ queue = <<>>
    /\ drainPc' = "idle"
    /\ UNCHANGED <<jobVars, held, unseen, drainRest>>

DrainEmpty ==
    /\ drainPc = "pop"
    /\ queue = <<>>
    /\ drainPc' = "scan"
    /\ unseen' = Created
    /\ UNCHANGED <<jobVars, held, drainRest>>

\* SCAN returns the keys present all along in any order, and may or may not
\* return those created meanwhile.
DrainScan(j) ==
    /\ drainPc = "scan"
    /\ j \in Created
    /\ unseen' = unseen \ {j}
    /\ \/ /\ state[j] = "PENDING"
          /\ held' = {j}
          /\ drainPc' = "sweep"
       \/ /\ state[j] # "PENDING"
          /\ j \in unseen
          /\ UNCHANGED <<held, drainPc>>
    /\ UNCHANGED <<jobVars, drainRest>>

DrainSweep ==
    /\ drainPc = "sweep"
    /\ WriteCancelled(held)
    /\ held' = {}
    /\ drainPc' = "scan"
    /\ UNCHANGED <<cancelRequested, options, result, pc, task, guest, unseen, drainRest>>

DrainEnd ==
    /\ drainPc = "scan"
    /\ unseen = {}
    /\ drainPc' = "idle"
    /\ UNCHANGED <<jobVars, held, unseen, drainRest>>

-----------------------------------------------------------------------------
(* worker_loop and the slots of concurrency.py.                            *)

WorkerGoto(w, label) == wpc' = [wpc EXCEPT ![w] = label]

WorkerStart(w) ==
    /\ wpc[w] = "down"
    /\ WorkerGoto(w, "count")
    /\ UNCHANGED <<jobVars, queueVars, owner, cap, counted, apiVars, bounds, history>>

\* reconcile_slots: count the RESTORING jobs, then overwrite the counter.
CountRestoring(w) ==
    /\ wpc[w] = "count"
    /\ counted' = [counted EXCEPT ![w] = Cardinality({j \in Jobs : state[j] = "RESTORING"})]
    /\ WorkerGoto(w, "set")
    /\ UNCHANGED <<jobVars, queueVars, owner, cap, apiVars, bounds, history>>

SetSlots(w) ==
    /\ wpc[w] = "set"
    /\ slots' = counted[w]
    /\ counted' = [counted EXCEPT ![w] = 0]
    /\ WorkerGoto(w, "loop")
    /\ UNCHANGED <<jobVars, queue, paused, limit, owner, cap, apiVars, bounds, history>>

\* Mutant of CheckPaused: the flag is not read again after start-up.
CheckNoPause(w) ==
    /\ wpc[w] = "loop"
    /\ WorkerGoto(w, "limit")
    /\ UNCHANGED <<jobVars, queueVars, owner, cap, counted, apiVars, bounds, history>>

CheckPaused(w) ==
    /\ wpc[w] = "loop"
    /\ ~paused
    /\ WorkerGoto(w, "limit")
    /\ UNCHANGED <<jobVars, queueVars, owner, cap, counted, apiVars, bounds, history>>

ReadLimit(w) ==
    /\ wpc[w] = "limit"
    /\ cap' = [cap EXCEPT ![w] = limit]
    /\ WorkerGoto(w, "acquire")
    /\ UNCHANGED <<jobVars, queueVars, owner, counted, apiVars, bounds, history>>

\* Mutants of AcquireSlot: the old value of the counter is compared with the
\* limit; the counter is read instead of incremented before a rollback.
AcquireOneMore(w) ==
    /\ wpc[w] = "acquire"
    /\ slots' = slots + 1
    /\ WorkerGoto(w, IF slots > cap[w] THEN "rollback" ELSE "pop")
    /\ UNCHANGED <<jobVars, queue, paused, limit, owner, cap, counted, apiVars,
                   bounds, history>>

AcquireUncounted(w) ==
    /\ wpc[w] = "acquire"
    /\ slots' = IF slots + 1 > cap[w] THEN slots ELSE slots + 1
    /\ WorkerGoto(w, IF slots + 1 > cap[w] THEN "rollback" ELSE "pop")
    /\ UNCHANGED <<jobVars, queue, paused, limit, owner, cap, counted, apiVars,
                   bounds, history>>

\* try_acquire_slot: INCR, rolled back by a DECR when above the limit.
AcquireSlot(w) ==
    /\ wpc[w] = "acquire"
    /\ slots' = slots + 1
    /\ WorkerGoto(w, IF slots + 1 > cap[w] THEN "rollback" ELSE "pop")
    /\ UNCHANGED <<jobVars, queue, paused, limit, owner, cap, counted, apiVars,
                   bounds, history>>

RollbackSlot(w) ==
    /\ wpc[w] = "rollback"
    /\ slots' = slots - 1
    /\ WorkerGoto(w, "loop")
    /\ UNCHANGED <<jobVars, queue, paused, limit, owner, cap, counted, apiVars,
                   bounds, history>>

\* BLPOP returns a job: a thread is started on it.
Claim(w) ==
    /\ wpc[w] = "pop"
    /\ queue # <<>>
    /\ pc' = [pc EXCEPT ![Head(queue)] = "check"]
    /\ owner' = [owner EXCEPT ![Head(queue)] = {w}]
    /\ queue' = Tail(queue)
    /\ claimed' = [claimed EXCEPT ![w] = IF paused THEN @ + 1 ELSE @]
    /\ WorkerGoto(w, "loop")
    /\ UNCHANGED <<state, cancelRequested, options, result, task, guest, paused,
                   slots, limit, cap, counted, apiVars, bounds, stopped>>

\* Mutant of PopTimeout: the slot is not given back.
PopTimeoutKeepsSlot(w) ==
    /\ wpc[w] = "pop"
    /\ queue = <<>>
    /\ WorkerGoto(w, "loop")
    /\ UNCHANGED <<jobVars, queueVars, owner, cap, counted, apiVars, bounds, history>>

\* BLPOP times out: the slot is given back.
PopTimeout(w) ==
    /\ wpc[w] = "pop"
    /\ queue = <<>>
    /\ WorkerGoto(w, "release")
    /\ UNCHANGED <<jobVars, queueVars, owner, cap, counted, apiVars, bounds, history>>

\* release_slot: DECR, and SET 0 when the counter went negative.
ReleaseSlot(w) ==
    /\ wpc[w] = "release"
    /\ slots' = slots - 1
    /\ WorkerGoto(w, IF slots - 1 < 0 THEN "clamp" ELSE "loop")
    /\ UNCHANGED <<jobVars, queue, paused, limit, owner, cap, counted, apiVars,
                   bounds, history>>

ClampSlots(w) ==
    /\ wpc[w] = "clamp"
    /\ slots' = 0
    /\ WorkerGoto(w, "loop")
    /\ UNCHANGED <<jobVars, queue, paused, limit, owner, cap, counted, apiVars,
                   bounds, history>>

\* The finally clause of run_job releases the slot of the thread.
ThreadReleaseSlot(j) ==
    /\ pc[j] = "release"
    /\ slots' = slots - 1
    /\ Goto(j, IF slots - 1 < 0 THEN "clamp" ELSE "done")
    /\ UNCHANGED <<state, cancelRequested, options, result, task, guest, queue,
                   paused, limit, workerVars, apiVars, bounds, history>>

ThreadClampSlots(j) ==
    /\ pc[j] = "clamp"
    /\ slots' = 0
    /\ Goto(j, "done")
    /\ UNCHANGED <<state, cancelRequested, options, result, task, guest, queue,
                   paused, limit, workerVars, apiVars, bounds, history>>

WorkerStep(w) ==
    \/ WorkerStart(w) \/ CountRestoring(w) \/ SetSlots(w) \/ CheckPaused(w)
    \/ ReadLimit(w) \/ AcquireSlot(w) \/ RollbackSlot(w) \/ Claim(w)
    \/ PopTimeout(w) \/ ReleaseSlot(w) \/ ClampSlots(w)

OutsideJob == <<queueVars, workerVars, apiVars, bounds, history>>

ThreadStep(j) ==
    \/ ProcessJob(j) /\ UNCHANGED OutsideJob
    \/ ThreadReleaseSlot(j)
    \/ ThreadClampSlots(j)

PveStep(j) == Pve(j) /\ UNCHANGED OutsideJob

-----------------------------------------------------------------------------
(* Kills.  Job threads are daemon threads: they die with their process.    *)

CrashWorker(w) ==
    /\ crashes < MaxCrashes
    /\ wpc[w] # "down"
    /\ WorkerGoto(w, "down")
    /\ pc' = [j \in Jobs |-> IF w \in owner[j] /\ pc[j] \in Running \cup {"clamp"}
                             THEN "dead" ELSE pc[j]]
    /\ crashes' = crashes + 1
    /\ UNCHANGED <<state, cancelRequested, options, result, task, guest, queueVars,
                   owner, cap, counted, apiVars, changes, stops, drains, history>>

\* All requests being served by the API process are lost.
CrashApi ==
    /\ crashes < MaxCrashes
    /\ pushing' = {}
    /\ stopPc' = [j \in Jobs |-> "idle"]
    /\ drainPc' = "idle"
    /\ held' = {}
    /\ unseen' = {}
    /\ crashes' = crashes + 1
    /\ UNCHANGED <<jobVars, queueVars, workerVars, changes, stops, drains, history>>

-----------------------------------------------------------------------------
StopStep(j) == StopRead(j) \/ StopMark(j) \/ StopReread(j) \/ StopCancel(j)

DrainStep ==
    \/ DrainPop \/ DrainCheck \/ DrainCancel \/ DrainEmpty
    \/ \E j \in Jobs : DrainScan(j)
    \/ DrainSweep \/ DrainEnd

Next ==
    \/ \E j \in Jobs : EnqueueHash(j) \/ EnqueuePush(j) \/ StopStep(j)
    \/ \E j \in Jobs : ThreadStep(j) \/ PveStep(j)
    \/ \E w \in Workers : WorkerStep(w) \/ CrashWorker(w)
    \/ PauseQueue \/ ResumeQueue \/ SetLimit \/ DrainStart \/ DrainStep \/ CrashApi

Spec == Init /\ [][Next]_vars

\* Every process that is alive keeps taking its steps: the main loop of a
\* worker and the restart of a killed one (compose: restart unless-stopped),
\* job threads, requests being served.  Enqueueing, stopping, pausing, draining
\* and killing are never owed.  A PVE task ends at some time; the QGA wait has a
\* deadline, so its loop of pings ends although each ping may stay unanswered.
Fairness ==
    /\ \A w \in Workers : WF_vars(WorkerStep(w))
    /\ \A j \in Jobs : /\ WF_vars(ThreadStep(j))
                       /\ SF_vars(AgentWaitEnds(j) /\ UNCHANGED OutsideJob)
                       /\ WF_vars(PveStep(j))
                       /\ WF_vars(EnqueuePush(j))
                       /\ WF_vars(StopMark(j) \/ StopReread(j) \/ StopCancel(j))
    /\ WF_vars(DrainStep)

FairSpec == Spec /\ Fairness

-----------------------------------------------------------------------------
(* Who holds a concurrency slot.                                           *)
HoldingLabel == {"rollback", "pop", "release"}
HolderWorkers == {w \in Workers : wpc[w] \in HoldingLabel}
HolderJobs == {j \in Jobs : pc[j] \in Running}

Pool == INSTANCE RestorePool WITH
            waiting <- queue,
            running <- HolderJobs,
            started <- {j \in Jobs : pc[j] # "none"}

\* One worker process implements the bounded FIFO pool: claims in queue order,
\* within the limit, each job at most once (worker_loop, try_acquire_slot).
PoolImplemented == Pool!PoolSpec

\* The Redis counter never counts fewer slots than are held, whatever is killed
\* and restarted, as long as there is one worker process: restarting counts only
\* RESTORING jobs, but then no thread of the killed process is left.
SlotsCoverHolders ==
    Cardinality(HolderWorkers) + Cardinality(HolderJobs) <= slots

\* A worker that is about to pop a job has fewer threads running than the limit
\* it read, even when the limit is lowered meanwhile (try_acquire_slot: "Returns
\* False if at capacity"; README: "in-flight jobs are not killed when you lower
\* the limit").
ClaimWithinLimit ==
    \A w \in Workers : wpc[w] = "pop" => Cardinality(HolderJobs) < cap[w]

\* worker_loop: "Pause: no new claims (...)".  A worker that passed the check
\* before the pause still pops one job, never a second one, until the resume.
PauseStopsClaims ==
    paused => \A w \in Workers : claimed[w] <= 1

\* A stop request marked before the thread checks for it keeps the job away from
\* PVE for good: no restore task is ever submitted (stop_job, process_job).
StopPreventsRestore ==
    \A j \in Jobs : stopped[j] \in {"none", "check"} => taskKind[j] = "none"

\* A stop request marked before the last poll of the restore task never ends in
\* COMPLETED, whatever the task does meanwhile.
StopPreventsCompletion ==
    \A j \in Jobs : stopped[j] \in {"none", "check", "begin", "submit", "wait"}
                        => state[j] # "COMPLETED"

\* Without drains, no late write of a stop request (which writes CANCELLED after
\* reading PENDING) ever hides a recovery that was reported COMPLETED.
CompletedIsFinal ==
    [][\A j \in Jobs : state[j] = "COMPLETED" => state'[j] = "COMPLETED"]_state

\* Every job that is enqueued is finished at some time, unless the operator
\* leaves the queue paused.
JobsFinish ==
    <>[]~paused => \A j \in Jobs : state[j] = "PENDING" ~> state[j] \in Terminal

\* A stop request is always answered: the job reaches a terminal state.
StopIsAnswered ==
    \A j \in Jobs : stopPc[j] = "reread" ~> state[j] \in Terminal

\* A drain leaves no job PENDING that existed when it started, the jobs that are
\* on no queue (their worker or their API request was killed) included.
DrainCancelsPending ==
    \A j \in Jobs : drainPc = "pop" /\ state[j] = "PENDING" ~> state[j] # "PENDING"

\* queue_stop: "Pause and cancel all PENDING jobs".  A job a drain wrote
\* CANCELLED stays out of PVE.
DrainedStaysCancelled ==
    [][\A j \in Jobs : state[j] = "CANCELLED" => state'[j] # "RESTORING"]_state

-----------------------------------------------------------------------------
(* Why the invariants above hold.                                          *)

\* What the queue, the requests in progress and the threads agree on: an id is
\* on the list at most once, and only while no thread has run the job.
QueueInv ==
    /\ \A i, k \in DOMAIN queue : queue[i] = queue[k] => i = k
    /\ \A k \in DOMAIN queue : /\ pc[queue[k]] = "none"
                              /\ state[queue[k]] # "NONE"
                              /\ queue[k] \notin pushing
    /\ \A j \in pushing : pc[j] = "none" /\ state[j] # "NONE"

\* Once marked for a stop, a thread at one of these labels never leaves them.
StopTrap ==
    {"none", "check", "markCancelled", "begin", "submit", "wait", "fail"} \cup Ended
Trapped(j) == cancelRequested[j] /\ pc[j] \in StopTrap /\ state[j] # "COMPLETED"

StopInv ==
    \A j \in Jobs :
        /\ stopped[j] # "never" => cancelRequested[j]
        /\ stopPc[j] = "reread" => cancelRequested[j]
        /\ stopped[j] \in {"none", "check", "begin", "submit", "wait"} => Trapped(j)
        /\ stopPc[j] = "cancel" => Trapped(j)
        /\ stopped[j] \in {"none", "check"} =>
              taskKind[j] = "none" /\ pc[j] \in {"none", "check", "markCancelled"} \cup Ended

PauseInv ==
    \A w \in Workers :
        /\ ~paused => claimed[w] = 0
        /\ claimed[w] <= 1
        /\ claimed[w] = 1 => wpc[w] \notin {"limit", "acquire", "pop"}

\* With one worker process: the threads alive are its threads.
OwnerInv ==
    \A j \in Jobs : pc[j] \in Running \cup {"clamp"} =>
        \A w \in Workers : w \in owner[j] /\ wpc[w] \notin {"down", "count", "set"}

NoClamp ==
    /\ \A w \in Workers : wpc[w] # "clamp"
    /\ \A j \in Jobs : pc[j] # "clamp"

=============================================================================
