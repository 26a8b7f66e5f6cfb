---------------------------- MODULE GuestOwnership ----------------------------
(***************************************************************************)
(* Whose guest is it?  Batches of restores share the VMIDs of a Proxmox    *)
(* cluster with each other and with its administrators.                    *)
(*                                                                         *)
(* enqueue_restores lists the cluster once, decides on a VMID for every    *)
(* backup of the batch, destroys what a DR restore is to overwrite, and    *)
(* puts the jobs on the queue.  Each job restores onto its VMID later,     *)
(* with force unless it is a plain DR restore, and marks the guest as the  *)
(* tool's.  teardown_plan_run destroys the guests of a batch again, by     *)
(* VMID.  Nothing reserves a VMID: what was free may be taken meanwhile.   *)
(*                                                                         *)
(* A batch is what one call of enqueue_restores creates: a request of the  *)
(* API, or a group of a plan, which alone is torn down.  A job is named by *)
(* its batch and its VMID.                                                 *)
(***************************************************************************)
EXTENDS Placement

CONSTANTS
    Vmids,       \* the VMIDs that occur
    Batches,     \* calls of enqueue_restores
    Requests,    \* Requests[b]: what each may ask for
    Installed,   \* the guests the administrators have: each a type by VMID
    VmidStart,   \* the first VMID a normal restore may use
    MaxMishaps   \* bound: guests administrators create or remove, failed
                 \* listings of the cluster, killed job threads

\* A request.  dr: restore onto the VMID of the source.  rows: the source
\* VMID of every backup of the batch.
ASSUME OwnershipAssumption ==
    /\ IsFiniteSet(Vmids)
    /\ Vmids \subseteq Nat /\ VmidStart \in Nat
    /\ Installed \subseteq [Vmids -> {"none", "qemu", "lxc"}]
    /\ \A b \in Batches : \A q \in Requests[b] :
        /\ q.dr \in BOOLEAN /\ q.overwrite \in BOOLEAN
        /\ q.rows # <<>> /\ \A k \in DOMAIN q.rows : q.rows[k] \in Vmids
        /\ FirstScanned(VmidStart) .. LastScanned(VmidStart, Len(q.rows)) \subseteq Vmids
    /\ MaxMishaps \in Nat

Job == Batches \X Vmids

VARIABLES
    guest,    \* the guest at each VMID
    at,       \* where each batch is
    ask,      \* what it asks for: {} or {request}
    targets,  \* its VMIDs
    left,     \* those its loop has yet to come to
    now,      \* the one it is about to destroy: {} or {v}
    failed,   \* those its teardown could not destroy
    torn,     \* its teardown_status
    job,      \* where the thread of each job is
    task,     \* the Proxmox task of each job
    upid,     \* jobs whose hash holds pve_upid
    listed,   \* batches that have listed the cluster (history)
    blind,    \* batches whose listing failed (history)
    mishaps

batchVars == <<at, ask, targets, left, now, failed, torn>>
jobVars == <<job, task, upid>>
seenVars == <<listed, blind>>
vars == <<guest, batchVars, jobVars, seenVars, mishaps>>

\* of: the job that restored the guest, {} for an administrator's.
\* after: the batches that had listed the cluster before it came (history).
Guest == [type : {"qemu", "lxc"}, of : SUBSET Job, marked : BOOLEAN,
          locked : BOOLEAN, after : SUBSET Batches]
NoGuest == [type |-> "none", of |-> {}, marked |-> FALSE, locked |-> FALSE, after |-> {}]
NewGuest(type, of, locked) ==
    [type |-> type, of |-> of, marked |-> FALSE, locked |-> locked, after |-> listed]
Occupied == {v \in Vmids : guest[v].type # "none"}

\* FAILED stands for CANCELLED and for a killed thread as well.
Ended == {"COMPLETED", "FAILED"}
JobLabel == {"none", "PENDING", "submitted", "waiting", "stamping"} \cup Ended
BatchLabel == {"new", "reclaim", "remove", "enqueue", "queued", "refused", "look", "destroy"}

TypeOK ==
    /\ guest \in [Vmids -> Guest \cup {NoGuest}]
    /\ at \in [Batches -> BatchLabel]
    /\ \A b \in Batches : ask[b] \subseteq Requests[b]
    /\ targets \in [Batches -> SUBSET Vmids]
    /\ left \in [Batches -> SUBSET Vmids]
    /\ now \in [Batches -> SUBSET Vmids]
    /\ failed \in [Batches -> SUBSET Vmids]
    /\ torn \in [Batches -> {"", "completed", "partial", "failed"}]
    /\ job \in [Job -> JobLabel]
    /\ task \in [Job -> {"none", "running", "ok", "bad"}]
    /\ upid \subseteq Job
    /\ listed \subseteq Batches /\ blind \subseteq Batches
    /\ mishaps \in Nat

Init ==
    /\ \E type \in Installed : guest = [v \in Vmids |-> [NoGuest EXCEPT !.type = type[v]]]
    /\ at = [b \in Batches |-> "new"]
    /\ ask = [b \in Batches |-> {}]
    /\ targets = [b \in Batches |-> {}]
    /\ left = [b \in Batches |-> {}]
    /\ now = [b \in Batches |-> {}]
    /\ failed = [b \in Batches |-> {}]
    /\ torn = [b \in Batches |-> ""]
    /\ job = [j \in Job |-> "none"]
    /\ task = [j \in Job |-> "none"]
    /\ upid = {} /\ listed = {} /\ blind = {}
    /\ mishaps = 0

Goes(b, label) == at' = [at EXCEPT ![b] = label]

Mishap == mishaps < MaxMishaps /\ mishaps' = mishaps + 1
Delete(v) == guest' = [guest EXCEPT ![v] = NoGuest]
-----------------------------------------------------------------------------
(* enqueue_restores: a listing, the VMIDs, the overwrite, the jobs.        *)

Sources(q) == {q.rows[k] : k \in DOMAIN q.rows}

\* The VMIDs of the batch; none when the request is refused.
VmidsFor(q, inUse) ==
    IF q.dr
    THEN IF Cardinality(Sources(q)) = Len(q.rows) /\ (q.overwrite \/ Sources(q) \cap inUse = {})
         THEN Sources(q) ELSE {}
    ELSE LET free == LowestFree(inUse, VmidStart, Len(q.rows))
         IN IF Cardinality(free) = Len(q.rows) THEN free ELSE {}

ListAs(b, q, inUse) ==
    LET ids == VmidsFor(q, inUse)
    IN /\ at[b] = "new"
       /\ ask' = [ask EXCEPT ![b] = {q}]
       /\ targets' = [targets EXCEPT ![b] = ids]
       /\ Goes(b, IF ids = {} THEN "refused"
                  ELSE IF q.dr /\ q.overwrite THEN "reclaim" ELSE "enqueue")
       /\ left' = [left EXCEPT ![b] = IF q.dr /\ q.overwrite THEN ids \cap inUse ELSE {}]
       /\ listed' = listed \cup {b}
       /\ UNCHANGED <<guest, now, failed, torn, jobVars>>

List(b, q) == ListAs(b, q, Occupied) /\ UNCHANGED <<blind, mishaps>>

\* The listing fails: _cluster_vm_resources returns no guest at all.
ListBlind(b, q) ==
    /\ Mishap
    /\ blind' = blind \cup {b}
    /\ ListAs(b, q, {})

\* Mutant of Reclaimable: the mark is not looked at.
ReclaimableUnmarked(g) == g.type = "qemu"

\* A guest a DR overwrite may destroy: never an LXC, never one without mark.
Reclaimable(g) == g.type = "qemu" /\ g.marked

\* The loop over the VMIDs in use: the next one is looked at.
Reclaim(b, v) ==
    /\ at[b] = "reclaim" /\ v \in left[b]
    /\ IF Reclaimable(guest[v])
       THEN /\ Goes(b, "remove")
            /\ left' = [left EXCEPT ![b] = @ \ {v}]
            /\ now' = [now EXCEPT ![b] = {v}]
       ELSE /\ Goes(b, "refused")
            /\ left' = [left EXCEPT ![b] = {}]
            /\ UNCHANGED now
    /\ UNCHANGED <<guest, ask, targets, failed, torn, jobVars, seenVars, mishaps>>

\* destroy_qemu_vm stops the guest and deletes it, by VMID.  Proxmox refuses
\* to while a task locks the guest, and knows no QEMU guest under an LXC's.
Deletable(g) == g.type = "qemu" /\ ~g.locked

RemoveGuest(b, v) ==
    /\ at[b] = "remove" /\ v \in now[b]
    /\ now' = [now EXCEPT ![b] = {}]
    /\ IF Deletable(guest[v])
       THEN Delete(v) /\ Goes(b, "reclaim")
       ELSE Goes(b, "refused") /\ UNCHANGED guest
    /\ UNCHANGED <<ask, targets, left, failed, torn, jobVars, seenVars, mishaps>>

Reclaimed(b) ==
    /\ at[b] = "reclaim" /\ left[b] = {}
    /\ Goes(b, "enqueue")
    /\ UNCHANGED <<guest, ask, targets, left, now, failed, torn, jobVars, seenVars, mishaps>>

\* The hashes and queue entries of the jobs; no job looks at another's.
Enqueue(b) ==
    /\ at[b] = "enqueue"
    /\ job' = [j \in Job |-> IF j[1] = b /\ j[2] \in targets[b] THEN "PENDING" ELSE job[j]]
    /\ Goes(b, "queued")
    /\ UNCHANGED <<guest, ask, targets, left, now, failed, torn, task, upid, seenVars, mishaps>>

-----------------------------------------------------------------------------
(* The job: restore, wait, mark.  The rest of it is in RestoreJob.         *)

\* Mutant of Forced: every restore is.
ForcedAlways(b) == TRUE

\* The job's force flag.
Forced(b) == \E q \in ask[b] : q.dr => q.overwrite

\* submit_restore is accepted by Proxmox: the VMID is free, or held by a QEMU
\* guest no task locks and the restore is forced, which overwrites the guest.
Submit(j) ==
    LET b == j[1]
        v == j[2]
    IN /\ job[j] = "PENDING"
       /\ guest[v].type = "none" \/ (Forced(b) /\ Deletable(guest[v]))
       /\ guest' = [guest EXCEPT ![v] = NewGuest("qemu", {j}, TRUE)]
       /\ job' = [job EXCEPT ![j] = "submitted"]
       /\ task' = [task EXCEPT ![j] = "running"]
       /\ UNCHANGED <<upid, batchVars, seenVars, mishaps>>

\* Proxmox refuses it or cannot be reached, or the job was cancelled before.
SubmitFails(j) ==
    /\ job[j] = "PENDING"
    /\ job' = [job EXCEPT ![j] = "FAILED"]
    /\ UNCHANGED <<guest, task, upid, batchVars, seenVars, mishaps>>

RecordUpid(j) ==
    /\ job[j] = "submitted"
    /\ upid' = upid \cup {j}
    /\ job' = [job EXCEPT ![j] = "waiting"]
    /\ UNCHANGED <<guest, task, batchVars, seenVars, mishaps>>

\* The guest of the job's task, as long as the task runs.
Restored(j) == {v \in Vmids : guest[v].of = {j} /\ guest[v].locked}

TaskEnds(j, result) ==
    /\ task[j] = "running"
    /\ task' = [task EXCEPT ![j] = result]
    /\ guest' = [v \in Vmids |->
           IF v \notin Restored(j) THEN guest[v]
           ELSE IF result = "ok" THEN [guest[v] EXCEPT !.locked = FALSE] ELSE NoGuest]
    /\ UNCHANGED <<job, upid, batchVars, seenVars, mishaps>>

\* wait_for_task: its task has ended, or it is given up (a stop, the timeout).
WaitEnds(j) ==
    /\ job[j] = "waiting"
    /\ \/ /\ task[j] = "ok"
          /\ job' = [job EXCEPT ![j] = "stamping"]
       \/ /\ task[j] # "ok"
          /\ job' = [job EXCEPT ![j] = "FAILED"]
    /\ UNCHANGED <<guest, task, upid, batchVars, seenVars, mishaps>>

\* mark_qemu_managed_by_tool: the guest the job finds at its VMID is marked.
Stamp(j) ==
    LET v == j[2]
    IN /\ job[j] = "stamping"
       /\ Deletable(guest[v])
       /\ guest' = [guest EXCEPT ![v].marked = TRUE]
       /\ job' = [job EXCEPT ![j] = "COMPLETED"]
       /\ UNCHANGED <<task, upid, batchVars, seenVars, mishaps>>

\* Mutant of StampFails: the job completes without a mark.
StampGivenUp(j) ==
    /\ job[j] = "stamping"
    /\ job' = [job EXCEPT ![j] = "COMPLETED"]
    /\ UNCHANGED <<guest, task, upid, batchVars, seenVars, mishaps>>

\* Three attempts fail, and so does the job; the guest stays.
StampFails(j) ==
    /\ job[j] = "stamping"
    /\ job' = [job EXCEPT ![j] = "FAILED"]
    /\ UNCHANGED <<guest, task, upid, batchVars, seenVars, mishaps>>

\* The worker is killed before what it is to write; its task goes on.
Kill(j) ==
    /\ job[j] \in {"submitted", "stamping"}
    /\ Mishap
    /\ job' = [job EXCEPT ![j] = "FAILED"]
    /\ UNCHANGED <<guest, task, upid, batchVars, seenVars>>

-----------------------------------------------------------------------------
(* teardown_plan_run, once the jobs have ended.                            *)

\* Every VMID of the batch is a target, whatever became of its job.
TeardownStart(b) ==
    /\ at[b] = "queued" /\ torn[b] # "completed"
    /\ \A v \in targets[b] : job[<<b, v>>] \in Ended
    /\ Goes(b, "look")
    /\ left' = [left EXCEPT ![b] = targets[b]]
    /\ UNCHANGED <<guest, ask, targets, now, failed, torn, jobVars, seenVars, mishaps>>

\* destroy_owned_qemu_vm with run provenance: a marked guest, or any guest at
\* a VMID onto which a job of the batch submitted a restore.
Owned(b, v) == guest[v].type = "qemu" /\ (guest[v].marked \/ <<b, v>> \in upid)

\* Mutant of TeardownLook: what may not be destroyed counts as gone.
TeardownLookLax(b, v) ==
    /\ at[b] = "look" /\ v \in left[b]
    /\ left' = [left EXCEPT ![b] = @ \ {v}]
    /\ IF Owned(b, v)
       THEN Goes(b, "destroy") /\ now' = [now EXCEPT ![b] = {v}]
       ELSE UNCHANGED <<at, now>>
    /\ UNCHANGED <<guest, ask, targets, failed, torn, jobVars, seenVars, mishaps>>

\* A guest that is absent is done; one the tool does not own is a failure.
TeardownLook(b, v) ==
    /\ at[b] = "look" /\ v \in left[b]
    /\ left' = [left EXCEPT ![b] = @ \ {v}]
    /\ IF Owned(b, v)
       THEN Goes(b, "destroy") /\ now' = [now EXCEPT ![b] = {v}]
       ELSE UNCHANGED <<at, now>>
    /\ failed' = [failed EXCEPT ![b] = IF guest[v].type = "none" \/ Owned(b, v) THEN @
                                       ELSE @ \cup {v}]
    /\ UNCHANGED <<guest, ask, targets, torn, jobVars, seenVars, mishaps>>

\* A guest that has gone meanwhile ("does not exist") is done as well.
TeardownDestroy(b, v) ==
    /\ at[b] = "destroy" /\ v \in now[b]
    /\ Goes(b, "look")
    /\ now' = [now EXCEPT ![b] = {}]
    /\ IF Deletable(guest[v])
       THEN Delete(v) /\ UNCHANGED failed
       ELSE /\ failed' = [failed EXCEPT ![b] = IF guest[v].type = "none" THEN @ ELSE @ \cup {v}]
            /\ UNCHANGED guest
    /\ UNCHANGED <<ask, targets, left, torn, jobVars, seenVars, mishaps>>

\* Mutant of TeardownEnd: the reason of the last removal is saved instead.
TeardownEndReason(b) ==
    /\ at[b] = "look" /\ left[b] = {}
    /\ Goes(b, "queued")
    /\ torn' = [torn EXCEPT ![b] = "absent"]
    /\ failed' = [failed EXCEPT ![b] = {}]
    /\ UNCHANGED <<guest, ask, targets, left, now, jobVars, seenVars, mishaps>>

TeardownEnd(b) ==
    /\ at[b] = "look" /\ left[b] = {}
    /\ Goes(b, "queued")
    /\ torn' = [torn EXCEPT ![b] = IF failed[b] = {} THEN "completed"
                                   ELSE IF failed[b] = targets[b] THEN "failed" ELSE "partial"]
    /\ failed' = [failed EXCEPT ![b] = {}]
    /\ UNCHANGED <<guest, ask, targets, left, now, jobVars, seenVars, mishaps>>
-----------------------------------------------------------------------------
(* The administrators of the cluster.                                      *)

AdminCreate(v, type) ==
    /\ guest[v].type = "none" /\ Mishap
    /\ guest' = [guest EXCEPT ![v] = NewGuest(type, {}, FALSE)]
    /\ UNCHANGED <<batchVars, jobVars, seenVars>>

AdminRemove(v) ==
    /\ guest[v].type # "none" /\ ~guest[v].locked /\ Mishap
    /\ guest' = [guest EXCEPT ![v] = NoGuest]
    /\ UNCHANGED <<batchVars, jobVars, seenVars>>

JobWorks(j) ==
    \/ Submit(j) \/ SubmitFails(j) \/ RecordUpid(j)
    \/ \E result \in {"ok", "bad"} : TaskEnds(j, result)
    \/ WaitEnds(j) \/ Stamp(j) \/ StampFails(j) \/ Kill(j)

BatchWorks(b) ==
    \/ \E q \in Requests[b] : List(b, q) \/ ListBlind(b, q)
    \/ Reclaimed(b) \/ Enqueue(b) \/ TeardownStart(b) \/ TeardownEnd(b)
    \/ \E v \in Vmids : \/ Reclaim(b, v) \/ RemoveGuest(b, v)
                         \/ TeardownLook(b, v) \/ TeardownDestroy(b, v)

Next ==
    \/ \E b \in Batches : BatchWorks(b)
    \/ \E j \in Job : JobWorks(j)
    \/ \E v \in Vmids : AdminRemove(v) \/ \E type \in {"qemu", "lxc"} : AdminCreate(v, type)

Spec == Init /\ [][Next]_vars
-----------------------------------------------------------------------------
(* What a batch may do to the guests of the cluster.                       *)

\* Batch b destroys the guest at v, or restores over it.
Acts(b) ==
    \/ now'[b] # now[b]
    \/ \E v \in Vmids : job[<<b, v>>] = "PENDING" /\ job'[<<b, v>>] = "submitted"
Takes(b, v) ==
    /\ Acts(b)
    /\ guest[v].type # "none"
    /\ guest'[v].type = "none" \/ guest'[v].of # guest[v].of

\* What a batch destroys or overwrites came after the batch had listed the
\* cluster, or is a marked guest that a DR request with overwrite reclaims;
\* unless its listing failed.
FoundIsKept ==
    [][\A b \in Batches, v \in Vmids : Takes(b, v) =>
         \/ b \in guest[v].after
         \/ b \in blind
         \/ guest[v].marked /\ \E q \in ask[b] : q.dr /\ q.overwrite]_vars

\* A DR restore without overwrite replaces no guest, whenever it came.
PlainDrReplacesNothing ==
    [][\A b \in Batches, v \in Vmids : Takes(b, v) /\ at[b] # "destroy" =>
         \E q \in ask[b] : q.dr => q.overwrite]_vars

\* The guest of a COMPLETED job is marked as the tool's, so that it can be
\* reclaimed later.
CompletedIsMarked ==
    \A v \in Vmids : \A j \in guest[v].of : job[j] = "COMPLETED" => guest[v].marked

\* A teardown that counts as complete leaves no guest that a job of the batch
\* restored.
TornDownIsGone ==
    [][\A b \in Batches : torn[b] # "completed" /\ torn'[b] = "completed" =>
         \A v \in Vmids : \A j \in guest[v].of : j[1] # b]_vars
=============================================================================
