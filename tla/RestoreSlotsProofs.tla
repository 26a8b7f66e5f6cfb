--------------------------- MODULE RestoreSlotsProofs ---------------------------
(* One worker process: the concurrency slots, and the queue as an          *)
(* implementation of RestorePool, for any number of jobs and any limits.   *)
(* With two workers both fail (run two_workers).                           *)
EXTENDS RestoreStopProofs

USE DEF jobVars, queueVars, workerVars, apiVars, bounds, history, vars,
        stopRest, drainRest, OutsideJob, result, task, guest

\* There is one worker process, worker (README: "prefer one worker replica").
OneWorker(worker) == Workers = {worker}

-----------------------------------------------------------------------------
(* The threads alive belong to the worker that is running, and each of     *)
(* them, like the main thread between its INCR and the start of a thread,  *)
(* is counted.  slots may be larger: it also counts what was left behind.  *)
SlotInv(worker) ==
    /\ Cardinality(HolderJobs) <= slots
    /\ wpc[worker] \in HoldingLabel => Cardinality(HolderJobs) + 1 <= slots

OneWorkerInv(worker) ==
    /\ OwnerInv
    /\ NoClamp
    /\ SlotInv(worker)
    /\ ClaimWithinLimit

LEMMA HoldersFinite == IsFiniteSet(HolderJobs) /\ Cardinality(HolderJobs) \in Nat
  BY QueueAssumption, FS_Subset, FS_CardinalityType DEF HolderJobs

\* A thread that runs stays running until it releases its slot.
LEMMA ProcessJobRuns ==
  ASSUME JobTypeOK, NEW j \in Jobs, ProcessJob(j)
  PROVE  /\ pc[j] \in Running /\ pc'[j] \in Running
         /\ \A i \in Jobs \ {j} : pc'[i] = pc[i]
  BY DEF JobTypeOK, Running, Goto, ProcessJob, CheckCancel, MarkCancelled, Begin, Submit,
     WaitForTask, PollTask, Stamp, IsolateNetwork, Power, AwaitAgent, AgentSilent,
     AgentWaitEnds, HttpCheck, Complete, Fail

\* What a step does to the threads that hold a slot.
LEMMA HoldersStep ==
  ASSUME TypeOK, QueueInv, NoClamp, [Next]_vars
  PROVE  \/ /\ HolderJobs' = HolderJobs
            /\ \A i \in Jobs : pc[i] \in Running <=> pc'[i] \in Running
            /\ \A i \in Jobs : pc'[i] # "clamp"
            /\ UNCHANGED <<slots, wpc, cap, owner>>
         \/ \E w \in Workers : WorkerStep(w) \/ CrashWorker(w)
         \/ \E j \in Jobs : ThreadReleaseSlot(j)
  <1>0. pc \in [Jobs -> Label] /\ JobTypeOK
    BY DEF TypeOK, JobTypeOK
  <1>a. ASSUME UNCHANGED <<pc, slots, wpc, cap, owner>>
        PROVE  /\ HolderJobs' = HolderJobs
               /\ \A i \in Jobs : pc[i] \in Running <=> pc'[i] \in Running
               /\ \A i \in Jobs : pc'[i] # "clamp"
    BY <1>a DEF HolderJobs, NoClamp
  <1>1. ASSUME NEW j \in Jobs, EnqueueHash(j) \/ EnqueuePush(j) \/ StopStep(j) \/ PveStep(j)
        PROVE  UNCHANGED <<pc, slots, wpc, cap, owner>>
    BY <1>1 DEF EnqueueHash, CreateJob, EnqueuePush, StopStep, StopRead, StopMark, StopReread,
       StopCancel, PveStep, Pve, PveBootsLiveGuest, PveTaskEnds
  <1>2. CASE PauseQueue \/ ResumeQueue \/ SetLimit \/ DrainStart \/ CrashApi \/ UNCHANGED vars
    BY <1>2, <1>a DEF PauseQueue, ResumeQueue, SetLimit, DrainStart, CrashApi
  <1>3. CASE DrainStep
    BY <1>3, <1>a DEF DrainStep, DrainPop, DrainCheck, DrainCancel, DrainEmpty, DrainScan,
       DrainSweep, DrainEnd
  <1>4. ASSUME NEW j \in Jobs, ProcessJob(j), UNCHANGED OutsideJob
        PROVE  /\ HolderJobs' = HolderJobs
               /\ \A i \in Jobs : pc[i] \in Running <=> pc'[i] \in Running
               /\ \A i \in Jobs : pc'[i] # "clamp"
               /\ UNCHANGED <<slots, wpc, cap, owner>>
    BY <1>0, <1>4, ProcessJobRuns DEF HolderJobs, NoClamp, Running
  <1>5. ASSUME NEW j \in Jobs, ThreadClampSlots(j) PROVE FALSE
    BY <1>5 DEF ThreadClampSlots, NoClamp
  <1> QED
    <2>1. CASE \E j \in Jobs : EnqueueHash(j) \/ EnqueuePush(j) \/ StopStep(j)
      BY <1>1, <1>a, <2>1
    <2>2. CASE \E j \in Jobs : ThreadStep(j) \/ PveStep(j)
      BY <1>1, <1>4, <1>5, <1>a, <2>2 DEF ThreadStep
    <2>3. CASE \E w \in Workers : WorkerStep(w) \/ CrashWorker(w)
      BY <2>3
    <2> QED BY <1>2, <1>3, <2>1, <2>2, <2>3 DEF Next

LEMMA ClaimHolders ==
  ASSUME TypeOK, QueueInv, NEW w \in Workers, Claim(w)
  PROVE  /\ Head(queue) \in Jobs /\ Head(queue) \notin HolderJobs
         /\ HolderJobs' = HolderJobs \cup {Head(queue)}
         /\ Cardinality(HolderJobs') = Cardinality(HolderJobs) + 1
  <1>1. /\ Head(queue) \in Jobs /\ pc[Head(queue)] = "none"
        /\ pc' = [pc EXCEPT ![Head(queue)] = "check"]
    BY PoppedOffQueue DEF Claim
  <1>2. HolderJobs' = HolderJobs \cup {Head(queue)} /\ Head(queue) \notin HolderJobs
    BY <1>1 DEF HolderJobs, Running, TypeOK, JobTypeOK
  <1> QED BY <1>1, <1>2, HoldersFinite, FS_AddElement

LEMMA ReleaseHolders ==
  ASSUME TypeOK, NEW j \in Jobs, ThreadReleaseSlot(j)
  PROVE  /\ j \in HolderJobs
         /\ HolderJobs' = HolderJobs \ {j}
         /\ Cardinality(HolderJobs') = Cardinality(HolderJobs) - 1
  <1>1. j \in HolderJobs /\ HolderJobs' = HolderJobs \ {j}
    BY DEF ThreadReleaseSlot, Goto, HolderJobs, Running, TypeOK, JobTypeOK
  <1> QED BY <1>1, HoldersFinite, FS_RemoveElement

LEMMA OneWorkerStep ==
  ASSUME NEW w, OneWorker(w), TypeOK, QueueInv, OneWorkerInv(w), [Next]_vars
  PROVE  OneWorkerInv(w)'
  <1>0. /\ pc \in [Jobs -> Label] /\ wpc \in [Workers -> WorkerLabel] /\ slots \in Int
        /\ owner \in [Jobs -> SUBSET Workers] /\ cap \in [Workers -> Limits]
        /\ counted \in [Workers -> Nat] /\ Limits \subseteq Nat
        /\ Workers = {w} /\ w \in Workers
    BY QueueAssumption DEF TypeOK, QueueTypeOK, JobTypeOK, OneWorker
  <1>h. Cardinality(HolderJobs) \in Nat /\ Cardinality(HolderJobs') \in Nat
    <2>1. HolderJobs' \subseteq Jobs
      BY DEF HolderJobs
    <2> QED BY <2>1, HoldersFinite, QueueAssumption, FS_Subset, FS_CardinalityType
  <1> USE DEF OneWorkerInv, SlotInv, ClaimWithinLimit
  <1>1. ASSUME HolderJobs' = HolderJobs, UNCHANGED <<slots, wpc, cap, owner>>,
               \A i \in Jobs : pc[i] \in Running <=> pc'[i] \in Running,
               \A i \in Jobs : pc'[i] # "clamp"
        PROVE  OneWorkerInv(w)'
    BY <1>0, <1>1 DEF OwnerInv, NoClamp
  <1>2. ASSUME NEW j \in Jobs, ThreadReleaseSlot(j) PROVE OneWorkerInv(w)'
    <2>1. Cardinality(HolderJobs) >= 1 /\ slots >= 1
      BY <1>0, <1>2, <1>h, ReleaseHolders
    <2>2. /\ slots' = slots - 1 /\ pc' = [pc EXCEPT ![j] = "done"] /\ UNCHANGED <<wpc, cap, owner>>
      <3>1. ~(slots - 1 < 0)
        BY <1>0, <2>1
      <3> QED BY <1>2, <3>1 DEF ThreadReleaseSlot, Goto
    <2>3. OwnerInv' /\ NoClamp'
      BY <1>0, <2>2 DEF OwnerInv, NoClamp, Running
    <2>4. Cardinality(HolderJobs') = Cardinality(HolderJobs) - 1
      BY <1>2, ReleaseHolders
    <2>5. SlotInv(w)'
      BY <1>0, <1>h, <2>2, <2>4
    <2>6. ClaimWithinLimit'
      <3>1. wpc[w] = "pop" => Cardinality(HolderJobs) < cap[w]
        BY <1>0
      <3>2. cap[w] \in Nat
        BY <1>0
      <3>3. wpc[w] = "pop" => Cardinality(HolderJobs') < cap[w]
        BY <1>h, <2>4, <3>1, <3>2
      <3> QED BY <1>0, <2>2, <3>3
    <2> QED BY <2>3, <2>5, <2>6
  <1>3. CASE CrashWorker(w)
    <2>1. wpc' = [wpc EXCEPT ![w] = "down"] /\ UNCHANGED <<slots, cap, owner>>
      BY <1>3 DEF CrashWorker, WorkerGoto
    <2>2. \A i \in Jobs : pc'[i] \notin Running \cup {"clamp"}
      BY <1>0, <1>3 DEF CrashWorker, OwnerInv, Running
    <2>3. HolderJobs' = {}
      BY <2>2 DEF HolderJobs
    <2>4. Cardinality(HolderJobs') = 0
      BY <2>3, FS_EmptySet
    <2> QED BY <1>0, <1>h, <2>1, <2>2, <2>4 DEF OwnerInv, NoClamp, HoldingLabel
  <1>4. CASE WorkerStep(w)
    <2>a. ASSUME ~Claim(w) PROVE UNCHANGED <<pc, owner>> /\ HolderJobs' = HolderJobs
      BY <1>4, <2>a DEF WorkerStep, WorkerStart, CountRestoring, SetSlots, CheckPaused, ReadLimit,
         AcquireSlot, RollbackSlot, PopTimeout, ReleaseSlot, ClampSlots, HolderJobs
    <2>b. ASSUME wpc[w] \in {"down", "count", "set"} PROVE Cardinality(HolderJobs) = 0
      <3>1. HolderJobs = {}
        BY <1>0, <2>b DEF HolderJobs, OwnerInv
      <3> QED BY <3>1, FS_EmptySet
    <2> USE DEF WorkerGoto, HoldingLabel, OwnerInv, NoClamp
    <2>1. CASE WorkerStart(w)    BY <1>0, <2>1, <2>a, <2>b DEF WorkerStart, Claim, HolderJobs
    <2>2. CASE CountRestoring(w) BY <1>0, <2>2, <2>a, <2>b DEF CountRestoring, Claim, HolderJobs
    <2>3. CASE SetSlots(w)       BY <1>0, <2>3, <2>a, <2>b DEF SetSlots, Claim, HolderJobs
    <2>4. CASE CheckPaused(w)    BY <1>0, <2>4, <2>a DEF CheckPaused, Claim
    <2>5. CASE ReadLimit(w)      BY <1>0, <2>5, <2>a DEF ReadLimit, Claim
    <2>6. CASE AcquireSlot(w)
      <3>0. UNCHANGED <<pc, owner, cap>> /\ HolderJobs' = HolderJobs /\ slots' = slots + 1
            /\ wpc[w] = "acquire"
        BY <2>6, <2>a DEF AcquireSlot, Claim
      <3>1. CASE slots + 1 > cap[w]
        <4>1. wpc' = [wpc EXCEPT ![w] = "rollback"]
          BY <2>6, <3>1 DEF AcquireSlot
        <4> QED BY <1>0, <1>h, <3>0, <4>1
      <3>2. CASE ~(slots + 1 > cap[w])
        <4>1. wpc' = [wpc EXCEPT ![w] = "pop"]
          BY <2>6, <3>2 DEF AcquireSlot
        <4>2. cap[w] \in Nat
          BY <1>0
        <4>3. Cardinality(HolderJobs) < cap[w]
          BY <1>0, <1>h, <3>2, <4>2
        <4> QED BY <1>0, <1>h, <3>0, <4>1, <4>3
      <3> QED BY <3>1, <3>2
    <2>7. CASE RollbackSlot(w)   BY <1>0, <1>h, <2>7, <2>a DEF RollbackSlot, Claim
    <2>8. CASE Claim(w)
      <3>1. /\ wpc[w] = "pop" /\ wpc' = [wpc EXCEPT ![w] = "loop"] /\ UNCHANGED <<slots, cap>>
            /\ pc' = [pc EXCEPT ![Head(queue)] = "check"]
            /\ owner' = [owner EXCEPT ![Head(queue)] = {w}]
        BY <2>8 DEF Claim
      <3>2. OwnerInv' /\ NoClamp'
        BY <1>0, <2>8, <3>1, ClaimHolders
      <3>3. SlotInv(w)' /\ ClaimWithinLimit'
        BY <1>0, <1>h, <2>8, <3>1, ClaimHolders
      <3> QED BY <3>2, <3>3
    <2>9. CASE PopTimeout(w)     BY <1>0, <2>9, <2>a DEF PopTimeout, Claim
    <2>10. CASE ReleaseSlot(w)   BY <1>0, <1>h, <2>10, <2>a DEF ReleaseSlot, Claim
    <2>11. CASE ClampSlots(w)    BY <1>0, <2>11 DEF ClampSlots
    <2> QED
      BY <1>4, <2>1, <2>2, <2>3, <2>4, <2>5, <2>6, <2>7, <2>8, <2>9, <2>10, <2>11
      DEF WorkerStep
  <1> QED
    <2>1. CASE \E j \in Jobs : ThreadReleaseSlot(j)
      BY <1>2, <2>1
    <2>2. CASE \E v \in Workers : WorkerStep(v) \/ CrashWorker(v)
      BY <1>0, <1>3, <1>4, <2>2
    <2> QED BY <1>1, <2>1, <2>2, HoldersStep

THEOREM OneWorkerInvariant ==
  ASSUME NEW w, OneWorker(w)
  PROVE  Spec => [](TypeOK /\ QueueInv /\ OneWorkerInv(w))
  <1>1. Init => OneWorkerInv(w)
    <2> SUFFICES ASSUME Init PROVE OneWorkerInv(w)
      OBVIOUS
    <2>1. /\ \A j \in Jobs : pc[j] = "none"
          /\ w \in Workers /\ \A v \in Workers : wpc[v] = "down" /\ slots = 0
      BY DEF Init, JobInit, OneWorker
    <2>2. HolderJobs = {}
      BY <2>1 DEF HolderJobs, Running
    <2>3. Cardinality(HolderJobs) = 0
      BY <2>2, FS_EmptySet
    <2> QED BY <2>1, <2>3 DEF OneWorkerInv, OwnerInv, NoClamp, SlotInv, ClaimWithinLimit,
          Running, HoldingLabel
  <1>2. TypeOK /\ QueueInv /\ OneWorkerInv(w) /\ [Next]_vars => OneWorkerInv(w)'
    BY OneWorkerStep
  <1> QED
    BY <1>1, <1>2, PipelineInvariant, PTL DEF Spec

\* With one worker process the Redis counter is never below the number of slots
\* held by its threads and its main thread, whatever is killed and restarted:
\* reconcile_slots runs when no thread of the killed process is left.
THEOREM SlotsCover ==
  ASSUME NEW w, OneWorker(w)
  PROVE  Spec => []SlotsCoverHolders
  <1>1. TypeOK /\ OneWorkerInv(w) => SlotsCoverHolders
    <2> SUFFICES ASSUME TypeOK, OneWorkerInv(w) PROVE SlotsCoverHolders
      OBVIOUS
    <2>1. slots \in Int /\ Cardinality(HolderJobs) \in Nat
      BY HoldersFinite DEF TypeOK, QueueTypeOK
    <2>2. CASE wpc[w] \in HoldingLabel
      <3>1. HolderWorkers = {w}
        BY <2>2 DEF HolderWorkers, OneWorker
      <3>2. Cardinality(HolderWorkers) = 1
        BY <3>1, FS_Singleton
      <3> QED BY <2>1, <2>2, <3>2 DEF SlotsCoverHolders, OneWorkerInv, SlotInv
    <2>3. CASE wpc[w] \notin HoldingLabel
      <3>1. HolderWorkers = {}
        BY <2>3 DEF HolderWorkers, OneWorker
      <3>2. Cardinality(HolderWorkers) = 0
        BY <3>1, FS_EmptySet
      <3> QED BY <2>1, <3>2 DEF SlotsCoverHolders, OneWorkerInv, SlotInv
    <2> QED BY <2>2, <2>3
  <1> QED
    BY <1>1, OneWorkerInvariant, PTL

\* With one worker process a job is popped only while fewer threads run than the
\* limit the worker read (try_acquire_slot), also after a restart and after the
\* limit was lowered.
THEOREM LimitHolds ==
  ASSUME NEW w, OneWorker(w)
  PROVE  Spec => []ClaimWithinLimit
  <1>1. OneWorkerInv(w) => ClaimWithinLimit
    BY DEF OneWorkerInv
  <1> QED
    BY <1>1, OneWorkerInvariant, PTL

-----------------------------------------------------------------------------
(* RestoreQueue implements RestorePool.                                    *)

\* The jobs a thread was ever started on.
Popped == {j \in Jobs : pc[j] # "none"}

\* The steps that leave all the pool knows alone.
LEMMA PoolStutter ==
  ASSUME UNCHANGED queue, HolderJobs' = HolderJobs, Popped' = Popped
  PROVE  [Pool!PoolNext]_(Pool!poolVars)
  BY DEF Pool!poolVars, Popped

LEMMA PoolStep ==
  ASSUME NEW w, OneWorker(w), TypeOK, QueueInv, OneWorkerInv(w), [Next]_vars
  PROVE  [Pool!PoolNext]_(Pool!poolVars)
  <1>0. /\ pc \in [Jobs -> Label] /\ queue \in Seq(Jobs) /\ Workers = {w} /\ w \in Workers
        /\ cap \in [Workers -> Limits]
    BY DEF TypeOK, QueueTypeOK, JobTypeOK, OneWorker
  <1> USE DEF Popped, Pool!poolVars, Pool!PoolNext
  <1>a. ASSUME UNCHANGED <<queue, pc>> PROVE [Pool!PoolNext]_(Pool!poolVars)
    BY <1>a, PoolStutter DEF HolderJobs
  <1>b. ASSUME NEW k \in DOMAIN queue, queue' = RemoveAt(queue, k), UNCHANGED pc
        PROVE  [Pool!PoolNext]_(Pool!poolVars)
    <2>1. Pool!Withdraw(k)
      BY <1>b DEF Pool!Withdraw, RemoveAt, HolderJobs
    <2> QED BY <1>b, <2>1
  <1>1. ASSUME NEW j \in Jobs, EnqueueHash(j) \/ PveStep(j)
        PROVE  [Pool!PoolNext]_(Pool!poolVars)
    BY <1>1, <1>a DEF EnqueueHash, CreateJob, PveStep, Pve, PveBootsLiveGuest, PveTaskEnds
  <1>2. ASSUME NEW j \in Jobs, EnqueuePush(j) PROVE [Pool!PoolNext]_(Pool!poolVars)
    <2>1. pc[j] = "none" /\ \A k \in DOMAIN queue : queue[k] # j
      BY <1>2 DEF EnqueuePush, QueueInv
    <2>2. Pool!Offer(j)
      BY <1>2, <2>1 DEF EnqueuePush, Pool!Offer, HolderJobs
    <2> QED BY <2>2
  <1>3. ASSUME NEW j \in Jobs, StopStep(j) PROVE [Pool!PoolNext]_(Pool!poolVars)
    <2>1. CASE StopMark(j)
      BY <2>1, <1>a, <1>b DEF StopMark
    <2>2. CASE ~StopMark(j)
      BY <1>3, <2>2, <1>a DEF StopStep, StopRead, StopReread, StopCancel
    <2> QED BY <2>1, <2>2
  <1>4. ASSUME NEW j \in Jobs, ThreadStep(j) PROVE [Pool!PoolNext]_(Pool!poolVars)
    <2>1. CASE ThreadReleaseSlot(j)
      <3>1. UNCHANGED queue /\ HolderJobs' = HolderJobs \ {j}
        BY <2>1, ReleaseHolders DEF ThreadReleaseSlot
      <3>2. Popped' = Popped
        BY <1>0, <2>1 DEF ThreadReleaseSlot, Goto
      <3>3. Pool!Finish(j)
        BY <3>1, <3>2 DEF Pool!Finish
      <3> QED BY <3>3
    <2>2. CASE ProcessJob(j) /\ UNCHANGED OutsideJob
      <3>1. HolderJobs' = HolderJobs /\ Popped' = Popped
        BY <1>0, <2>2, ProcessJobRuns DEF HolderJobs, TypeOK, Running
      <3> QED BY <2>2, <3>1, PoolStutter
    <2>3. CASE ThreadClampSlots(j)
      BY <2>3 DEF ThreadClampSlots, OneWorkerInv, NoClamp
    <2> QED BY <1>4, <2>1, <2>2, <2>3 DEF ThreadStep
  <1>5. CASE WorkerStep(w)
    <2>1. CASE Claim(w)
      <3>1. /\ queue # <<>> /\ queue' = Tail(queue) /\ wpc[w] = "pop"
            /\ pc' = [pc EXCEPT ![Head(queue)] = "check"]
        BY <2>1 DEF Claim
      <3>2. /\ Head(queue) \in Jobs /\ pc[Head(queue)] = "none"
            /\ HolderJobs' = HolderJobs \cup {Head(queue)}
        BY <1>0, <2>1, <3>1, ClaimHolders, PoppedOffQueue
      <3>3. Head(queue) \notin Popped /\ Popped' = Popped \cup {Head(queue)}
        BY <1>0, <3>1, <3>2
      <3>4. cap[w] \in Limits /\ Cardinality(HolderJobs) < cap[w]
        BY <1>0, <3>1 DEF OneWorkerInv, ClaimWithinLimit
      <3>5. \E n \in Limits : Cardinality(HolderJobs) < n
        BY <3>4
      <3>6. Pool!Claim
        <4>1. queue # <<>> /\ Head(queue) \notin Popped
          BY <3>1, <3>3
        <4>2. HolderJobs' = HolderJobs \cup {Head(queue)}
          BY <3>2
        <4>3. Popped' = Popped \cup {Head(queue)} /\ queue' = Tail(queue)
          BY <3>1, <3>3
        <4>4. Pool!Cardinality(HolderJobs) = Cardinality(HolderJobs)
          BY Zenon DEF Pool!Cardinality, Cardinality
        <4>5. \E n \in Limits : Pool!Cardinality(HolderJobs) < n
          BY <4>4, <3>5
        <4> QED BY <4>1, <4>2, <4>3, <4>5 DEF Pool!Claim
      <3> QED BY <3>6
    <2>2. CASE ~Claim(w)
      BY <1>5, <2>2, <1>a DEF WorkerStep, WorkerStart, CountRestoring, SetSlots, CheckPaused,
         ReadLimit, AcquireSlot, RollbackSlot, PopTimeout, ReleaseSlot, ClampSlots
    <2> QED BY <2>1, <2>2
  <1>6. CASE CrashWorker(w)
    <2>1. HolderJobs' = {}
      BY <1>0, <1>6 DEF CrashWorker, OneWorkerInv, OwnerInv, HolderJobs, Running
    <2>2. Popped' = Popped /\ UNCHANGED queue
      BY <1>0, <1>6 DEF CrashWorker, Running
    <2>3. Pool!Abandon
      BY <2>1, <2>2 DEF Pool!Abandon
    <2> QED BY <2>3
  <1>7. CASE PauseQueue \/ ResumeQueue \/ SetLimit \/ DrainStart \/ CrashApi \/ UNCHANGED vars
    BY <1>7, <1>a DEF PauseQueue, ResumeQueue, SetLimit, DrainStart, CrashApi
  <1>8. CASE DrainStep
    <2>1. CASE DrainPop
      <3>1. Pool!Discard
        BY <2>1 DEF DrainPop, Pool!Discard, HolderJobs
      <3> QED BY <3>1
    <2>2. CASE ~DrainPop
      BY <1>8, <2>2, <1>a DEF DrainStep, DrainCheck, DrainCancel, DrainEmpty, DrainScan,
         DrainSweep, DrainEnd
    <2> QED BY <2>1, <2>2
  <1> HIDE DEF Pool!PoolNext, Pool!poolVars
  <1> QED
    <2>1. CASE \E j \in Jobs : EnqueueHash(j) \/ EnqueuePush(j) \/ StopStep(j)
      BY <1>1, <1>2, <1>3, <2>1
    <2>2. CASE \E j \in Jobs : ThreadStep(j) \/ PveStep(j)
      BY <1>1, <1>4, <2>2
    <2>3. CASE \E v \in Workers : WorkerStep(v) \/ CrashWorker(v)
      BY <1>0, <1>5, <1>6, <2>3
    <2> QED BY <1>7, <1>8, <2>1, <2>2, <2>3 DEF Next

\* One worker process implements the bounded FIFO pool: every job is claimed in
\* queue order, within the limit, at most once, never after it was withdrawn.
THEOREM PoolRefined ==
  ASSUME NEW w, OneWorker(w)
  PROVE  Spec => PoolImplemented
  <1>1. Init => Pool!PoolInit
    <2> SUFFICES ASSUME Init PROVE Pool!PoolInit
      OBVIOUS
    <2>1. queue = <<>> /\ \A j \in Jobs : pc[j] = "none"
      BY DEF Init, JobInit
    <2> QED BY <2>1 DEF Pool!PoolInit, HolderJobs, Running
  <1>2. TypeOK /\ QueueInv /\ OneWorkerInv(w) /\ [Next]_vars => [Pool!PoolNext]_(Pool!poolVars)
    BY PoolStep
  <1> QED
    BY <1>1, <1>2, OneWorkerInvariant, PTL DEF Spec, PoolImplemented, Pool!PoolSpec
=============================================================================
