--------------------------- MODULE RestoreStopProofs ---------------------------
(* What a stop request and a pause promise, for any number of jobs and     *)
(* workers, whatever is killed.                                            *)
EXTENDS RestorePipelineProofs

USE DEF jobVars, queueVars, workerVars, apiVars, bounds, history, vars,
        stopRest, drainRest, OutsideJob, result, task, guest

-----------------------------------------------------------------------------
(* A job marked for a stop early enough is trapped: from the labels of     *)
(* StopTrap a thread that sees cancel_requested reaches only such labels.  *)

LEMMA ProcessJobStopInv ==
  ASSUME TypeOK, PipelineInv, StopInv, NEW j \in Jobs, ProcessJob(j), UNCHANGED OutsideJob
  PROVE  StopInv'
  <1>0. JobTypeOK
    BY DEF TypeOK
  <1> USE DEF JobTypeOK, Goto, StopInv, Trapped, StopTrap, Ended
  <1>1. CASE CheckCancel(j)    BY <1>0, <1>1 DEF CheckCancel
  <1>2. CASE MarkCancelled(j)  BY <1>0, <1>2 DEF MarkCancelled
  <1>3. CASE Begin(j)          BY <1>0, <1>3 DEF Begin
  <1>4. CASE Submit(j)         BY <1>0, <1>4 DEF Submit, StartTask
  <1>5. CASE WaitForTask(j)    BY <1>0, <1>5 DEF WaitForTask
  <1>6. CASE PollTask(j)       BY <1>0, <1>6 DEF PollTask
  <1>7. CASE Stamp(j)          BY <1>0, <1>7 DEF Stamp
  <1>8. CASE IsolateNetwork(j) BY <1>0, <1>8 DEF IsolateNetwork
  <1>9. CASE Power(j)          BY <1>0, <1>9 DEF Power, StartTask
  <1>10. CASE AwaitAgent(j)    BY <1>0, <1>10 DEF AwaitAgent
  <1>11. CASE AgentSilent(j)   BY <1>0, <1>11 DEF AgentSilent
  <1>12. CASE AgentWaitEnds(j) BY <1>0, <1>12 DEF AgentWaitEnds
  <1>13. CASE HttpCheck(j)     BY <1>0, <1>13 DEF HttpCheck
  <1>14. CASE Complete(j)      BY <1>0, <1>14 DEF Complete
  <1>15. CASE Fail(j)          BY <1>0, <1>15 DEF Fail
  <1> QED
    BY <1>1, <1>2, <1>3, <1>4, <1>5, <1>6, <1>7, <1>8, <1>9, <1>10, <1>11,
       <1>12, <1>13, <1>14, <1>15 DEF ProcessJob

LEMMA StopStepStopInv ==
  ASSUME TypeOK, PipelineInv, StopInv, NEW j \in Jobs, StopStep(j)
  PROVE  StopInv'
  <1>0. /\ JobTypeOK /\ StateInv /\ TaskInv
        /\ stopPc \in [Jobs -> {"idle", "mark", "reread", "cancel"}]
        /\ stopped \in [Jobs -> Label \cup {"never"}]
    BY DEF TypeOK, QueueTypeOK, PipelineInv
  <1> USE DEF StopInv, Trapped, StopTrap, Ended
  <1>1. CASE StopRead(j)
    BY <1>0, <1>1 DEF StopRead
  <1>2. CASE StopMark(j)
    <2>1. /\ cancelRequested' = [cancelRequested EXCEPT ![j] = TRUE]
          /\ stopped' = [stopped EXCEPT ![j] = IF @ = "never" THEN pc[j] ELSE @]
          /\ stopPc' = [stopPc EXCEPT ![j] = "reread"]
          /\ UNCHANGED <<state, pc, taskKind>>
      BY <1>2 DEF StopMark
    <2>2. pc[j] \in {"none", "check", "begin", "submit", "wait"} => state[j] # "COMPLETED"
      BY <1>0 DEF StateInv
    <2>3. pc[j] \in {"none", "check"} => taskKind[j] = "none"
      BY <1>0 DEF TaskInv, BeforeSubmit
    <2>4. \A i \in Jobs \ {j} : /\ cancelRequested'[i] = cancelRequested[i]
                                /\ stopped'[i] = stopped[i] /\ stopPc'[i] = stopPc[i]
      BY <1>0, <2>1 DEF JobTypeOK
    <2>5. /\ cancelRequested'[j] /\ stopPc'[j] = "reread"
          /\ stopped'[j] = IF stopped[j] = "never" THEN pc[j] ELSE stopped[j]
      BY <1>0, <2>1 DEF JobTypeOK
    <2> QED BY <2>1, <2>2, <2>3, <2>4, <2>5
  <1>3. CASE StopReread(j)
    BY <1>0, <1>3 DEF StopReread, StateInv
  <1>4. CASE StopCancel(j)
    BY <1>0, <1>4 DEF StopCancel, JobTypeOK
  <1> QED BY <1>1, <1>2, <1>3, <1>4 DEF StopStep

LEMMA StopInvStep ==
  ASSUME TypeOK, QueueInv, PipelineInv, StopInv, [Next]_vars
  PROVE  StopInv'
  <1>0. JobTypeOK /\ StateInv
    BY DEF TypeOK, PipelineInv
  <1>a. ASSUME UNCHANGED <<cancelRequested, taskKind, stopPc, stopped>>,
               \A i \in Jobs : /\ pc'[i] \in {pc[i], "dead"}
                               /\ state'[i] \in {state[i], "CANCELLED", "PENDING"}
        PROVE  StopInv'
    BY <1>a DEF StopInv, Trapped, StopTrap, Ended
  <1>1. ASSUME NEW j \in Jobs, EnqueueHash(j) \/ EnqueuePush(j) PROVE StopInv'
    BY <1>0, <1>1, <1>a DEF EnqueueHash, CreateJob, EnqueuePush, JobTypeOK
  <1>2. ASSUME NEW j \in Jobs, StopStep(j) PROVE StopInv'
    BY <1>2, StopStepStopInv
  <1>3. ASSUME NEW j \in Jobs, ThreadStep(j) PROVE StopInv'
    <2>1. CASE ThreadReleaseSlot(j) \/ ThreadClampSlots(j)
      BY <1>0, <2>1 DEF ThreadReleaseSlot, ThreadClampSlots, Goto, JobTypeOK, StopInv, Trapped,
         StopTrap, Ended
    <2>2. CASE ProcessJob(j) /\ UNCHANGED OutsideJob
      BY <2>2, ProcessJobStopInv
    <2> QED BY <1>3, <2>1, <2>2 DEF ThreadStep
  <1>4. ASSUME NEW j \in Jobs, PveStep(j) PROVE StopInv'
    BY <1>4, <1>a DEF PveStep, Pve, PveBootsLiveGuest, PveTaskEnds
  <1>5. ASSUME NEW w \in Workers, WorkerStep(w) PROVE StopInv'
    <2>1. CASE Claim(w)
      <3>1. /\ Head(queue) \in Jobs /\ pc[Head(queue)] = "none"
            /\ pc' = [pc EXCEPT ![Head(queue)] = "check"]
            /\ UNCHANGED <<state, cancelRequested, taskKind, stopPc, stopped>>
        BY <2>1, PoppedOffQueue DEF Claim
      <3> QED BY <1>0, <3>1 DEF JobTypeOK, StopInv, Trapped, StopTrap, Ended
    <2>2. CASE ~Claim(w)
      BY <1>5, <2>2, <1>a
      DEF WorkerStep, WorkerStart, CountRestoring, SetSlots, CheckPaused, ReadLimit,
          AcquireSlot, RollbackSlot, PopTimeout, ReleaseSlot, ClampSlots
    <2> QED BY <2>1, <2>2
  <1>6. ASSUME NEW w \in Workers, CrashWorker(w) PROVE StopInv'
    BY <1>0, <1>6, <1>a DEF CrashWorker
  <1>7. CASE CrashApi
    BY <1>7 DEF CrashApi, StopInv, Trapped
  <1>8. CASE PauseQueue \/ ResumeQueue \/ SetLimit \/ DrainStart \/ UNCHANGED vars
    BY <1>8, <1>a DEF PauseQueue, ResumeQueue, SetLimit, DrainStart
  <1>9. CASE DrainStep
    BY <1>0, <1>9, <1>a DEF DrainStep, DrainPop, DrainCheck, DrainCancel, DrainEmpty, DrainScan,
       DrainSweep, DrainEnd, WriteCancelled
  <1> QED
    <2>1. CASE \E j \in Jobs : EnqueueHash(j) \/ EnqueuePush(j) \/ StopStep(j)
      BY <1>1, <1>2, <2>1
    <2>2. CASE \E j \in Jobs : ThreadStep(j) \/ PveStep(j)
      BY <1>3, <1>4, <2>2
    <2>3. CASE \E w \in Workers : WorkerStep(w) \/ CrashWorker(w)
      BY <1>5, <1>6, <2>3
    <2> QED BY <1>7, <1>8, <1>9, <2>1, <2>2, <2>3 DEF Next

THEOREM StopInvariant == Spec => [](TypeOK /\ PipelineInv /\ StopInv)
  <1>1. Init => StopInv
    <2> SUFFICES ASSUME Init PROVE StopInv
      OBVIOUS
    <2>1. \A j \in Jobs : stopped[j] = "never" /\ stopPc[j] = "idle"
      BY DEF Init
    <2> QED BY <2>1 DEF StopInv
  <1>2. TypeOK /\ QueueInv /\ PipelineInv /\ StopInv /\ [Next]_vars => StopInv'
    BY StopInvStep
  <1> QED
    BY <1>1, <1>2, PipelineInvariant, PTL DEF Spec

\* A stop request marked while the job is queued, or before its thread looks at
\* cancel_requested, keeps the job away from Proxmox: nothing is ever submitted.
THEOREM StoppedInTime == Spec => []StopPreventsRestore
  <1>1. StopInv => StopPreventsRestore
    BY DEF StopInv, StopPreventsRestore
  <1> QED
    BY <1>1, StopInvariant, PTL

\* A stop request marked before the last look at cancel_requested of a
\* wait_for_task never ends in COMPLETED.
THEOREM StoppedNeverCompletes == Spec => []StopPreventsCompletion
  <1>1. StopInv => StopPreventsCompletion
    BY DEF StopInv, Trapped, StopPreventsCompletion
  <1> QED
    BY <1>1, StopInvariant, PTL

-----------------------------------------------------------------------------
(* Without drains, COMPLETED is final.                                     *)

LEMMA CompletedKept ==
  ASSUME TypeOK, PipelineInv, StopInv, drainPc = "idle", [Next]_vars,
         NEW i \in Jobs, state[i] = "COMPLETED"
  PROVE  state'[i] = "COMPLETED"
  <1>0. state \in [Jobs -> RestoreState \cup {"NONE"}] /\ pc[i] \in Ended
    BY DEF TypeOK, JobTypeOK, PipelineInv, StateInv
  <1>1. ASSUME NEW j \in Jobs, EnqueueHash(j) \/ EnqueuePush(j) PROVE state'[i] = "COMPLETED"
    BY <1>0, <1>1 DEF EnqueueHash, CreateJob, EnqueuePush
  <1>2. ASSUME NEW j \in Jobs, StopStep(j) PROVE state'[i] = "COMPLETED"
    <2>1. CASE StopCancel(j)
      BY <1>0, <2>1 DEF StopCancel, StopInv, Trapped
    <2>2. CASE ~StopCancel(j)
      BY <1>0, <1>2, <2>2 DEF StopStep, StopRead, StopMark, StopReread
    <2> QED BY <2>1, <2>2
  <1>3. ASSUME NEW j \in Jobs, ThreadStep(j) PROVE state'[i] = "COMPLETED"
    <2>1. j = i => state' = state
      BY <1>0, <1>3 DEF Ended, ThreadStep, ThreadReleaseSlot, ThreadClampSlots, ProcessJob,
         CheckCancel, MarkCancelled, Begin, Submit, WaitForTask, PollTask, Stamp,
         IsolateNetwork, Power, AwaitAgent, AgentSilent, AgentWaitEnds, HttpCheck, Complete, Fail
    <2>2. j # i => state'[i] = state[i]
      BY <1>0, <1>3 DEF ThreadStep, ThreadReleaseSlot, ThreadClampSlots, ProcessJob,
         CheckCancel, MarkCancelled, Begin, Submit, WaitForTask, PollTask, Stamp,
         IsolateNetwork, Power, AwaitAgent, AgentSilent, AgentWaitEnds, HttpCheck, Complete, Fail
    <2> QED BY <2>1, <2>2
  <1>4. ASSUME NEW j \in Jobs, PveStep(j) PROVE state'[i] = "COMPLETED"
    BY <1>4 DEF PveStep, Pve, PveBootsLiveGuest, PveTaskEnds
  <1>5. ASSUME NEW w \in Workers, WorkerStep(w) \/ CrashWorker(w) PROVE state'[i] = "COMPLETED"
    BY <1>5
    DEF WorkerStep, WorkerStart, CountRestoring, SetSlots, CheckPaused, ReadLimit, Claim,
        AcquireSlot, RollbackSlot, PopTimeout, ReleaseSlot, ClampSlots, CrashWorker
  <1>6. CASE PauseQueue \/ ResumeQueue \/ SetLimit \/ DrainStart \/ CrashApi \/ UNCHANGED vars
    BY <1>6 DEF PauseQueue, ResumeQueue, SetLimit, DrainStart, CrashApi
  <1>7. ~DrainStep
    BY DEF DrainStep, DrainPop, DrainCheck, DrainCancel, DrainEmpty, DrainScan, DrainSweep, DrainEnd
  <1> QED
    <2>1. CASE \E j \in Jobs : EnqueueHash(j) \/ EnqueuePush(j) \/ StopStep(j)
      BY <1>1, <1>2, <2>1
    <2>2. CASE \E j \in Jobs : ThreadStep(j) \/ PveStep(j)
      BY <1>3, <1>4, <2>2
    <2>3. CASE \E w \in Workers : WorkerStep(w) \/ CrashWorker(w)
      BY <1>5, <2>3
    <2> QED BY <1>6, <1>7, <2>1, <2>2, <2>3 DEF Next

LEMMA NoDrainStep ==
  ASSUME MaxDrains = 0, TypeOK, drainPc = "idle", [Next]_vars
  PROVE  drainPc' = "idle"
  <1>1. drains \in Nat
    BY DEF TypeOK, QueueTypeOK
  <1>2. ~DrainStart
    BY <1>1 DEF DrainStart
  <1>3. ~DrainStep
    BY DEF DrainStep, DrainPop, DrainCheck, DrainCancel, DrainEmpty, DrainScan, DrainSweep, DrainEnd
  <1>4. ASSUME NEW j \in Jobs,
               EnqueueHash(j) \/ EnqueuePush(j) \/ StopStep(j) \/ ThreadStep(j) \/ PveStep(j)
        PROVE  drainPc' = "idle"
    BY <1>4 DEF EnqueueHash, EnqueuePush, StopStep, StopRead, StopMark, StopReread, StopCancel,
       ThreadStep, ThreadReleaseSlot, ThreadClampSlots, PveStep
  <1>5. ASSUME NEW w \in Workers, WorkerStep(w) \/ CrashWorker(w) PROVE drainPc' = "idle"
    BY <1>5
    DEF WorkerStep, WorkerStart, CountRestoring, SetSlots, CheckPaused, ReadLimit, Claim,
        AcquireSlot, RollbackSlot, PopTimeout, ReleaseSlot, ClampSlots, CrashWorker
  <1>6. CASE PauseQueue \/ ResumeQueue \/ SetLimit \/ CrashApi \/ UNCHANGED vars
    BY <1>6 DEF PauseQueue, ResumeQueue, SetLimit, CrashApi
  <1> QED
    <2>1. CASE \E j \in Jobs : EnqueueHash(j) \/ EnqueuePush(j) \/ StopStep(j)
      BY <1>4, <2>1
    <2>2. CASE \E j \in Jobs : ThreadStep(j) \/ PveStep(j)
      BY <1>4, <2>2
    <2>3. CASE \E w \in Workers : WorkerStep(w) \/ CrashWorker(w)
      BY <1>5, <2>3
    <2> QED BY <1>2, <1>3, <1>6, <2>1, <2>2, <2>3 DEF Next

\* As long as no drain is asked for, no write of the API that comes late and no
\* thread ever overwrites COMPLETED (the drain does: it reads PENDING and writes
\* CANCELLED without a word to the thread).
THEOREM CompletedStays ==
  ASSUME MaxDrains = 0
  PROVE  Spec => CompletedIsFinal
  <1>1. Init => drainPc = "idle"
    BY DEF Init
  <1>2. TypeOK /\ drainPc = "idle" /\ [Next]_vars => (drainPc = "idle")'
    BY NoDrainStep
  <1>3. TypeOK /\ PipelineInv /\ StopInv /\ drainPc = "idle" /\ [Next]_vars
          => [\A j \in Jobs : state[j] = "COMPLETED" => state'[j] = "COMPLETED"]_state
    BY CompletedKept
  <1> QED
    BY <1>1, <1>2, <1>3, StopInvariant, PTL DEF Spec, CompletedIsFinal

-----------------------------------------------------------------------------
(* A pause.                                                                *)

LEMMA PauseInvStep ==
  ASSUME TypeOK, PauseInv, [Next]_vars
  PROVE  PauseInv'
  <1>0. /\ wpc \in [Workers -> WorkerLabel] /\ claimed \in [Workers -> Nat]
        /\ paused \in BOOLEAN
    BY DEF TypeOK, QueueTypeOK
  <1>1. ASSUME NEW j \in Jobs,
               EnqueueHash(j) \/ EnqueuePush(j) \/ StopStep(j) \/ ThreadStep(j) \/ PveStep(j)
        PROVE  PauseInv'
    <2>1. UNCHANGED <<paused, claimed, wpc>>
      BY <1>1 DEF EnqueueHash, EnqueuePush, StopStep, StopRead, StopMark, StopReread, StopCancel,
         ThreadStep, ThreadReleaseSlot, ThreadClampSlots, PveStep
    <2> QED BY <2>1 DEF PauseInv
  <1>2. ASSUME NEW w \in Workers, WorkerStep(w) PROVE PauseInv'
    <2> USE DEF PauseInv, WorkerGoto
    <2>1. CASE Claim(w)
      <3>1. /\ wpc[w] = "pop" /\ wpc' = [wpc EXCEPT ![w] = "loop"] /\ paused' = paused
            /\ claimed' = [claimed EXCEPT ![w] = IF paused THEN @ + 1 ELSE @]
        BY <2>1 DEF Claim
      <3>2. claimed[w] = 0
        BY <1>0, <3>1
      <3>3. \A v \in Workers \ {w} : claimed'[v] = claimed[v] /\ wpc'[v] = wpc[v]
        BY <1>0, <3>1
      <3>4. wpc'[w] = "loop" /\ claimed'[w] = IF paused THEN 1 ELSE 0
        BY <1>0, <3>1, <3>2
      <3> QED BY <3>1, <3>3, <3>4
    <2>2. CASE CheckPaused(w)
      BY <1>0, <2>2 DEF CheckPaused
    <2>3. CASE ReadLimit(w)
      BY <1>0, <2>3 DEF ReadLimit
    <2>4. CASE AcquireSlot(w)
      BY <1>0, <2>4 DEF AcquireSlot
    <2>5. CASE ~(Claim(w) \/ CheckPaused(w) \/ ReadLimit(w) \/ AcquireSlot(w))
      <3>1. UNCHANGED <<paused, claimed>>
        BY <1>2, <2>5 DEF WorkerStep, WorkerStart, CountRestoring, SetSlots, RollbackSlot,
           PopTimeout, ReleaseSlot, ClampSlots
      <3>2. PICK label \in {"count", "set", "loop", "release", "clamp"} :
               wpc' = [wpc EXCEPT ![w] = label]
        BY <1>2, <2>5 DEF WorkerStep, WorkerStart, CountRestoring, SetSlots, RollbackSlot,
           PopTimeout, ReleaseSlot, ClampSlots
      <3> QED BY <1>0, <3>1, <3>2
    <2> QED BY <2>1, <2>2, <2>3, <2>4, <2>5
  <1>3. ASSUME NEW w \in Workers, CrashWorker(w) PROVE PauseInv'
    BY <1>0, <1>3 DEF CrashWorker, WorkerGoto, PauseInv
  <1>4. CASE ResumeQueue
    BY <1>0, <1>4 DEF ResumeQueue, PauseInv
  <1>5. CASE PauseQueue \/ DrainStart
    <2>1. paused' /\ UNCHANGED <<claimed, wpc>>
      BY <1>5 DEF PauseQueue, DrainStart
    <2> QED BY <2>1 DEF PauseInv
  <1>6. CASE SetLimit \/ CrashApi \/ DrainStep \/ UNCHANGED vars
    <2>1. UNCHANGED <<paused, claimed, wpc>>
      BY <1>6 DEF SetLimit, CrashApi, DrainStep, DrainPop, DrainCheck, DrainCancel, DrainEmpty,
         DrainScan, DrainSweep, DrainEnd
    <2> QED BY <2>1 DEF PauseInv
  <1> QED
    <2>1. CASE \E j \in Jobs : EnqueueHash(j) \/ EnqueuePush(j) \/ StopStep(j)
      BY <1>1, <2>1
    <2>2. CASE \E j \in Jobs : ThreadStep(j) \/ PveStep(j)
      BY <1>1, <2>2
    <2>3. CASE \E w \in Workers : WorkerStep(w) \/ CrashWorker(w)
      BY <1>2, <1>3, <2>3
    <2> QED BY <1>4, <1>5, <1>6, <2>1, <2>2, <2>3 DEF Next

\* Between a pause and the resume each worker pops at most the one job it was
\* about to pop when the flag was set (worker_loop: "Pause: no new claims").
THEOREM PauseHolds == Spec => []PauseStopsClaims
  <1>1. Init => PauseInv
    <2> SUFFICES ASSUME Init PROVE PauseInv
      OBVIOUS
    <2>1. \A w \in Workers : claimed[w] = 0
      BY DEF Init
    <2> QED BY <2>1 DEF PauseInv
  <1>2. TypeOK /\ PauseInv /\ [Next]_vars => PauseInv'
    BY PauseInvStep
  <1>3. PauseInv => PauseStopsClaims
    BY DEF PauseInv, PauseStopsClaims
  <1> QED
    BY <1>1, <1>2, <1>3, TypeCorrect, PTL DEF Spec
=============================================================================
