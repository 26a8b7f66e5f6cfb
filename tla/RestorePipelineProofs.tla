------------------------- MODULE RestorePipelineProofs -------------------------
(* Theorems about RestoreQueue, for every set of jobs and workers, every   *)
(* limit and every bound: its types, and what COMPLETED proves, from the   *)
(* invariant of the queue and of the pipeline of a job.                    *)
EXTENDS RestoreQueue, FiniteSetTheorems, TLAPS

USE DEF jobVars, queueVars, workerVars, apiVars, bounds, history, vars,
        stopRest, drainRest, OutsideJob, result, task, guest

-----------------------------------------------------------------------------
LEMMA InitTypeOK == Init => TypeOK
  <1> SUFFICES ASSUME Init PROVE TypeOK
    OBVIOUS
  <1>1. JobTypeOK
    <2>1. options \in [Jobs -> JobRequest]
      BY DEF Init, JobInit, JobRequest
    <2>2. state \in [Jobs -> RestoreState \cup {"NONE"}] /\ pc \in [Jobs -> Label]
      BY DEF Init, JobInit, Label
    <2>3. cancelRequested \in [Jobs -> BOOLEAN]
      BY DEF Init, JobInit
    <2>4. /\ managedMarked \in [Jobs -> Flag]
          /\ qgaOk \in [Jobs -> Flag]
          /\ httpCheckOk \in [Jobs -> Flag]
      BY DEF Init, JobInit, Flag
    <2>5. /\ taskKind \in [Jobs -> {"none", "restore", "start"}]
          /\ taskStatus \in [Jobs -> {"none", "running", "ok", "failed"}]
      BY DEF Init, JobInit
    <2>6. /\ booted \in [Jobs -> BOOLEAN]
          /\ isolated \in [Jobs -> BOOLEAN]
          /\ managed \in [Jobs -> BOOLEAN]
      BY DEF Init, JobInit
    <2> QED BY <2>1, <2>2, <2>3, <2>4, <2>5, <2>6 DEF JobTypeOK
  <1>2. QueueTypeOK
    <2>1. cap \in [Workers -> Limits] /\ limit \in Limits
      BY DEF Init
    <2>2. queue \in Seq(Jobs)
      BY DEF Init
    <2>3. owner \in [Jobs -> SUBSET Workers]
      BY DEF Init
    <2>4. wpc \in [Workers -> WorkerLabel] /\ counted \in [Workers -> Nat]
      BY DEF Init, WorkerLabel
    <2>5. stopPc \in [Jobs -> {"idle", "mark", "reread", "cancel"}] /\ drainPc \in DrainLabel
      BY DEF Init, DrainLabel
    <2>6. claimed \in [Workers -> Nat] /\ stopped \in [Jobs -> Label \cup {"never"}]
      BY DEF Init
    <2>7. paused \in BOOLEAN
      BY DEF Init
    <2>10. slots \in Int
      BY DEF Init
    <2>8. pushing \subseteq Jobs /\ held \subseteq Jobs /\ unseen \subseteq Jobs
      BY DEF Init
    <2>9. changes \in Nat /\ stops \in Nat /\ drains \in Nat /\ crashes \in Nat
      BY DEF Init
    <2> QED BY <2>1, <2>2, <2>3, <2>4, <2>5, <2>6, <2>7, <2>8, <2>9, <2>10
           DEF QueueTypeOK
  <1> QED BY <1>1, <1>2 DEF TypeOK

LEMMA RemoveAtType ==
  ASSUME NEW S, NEW q \in Seq(S), NEW k \in DOMAIN q
  PROVE  RemoveAt(q, k) \in Seq(S)
  BY DEF RemoveAt

LEMMA ProcessJobTypeOK ==
  ASSUME JobTypeOK, NEW j \in Jobs, ProcessJob(j)
  PROVE  JobTypeOK'
  <1> USE DEF JobTypeOK, Goto, Label, Running
  <1>0. "0" \in Flag /\ "1" \in Flag  BY DEF Flag
  <1>1. CASE CheckCancel(j)    BY <1>1 DEF CheckCancel
  <1>2. CASE MarkCancelled(j)  BY <1>2 DEF MarkCancelled, RestoreState
  <1>3. CASE Begin(j)          BY <1>3 DEF Begin, RestoreState
  <1>4. CASE Submit(j)         BY <1>4 DEF Submit, StartTask
  <1>5. CASE WaitForTask(j)    BY <1>5 DEF WaitForTask
  <1>6. CASE PollTask(j)       BY <1>6 DEF PollTask
  <1>7. CASE Stamp(j)
    <2>1. managedMarked' \in [Jobs -> Flag]  BY <1>0, <1>7 DEF Stamp
    <2>2. managed' \in [Jobs -> BOOLEAN]     BY <1>7 DEF Stamp
    <2>3. pc' \in [Jobs -> Label]            BY <1>7 DEF Stamp
    <2> QED BY <1>7, <2>1, <2>2, <2>3 DEF Stamp
  <1>8. CASE IsolateNetwork(j) BY <1>8 DEF IsolateNetwork
  <1>9. CASE Power(j)
    <2>1. booted' \in [Jobs -> BOOLEAN]      BY <1>9 DEF Power
    <2>2. /\ taskKind' \in [Jobs -> {"none", "restore", "start"}]
          /\ taskStatus' \in [Jobs -> {"none", "running", "ok", "failed"}]
      BY <1>9 DEF Power, StartTask
    <2>3. pc' \in [Jobs -> Label]            BY <1>9 DEF Power
    <2> QED BY <1>9, <2>1, <2>2, <2>3 DEF Power
  <1>10. CASE AwaitAgent(j)    BY <1>10 DEF AwaitAgent
  <1>11. CASE AgentSilent(j)   BY <1>11 DEF AgentSilent
  <1>12. CASE AgentWaitEnds(j)
    <2>1. qgaOk' \in [Jobs -> Flag]          BY <1>0, <1>12 DEF AgentWaitEnds
    <2>2. pc' \in [Jobs -> Label]            BY <1>12 DEF AgentWaitEnds
    <2> QED BY <1>12, <2>1, <2>2 DEF AgentWaitEnds
  <1>13. CASE HttpCheck(j)
    <2>1. httpCheckOk' \in [Jobs -> Flag]
      <3>1. \/ httpCheckOk' = httpCheckOk
            \/ httpCheckOk' = [httpCheckOk EXCEPT ![j] = "1"]
            \/ httpCheckOk' = [httpCheckOk EXCEPT ![j] = "0"]
        BY <1>13 DEF HttpCheck
      <3> QED BY <3>1 DEF Flag
    <2>2. pc' \in [Jobs -> Label]
      <3>1. pc' = [pc EXCEPT ![j] = "complete"] \/ pc' = [pc EXCEPT ![j] = "fail"]
        BY <1>13 DEF HttpCheck
      <3> QED BY <3>1
    <2> QED BY <1>13, <2>1, <2>2 DEF HttpCheck
  <1>14. CASE Complete(j)      BY <1>14 DEF Complete, RestoreState
  <1>15. CASE Fail(j)          BY <1>15 DEF Fail, RestoreState
  <1> QED
    BY <1>1, <1>2, <1>3, <1>4, <1>5, <1>6, <1>7, <1>8, <1>9, <1>10, <1>11,
       <1>12, <1>13, <1>14, <1>15 DEF ProcessJob

LEMMA PveTypeOK ==
  ASSUME JobTypeOK, NEW j \in Jobs, Pve(j)
  PROVE  JobTypeOK'
  <1>1. CASE PveBootsLiveGuest(j)
    BY <1>1 DEF PveBootsLiveGuest, JobTypeOK
  <1>2. CASE PveTaskEnds(j)
    <2>1. taskStatus' \in [Jobs -> {"none", "running", "ok", "failed"}]
      BY <1>2 DEF PveTaskEnds, JobTypeOK
    <2>2. booted' \in [Jobs -> BOOLEAN]
      BY <1>2 DEF PveTaskEnds, JobTypeOK
    <2> QED BY <1>2, <2>1, <2>2 DEF PveTaskEnds, JobTypeOK
  <1> QED BY <1>1, <1>2 DEF Pve

\* The part of the type invariant about the queue, the workers and the API is
\* preserved by every step, one case per action.
LEMMA QueueStepTypeOK ==
  ASSUME TypeOK, [Next]_vars
  PROVE  QueueTypeOK'
  <1> USE DEF QueueTypeOK
  <1>0. QueueTypeOK /\ JobTypeOK
    BY DEF TypeOK
  <1>1. ASSUME NEW j \in Jobs, EnqueueHash(j) PROVE QueueTypeOK'
    BY <1>0, <1>1 DEF EnqueueHash
  <1>2. ASSUME NEW j \in Jobs, EnqueuePush(j) PROVE QueueTypeOK'
    BY <1>0, <1>2 DEF EnqueuePush
  <1>3. ASSUME NEW j \in Jobs, StopRead(j) PROVE QueueTypeOK'
    BY <1>0, <1>3 DEF StopRead
  <1>4. ASSUME NEW j \in Jobs, StopMark(j) PROVE QueueTypeOK'
    <2>1. queue' \in Seq(Jobs)
      BY <1>0, <1>4, RemoveAtType DEF StopMark
    <2>2. stopped' \in [Jobs -> Label \cup {"never"}]
      BY <1>0, <1>4 DEF StopMark, JobTypeOK
    <2> QED BY <1>0, <1>4, <2>1, <2>2 DEF StopMark
  <1>5. ASSUME NEW j \in Jobs, StopReread(j) PROVE QueueTypeOK'
    BY <1>0, <1>5 DEF StopReread
  <1>6. ASSUME NEW j \in Jobs, StopCancel(j) PROVE QueueTypeOK'
    BY <1>0, <1>6 DEF StopCancel
  <1>7. ASSUME NEW j \in Jobs, ThreadStep(j) PROVE QueueTypeOK'
    BY <1>0, <1>7 DEF ThreadStep, ThreadReleaseSlot, ThreadClampSlots
  <1>8. ASSUME NEW j \in Jobs, PveStep(j) PROVE QueueTypeOK'
    BY <1>0, <1>8 DEF PveStep
  <1>9. ASSUME NEW w \in Workers, WorkerStep(w) PROVE QueueTypeOK'
    <2> USE DEF WorkerGoto, WorkerLabel
    <2>1. CASE WorkerStart(w)   BY <1>0, <2>1 DEF WorkerStart
    <2>2. CASE CountRestoring(w)
      <3>1. Cardinality({j \in Jobs : state[j] = "RESTORING"}) \in Nat
        BY QueueAssumption, FS_Subset, FS_CardinalityType
      <3> QED BY <1>0, <2>2, <3>1 DEF CountRestoring
    <2>3. CASE SetSlots(w)      BY <1>0, <2>3 DEF SetSlots
    <2>4. CASE CheckPaused(w)   BY <1>0, <2>4 DEF CheckPaused
    <2>5. CASE ReadLimit(w)     BY <1>0, <2>5 DEF ReadLimit
    <2>6. CASE AcquireSlot(w)   BY <1>0, <2>6 DEF AcquireSlot
    <2>7. CASE RollbackSlot(w)  BY <1>0, <2>7 DEF RollbackSlot
    <2>8. CASE Claim(w)
      <3>1. Head(queue) \in Jobs /\ queue' \in Seq(Jobs)
        BY <1>0, <2>8 DEF Claim
      <3> QED BY <1>0, <2>8, <3>1 DEF Claim
    <2>9. CASE PopTimeout(w)    BY <1>0, <2>9 DEF PopTimeout
    <2>10. CASE ReleaseSlot(w)  BY <1>0, <2>10 DEF ReleaseSlot
    <2>11. CASE ClampSlots(w)   BY <1>0, <2>11 DEF ClampSlots
    <2> QED
      BY <1>9, <2>1, <2>2, <2>3, <2>4, <2>5, <2>6, <2>7, <2>8, <2>9, <2>10, <2>11
      DEF WorkerStep
  <1>10. ASSUME NEW w \in Workers, CrashWorker(w) PROVE QueueTypeOK'
    BY <1>0, <1>10 DEF CrashWorker, WorkerGoto, WorkerLabel
  <1>11. CASE CrashApi
    BY <1>0, <1>11 DEF CrashApi, DrainLabel
  <1>12. CASE PauseQueue \/ ResumeQueue \/ SetLimit
    <2>1. CASE PauseQueue
      <3>1. paused' \in BOOLEAN /\ changes' \in Nat
        BY <1>0, <2>1 DEF PauseQueue
      <3> QED BY <1>0, <2>1, <3>1 DEF PauseQueue
    <2>2. CASE ResumeQueue  BY <1>0, <2>2 DEF ResumeQueue
    <2>3. CASE SetLimit     BY <1>0, <2>3 DEF SetLimit
    <2> QED BY <1>12, <2>1, <2>2, <2>3
  <1>13. CASE DrainStart
    BY <1>0, <1>13 DEF DrainStart, DrainLabel
  <1>14. CASE DrainStep
    <2> USE DEF DrainLabel
    <2>1. CASE DrainPop
      <3>1. Head(queue) \in Jobs /\ queue' \in Seq(Jobs)
        BY <1>0, <2>1 DEF DrainPop
      <3> QED BY <1>0, <2>1, <3>1 DEF DrainPop
    <2>2. CASE DrainCheck   BY <1>0, <2>2 DEF DrainCheck
    <2>3. CASE DrainCancel  BY <1>0, <2>3 DEF DrainCancel
    <2>4. CASE DrainEmpty   BY <1>0, <2>4 DEF DrainEmpty, Created
    <2>5. ASSUME NEW j \in Jobs, DrainScan(j) PROVE QueueTypeOK'
      BY <1>0, <2>5 DEF DrainScan
    <2>6. CASE DrainSweep   BY <1>0, <2>6 DEF DrainSweep
    <2>7. CASE DrainEnd     BY <1>0, <2>7 DEF DrainEnd
    <2> QED BY <1>14, <2>1, <2>2, <2>3, <2>4, <2>5, <2>6, <2>7 DEF DrainStep
  <1>15. CASE UNCHANGED vars
    BY <1>0, <1>15
  <1> HIDE DEF QueueTypeOK
  <1>16. CASE \E j \in Jobs : EnqueueHash(j) \/ EnqueuePush(j) \/ StopStep(j)
    BY <1>1, <1>2, <1>3, <1>4, <1>5, <1>6, <1>16 DEF StopStep
  <1>17. CASE \E j \in Jobs : ThreadStep(j) \/ PveStep(j)
    BY <1>7, <1>8, <1>17
  <1>18. CASE \E w \in Workers : WorkerStep(w) \/ CrashWorker(w)
    BY <1>9, <1>10, <1>18
  <1> QED
    BY <1>11, <1>12, <1>13, <1>14, <1>15, <1>16, <1>17, <1>18 DEF Next

LEMMA JobStepTypeOK ==
  ASSUME TypeOK, [Next]_vars
  PROVE  JobTypeOK'
  <1>0. QueueTypeOK /\ JobTypeOK
    BY DEF TypeOK
  <1>1. ASSUME NEW j \in Jobs, EnqueueHash(j) PROVE JobTypeOK'
    <2>1. options' \in [Jobs -> JobRequest]
      <3>1. PICK req \in Requests : options' = [options EXCEPT ![j] = Normalised(req)]
        BY <1>1 DEF EnqueueHash, CreateJob
      <3>2. Normalised(req) \in JobRequest
        <4>1. req \in JobRequest
          BY JobAssumption
        <4> QED BY <4>1 DEF Normalised, JobRequest
      <3> QED BY <1>0, <3>1, <3>2 DEF JobTypeOK
    <2> QED BY <1>0, <1>1, <2>1 DEF EnqueueHash, CreateJob, JobTypeOK, RestoreState
  <1>2. ASSUME NEW j \in Jobs, EnqueuePush(j) PROVE JobTypeOK'
    BY <1>0, <1>2 DEF EnqueuePush, JobTypeOK
  <1>3. ASSUME NEW j \in Jobs, StopStep(j) PROVE JobTypeOK'
    <2> USE DEF JobTypeOK
    <2>1. CASE StopRead(j)    BY <1>0, <2>1 DEF StopRead
    <2>2. CASE StopMark(j)    BY <1>0, <2>2 DEF StopMark
    <2>3. CASE StopReread(j)  BY <1>0, <2>3 DEF StopReread
    <2>4. CASE StopCancel(j)  BY <1>0, <2>4 DEF StopCancel, RestoreState
    <2> QED BY <1>3, <2>1, <2>2, <2>3, <2>4 DEF StopStep
  <1>4. ASSUME NEW j \in Jobs, ThreadStep(j) PROVE JobTypeOK'
    <2>1. CASE ThreadReleaseSlot(j)
      BY <1>0, <2>1 DEF ThreadReleaseSlot, Goto, Label, JobTypeOK
    <2>2. CASE ThreadClampSlots(j)
      BY <1>0, <2>2 DEF ThreadClampSlots, Goto, Label, JobTypeOK
    <2> QED BY <1>0, <1>4, <2>1, <2>2, ProcessJobTypeOK DEF ThreadStep
  <1>5. ASSUME NEW j \in Jobs, PveStep(j) PROVE JobTypeOK'
    BY <1>0, <1>5, PveTypeOK DEF PveStep
  <1>6. ASSUME NEW w \in Workers, WorkerStep(w) PROVE JobTypeOK'
    <2>1. CASE Claim(w)
      <3>1. Head(queue) \in Jobs
        BY <1>0, <2>1 DEF Claim, QueueTypeOK
      <3> QED BY <1>0, <2>1, <3>1 DEF Claim, JobTypeOK, Label, Running
    <2>2. CASE ~Claim(w)
      <3>1. UNCHANGED jobVars
        BY <1>6, <2>2
        DEF WorkerStep, WorkerStart, CountRestoring, SetSlots, CheckPaused, ReadLimit,
            AcquireSlot, RollbackSlot, PopTimeout, ReleaseSlot, ClampSlots
      <3> QED BY <1>0, <3>1 DEF JobTypeOK
    <2> QED BY <2>1, <2>2
  <1>7. ASSUME NEW w \in Workers, CrashWorker(w) PROVE JobTypeOK'
    BY <1>0, <1>7 DEF CrashWorker, JobTypeOK, Label
  <1>8. CASE CrashApi \/ PauseQueue \/ ResumeQueue \/ SetLimit \/ DrainStart
    <2>1. UNCHANGED jobVars
      BY <1>8 DEF CrashApi, PauseQueue, ResumeQueue, SetLimit, DrainStart
    <2> QED BY <1>0, <2>1 DEF JobTypeOK
  <1>9. CASE DrainStep
    <2>1. CASE DrainCancel \/ DrainSweep
      <3>1. state' \in [Jobs -> RestoreState \cup {"NONE"}]
        BY <1>0, <2>1 DEF DrainCancel, DrainSweep, WriteCancelled, JobTypeOK, RestoreState
      <3> QED BY <1>0, <2>1, <3>1 DEF DrainCancel, DrainSweep, JobTypeOK
    <2>2. CASE ~(DrainCancel \/ DrainSweep)
      <3>1. UNCHANGED jobVars
        BY <1>9, <2>2 DEF DrainStep, DrainPop, DrainCheck, DrainEmpty, DrainScan, DrainEnd
      <3> QED BY <1>0, <3>1 DEF JobTypeOK
    <2> QED BY <2>1, <2>2
  <1>10. CASE UNCHANGED vars
    BY <1>0, <1>10 DEF JobTypeOK
  <1> QED
    BY <1>1, <1>2, <1>3, <1>4, <1>5, <1>6, <1>7, <1>8, <1>9, <1>10 DEF Next

\* Every variable keeps its type: in particular a job is in one of the five
\* states and its thread at one label of run_job/process_job.
THEOREM TypeCorrect == Spec => []TypeOK
  <1>1. Init => TypeOK
    BY InitTypeOK
  <1>2. TypeOK /\ [Next]_vars => TypeOK'
    BY QueueStepTypeOK, JobStepTypeOK DEF TypeOK
  <1> QED
    BY <1>1, <1>2, PTL DEF Spec
-----------------------------------------------------------------------------
(* The queue, the requests being served and the threads agree.             *)

\* Removing the k-th id leaves ids that were there, in their order.
LEMMA RemoveAtElements ==
  ASSUME NEW S, NEW q \in Seq(S), NEW k \in DOMAIN q, NEW i \in DOMAIN RemoveAt(q, k)
  PROVE  /\ i \in DOMAIN q /\ i + 1 \in DOMAIN q
         /\ RemoveAt(q, k)[i] = IF i < k THEN q[i] ELSE q[i + 1]
  BY DEF RemoveAt

LEMMA RemoveAtDistinct ==
  ASSUME NEW S, NEW q \in Seq(S), NEW k \in DOMAIN q,
         \A m, n \in DOMAIN q : q[m] = q[n] => m = n,
         NEW m \in DOMAIN RemoveAt(q, k), NEW n \in DOMAIN RemoveAt(q, k),
         RemoveAt(q, k)[m] = RemoveAt(q, k)[n]
  PROVE  m = n
  <1>1. /\ m \in DOMAIN q /\ m + 1 \in DOMAIN q /\ n \in DOMAIN q /\ n + 1 \in DOMAIN q
        /\ RemoveAt(q, k)[m] = IF m < k THEN q[m] ELSE q[m + 1]
        /\ RemoveAt(q, k)[n] = IF n < k THEN q[n] ELSE q[n + 1]
    BY RemoveAtElements
  <1>2. m \in Int /\ n \in Int /\ k \in Int
    BY <1>1
  <1>3. CASE m < k /\ n < k
    BY <1>1, <1>3
  <1>4. CASE ~(m < k) /\ ~(n < k)
    <2>1. q[m + 1] = q[n + 1]
      BY <1>1, <1>4
    <2>2. m + 1 = n + 1
      BY <1>1, <2>1
    <2> QED BY <1>2, <2>2
  <1>5. CASE m < k /\ ~(n < k)
    <2>1. q[m] = q[n + 1]
      BY <1>1, <1>5
    <2>2. m = n + 1
      BY <1>1, <2>1
    <2> QED BY <1>2, <1>5, <2>2
  <1>6. CASE ~(m < k) /\ n < k
    <2>1. q[m + 1] = q[n]
      BY <1>1, <1>6
    <2>2. m + 1 = n
      BY <1>1, <2>1
    <2> QED BY <1>2, <1>6, <2>2
  <1> QED BY <1>3, <1>4, <1>5, <1>6

LEMMA InitQueueInv == Init => QueueInv
  <1> SUFFICES ASSUME Init PROVE QueueInv
    OBVIOUS
  <1>1. queue = <<>> /\ pushing = {} /\ DOMAIN queue = {}
    BY DEF Init
  <1> QED BY <1>1 DEF QueueInv

\* A job that was popped is neither on the list nor about to be pushed.
LEMMA PoppedOffQueue ==
  ASSUME TypeOK, QueueInv, queue # <<>>
  PROVE  /\ Head(queue) \in Jobs /\ pc[Head(queue)] = "none"
         /\ state[Head(queue)] # "NONE" /\ Head(queue) \notin pushing
         /\ Tail(queue) \in Seq(Jobs)
         /\ \A k \in DOMAIN Tail(queue) :
               k + 1 \in DOMAIN queue /\ Tail(queue)[k] = queue[k + 1]
                  /\ Tail(queue)[k] # Head(queue)
         /\ \A m, n \in DOMAIN Tail(queue) : Tail(queue)[m] = Tail(queue)[n] => m = n
  <1>1. queue \in Seq(Jobs) /\ 1 \in DOMAIN queue /\ Head(queue) = queue[1]
    BY DEF TypeOK, QueueTypeOK
  <1>2. \A k \in DOMAIN Tail(queue) : k \in Nat \ {0} /\ k + 1 \in DOMAIN queue /\ Tail(queue)[k] = queue[k + 1]
    BY <1>1
  <1>3. \A k \in DOMAIN Tail(queue) : Tail(queue)[k] # Head(queue)
    BY <1>1, <1>2 DEF QueueInv
  <1>4. \A m, n \in DOMAIN Tail(queue) : Tail(queue)[m] = Tail(queue)[n] => m = n
    BY <1>1, <1>2 DEF QueueInv
  <1> QED BY <1>1, <1>2, <1>3, <1>4 DEF QueueInv

LEMMA QueueInvStep ==
  ASSUME TypeOK, QueueInv, StateInv, [Next]_vars
  PROVE  QueueInv'
  <1>0. queue \in Seq(Jobs) /\ pc \in [Jobs -> Label] /\ state \in [Jobs -> RestoreState \cup {"NONE"}]
        /\ pushing \subseteq Jobs
    BY DEF TypeOK, QueueTypeOK, JobTypeOK
  <1>a. ASSUME UNCHANGED <<queue, pushing>>,
               \A i \in Jobs : pc[i] = "none" => pc'[i] = "none",
               \A i \in Jobs : state[i] # "NONE" => state'[i] # "NONE"
        PROVE QueueInv'
    BY <1>0, <1>a DEF QueueInv
  <1>1. ASSUME NEW j \in Jobs, EnqueueHash(j) PROVE QueueInv'
    BY <1>0, <1>1 DEF EnqueueHash, CreateJob, QueueInv, StateInv
  <1>2. ASSUME NEW j \in Jobs, EnqueuePush(j) PROVE QueueInv'
    <2>1. j \notin pushing' /\ pc[j] = "none" /\ state[j] # "NONE"
      BY <1>2 DEF EnqueuePush, QueueInv
    <2>2. \A k \in DOMAIN queue : queue[k] # j
      BY <1>2 DEF EnqueuePush, QueueInv
    <2>3. queue' = Append(queue, j) /\ UNCHANGED <<pc, state>> /\ pushing' = pushing \ {j}
      BY <1>2 DEF EnqueuePush
    <2>4. \A k \in DOMAIN queue' :
             (k \in DOMAIN queue /\ queue'[k] = queue[k]) \/ (k = Len(queue) + 1 /\ queue'[k] = j)
      BY <1>0, <2>3
    <2> QED BY <1>0, <2>1, <2>2, <2>3, <2>4 DEF QueueInv
  <1>3. ASSUME NEW j \in Jobs, StopStep(j) PROVE QueueInv'
    <2>1. CASE StopMark(j)
      <3>1. CASE UNCHANGED queue
        BY <1>a, <2>1, <3>1 DEF StopMark
      <3>2. ASSUME NEW k \in DOMAIN queue, queue' = RemoveAt(queue, k) PROVE QueueInv'
        <4>1. \A m, n \in DOMAIN queue' : queue'[m] = queue'[n] => m = n
          BY <1>0, <3>2, RemoveAtDistinct DEF QueueInv
        <4>2. \A m \in DOMAIN queue' : \E n \in DOMAIN queue : queue'[m] = queue[n]
          BY <1>0, <3>2, RemoveAtElements
        <4> QED BY <2>1, <4>1, <4>2 DEF StopMark, QueueInv
      <3> QED BY <2>1, <3>1, <3>2 DEF StopMark
    <2>2. CASE ~StopMark(j)
      <3>1. UNCHANGED <<queue, pushing, pc>>
        BY <1>3, <2>2 DEF StopStep, StopRead, StopReread, StopCancel
      <3>2. \A i \in Jobs : state[i] # "NONE" => state'[i] # "NONE"
        BY <1>0, <1>3, <2>2 DEF StopStep, StopRead, StopReread, StopCancel
      <3> QED BY <1>a, <3>1, <3>2
    <2> QED BY <2>1, <2>2
  <1>4. ASSUME NEW j \in Jobs, ThreadStep(j) PROVE QueueInv'
    <2>1. UNCHANGED <<queue, pushing>> /\ pc[j] # "none"
      BY <1>4 DEF ThreadStep, ThreadReleaseSlot, ThreadClampSlots, ProcessJob, CheckCancel,
         MarkCancelled, Begin, Submit, WaitForTask, PollTask, Stamp, IsolateNetwork, Power,
         AwaitAgent, AgentSilent, AgentWaitEnds, HttpCheck, Complete, Fail
    <2>2. \A i \in Jobs \ {j} : pc'[i] = pc[i]
      BY <1>0, <1>4 DEF ThreadStep, ThreadReleaseSlot, ThreadClampSlots, ProcessJob, CheckCancel,
         MarkCancelled, Begin, Submit, WaitForTask, PollTask, Stamp, IsolateNetwork, Power,
         AwaitAgent, AgentSilent, AgentWaitEnds, HttpCheck, Complete, Fail, Goto
    <2>3. \A i \in Jobs : state[i] # "NONE" => state'[i] # "NONE"
      BY <1>0, <1>4 DEF ThreadStep, ThreadReleaseSlot, ThreadClampSlots, ProcessJob, CheckCancel,
         MarkCancelled, Begin, Submit, WaitForTask, PollTask, Stamp, IsolateNetwork, Power,
         AwaitAgent, AgentSilent, AgentWaitEnds, HttpCheck, Complete, Fail
    <2> QED BY <1>a, <2>1, <2>2, <2>3
  <1>5. ASSUME NEW j \in Jobs, PveStep(j) PROVE QueueInv'
    BY <1>5 DEF PveStep, Pve, PveBootsLiveGuest, PveTaskEnds, QueueInv
  <1>6. ASSUME NEW w \in Workers, WorkerStep(w) PROVE QueueInv'
    <2>1. CASE Claim(w)
      <3>1. /\ queue # <<>> /\ queue' = Tail(queue) /\ UNCHANGED <<state, pushing>>
            /\ pc' = [pc EXCEPT ![Head(queue)] = "check"]
        BY <2>1 DEF Claim
      <3>2. \A i \in Jobs \ {Head(queue)} : pc'[i] = pc[i]
        BY <1>0, <3>1
      <3>3. \A k \in DOMAIN Tail(queue) : Tail(queue)[k] \in Jobs
        BY <3>1, PoppedOffQueue
      <3> QED BY <1>0, <3>1, <3>2, <3>3, PoppedOffQueue DEF QueueInv
    <2>2. CASE ~Claim(w)
      <3>1. UNCHANGED <<queue, pushing, pc, state>>
        BY <1>6, <2>2
        DEF WorkerStep, WorkerStart, CountRestoring, SetSlots, CheckPaused, ReadLimit,
            AcquireSlot, RollbackSlot, PopTimeout, ReleaseSlot, ClampSlots
      <3> QED BY <1>a, <3>1
    <2> QED BY <2>1, <2>2
  <1>7. ASSUME NEW w \in Workers, CrashWorker(w) PROVE QueueInv'
    <2>1. \A i \in Jobs : pc[i] = "none" => pc'[i] = "none"
      BY <1>0, <1>7 DEF CrashWorker, Running
    <2>2. UNCHANGED <<queue, pushing, state>>
      BY <1>7 DEF CrashWorker
    <2> QED BY <1>a, <2>1, <2>2
  <1>8. CASE CrashApi
    BY <1>8 DEF CrashApi, QueueInv
  <1>9. CASE PauseQueue \/ ResumeQueue \/ SetLimit \/ DrainStart
    <2>1. UNCHANGED <<queue, pushing, pc, state>>
      BY <1>9 DEF PauseQueue, ResumeQueue, SetLimit, DrainStart
    <2> QED BY <1>a, <2>1
  <1>10. CASE DrainStep
    <2>1. CASE DrainPop
      <3>1. queue # <<>> /\ queue' = Tail(queue) /\ UNCHANGED <<state, pushing, pc>>
        BY <2>1 DEF DrainPop
      <3> QED BY <1>0, <3>1, PoppedOffQueue DEF QueueInv
    <2>2. CASE ~DrainPop
      <3>1. UNCHANGED <<queue, pushing, pc>>
        BY <1>10, <2>2 DEF DrainStep, DrainCheck, DrainCancel, DrainEmpty, DrainScan,
           DrainSweep, DrainEnd
      <3>2. \A i \in Jobs : state[i] # "NONE" => state'[i] # "NONE"
        BY <1>0, <1>10, <2>2 DEF DrainStep, DrainCheck, DrainCancel, DrainEmpty, DrainScan,
           DrainSweep, DrainEnd, WriteCancelled
      <3> QED BY <1>a, <3>1, <3>2
    <2> QED BY <2>1, <2>2
  <1>11. CASE UNCHANGED vars
    BY <1>11 DEF QueueInv
  <1> QED
    <2>1. CASE \E j \in Jobs : EnqueueHash(j) \/ EnqueuePush(j) \/ StopStep(j)
      BY <1>1, <1>2, <1>3, <2>1
    <2>2. CASE \E j \in Jobs : ThreadStep(j) \/ PveStep(j)
      BY <1>4, <1>5, <2>2
    <2>3. CASE \E w \in Workers : WorkerStep(w) \/ CrashWorker(w)
      BY <1>6, <1>7, <2>3
    <2> QED BY <1>8, <1>9, <1>10, <1>11, <2>1, <2>2, <2>3 DEF Next

-----------------------------------------------------------------------------
(* The pipeline: the state field, the PVE task and the checks passed       *)
(* against the label of the thread.                                        *)

LEMMA InitPipelineInv == Init => PipelineInv
  <1> SUFFICES ASSUME Init PROVE PipelineInv
    OBVIOUS
  <1>1. \A j \in Jobs : /\ state[j] = "NONE" /\ pc[j] = "none"
                       /\ taskKind[j] = "none" /\ taskStatus[j] = "none" /\ ~booted[j]
    BY DEF Init, JobInit
  <1>2. StateInv /\ TaskInv
    BY <1>1 DEF StateInv, TaskInv, BeforeSubmit
  <1>3. ChecksInv /\ CompletedIsProven
    BY <1>1 DEF ChecksInv, CompletedIsProven, AfterStamp, WaitsForStart
  <1> QED BY <1>2, <1>3 DEF PipelineInv

\* What a thread does to its own job keeps the invariant of the pipeline, and
\* it touches no other job.
LEMMA ProcessJobPipelineInv ==
  ASSUME TypeOK, PipelineInv, NEW j \in Jobs, ProcessJob(j)
  PROVE  PipelineInv'
  <1>0. JobTypeOK
    BY DEF TypeOK
  <1> USE DEF JobTypeOK, Goto, PipelineInv, StateInv, TaskInv, ChecksInv, CompletedIsProven,
              BeforeSubmit, AfterStamp, WaitsForStart, Ended, PowersOn
  <1>1. CASE CheckCancel(j)
    BY <1>0, <1>1 DEF CheckCancel
  <1>2. CASE MarkCancelled(j)
    BY <1>0, <1>2 DEF MarkCancelled
  <1>3. CASE Begin(j)
    BY <1>0, <1>3 DEF Begin
  <1>4. CASE Submit(j)
    BY <1>0, <1>4 DEF Submit, StartTask
  <1>5. CASE WaitForTask(j)
    BY <1>0, <1>5 DEF WaitForTask
  <1>6. CASE PollTask(j)
    BY <1>0, <1>6 DEF PollTask
  <1>7. CASE Stamp(j)
    BY <1>0, <1>7 DEF Stamp
  <1>8. CASE IsolateNetwork(j)
    BY <1>0, <1>8 DEF IsolateNetwork
  <1>9. CASE Power(j)
    BY <1>0, <1>9 DEF Power, StartTask
  <1>10. CASE AwaitAgent(j)
    BY <1>0, <1>10 DEF AwaitAgent
  <1>11. CASE AgentSilent(j)
    BY <1>0, <1>11 DEF AgentSilent
  <1>12. CASE AgentWaitEnds(j)
    BY <1>0, <1>12 DEF AgentWaitEnds
  <1>13. CASE HttpCheck(j)
    BY <1>0, <1>13 DEF HttpCheck
  <1>14. CASE Complete(j)
    BY <1>0, <1>14 DEF Complete
  <1>15. CASE Fail(j)
    BY <1>0, <1>15 DEF Fail
  <1> QED
    BY <1>1, <1>2, <1>3, <1>4, <1>5, <1>6, <1>7, <1>8, <1>9, <1>10, <1>11,
       <1>12, <1>13, <1>14, <1>15 DEF ProcessJob

LEMMA PvePipelineInv ==
  ASSUME TypeOK, PipelineInv, NEW j \in Jobs, Pve(j)
  PROVE  PipelineInv'
  <1>0. JobTypeOK
    BY DEF TypeOK
  <1> USE DEF JobTypeOK, PipelineInv, StateInv, TaskInv, ChecksInv, CompletedIsProven,
              BeforeSubmit, AfterStamp, WaitsForStart, Ended, PowersOn
  <1>1. CASE PveBootsLiveGuest(j)
    BY <1>0, <1>1 DEF PveBootsLiveGuest
  <1>2. CASE PveTaskEnds(j)
    <2>1. /\ UNCHANGED <<state, options, result, pc, taskKind, isolated, managed>>
          /\ \A i \in Jobs : booted[i] => booted'[i]
          /\ \A i \in Jobs \ {j} : booted'[i] = booted[i] /\ taskStatus'[i] = taskStatus[i]
          /\ taskStatus[j] = "running"
      BY <1>0, <1>2 DEF PveTaskEnds
    <2>2. \/ taskStatus'[j] = "failed" /\ booted'[j] = booted[j]
          \/ taskStatus'[j] = "ok" /\ (taskKind[j] = "start" \/ options[j].live => booted'[j])
      <3>1. CASE /\ taskStatus' = [taskStatus EXCEPT ![j] = "ok"]
                 /\ booted' = [booted EXCEPT ![j] =
                                  booted[j] \/ taskKind[j] = "start" \/ options[j].live]
        <4> HIDE DEF PipelineInv, StateInv, TaskInv, ChecksInv, CompletedIsProven
        <4>1. taskStatus'[j] = "ok"
          BY <1>0, <3>1
        <4>2. taskKind[j] = "start" \/ options[j].live => booted'[j]
          BY <1>0, <3>1, Zenon
        <4> QED BY <4>1, <4>2
      <3>2. CASE taskStatus' = [taskStatus EXCEPT ![j] = "failed"] /\ UNCHANGED booted
        BY <1>0, <3>2
      <3> QED BY <1>2, <3>1, <3>2 DEF PveTaskEnds
    <2>3. StateInv'
      BY <2>1
    <2>4. TaskInv'
      BY <2>1, <2>2
    <2>5. ChecksInv' /\ CompletedIsProven'
      BY <2>1
    <2> QED BY <2>3, <2>4, <2>5
  <1> QED BY <1>1, <1>2 DEF Pve

LEMMA CreateJobPipelineInv ==
  ASSUME TypeOK, PipelineInv, NEW j \in Jobs, CreateJob(j)
  PROVE  PipelineInv'
  <1>0. JobTypeOK
    BY DEF TypeOK
  <1>1. /\ pc[j] = "none" /\ taskKind[j] = "none" /\ taskStatus[j] = "none" /\ ~booted[j]
        /\ state' = [state EXCEPT ![j] = "PENDING"]
        /\ UNCHANGED <<result, pc, task, guest>>
    BY DEF CreateJob, PipelineInv, StateInv, TaskInv, BeforeSubmit
  <1>2. \A i \in Jobs \ {j} : options'[i] = options[i]
    BY <1>0 DEF CreateJob, JobTypeOK
  <1> QED
    BY <1>0, <1>1, <1>2
    DEF JobTypeOK, PipelineInv, StateInv, TaskInv, ChecksInv, CompletedIsProven,
        BeforeSubmit, AfterStamp, WaitsForStart, Ended, PowersOn

\* The workers' main threads, the kills and the operator's requests touch a
\* job in three ways: they cancel it, pop it, or kill its thread.
OutsideChange ==
    /\ UNCHANGED <<options, result, task, guest>>
    /\ \A i \in Jobs :
          \/ pc'[i] = pc[i] /\ state'[i] \in {state[i], "CANCELLED"}
          \/ pc[i] = "none" /\ pc'[i] = "check" /\ state'[i] = state[i] /\ state[i] # "NONE"
          \/ pc[i] # "none" /\ pc'[i] = "dead" /\ state'[i] = state[i]

LEMMA OutsidePipelineInv ==
  ASSUME PipelineInv, OutsideChange
  PROVE  PipelineInv'
  BY DEF OutsideChange, PipelineInv, StateInv, TaskInv, ChecksInv, CompletedIsProven,
         BeforeSubmit, AfterStamp, WaitsForStart, Ended, PowersOn

LEMMA ReleaseStep ==
  ASSUME TypeOK, PipelineInv, NEW j \in Jobs, ThreadReleaseSlot(j) \/ ThreadClampSlots(j)
  PROVE  PipelineInv'
  <1>0. JobTypeOK
    BY DEF TypeOK
  <1> USE DEF JobTypeOK, Goto, PipelineInv, StateInv, TaskInv, ChecksInv, CompletedIsProven,
              BeforeSubmit, AfterStamp, WaitsForStart, Ended, PowersOn
  <1>1. CASE ThreadReleaseSlot(j)
    BY <1>0, <1>1 DEF ThreadReleaseSlot
  <1>2. CASE ThreadClampSlots(j)
    BY <1>0, <1>2 DEF ThreadClampSlots
  <1> QED BY <1>1, <1>2

\* Which steps make such a change.
LEMMA OutsideSteps ==
  ASSUME TypeOK, QueueInv, StateInv, [Next]_vars
  PROVE  \/ OutsideChange
         \/ \E j \in Jobs : EnqueueHash(j) \/ ThreadStep(j) \/ PveStep(j)
  <1>0. queue \in Seq(Jobs) /\ pc \in [Jobs -> Label] /\ state \in [Jobs -> RestoreState \cup {"NONE"}]
    BY DEF TypeOK, QueueTypeOK, JobTypeOK
  <1> USE DEF OutsideChange
  <1>1. ASSUME NEW j \in Jobs, EnqueuePush(j) \/ StopStep(j) PROVE OutsideChange
    BY <1>0, <1>1 DEF EnqueuePush, StopStep, StopRead, StopMark, StopReread, StopCancel
  <1>2. ASSUME NEW w \in Workers, WorkerStep(w) PROVE OutsideChange
    <2>1. CASE Claim(w)
      BY <1>0, <2>1, PoppedOffQueue DEF Claim
    <2>2. CASE ~Claim(w)
      BY <1>2, <2>2
      DEF WorkerStep, WorkerStart, CountRestoring, SetSlots, CheckPaused, ReadLimit,
          AcquireSlot, RollbackSlot, PopTimeout, ReleaseSlot, ClampSlots
    <2> QED BY <2>1, <2>2
  <1>3. ASSUME NEW w \in Workers, CrashWorker(w) PROVE OutsideChange
    BY <1>0, <1>3 DEF CrashWorker, Running
  <1>4. CASE CrashApi \/ PauseQueue \/ ResumeQueue \/ SetLimit \/ DrainStart \/ UNCHANGED vars
    BY <1>4 DEF CrashApi, PauseQueue, ResumeQueue, SetLimit, DrainStart
  <1>5. CASE DrainStep
    BY <1>0, <1>5 DEF DrainStep, DrainPop, DrainCheck, DrainCancel, DrainEmpty, DrainScan,
       DrainSweep, DrainEnd, WriteCancelled
  <1> QED
    <2>1. CASE \E j \in Jobs : EnqueueHash(j) \/ EnqueuePush(j) \/ StopStep(j)
      BY <1>1, <2>1
    <2>2. CASE \E w \in Workers : WorkerStep(w) \/ CrashWorker(w)
      BY <1>2, <1>3, <2>2
    <2> QED BY <1>4, <1>5, <2>1, <2>2 DEF Next

LEMMA PipelineInvStep ==
  ASSUME TypeOK, QueueInv, PipelineInv, [Next]_vars
  PROVE  PipelineInv'
  <1>0. StateInv
    BY DEF PipelineInv
  <1>1. CASE OutsideChange
    BY <1>1, OutsidePipelineInv
  <1>2. ASSUME NEW j \in Jobs, EnqueueHash(j) PROVE PipelineInv'
    BY <1>2, CreateJobPipelineInv DEF EnqueueHash
  <1>3. ASSUME NEW j \in Jobs, ThreadStep(j) PROVE PipelineInv'
    BY <1>3, ProcessJobPipelineInv, ReleaseStep DEF ThreadStep
  <1>4. ASSUME NEW j \in Jobs, PveStep(j) PROVE PipelineInv'
    BY <1>4, PvePipelineInv DEF PveStep
  <1> QED BY <1>0, <1>1, <1>2, <1>3, <1>4, OutsideSteps

\* The inductive invariant: an id is on the list at most once and only while no
\* thread has run the job, and what is known at each label of the thread.
THEOREM PipelineInvariant == Spec => [](TypeOK /\ QueueInv /\ PipelineInv)
  <1>1. Init => TypeOK /\ QueueInv /\ PipelineInv
    BY InitTypeOK, InitQueueInv, InitPipelineInv
  <1>2. TypeOK /\ QueueInv /\ PipelineInv /\ [Next]_vars => (TypeOK /\ QueueInv /\ PipelineInv)'
    <2> SUFFICES ASSUME TypeOK, QueueInv, PipelineInv, [Next]_vars
                 PROVE  TypeOK' /\ QueueInv' /\ PipelineInv'
      OBVIOUS
    <2>1. TypeOK'
      BY QueueStepTypeOK, JobStepTypeOK DEF TypeOK
    <2>2. QueueInv'
      BY QueueInvStep DEF PipelineInv
    <2> QED BY <2>1, <2>2, PipelineInvStep
  <1> QED
    BY <1>1, <1>2, PTL DEF Spec

\* COMPLETED is a proof of recovery, whatever is stopped, drained or killed
\* meanwhile and however many workers run: process_job reaches
\* set_state(COMPLETED) only past the ownership stamp, the isolation, the
\* power-on, the agent and the HTTP check it was asked for.
THEOREM CompletedProven == Spec => []CompletedIsProven
  <1>1. PipelineInv => CompletedIsProven
    BY DEF PipelineInv
  <1> QED
    BY <1>1, PipelineInvariant, PTL

-----------------------------------------------------------------------------
(* Isolation before power-on.                                              *)
LEMMA IsolationStep ==
  ASSUME TypeOK, QueueInv, PipelineInv, BootedOnlyIsolated, [Next]_vars
  PROVE  BootedOnlyIsolated'
  <1>0. JobTypeOK /\ StateInv /\ TaskInv /\ ChecksInv
    BY DEF TypeOK, PipelineInv
  <1> USE DEF JobTypeOK, BootedOnlyIsolated
  <1>1. CASE OutsideChange
    BY <1>1 DEF OutsideChange
  <1>2. ASSUME NEW j \in Jobs, EnqueueHash(j) PROVE BootedOnlyIsolated'
    <2>1. ~booted[j] /\ UNCHANGED guest
      BY <1>0, <1>2 DEF EnqueueHash, CreateJob, StateInv, TaskInv, BeforeSubmit
    <2>2. \A i \in Jobs \ {j} : options'[i] = options[i]
      BY <1>0, <1>2 DEF EnqueueHash, CreateJob
    <2> QED BY <2>1, <2>2
  <1>3. ASSUME NEW j \in Jobs, ThreadStep(j) PROVE BootedOnlyIsolated'
    <2>1. UNCHANGED options
      BY <1>3 DEF ThreadStep, ThreadReleaseSlot, ThreadClampSlots, ProcessJob, CheckCancel,
         MarkCancelled, Begin, Submit, WaitForTask, PollTask, Stamp, IsolateNetwork, Power,
         AwaitAgent, AgentSilent, AgentWaitEnds, HttpCheck, Complete, Fail
    <2>2. CASE Power(j)
      BY <1>0, <2>1, <2>2 DEF Power, ChecksInv, AfterStamp
    <2>3. CASE IsolateNetwork(j)
      BY <1>0, <2>1, <2>3 DEF IsolateNetwork
    <2>4. CASE ~Power(j) /\ ~IsolateNetwork(j)
      <3>1. UNCHANGED <<booted, isolated>>
        BY <1>3, <2>4 DEF ThreadStep, ThreadReleaseSlot, ThreadClampSlots, ProcessJob,
           CheckCancel, MarkCancelled, Begin, Submit, WaitForTask, PollTask, Stamp,
           AwaitAgent, AgentSilent, AgentWaitEnds, HttpCheck, Complete, Fail
      <3> QED BY <2>1, <3>1
    <2> QED BY <2>2, <2>3, <2>4
  <1>4. ASSUME NEW j \in Jobs, PveStep(j) PROVE BootedOnlyIsolated'
    <2>1. CASE PveBootsLiveGuest(j)
      BY <2>1 DEF PveBootsLiveGuest
    <2>2. CASE PveTaskEnds(j)
      BY <1>0, <2>2 DEF PveTaskEnds, ChecksInv
    <2> QED BY <1>4, <2>1, <2>2 DEF PveStep, Pve
  <1> QED BY <1>0, <1>1, <1>2, <1>3, <1>4, OutsideSteps

\* A guest whose network was to be unlinked or remapped, and that is not restored
\* live, never runs before process_job has done so (README: "unlink NICs or remap
\* to a lab bridge before power-on").
THEOREM IsolationBeforePowerOn == Spec => []BootedOnlyIsolated
  <1>1. Init => BootedOnlyIsolated
    BY DEF Init, JobInit, BootedOnlyIsolated
  <1>2. TypeOK /\ QueueInv /\ PipelineInv /\ BootedOnlyIsolated /\ [Next]_vars
          => BootedOnlyIsolated'
    BY IsolationStep
  <1> QED
    BY <1>1, <1>2, PipelineInvariant, PTL DEF Spec
=============================================================================
