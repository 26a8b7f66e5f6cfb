---------------------------- MODULE PlanOrderProofs ----------------------------
(***************************************************************************)
(* Proofs about PlanRuns where one worker runs what its schedule starts    *)
(* and nobody cancels: any number of runs, groups, backups, operators that *)
(* tear runs down or stop single jobs, enqueues that raise in the tick.    *)
(***************************************************************************)
EXTENDS PlanRunsProofs, FiniteSetTheorems

\* Worker w is the only one; no run is started or cancelled by an operator, no
\* process is killed, and the start of a run does not raise.
Undisturbed(w) ==
    /\ Workers = {w} /\ Scheduled = Runs
    /\ MaxCancels = 0 /\ MaxCrashes = 0
    /\ "start" \notin Failing
-----------------------------------------------------------------------------
(* The invariant: copies.                                                  *)

\* Copies that agree in what decides on the groups of a run.
SameCore(d, e) == d.status = e.status /\ d.idx = e.idx /\ d.ids = e.ids /\ d.pend = e.pend

\* An operator only tears down, runs that have ended.
OperatorApart(o) ==
    /\ at[o] \in {"idle", "destroy"} /\ todo[o] = {} /\ seen[o] = {}
    /\ at[o] = "idle" => on[o] = {}
    /\ \A r \in on[o] : doc[r].status \in Terminal /\ SameCore(mine[o], doc[r])

\* The worker has what is stored, but for what it is about to save.
WorkerApart(w) ==
    /\ at[w] \notin {"cancel", "mark", "destroy"} /\ seen[w] = {}
    /\ at[w] \in {"idle", "next"} => on[w] = {}
    /\ \A r \in on[w] :
         /\ at[w] \in Live => doc[r].status = "RUNNING"
         /\ at[w] \in {"first", "stash", "judge"} => mine[w] = doc[r]
         /\ at[w] \in {"ids", "record"} => mine[w].pend = doc[r].pend
         /\ at[w] \in FinalLabel => doc[r].status \in Terminal /\ SameCore(mine[w], doc[r])

\* A thread works on jobs that are RESTORING.
ThreadsRestore == \A j \in running : state[j] = "RESTORING"

Apart(w) == WorkerApart(w) /\ (\A o \in Operators : OperatorApart(o)) /\ ThreadsRestore
-----------------------------------------------------------------------------
(* The invariant: what the document of a run says of its jobs.             *)

\* The document of run r, or the copy that has jobs to be saved.
Book(w, r) == IF on[w] = {r} /\ at[w] \in {"ids", "record"} THEN mine[w] ELSE doc[r]
Starting(w, r) == on[w] = {r} /\ at[w] \in StartLabel

\* The jobs of a group are on the document, and were created at once.
BookComplete(w, r) ==
    \A g \in Group : /\ Book(w, r).ids[g] = GroupJobs(r, g)
                     /\ GroupJobs(r, g) \in {{}, JobsOf(r, g, 1)}

RunGoesOn(w, r) ==
    /\ doc[r].status = "NONE" => Created(r) = {}
    /\ doc[r].status = "RUNNING" => Book(w, r).pend \/ Starting(w, r)
    /\ on[w] = {r} /\ at[w] = "first" => Created(r) = {}
    /\ doc[r].status = "RUNNING" /\ Halt =>
         \A j \in Created(r) : j[2] < Book(w, r).idx => state[j] # "FAILED"

RunHasEnded(r) ==
    /\ doc[r].status \in Terminal => \A j \in Created(r) : state[j] \in Terminal
    /\ doc[r].status = "COMPLETED" =>
         /\ \A g \in NonEmpty : Settled(r, g)
         /\ Halt => \A j \in Created(r) : state[j] # "FAILED"

HonestRun(w, r) == BookComplete(w, r) /\ RunGoesOn(w, r) /\ RunHasEnded(r)
Honest(w) == \A r \in Runs : HonestRun(w, r)
-----------------------------------------------------------------------------
(* The invariant: reports and teardowns.                                   *)

Untold == {"report", "teardown", "assure", "verdict", "notify"}

ToldOnce(w) ==
    \A r \in Runs :
        /\ reports[r] \in {0, 1} /\ notices[r] \in {0, 1}
        /\ reports[r] = 1 =>
             doc[r].status \in Terminal /\ ~(on[w] = {r} /\ at[w] = "report")
        /\ notices[r] = 1 =>
             doc[r].status \in Terminal /\ ~(on[w] = {r} /\ at[w] \in Untold)

\* No job of the run works any more, and none has left a guest.
Bare(r) ==
    /\ doc[r].status \in Terminal
    /\ \A j \in Created(r) : state[j] \in Terminal /\ guest[j] \in {"none", "gone"}

TornIsBare ==
    /\ \A r \in Runs : doc[r].torn = "completed" => Bare(r)
    /\ \A p \in Procs : \A r \in on[p] : mine[p].torn = "completed" => Bare(r)
-----------------------------------------------------------------------------
(* The steps that are left.                                                *)

\* The worker between two saves: nothing is written, no job is created.
Waits(w) == Tick(w) \/ StillRunning(w) \/ EnqueueRaises(w) \/ \E r \in Runs : TakeRun(w, r)
Finalises(w) ==
    \/ NoTeardown(w) \/ AutoTearRaises(w)
    \/ \E r \in on[w] :
         \/ Report(w, r) \/ AutoTear(w, r) \/ AutoTearBlind(w, r) \/ AssureRead(w, r)
         \/ AssureSave(w, r) \/ Notify(w, r) \/ AlreadyNotified(w, r) \/ NotifySave(w, r)
Advances(w) ==
    \E r \in on[w] :
        \/ StartEnqueue(w, r) \/ StartSaveIds(w, r) \/ StartStash(w, r)
        \/ EnqueueGroup(w, r) \/ RecordGroup(w, r)
Decides(w) == \E r \in on[w] : Drop(w, r) \/ NothingLeft(w, r) \/ JudgeGroup(w, r)
WorkerActs(w) ==
    \/ Waits(w) \/ Finalises(w) \/ Advances(w) \/ Decides(w)
    \/ \E r \in Runs : StartShell(w, r)
OperatorActs(o) ==
    (\E r \in Runs : TeardownRead(o, r)) \/ (\E r \in on[o] : Teardown(o, r))

\* Nobody cancels, starts a run beside the worker, or is killed.
LEMMA StepsUndisturbed ==
    ASSUME NEW w, Undisturbed(w), RunsInv, Apart(w), Next
    PROVE  \/ WorkerActs(w)
           \/ \E o \in Operators : OperatorActs(o)
           \/ \E j \in Job : JobWorks(j) \/ StopJob(j)
  <1>1. /\ Procs = {w} \cup Operators /\ w \notin Operators
        /\ cancels \in Nat /\ crashes \in Nat
    BY PlanAssumption DEF Undisturbed, Procs, RunsInv, BoundsOk
  <1>2. ASSUME NEW p \in Procs PROVE ~Crash(p) /\ ~StartRaises(p) /\ \A r \in Runs : ~CancelRead(p, r)
    BY <1>1 DEF Undisturbed, Crash, StartRaises, Raises, CancelRead
  <1>3. ASSUME NEW p \in Procs, NEW r \in Runs, StartShell(p, r) PROVE p = w
    BY <1>3 DEF StartShell, Undisturbed
  <1>4. ASSUME NEW p \in Procs, Tick(p) PROVE p = w
    BY <1>4 DEF Tick, Undisturbed
  <1>5. ASSUME NEW r \in on[w], WorksOn(w, r) PROVE WorkerActs(w)
    <2>1. ~CancelSave(w, r) /\ ~Teardown(w, r)
      BY DEF Apart, WorkerApart, CancelSave, Teardown
    <2> QED BY <1>5, <2>1 DEF WorksOn, WorkerActs, Finalises, Advances, Decides
  <1>6. ASSUME Proceeds(w) PROVE WorkerActs(w)
    <2>1. ~CancelMark(w) /\ \A j \in Job : ~CancelLook(w, j)
      BY DEF Apart, WorkerApart, CancelMark, CancelLook
    <2> QED BY <1>5, <1>6, <2>1 DEF Proceeds, WorkerActs, Waits, Finalises
  <1>7. ASSUME NEW o \in Operators
        PROVE  /\ ~EnqueueRaises(o) /\ ~AutoTearRaises(o) /\ \A r \in on[o] : ~AutoTearBlind(o, r)
               /\ Proceeds(o) => OperatorActs(o)
    <2>1. at[o] \in {"idle", "destroy"}
      BY DEF Apart, OperatorApart
    <2>2. ASSUME NEW r \in on[o], WorksOn(o, r) PROVE OperatorActs(o)
      BY <2>1, <2>2 DEF WorksOn, OperatorActs, StartEnqueue, StartSaveIds, StartStash, Drop,
                        NothingLeft, EnqueueGroup, RecordGroup, JudgeGroup, Report, AutoTear,
                        AssureRead, AssureSave, Notify, AlreadyNotified, NotifySave, CancelSave
    <2>3. /\ \A r \in Runs : ~TakeRun(o, r)
          /\ ~StillRunning(o) /\ ~NoTeardown(o) /\ ~CancelMark(o)
          /\ \A j \in Job : ~CancelLook(o, j)
      BY <2>1 DEF TakeRun, StillRunning, NoTeardown, CancelMark, CancelLook
    <2>4. Proceeds(o) => OperatorActs(o)
      BY <2>2, <2>3 DEF Proceeds
    <2> QED BY <2>1, <2>4 DEF EnqueueRaises, AutoTearRaises, AutoTearBlind
  <1>8. ASSUME NEW r \in Runs, TeardownRead(w, r) PROVE FALSE
    BY <1>1, <1>8 DEF TeardownRead
  <1>9. \/ \E j \in Job : JobWorks(j) \/ StopJob(j)
        \/ \E p \in Procs :
             \/ Proceeds(p) \/ Tick(p) \/ EnqueueRaises(p) \/ AutoTearRaises(p)
             \/ \E r \in on[p] : AutoTearBlind(p, r)
             \/ \E r \in Runs : StartShell(p, r) \/ TeardownRead(p, r)
    BY <1>2 DEF Next
  <1>10. ASSUME NEW p \in Procs,
                \/ Proceeds(p) \/ Tick(p) \/ EnqueueRaises(p) \/ AutoTearRaises(p)
                \/ \E r \in on[p] : AutoTearBlind(p, r)
                \/ \E r \in Runs : StartShell(p, r) \/ TeardownRead(p, r)
         PROVE  WorkerActs(w) \/ \E o \in Operators : OperatorActs(o)
    <2>1. CASE p = w
      BY <1>6, <1>8, <1>10, <2>1 DEF WorkerActs, Waits, Finalises
    <2>2. CASE p \in Operators /\ p # w
      BY <1>3, <1>4, <1>7, <1>10, <2>2 DEF OperatorActs
    <2> QED BY <1>1, <2>1, <2>2
  <1> QED BY <1>9, <1>10

\* A step that writes nothing and lets jobs be.
LEMMA WaitsWriteNothing ==
    ASSUME NEW w, Waits(w)
    PROVE  UNCHANGED <<doc, jobVars, logVars>>
  BY DEF Waits, Tick, StillRunning, EnqueueRaises, TakeRun, docVars, jobVars

\* What follows an outcome, and a teardown, saves a copy with its core.
SavesCore(p, r) == \E d : Save(r, d) /\ SameCore(d, mine[p])

LEMMA TornIsCore ==
    ASSUME NEW p, NEW r, NEW blind, mine[p] \in Doc, TearDown(p, r, blind)
    PROVE  SavesCore(p, r)
  <1>1. PICK t : Save(r, [mine[p] EXCEPT !.torn = t])
    BY DEF TearDown
  <1> DEFINE d == [mine[p] EXCEPT !.torn = t]
  <1>2. SameCore(d, mine[p])
    BY DEF Doc, SameCore
  <1>3. Save(r, d)
    BY <1>1
  <1> HIDE DEF d
  <1> QED BY <1>2, <1>3 DEF SavesCore

LEMMA FinalisesCore ==
    ASSUME NEW p, NEW r, mine[p] \in Doc,
           \/ Report(p, r) \/ AutoTear(p, r) \/ AutoTearBlind(p, r) \/ AssureRead(p, r)
           \/ AssureSave(p, r) \/ Notify(p, r) \/ AlreadyNotified(p, r) \/ NotifySave(p, r)
           \/ NoTeardown(p) \/ AutoTearRaises(p)
    PROVE  at[p] \in FinalLabel /\ (UNCHANGED doc \/ SavesCore(p, r))
  <1>1. CASE Report(p, r)
    <2> DEFINE d == [mine[p] EXCEPT !.report = TRUE]
    <2>1. UNCHANGED doc \/ Save(r, d)
      BY <1>1 DEF Report, docVars
    <2>2. SameCore(d, mine[p]) /\ at[p] \in FinalLabel
      BY <1>1 DEF Doc, SameCore, FinalLabel, Report
    <2> HIDE DEF d
    <2> QED BY <2>1, <2>2 DEF SavesCore
  <1>2. CASE AutoTear(p, r) \/ AutoTearBlind(p, r)
    <2>1. at[p] \in FinalLabel /\ \E blind : TearDown(p, r, blind)
      BY <1>2 DEF AutoTear, AutoTearBlind, FinalLabel
    <2> QED BY <2>1, TornIsCore
  <1>3. CASE AssureSave(p, r)
    <2> DEFINE d == [mine[p] EXCEPT !.evaluated = TRUE, !.verdict = Verdict(mine[p])]
    <2>1. Save(r, d)
      BY <1>3 DEF AssureSave
    <2>2. SameCore(d, mine[p]) /\ at[p] \in FinalLabel
      BY <1>3 DEF Doc, SameCore, FinalLabel, AssureSave
    <2> HIDE DEF d
    <2> QED BY <2>1, <2>2 DEF SavesCore
  <1>4. CASE NotifySave(p, r)
    <2> DEFINE d == [mine[p] EXCEPT !.notified = TRUE]
    <2>1. Save(r, d)
      BY <1>4 DEF NotifySave
    <2>2. SameCore(d, mine[p]) /\ at[p] \in FinalLabel
      BY <1>4 DEF Doc, SameCore, FinalLabel, NotifySave
    <2> HIDE DEF d
    <2> QED BY <2>1, <2>2 DEF SavesCore
  <1>5. CASE \/ AssureRead(p, r) \/ Notify(p, r) \/ AlreadyNotified(p, r)
             \/ NoTeardown(p) \/ AutoTearRaises(p)
    BY <1>5 DEF AssureRead, Notify, AlreadyNotified, NoTeardown, AutoTearRaises, FinalLabel, docVars
  <1> QED BY <1>1, <1>2, <1>3, <1>4, <1>5

\* Where the worker writes what has changed, the run was RUNNING.
LEMMA LiveSaves ==
    ASSUME NEW w, NEW r \in on[w], NEW q \in Runs, q # r, doc \in [Runs -> Doc],
           \/ StartEnqueue(w, r) \/ StartSaveIds(w, r) \/ StartStash(w, r)
           \/ EnqueueGroup(w, r) \/ RecordGroup(w, r)
           \/ Drop(w, r) \/ NothingLeft(w, r) \/ JudgeGroup(w, r)
    PROVE  doc'[q] = doc[q] /\ (at[w] \in Live \/ doc' = doc)
  <1>1. doc' = doc \/ \E d : Save(r, d)
    BY DEF StartEnqueue, StartSaveIds, StartStash, EnqueueGroup, RecordGroup, Drop, NothingLeft,
           JudgeGroup, EndRun, docVars
  <1>2. at[w] \in Live \/ doc' = doc
    BY DEF StartEnqueue, StartSaveIds, StartStash, EnqueueGroup, RecordGroup, Drop, NothingLeft,
           JudgeGroup, Live, StartLabel
  <1> QED BY <1>1, <1>2 DEF Save

LEMMA SameCoreChains ==
    ASSUME NEW c, NEW d, NEW e, SameCore(c, d), SameCore(d, e)
    PROVE  SameCore(c, e)
  BY DEF SameCore

\* The outcome of a run, and what it says of its jobs, stay.
LEMMA CoreStays ==
    ASSUME NEW w, Undisturbed(w), RunsInv, Apart(w), [Next]_vars,
           NEW r \in Runs, doc[r].status \in Terminal
    PROVE  SameCore(doc'[r], doc[r])
  <1>0. doc \in [Runs -> Doc] /\ Procs = {w} \cup Operators
    BY DEF RunsInv, DocsOk, Undisturbed, Procs
  <1>1. CASE UNCHANGED doc
    BY <1>1 DEF SameCore
  <1>2. ASSUME NEW p \in Procs, NEW q \in on[p], SavesCore(p, q),
               q = r => SameCore(mine[p], doc[r])
        PROVE  SameCore(doc'[r], doc[r])
    <2>1. PICK d : Save(q, d) /\ SameCore(d, mine[p])
      BY <1>2 DEF SavesCore
    <2>2. CASE q = r
      BY <1>0, <1>2, <2>1, <2>2, SameCoreChains DEF Save
    <2>3. CASE q # r
      BY <1>0, <2>1, <2>3 DEF Save, SameCore
    <2> QED BY <2>2, <2>3
  <1>3. ASSUME Finalises(w) PROVE SameCore(doc'[r], doc[r])
    <2>1. CASE NoTeardown(w) \/ AutoTearRaises(w)
      BY <1>1, <2>1 DEF NoTeardown, AutoTearRaises, docVars
    <2>2. ASSUME NEW q \in on[w],
                 \/ Report(w, q) \/ AutoTear(w, q) \/ AutoTearBlind(w, q) \/ AssureRead(w, q)
                 \/ AssureSave(w, q) \/ Notify(w, q) \/ AlreadyNotified(w, q) \/ NotifySave(w, q)
          PROVE  SameCore(doc'[r], doc[r])
      <3>1. w \in Procs /\ mine[w] \in Doc
        BY <1>0, CopyFacts
      <3>2. at[w] \in FinalLabel /\ (UNCHANGED doc \/ SavesCore(w, q))
        BY <2>2, <3>1, FinalisesCore
      <3>3. q = r => SameCore(mine[w], doc[r])
        BY <3>2 DEF Apart, WorkerApart
      <3> QED BY <1>1, <1>2, <3>1, <3>2, <3>3
    <2> QED BY <1>3, <2>1, <2>2 DEF Finalises
  <1>4. ASSUME NEW q \in on[w],
               \/ StartEnqueue(w, q) \/ StartSaveIds(w, q) \/ StartStash(w, q)
               \/ EnqueueGroup(w, q) \/ RecordGroup(w, q)
               \/ Drop(w, q) \/ NothingLeft(w, q) \/ JudgeGroup(w, q)
        PROVE  SameCore(doc'[r], doc[r])
    <2>1. CASE q = r
      <3>1. at[w] \notin Live
        BY <2>1 DEF Apart, WorkerApart, Terminal
      <3>2. UNCHANGED doc
        BY <1>4, <3>1 DEF StartEnqueue, StartSaveIds, StartStash, EnqueueGroup, RecordGroup, Drop,
           NothingLeft, JudgeGroup, Live, StartLabel
      <3> QED BY <1>1, <3>2
    <2>2. CASE q # r
      BY <1>0, <1>4, <2>2, LiveSaves DEF SameCore
    <2> QED BY <2>1, <2>2
  <1>5. ASSUME NEW q \in Runs, StartShell(w, q) PROVE SameCore(doc'[r], doc[r])
    <2>1. doc[q].status = "NONE" /\ \E d : Save(q, d)
      BY <1>5 DEF StartShell
    <2>2. q # r
      BY <2>1 DEF Terminal
    <2> QED BY <1>0, <2>1, <2>2 DEF Save, SameCore
  <1>6. ASSUME NEW o \in Operators, OperatorActs(o) PROVE SameCore(doc'[r], doc[r])
    <2>1. ASSUME NEW q \in on[o], Teardown(o, q) PROVE SameCore(doc'[r], doc[r])
      <3>1. o \in Procs /\ mine[o] \in Doc
        BY <1>0, CopyFacts
      <3>2. SavesCore(o, q)
        BY <2>1, <3>1, TornIsCore DEF Teardown
      <3>3. SameCore(mine[o], doc[q])
        BY DEF Apart, OperatorApart
      <3> QED BY <1>2, <3>1, <3>2, <3>3
    <2>2. ASSUME NEW q \in Runs, TeardownRead(o, q) PROVE UNCHANGED doc
      BY <2>2 DEF TeardownRead, docVars
    <2> QED BY <1>1, <1>6, <2>1, <2>2 DEF OperatorActs
  <1>7. ASSUME NEW j \in Job, JobWorks(j) \/ StopJob(j) PROVE UNCHANGED doc
    BY <1>7 DEF JobWorks, JobStart, JobSubmit, TaskEnds, JobEnds, StopJob, otherVars, docVars
  <1>8. CASE Next
    BY <1>1, <1>3, <1>4, <1>5, <1>6, <1>7, <1>8, StepsUndisturbed, WaitsWriteNothing
       DEF WorkerActs, Advances, Decides
  <1> QED BY <1>1, <1>8 DEF vars, docVars
-----------------------------------------------------------------------------
(* Copies stay apart.                                                      *)

LEMMA GoesFacts ==
    ASSUME RunsInv, NEW p \in Procs, NEW l, NEW d, Goes(p, l, d)
    PROVE  /\ at'[p] = l /\ mine'[p] = d /\ on'[p] = on[p]
           /\ todo'[p] = todo[p] /\ seen'[p] = seen[p]
           /\ \A q \in Procs : q # p => Untouched(q)
  BY DEF RunsInv, ProcsOk, Goes, Untouched

LEMMA EndsFacts ==
    ASSUME RunsInv, NEW p \in Procs, Ends(p)
    PROVE  /\ at'[p] \in {"next", "idle"} /\ on'[p] = {} /\ todo'[p] = todo[p] /\ seen'[p] = seen[p]
           /\ todo[p] = {} => at'[p] = "idle"
           /\ \A q \in Procs : q # p => Untouched(q)
  BY DEF RunsInv, ProcsOk, Ends, Untouched

LEMMA OperatorStaysApart ==
    ASSUME NEW w, Undisturbed(w), RunsInv, Apart(w), [Next]_vars, NEW o \in Operators, Untouched(o)
    PROVE  OperatorApart(o)'
  <1>1. OperatorApart(o) /\ on[o] \subseteq Runs
    BY DEF Apart, RunsInv, ProcsOk, Procs
  <1>2. ASSUME NEW r \in on[o] PROVE doc'[r].status \in Terminal /\ SameCore(mine[o], doc'[r])
    <2>1. doc[r].status \in Terminal /\ SameCore(mine[o], doc[r])
      BY <1>1 DEF OperatorApart
    <2>2. SameCore(doc'[r], doc[r])
      BY <1>1, <2>1, CoreStays
    <2> QED BY <2>1, <2>2 DEF SameCore
  <1> QED BY <1>1, <1>2 DEF OperatorApart, Untouched

LEMMA WorkerStaysApart ==
    ASSUME NEW w, Undisturbed(w), RunsInv, Apart(w), [Next]_vars, Untouched(w),
           \A r \in on[w] : doc[r].status \notin Terminal => doc'[r] = doc[r]
    PROVE  WorkerApart(w)'
  <1>1. WorkerApart(w) /\ on[w] \subseteq Runs
    BY DEF Apart, RunsInv, ProcsOk, Procs, Undisturbed
  <1>2. ASSUME NEW r \in on[w], at[w] \in FinalLabel
        PROVE  doc'[r].status \in Terminal /\ SameCore(mine[w], doc'[r])
    <2>1. doc[r].status \in Terminal /\ SameCore(mine[w], doc[r])
      BY <1>1, <1>2 DEF WorkerApart
    <2>2. SameCore(doc'[r], doc[r])
      BY <1>1, <2>1, CoreStays
    <2> QED BY <2>1, <2>2 DEF SameCore
  <1>3. ASSUME NEW r \in on[w], at[w] \in Live PROVE doc'[r] = doc[r]
    BY <1>1, <1>3 DEF WorkerApart, Terminal
  <1>4. {"first", "stash", "judge", "ids", "record"} \subseteq Live
    BY DEF Live, StartLabel
  <1> QED BY <1>1, <1>2, <1>3, <1>4 DEF WorkerApart, Untouched

\* The threads of jobs, when the jobs themselves stay as they are.
LEMMA ThreadsAlike ==
    ASSUME ThreadsRestore, UNCHANGED <<state, running>>
    PROVE  ThreadsRestore'
  BY DEF ThreadsRestore

LEMMA EnqueueThreads ==
    ASSUME RunsInv, ThreadsRestore, NEW r \in Runs, NEW g \in Group, Unused(r, g) # {},
           Enqueue(NextJobs(r, g))
    PROVE  ThreadsRestore'
  <1>1. running' = running /\ running \subseteq Job
    BY DEF Enqueue, RunsInv, JobsOk
  <1>2. ASSUME NEW j \in running PROVE state'[j] = "RESTORING"
    <2>1. state[j] = "RESTORING"
      BY DEF ThreadsRestore
    <2>2. j \notin NextJobs(r, g)
      BY <2>1, NextJobsAreNew
    <2> QED BY <1>1, <2>1, <2>2 DEF Enqueue
  <1> QED BY <1>1, <1>2 DEF ThreadsRestore

LEMMA JobsApart ==
    ASSUME NEW w, Undisturbed(w), RunsInv, Apart(w), NEW j \in Job, JobWorks(j) \/ StopJob(j)
    PROVE  Apart(w)'
  <1>1. UNCHANGED <<docVars, procVars>> /\ [Next]_vars
    BY DEF JobWorks, JobStart, JobSubmit, TaskEnds, JobEnds, StopJob, otherVars, Next
  <1>2. \A p \in Procs : Untouched(p)
    BY <1>1 DEF procVars, Untouched
  <1>3. WorkerApart(w)' /\ \A o \in Operators : OperatorApart(o)'
    BY <1>1, <1>2, WorkerStaysApart, OperatorStaysApart DEF docVars, Procs, Undisturbed
  <1>4. ThreadsRestore'
    <2>0. ThreadsRestore /\ state \in [Job -> {"NONE", "PENDING", "RESTORING"} \cup Terminal]
          /\ running \subseteq Job
      BY DEF Apart, RunsInv, JobsOk
    <2>1. CASE JobStart(j)
      BY <2>0, <2>1 DEF JobStart, ThreadsRestore
    <2>2. CASE JobSubmit(j) \/ \E result \in {"there", "gone"} : TaskEnds(j, result)
      BY <2>0, <2>2 DEF JobSubmit, TaskEnds, ThreadsRestore
    <2>3. ASSUME NEW s \in Terminal, JobEnds(j, s) PROVE ThreadsRestore'
      BY <2>0, <2>3 DEF JobEnds, ThreadsRestore
    <2>4. CASE StopJob(j)
      BY <2>0, <2>4 DEF StopJob, ThreadsRestore
    <2> QED BY <2>1, <2>2, <2>3, <2>4 DEF JobWorks
  <1> QED BY <1>3, <1>4 DEF Apart

LEMMA OperatorActsApart ==
    ASSUME NEW w, Undisturbed(w), RunsInv, Apart(w), NEW o \in Operators, OperatorActs(o)
    PROVE  Apart(w)'
  <1>0. /\ Procs = {w} \cup Operators /\ w \notin Operators /\ o \in Procs
        /\ doc \in [Runs -> Doc] /\ OperatorApart(o) /\ [Next]_vars
    BY PlanAssumption DEF RunsInv, DocsOk, Undisturbed, Procs, Apart, OperatorActs, Next, Proceeds, WorksOn
  <1>1. ASSUME NEW r \in Runs, TeardownRead(o, r) PROVE Apart(w)'
    <2>1. /\ UNCHANGED <<docVars, jobVars>> /\ doc[r].status \in Terminal
          /\ at'[o] = "destroy" /\ on'[o] = {r} /\ mine'[o] = doc[r]
          /\ todo'[o] = todo[o] /\ seen'[o] = seen[o]
          /\ \A q \in Procs : q # o => Untouched(q)
      <3>1. /\ at' = [at EXCEPT ![o] = "destroy"] /\ on' = [on EXCEPT ![o] = {r}]
            /\ mine' = [mine EXCEPT ![o] = doc[r]] /\ UNCHANGED <<todo, seen>>
        BY <1>1 DEF TeardownRead
      <3>2. at'[o] = "destroy" /\ on'[o] = {r} /\ mine'[o] = doc[r]
        BY <1>0, <3>1 DEF RunsInv, ProcsOk
      <3>3. ASSUME NEW q \in Procs, q # o PROVE Untouched(q)
        BY <3>1, <3>3 DEF RunsInv, ProcsOk, Untouched
      <3> QED BY <1>1, <3>1, <3>2, <3>3 DEF TeardownRead
    <2>2. OperatorApart(o)'
      BY <1>0, <2>1 DEF OperatorApart, SameCore, docVars
    <2>3. ThreadsRestore'
      BY <2>1, ThreadsAlike DEF Apart, jobVars
    <2> QED BY <1>0, <2>1, <2>2, <2>3, WorkerStaysApart, OperatorStaysApart DEF Apart, docVars
  <1>2. ASSUME NEW r \in on[o], Teardown(o, r) PROVE Apart(w)'
    <2>1. r \in Runs /\ mine[o] \in Doc
      BY <1>0, CopyFacts
    <2>2. Ends(o) /\ TearDown(o, r, {})
      BY <1>2 DEF Teardown
    <2>3. OperatorApart(o)' /\ \A q \in Procs : q # o => Untouched(q)
      BY <1>0, <2>2, EndsFacts DEF OperatorApart
    <2>4. ThreadsRestore'
      BY <2>2, ThreadsAlike DEF TearDown, Apart
    <2>5. doc[r].status \in Terminal /\ \E d : Save(r, d)
      BY <1>0, <2>1, <2>2, TornIsCore DEF OperatorApart, SavesCore
    <2>6. \A q \in Runs : doc[q].status \notin Terminal => doc'[q] = doc[q]
      BY <1>0, <2>5 DEF Save
    <2>7. on[w] \subseteq Runs
      BY <1>0 DEF RunsInv, ProcsOk
    <2> QED BY <1>0, <2>3, <2>4, <2>6, <2>7, WorkerStaysApart, OperatorStaysApart DEF Apart
  <1> QED BY <1>1, <1>2 DEF OperatorActs

LEMMA WorkerMoves ==
    ASSUME NEW w, Undisturbed(w), RunsInv, Apart(w), [Next]_vars,
           \A q \in Procs : q # w => Untouched(q), WorkerApart(w)', ThreadsRestore'
    PROVE  Apart(w)'
  <1>1. ASSUME NEW o \in Operators PROVE OperatorApart(o)'
    <2>1. Untouched(o)
      BY PlanAssumption DEF Procs, Undisturbed
    <2> QED BY <2>1, OperatorStaysApart
  <1> QED BY <1>1 DEF Apart

LEMMA EndsApart ==
    ASSUME NEW w, Undisturbed(w), RunsInv, Apart(w), [Next]_vars, Ends(w), ThreadsRestore'
    PROVE  Apart(w)'
  <1>1. /\ at'[w] \in {"next", "idle"} /\ on'[w] = {} /\ seen'[w] = seen[w]
        /\ \A q \in Procs : q # w => Untouched(q)
    BY EndsFacts DEF Undisturbed, Procs
  <1>2. WorkerApart(w)'
    BY <1>1 DEF Apart, WorkerApart
  <1> QED BY <1>1, <1>2, WorkerMoves

\* After an outcome the worker goes on with a copy that has its core.
LEMMA GoesApart ==
    ASSUME NEW w, Undisturbed(w), RunsInv, Apart(w), [Next]_vars, ThreadsRestore',
           NEW l, NEW d, Goes(w, l, d), l \in FinalLabel,
           \A r \in on[w] : doc'[r].status \in Terminal /\ SameCore(d, doc'[r])
    PROVE  Apart(w)'
  <1>1. /\ at'[w] = l /\ mine'[w] = d /\ on'[w] = on[w] /\ seen'[w] = seen[w]
        /\ \A q \in Procs : q # w => Untouched(q)
    BY GoesFacts DEF Undisturbed, Procs
  <1>2. l \notin Live \cup {"idle", "next", "cancel", "mark", "destroy", "first", "stash", "judge",
                           "ids", "record"}
    BY DEF FinalLabel, Live, StartLabel
  <1>3. WorkerApart(w)'
    BY <1>1, <1>2 DEF Apart, WorkerApart
  <1> QED BY <1>1, <1>3, WorkerMoves

LEMMA WorkerNext ==
    ASSUME NEW w, Undisturbed(w), WorkerActs(w)
    PROVE  w \in Procs /\ [Next]_vars
  <1>1. w \in Procs
    BY DEF Undisturbed, Procs
  <1>2. CASE \E r \in on[w] : WorksOn(w, r)
    BY <1>1, <1>2 DEF Next, Proceeds
  <1>3. CASE ~ \E r \in on[w] : WorksOn(w, r)
    <2>1. Waits(w) \/ Finalises(w) \/ \E r \in Runs : StartShell(w, r)
      BY <1>3 DEF WorkerActs, Advances, Decides, WorksOn
    <2>2. CASE Waits(w) \/ \E r \in Runs : StartShell(w, r)
      BY <1>1, <2>2 DEF Next, Proceeds, Waits
    <2>3. CASE Finalises(w)
      BY <1>1, <1>3, <2>3 DEF Next, Proceeds, Finalises, WorksOn
    <2> QED BY <2>1, <2>2, <2>3
  <1> QED BY <1>1, <1>2, <1>3

LEMMA WaitsApart ==
    ASSUME NEW w, Undisturbed(w), RunsInv, Apart(w), Waits(w)
    PROVE  Apart(w)'
  <1>0. w \in Procs /\ [Next]_vars /\ WorkerApart(w)
    BY WorkerNext DEF WorkerActs, Apart
  <1>1. UNCHANGED doc /\ ThreadsRestore'
    BY WaitsWriteNothing, ThreadsAlike DEF Apart, jobVars
  <1>2. CASE Tick(w)
    <2>1. /\ at[w] = "idle" /\ at' = [at EXCEPT ![w] = "next"]
          /\ UNCHANGED <<on, mine, seen>> /\ todo' = [todo EXCEPT ![w] = active]
      BY <1>2 DEF Tick
    <2>2. at'[w] = "next" /\ \A q \in Procs : q # w => Untouched(q)
      BY <1>0, <2>1 DEF RunsInv, ProcsOk, Untouched
    <2>3. WorkerApart(w)'
      BY <1>0, <2>1, <2>2 DEF WorkerApart
    <2> QED BY <1>0, <1>1, <2>2, <2>3, WorkerMoves
  <1>3. ASSUME NEW r \in Runs, TakeRun(w, r) PROVE Apart(w)'
    <2>0. doc[r].status \in {"NONE", "RUNNING"} \cup Terminal /\ doc' = doc
      BY <1>1 DEF RunsInv, DocsOk, Doc
    <2>1. /\ at' = [at EXCEPT ![w] = IF doc[r].status = "RUNNING" THEN "judge" ELSE "drop"]
          /\ on' = [on EXCEPT ![w] = {r}] /\ mine' = [mine EXCEPT ![w] = doc[r]]
          /\ UNCHANGED seen /\ todo' = [todo EXCEPT ![w] = @ \ {r}]
      BY <1>3 DEF TakeRun
    <2>2. /\ at'[w] = IF doc[r].status = "RUNNING" THEN "judge" ELSE "drop"
          /\ on'[w] = {r} /\ mine'[w] = doc[r]
      BY <1>0, <2>1 DEF RunsInv, ProcsOk
    <2>3. ASSUME NEW q \in Procs, q # w PROVE Untouched(q)
      BY <2>1, <2>3 DEF RunsInv, ProcsOk, Untouched
    <2>4. (at'[w] = "judge" /\ doc[r].status = "RUNNING") \/ at'[w] = "drop"
      BY <2>2
    <2>5. WorkerApart(w)'
      BY <1>0, <2>0, <2>1, <2>2, <2>4 DEF WorkerApart, FinalLabel, Live, StartLabel
    <2> QED BY <1>0, <1>1, <2>3, <2>5, WorkerMoves
  <1>4. CASE StillRunning(w)
    BY <1>0, <1>1, <1>4, EndsApart DEF StillRunning
  <1>5. CASE EnqueueRaises(w)
    <2>1. /\ at' = [at EXCEPT ![w] = "idle"] /\ on' = [on EXCEPT ![w] = {}]
          /\ mine' = [mine EXCEPT ![w] = NoDoc] /\ todo' = [todo EXCEPT ![w] = {}]
          /\ UNCHANGED seen
      BY <1>5 DEF EnqueueRaises
    <2>2. at'[w] = "idle" /\ on'[w] = {}
      BY <1>0, <2>1 DEF RunsInv, ProcsOk
    <2>3. ASSUME NEW q \in Procs, q # w PROVE Untouched(q)
      BY <2>1, <2>3 DEF RunsInv, ProcsOk, Untouched
    <2>4. WorkerApart(w)'
      BY <1>0, <2>1, <2>2 DEF WorkerApart
    <2> QED BY <1>0, <1>1, <2>3, <2>4, WorkerMoves
  <1> QED BY <1>2, <1>3, <1>4, <1>5 DEF Waits

\* Where the worker goes after each step of the finish, and with which copy.
LEMMA FinalisesGoes ==
    ASSUME NEW p, NEW r, mine[p] \in Doc,
           \/ Report(p, r) \/ AutoTear(p, r) \/ AutoTearBlind(p, r) \/ AssureRead(p, r)
           \/ AssureSave(p, r) \/ Notify(p, r) \/ AlreadyNotified(p, r) \/ NotifySave(p, r)
           \/ NoTeardown(p) \/ AutoTearRaises(p)
    PROVE  /\ UNCHANGED <<state, running>>
           /\ \/ Ends(p)
              \/ \E l \in FinalLabel : \E d : Goes(p, l, d) /\ (SameCore(d, mine[p]) \/ d = doc[r])
  <1>1. UNCHANGED <<state, running>>
    BY DEF Report, AutoTear, AutoTearBlind, AssureRead, AssureSave, Notify, AlreadyNotified,
           NotifySave, NoTeardown, AutoTearRaises, TearDown, jobVars
  <1>2. CASE Report(p, r) /\ mine[p].report
    <2>1. Goes(p, "teardown", mine[p]) /\ "teardown" \in FinalLabel /\ SameCore(mine[p], mine[p])
      BY <1>2 DEF Report, FinalLabel, SameCore
    <2> QED BY <1>1, <2>1
  <1>3. CASE Report(p, r) /\ ~mine[p].report
    <2> DEFINE d == [mine[p] EXCEPT !.report = TRUE]
    <2>1. Goes(p, "teardown", d)
      BY <1>3 DEF Report
    <2>2. SameCore(d, mine[p]) /\ "teardown" \in FinalLabel
      BY DEF Doc, SameCore, FinalLabel
    <2> HIDE DEF d
    <2> QED BY <1>1, <2>1, <2>2
  <1>4. CASE AutoTear(p, r) \/ AutoTearBlind(p, r) \/ NoTeardown(p) \/ AutoTearRaises(p)
    <2>1. Goes(p, "assure", mine[p]) /\ "assure" \in FinalLabel /\ SameCore(mine[p], mine[p])
      BY <1>4 DEF AutoTear, AutoTearBlind, NoTeardown, AutoTearRaises, FinalLabel, SameCore
    <2> QED BY <1>1, <2>1
  <1>5. CASE AssureRead(p, r)
    <2>1. \E l \in {"notify", "verdict"} : Goes(p, l, doc[r])
      BY <1>5 DEF AssureRead
    <2> QED BY <1>1, <2>1 DEF FinalLabel
  <1>6. CASE AssureSave(p, r) \/ Notify(p, r)
    <2>1. Goes(p, "notify", mine[p]) \/ Goes(p, "sent", doc[r])
      BY <1>6 DEF AssureSave, Notify
    <2> QED BY <1>1, <2>1 DEF FinalLabel, SameCore
  <1>7. CASE AlreadyNotified(p, r) \/ NotifySave(p, r)
    BY <1>1, <1>7 DEF AlreadyNotified, NotifySave
  <1> QED BY <1>1, <1>2, <1>3, <1>4, <1>5, <1>6, <1>7

LEMMA FinalisesApart ==
    ASSUME NEW w, Undisturbed(w), RunsInv, Apart(w), Finalises(w)
    PROVE  Apart(w)'
  <1>0. w \in Procs /\ [Next]_vars /\ WorkerApart(w) /\ mine[w] \in Doc
    BY WorkerNext DEF WorkerActs, Apart, RunsInv, ProcsOk
  <1>1. \A q, r \in on[w] : q = r
    BY <1>0 DEF RunsInv, ProcsOk, InHand
  <1>2. ASSUME NEW r,
               \/ r \in on[w] /\ \/ Report(w, r) \/ AutoTear(w, r) \/ AutoTearBlind(w, r)
                                 \/ AssureRead(w, r) \/ AssureSave(w, r) \/ Notify(w, r)
                                 \/ AlreadyNotified(w, r) \/ NotifySave(w, r)
               \/ (on[w] = {} \/ r \in on[w]) /\ (NoTeardown(w) \/ AutoTearRaises(w))
        PROVE  Apart(w)'
    <2>1. at[w] \in FinalLabel
      BY <1>0, <1>2, FinalisesCore
    <2>2. /\ UNCHANGED <<state, running>>
          /\ \/ Ends(w)
             \/ \E l \in FinalLabel : \E d : Goes(w, l, d) /\ (SameCore(d, mine[w]) \/ d = doc[r])
      BY <1>0, <1>2, FinalisesGoes
    <2>3. ThreadsRestore'
      BY <2>2, ThreadsAlike DEF Apart
    <2>4. ASSUME NEW l \in FinalLabel, NEW d, Goes(w, l, d), SameCore(d, mine[w]) \/ d = doc[r]
          PROVE  Apart(w)'
      <3>1. ASSUME NEW q \in on[w] PROVE doc'[q].status \in Terminal /\ SameCore(d, doc'[q])
        <4>1. q = r /\ q \in Runs
          BY <1>0, <1>1, <1>2 DEF RunsInv, ProcsOk
        <4>2. doc[q].status \in Terminal /\ SameCore(mine[w], doc[q])
          BY <1>0, <2>1 DEF WorkerApart
        <4>3. SameCore(doc'[q], doc[q])
          BY <1>0, <4>1, <4>2, CoreStays
        <4>4. SameCore(d, doc[q])
          BY <2>4, <4>1, <4>2 DEF SameCore
        <4> QED BY <4>2, <4>3, <4>4 DEF SameCore
      <3> QED BY <1>0, <2>3, <2>4, <3>1, GoesApart
    <2> QED BY <1>0, <2>2, <2>3, <2>4, EndsApart
  <1>3. CASE NoTeardown(w) \/ AutoTearRaises(w)
    <2>1. CASE on[w] = {}
      BY <1>2, <1>3, <2>1
    <2>2. CASE on[w] # {}
      <3>1. PICK r \in on[w] : TRUE
        BY <2>2
      <3> QED BY <1>2, <1>3, <3>1
    <2> QED BY <2>1, <2>2
  <1> QED BY <1>2, <1>3 DEF Finalises

LEMMA EndRunApart ==
    ASSUME NEW w, Undisturbed(w), RunsInv, Apart(w), [Next]_vars, ThreadsRestore',
           NEW r \in on[w], NEW status \in Terminal, NEW idx, EndRun(w, r, status, idx)
    PROVE  Apart(w)'
  <1> DEFINE d == [mine[w] EXCEPT !.status = status, !.idx = idx]
  <1>1. w \in Procs /\ on[w] \subseteq Runs /\ mine[w] \in Doc /\ doc \in [Runs -> Doc]
    BY DEF Undisturbed, Procs, RunsInv, ProcsOk, DocsOk
  <1>2. Save(r, d) /\ Goes(w, "report", d)
    BY DEF EndRun
  <1>3. d.status = status
    BY <1>1 DEF Doc
  <1> HIDE DEF d
  <1>4. doc'[r] = d
    BY <1>1, <1>2 DEF Save
  <1>5. \A q \in on[w] : q = r
    BY <1>1 DEF RunsInv, ProcsOk, InHand
  <1>6. SameCore(d, d) /\ "report" \in FinalLabel
    BY DEF SameCore, FinalLabel
  <1> QED BY <1>2, <1>3, <1>4, <1>5, <1>6, GoesApart

\* Between two saves of a run that goes on the worker has a copy in hand.
LEMMA CopyApart ==
    ASSUME NEW w, Undisturbed(w), RunsInv, Apart(w), [Next]_vars, ThreadsRestore',
           NEW l \in {"ids", "stash", "record"}, NEW d, Goes(w, l, d),
           \A r \in on[w] : /\ doc'[r].status = "RUNNING" /\ d.pend = doc'[r].pend
                            /\ l = "stash" => d = doc'[r]
    PROVE  Apart(w)'
  <1>1. /\ at'[w] = l /\ mine'[w] = d /\ on'[w] = on[w] /\ seen'[w] = seen[w]
        /\ \A q \in Procs : q # w => Untouched(q)
    BY GoesFacts DEF Undisturbed, Procs
  <1>2. l \notin FinalLabel \cup {"cancel", "mark", "destroy", "idle", "next", "first", "judge"}
    BY DEF FinalLabel
  <1>3. WorkerApart(w)'
    BY <1>1, <1>2 DEF Apart, WorkerApart
  <1> QED BY <1>1, <1>3, WorkerMoves

LEMMA StartShellApart ==
    ASSUME NEW w, Undisturbed(w), RunsInv, Apart(w), NEW r \in Runs, StartShell(w, r)
    PROVE  Apart(w)'
  <1>0. w \in Procs /\ [Next]_vars /\ WorkerApart(w) /\ doc \in [Runs -> Doc]
    BY WorkerNext DEF WorkerActs, Apart, RunsInv, DocsOk
  <1>1. PICK d : /\ Save(r, d) /\ mine' = [mine EXCEPT ![w] = d] /\ d.status = "RUNNING"
    <2> DEFINE d == [NoDoc EXCEPT !.status = "RUNNING", !.idx = Opening]
    <2>1. Save(r, d) /\ mine' = [mine EXCEPT ![w] = d]
      BY DEF StartShell, Opening
    <2>2. d.status = "RUNNING"
      BY DEF NoDoc
    <2> HIDE DEF d
    <2> QED BY <2>1, <2>2
  <1>2. /\ at[w] = "idle" /\ at' = [at EXCEPT ![w] = "first"] /\ on' = [on EXCEPT ![w] = {r}]
        /\ UNCHANGED <<todo, seen, jobVars>>
    BY DEF StartShell
  <1>3. at'[w] = "first" /\ on'[w] = {r} /\ mine'[w] = d /\ doc'[r] = d
    BY <1>0, <1>1, <1>2 DEF RunsInv, ProcsOk, Save
  <1>4. ASSUME NEW q \in Procs, q # w PROVE Untouched(q)
    BY <1>1, <1>2, <1>4 DEF RunsInv, ProcsOk, Untouched
  <1>5. WorkerApart(w)'
    BY <1>0, <1>1, <1>2, <1>3 DEF WorkerApart, FinalLabel
  <1>6. ThreadsRestore'
    BY <1>2, ThreadsAlike DEF jobVars, Apart
  <1> QED BY <1>0, <1>4, <1>5, <1>6, WorkerMoves

LEMMA AdvancesApart ==
    ASSUME NEW w, Undisturbed(w), RunsInv, Apart(w), Advances(w)
    PROVE  Apart(w)'
  <1>0. /\ w \in Procs /\ [Next]_vars /\ WorkerApart(w) /\ ThreadsRestore
        /\ on[w] \subseteq Runs /\ doc \in [Runs -> Doc] /\ mine[w] \in Doc
        /\ \A q, r \in on[w] : q = r
    BY WorkerNext DEF WorkerActs, Apart, RunsInv, DocsOk, ProcsOk, InHand
  <1>1. PICK r \in on[w] :
           \/ StartEnqueue(w, r) \/ StartSaveIds(w, r) \/ StartStash(w, r)
           \/ EnqueueGroup(w, r) \/ RecordGroup(w, r)
    BY DEF Advances
  <1>2. r \in Runs /\ at[w] \in Live /\ InHand(w) /\ mine[w].idx \in 1 .. Groups + 1
    BY <1>0, <1>1, CopyFacts
       DEF StartEnqueue, StartSaveIds, StartStash, EnqueueGroup, RecordGroup, Live, StartLabel
  <1>3. doc[r].status = "RUNNING" /\ mine[w].status = "RUNNING"
    BY <1>0, <1>2 DEF WorkerApart, InHand
  <1>4. CASE StartEnqueue(w, r)
    <2> DEFINE i == mine[w].idx
               d == [mine[w] EXCEPT !.ids[i] = NextJobs(r, i)]
    <2>1. /\ at[w] = "first" /\ Unused(r, i) # {} /\ Enqueue(NextJobs(r, i)) /\ Goes(w, "ids", d)
          /\ UNCHANGED doc
      BY <1>4 DEF StartEnqueue, docVars
    <2>2. i \in Group
      BY <1>2, <2>1, OpeningIsLeast DEF InHand, NonEmpty, StartLabel
    <2>3. d.pend = mine[w].pend /\ mine[w] = doc[r]
      BY <1>0, <2>1 DEF Doc, WorkerApart
    <2> HIDE DEF d, i
    <2>4. ThreadsRestore'
      BY <1>0, <1>2, <2>1, <2>2, EnqueueThreads
    <2> QED BY <1>0, <1>3, <2>1, <2>3, <2>4, CopyApart
  <1>5. CASE EnqueueGroup(w, r)
    <2> DEFINE i == Current(w)
               d == [mine[w] EXCEPT !.ids[i] = NextJobs(r, i), !.idx = i]
    <2>1. /\ at[w] = "judge" /\ Unused(r, i) # {} /\ Enqueue(NextJobs(r, i)) /\ Goes(w, "record", d)
          /\ UNCHANGED doc /\ i \in Group
      BY <1>5 DEF EnqueueGroup, docVars
    <2>3. d.pend = mine[w].pend /\ mine[w] = doc[r]
      BY <1>0, <2>1 DEF Doc, WorkerApart
    <2> HIDE DEF d, i
    <2>4. ThreadsRestore'
      BY <1>0, <1>2, <2>1, EnqueueThreads
    <2> QED BY <1>0, <1>3, <2>1, <2>3, <2>4, CopyApart
  <1>6. CASE StartSaveIds(w, r)
    <2>1. Save(r, mine[w]) /\ Goes(w, "stash", mine[w]) /\ UNCHANGED <<state, running>>
      BY <1>6 DEF StartSaveIds, jobVars
    <2>2. doc'[r] = mine[w]
      BY <1>0, <2>1 DEF Save
    <2>3. ThreadsRestore'
      BY <1>0, <2>1, ThreadsAlike
    <2> QED BY <1>0, <1>3, <2>1, <2>2, <2>3, CopyApart
  <1>7. CASE StartStash(w, r) \/ RecordGroup(w, r)
    <2>1. Ends(w) /\ UNCHANGED <<state, running>>
      BY <1>7 DEF StartStash, RecordGroup, jobVars
    <2> QED BY <1>0, <2>1, ThreadsAlike, EndsApart
  <1> QED BY <1>1, <1>4, <1>5, <1>6, <1>7

LEMMA DecidesApart ==
    ASSUME NEW w, Undisturbed(w), RunsInv, Apart(w), Decides(w)
    PROVE  Apart(w)'
  <1>0. [Next]_vars /\ ThreadsRestore
    BY WorkerNext DEF WorkerActs, Apart
  <1>1. PICK r \in on[w] : Drop(w, r) \/ NothingLeft(w, r) \/ JudgeGroup(w, r)
    BY DEF Decides
  <1>2. ThreadsRestore'
    <2>1. UNCHANGED <<state, running>>
      BY <1>1 DEF Drop, NothingLeft, JudgeGroup, jobVars
    <2> QED BY <1>0, <2>1, ThreadsAlike
  <1>3. Ends(w) \/ \E status \in Terminal : \E idx : EndRun(w, r, status, idx)
    <2>1. CASE Drop(w, r)
      BY <2>1 DEF Drop
    <2>2. CASE NothingLeft(w, r)
      BY <2>2 DEF NothingLeft, Terminal
    <2>3. CASE JudgeGroup(w, r)
      BY <2>3 DEF JudgeGroup, Terminal
    <2> QED BY <1>1, <2>1, <2>2, <2>3
  <1> QED BY <1>0, <1>1, <1>2, <1>3, EndRunApart, EndsApart

\* One worker that nobody disturbs never works on a copy that is out of date.
LEMMA ApartKept ==
    ASSUME NEW w, Undisturbed(w), RunsInv, Apart(w), [Next]_vars
    PROVE  Apart(w)'
  <1>1. CASE Next
    BY <1>1, StepsUndisturbed, WaitsApart, FinalisesApart, AdvancesApart, DecidesApart,
       StartShellApart, OperatorActsApart, JobsApart DEF WorkerActs
  <1>2. CASE UNCHANGED vars
    <2>1. UNCHANGED <<doc, state, running>> /\ \A p \in Procs : Untouched(p)
      BY <1>2 DEF vars, docVars, jobVars, procVars, Untouched
    <2>2. ThreadsRestore' /\ w \in Procs
      BY <2>1, ThreadsAlike DEF Apart, Undisturbed, Procs
    <2> QED BY <2>1, <2>2, WorkerStaysApart, WorkerMoves
  <1> QED BY <1>1, <1>2

LEMMA ApartInitially ==
    ASSUME NEW w, Undisturbed(w), Init PROVE Apart(w)
  <1>1. /\ \A p \in Procs : at[p] = "idle" /\ on[p] = {} /\ todo[p] = {} /\ seen[p] = {}
        /\ running = {}
    BY DEF Init
  <1> QED BY <1>1 DEF Apart, WorkerApart, OperatorApart, ThreadsRestore, Procs, Undisturbed
-----------------------------------------------------------------------------
(* The jobs of a run.                                                      *)

LEMMA JobsOfFacts ==
    ASSUME NEW r \in Runs, NEW g \in Group, NEW a \in 1 .. Attempts, NEW j \in JobsOf(r, g, a)
    PROVE  j \in Job /\ j[1] = r /\ j[2] = g
  <1>1. j \in Job
    BY DEF Job
  <1>2. PICK k \in 1 .. Rows[g] : j = <<r, g, k, a>>
    BY DEF JobsOf
  <1> QED BY <1>1, <1>2

\* A group is started when it has jobs.
LEMMA StartedIs ==
    ASSUME NEW r \in Runs, NEW g \in Group
    PROVE  Started(r, g) <=> GroupJobs(r, g) # {}
  <1>1. ASSUME NEW a \in 1 .. Attempts, NEW j \in JobsOf(r, g, a)
        PROVE  j \in Job /\ j[1] = r /\ j[2] = g
    BY JobsOfFacts
  <1>2. ASSUME NEW j \in Job, j[1] = r, j[2] = g
        PROVE  \E a \in 1 .. Attempts : j \in JobsOf(r, g, a)
    <2>1. PICK q \in Runs, h \in Group, a \in 1 .. Attempts : j \in JobsOf(q, h, a)
      BY DEF Job
    <2>2. PICK k \in 1 .. Rows[h] : j = <<q, h, k, a>>
      BY <2>1 DEF JobsOf
    <2> QED BY <1>2, <2>1, <2>2
  <1> QED BY <1>1, <1>2 DEF Started, GroupJobs, Created

\* The jobs of run r after a step that creates none of them.
JobsAlike(r) ==
    \A j \in Job : j[1] = r =>
        /\ state'[j] = "NONE" <=> state[j] = "NONE"
        /\ state[j] \in Terminal => state'[j] = state[j]

LEMMA AlikeFacts ==
    ASSUME NEW r \in Runs, JobsAlike(r)
    PROVE  /\ Created(r)' = Created(r)
           /\ \A g \in Group : GroupJobs(r, g)' = GroupJobs(r, g)
           /\ \A g \in Group : Settled(r, g) => Settled(r, g)'
           /\ \A g \in Group : Started(r, g)' <=> Started(r, g)
           /\ \A j \in Created(r) : state[j] \in Terminal => state'[j] = state[j]
  <1>1. Created(r)' = Created(r)
    BY DEF JobsAlike, Created
  <1>2. \A g \in Group : GroupJobs(r, g)' = GroupJobs(r, g)
    BY <1>1 DEF GroupJobs
  <1>3. \A j \in Created(r) : state[j] \in Terminal => state'[j] = state[j]
    BY DEF JobsAlike, Created
  <1>4. ASSUME NEW g \in Group PROVE Started(r, g)' <=> Started(r, g)
    <2>1. \A a \in 1 .. Attempts : \A j \in JobsOf(r, g, a) : j \in Job /\ j[1] = r
      BY JobsOfFacts
    <2> QED BY <2>1 DEF Started, JobsAlike
  <1>5. ASSUME NEW g \in Group, Settled(r, g) PROVE Settled(r, g)'
    <2>1. \A j \in GroupJobs(r, g) : state'[j] \in Terminal
      BY <1>3, <1>5 DEF Settled, GroupJobs
    <2> QED BY <1>2, <1>4, <1>5, <2>1 DEF Settled
  <1> QED BY <1>1, <1>2, <1>3, <1>4, <1>5

\* The steps that change a job.
LEMMA JobsChangedBy ==
    ASSUME NEW w, Undisturbed(w), RunsInv, Apart(w), [Next]_vars
    PROVE  \/ UNCHANGED state
           \/ \E r \in on[w] : StartEnqueue(w, r) \/ EnqueueGroup(w, r)
           \/ \E j \in Job : JobWorks(j) \/ StopJob(j)
  <1>1. CASE WorkerActs(w)
    <2>1. CASE Waits(w)
      BY <2>1, WaitsWriteNothing DEF jobVars
    <2>2. CASE Finalises(w)
      BY <2>2 DEF Finalises, Report, AutoTear, AutoTearBlind, AssureRead, AssureSave, Notify,
                  AlreadyNotified, NotifySave, NoTeardown, AutoTearRaises, TearDown, jobVars
    <2>3. CASE Advances(w) \/ Decides(w)
      BY <2>3 DEF Advances, Decides, StartSaveIds, StartStash, RecordGroup, Drop, NothingLeft,
                  JudgeGroup, jobVars
    <2>4. CASE \E r \in Runs : StartShell(w, r)
      BY <2>4 DEF StartShell, jobVars
    <2> QED BY <1>1, <2>1, <2>2, <2>3, <2>4 DEF WorkerActs
  <1>2. ASSUME NEW o \in Operators, OperatorActs(o) PROVE UNCHANGED state
    BY <1>2 DEF OperatorActs, TeardownRead, Teardown, TearDown, jobVars
  <1>3. CASE UNCHANGED vars
    BY <1>3 DEF vars, jobVars
  <1> QED BY <1>1, <1>2, <1>3, StepsUndisturbed

\* A run that is not being enqueued has the same jobs after a step.
LEMMA JobsStayAlike ==
    ASSUME NEW w, Undisturbed(w), RunsInv, Apart(w), [Next]_vars, NEW r \in Runs,
           ~(r \in on[w] /\ (StartEnqueue(w, r) \/ EnqueueGroup(w, r)))
    PROVE  JobsAlike(r)
  <1>0. state \in [Job -> {"NONE", "PENDING", "RESTORING"} \cup Terminal]
    BY DEF RunsInv, JobsOk
  <1>1. CASE UNCHANGED state
    BY <1>1 DEF JobsAlike
  <1>2. ASSUME NEW q \in on[w], StartEnqueue(w, q) \/ EnqueueGroup(w, q)
        PROVE  JobsAlike(r)
    <2>1. q \in Runs /\ q # r /\ w \in Procs /\ InHand(w)
      BY <1>2, CopyFacts DEF Undisturbed, Procs
    <2>2. PICK g \in Group : Unused(q, g) # {} /\ Enqueue(NextJobs(q, g))
      <3>1. CASE StartEnqueue(w, q)
        <4>1. mine[w].idx \in Group
          BY <2>1, <3>1, OpeningIsLeast DEF StartEnqueue, InHand, StartLabel, NonEmpty
        <4> QED BY <3>1, <4>1 DEF StartEnqueue
      <3>2. CASE EnqueueGroup(w, q)
        BY <3>2 DEF EnqueueGroup
      <3> QED BY <1>2, <3>1, <3>2
    <2>3. \A j \in NextJobs(q, g) : j[1] # r
      BY <2>1, <2>2, NextJobsAreNew
    <2> QED BY <1>0, <2>2, <2>3 DEF Enqueue, JobsAlike
  <1>3. ASSUME NEW j \in Job, JobWorks(j) \/ StopJob(j) PROVE JobsAlike(r)
    <2>1. CASE JobStart(j) \/ StopJob(j)
      BY <1>0, <2>1 DEF JobStart, StopJob, JobsAlike, Terminal
    <2>2. ASSUME NEW s \in Terminal, JobEnds(j, s) PROVE JobsAlike(r)
      <3>1. state[j] = "RESTORING" /\ state' = [state EXCEPT ![j] = s]
        BY <2>2 DEF JobEnds, Apart, ThreadsRestore
      <3> QED BY <1>0, <3>1 DEF JobsAlike, Terminal
    <2>3. CASE UNCHANGED state
      BY <1>1, <2>3
    <2> QED BY <1>3, <2>1, <2>2, <2>3 DEF JobWorks, JobSubmit, TaskEnds
  <1> QED BY <1>1, <1>2, <1>3, JobsChangedBy

\* A group that has no jobs gets the first ones, and no other group changes.
LEMMA GroupCreated ==
    ASSUME RunsInv, NEW r \in Runs, NEW g \in Group, GroupJobs(r, g) = {},
           Enqueue(NextJobs(r, g))
    PROVE  /\ NextJobs(r, g) = JobsOf(r, g, 1)
           /\ GroupJobs(r, g)' = JobsOf(r, g, 1)
           /\ \A h \in Group : h # g => GroupJobs(r, h)' = GroupJobs(r, h)
           /\ \A j \in JobsOf(r, g, 1) : state[j] = "NONE" /\ state'[j] = "PENDING"
           /\ \A j \in Job : j \notin JobsOf(r, g, 1) => state'[j] = state[j]
           /\ \A j \in JobsOf(r, g, 1) : j \in Job /\ j[1] = r /\ j[2] = g
  <1>1. \A a \in 1 .. Attempts : \A j \in JobsOf(r, g, a) : j \in Job /\ j[1] = r /\ j[2] = g
    BY JobsOfFacts
  <1>2. Unused(r, g) = 1 .. Attempts
    BY <1>1 DEF Unused, GroupJobs, Created
  <1>3. 1 \in Unused(r, g) /\ \A b \in Unused(r, g) : 1 <= b
    BY <1>2, PlanAssumption
  <1> DEFINE a == CHOOSE a \in Unused(r, g) : \A b \in Unused(r, g) : a <= b
  <1>4. a = 1
    <2>1. a \in Unused(r, g) /\ \A b \in Unused(r, g) : a <= b
      BY <1>3
    <2> HIDE DEF a
    <2> QED BY <1>2, <1>3, <2>1, PlanAssumption
  <1>5. NextJobs(r, g) = JobsOf(r, g, 1)
    BY <1>4 DEF NextJobs
  <1>6. \A j \in JobsOf(r, g, 1) : state[j] = "NONE" /\ j \in Job /\ j[1] = r /\ j[2] = g
    BY <1>1, <1>3 DEF Unused
  <1>7. state' = [j \in Job |-> IF j \in JobsOf(r, g, 1) THEN "PENDING" ELSE state[j]]
    BY <1>5 DEF Enqueue
  <1>8. \A j \in JobsOf(r, g, 1) : state'[j] = "PENDING"
    BY <1>6, <1>7
  <1>9. GroupJobs(r, g)' = JobsOf(r, g, 1)
    <2>1. ASSUME NEW j \in Job, j[1] = r, j[2] = g, state'[j] # "NONE"
          PROVE  j \in JobsOf(r, g, 1)
      BY <1>7, <2>1 DEF GroupJobs, Created
    <2> QED BY <1>6, <1>8, <2>1 DEF GroupJobs, Created
  <1>10. ASSUME NEW h \in Group, h # g PROVE GroupJobs(r, h)' = GroupJobs(r, h)
    <2>1. \A j \in Job : j[2] = h => state'[j] = state[j]
      BY <1>6, <1>7, <1>10
    <2> QED BY <2>1 DEF GroupJobs, Created
  <1> QED BY <1>5, <1>6, <1>7, <1>8, <1>9, <1>10
-----------------------------------------------------------------------------
(* What the documents say of the jobs stays true.                          *)

\* The steps that change more of a document than what follows its outcome.
MovesOn(w, r) ==
    \/ StartShell(w, r)
    \/ r \in on[w] /\ \/ StartEnqueue(w, r) \/ StartSaveIds(w, r) \/ StartStash(w, r)
                      \/ EnqueueGroup(w, r) \/ RecordGroup(w, r)
                      \/ Drop(w, r) \/ NothingLeft(w, r) \/ JudgeGroup(w, r)

LEMMA CoreKept ==
    ASSUME NEW w, Undisturbed(w), RunsInv, Apart(w), [Next]_vars, NEW r \in Runs, ~MovesOn(w, r)
    PROVE  SameCore(doc'[r], doc[r])
  <1>0. doc \in [Runs -> Doc] /\ w \in Procs /\ \A p \in Procs : on[p] \subseteq Runs
    BY DEF RunsInv, DocsOk, ProcsOk, Undisturbed, Procs
  <1>1. CASE doc[r].status \in Terminal
    BY <1>1, CoreStays
  <1>2. CASE UNCHANGED doc
    BY <1>2 DEF SameCore
  <1>3. ASSUME doc[r].status \notin Terminal, NEW q, q \in Runs, doc[q].status \in Terminal,
               NEW d, Save(q, d)
        PROVE  SameCore(doc'[r], doc[r])
    BY <1>0, <1>3 DEF Save, SameCore
  <1>4. ASSUME doc[r].status \notin Terminal, Finalises(w) PROVE SameCore(doc'[r], doc[r])
    <2>1. CASE NoTeardown(w) \/ AutoTearRaises(w)
      BY <1>2, <2>1 DEF NoTeardown, AutoTearRaises, docVars
    <2>2. ASSUME NEW q \in on[w],
                 \/ Report(w, q) \/ AutoTear(w, q) \/ AutoTearBlind(w, q) \/ AssureRead(w, q)
                 \/ AssureSave(w, q) \/ Notify(w, q) \/ AlreadyNotified(w, q) \/ NotifySave(w, q)
          PROVE  SameCore(doc'[r], doc[r])
      <3>1. mine[w] \in Doc /\ q \in Runs
        BY <1>0, CopyFacts
      <3>2. at[w] \in FinalLabel /\ (UNCHANGED doc \/ SavesCore(w, q))
        BY <2>2, <3>1, FinalisesCore
      <3>3. doc[q].status \in Terminal
        BY <3>2 DEF Apart, WorkerApart
      <3> QED BY <1>2, <1>3, <1>4, <3>1, <3>2, <3>3 DEF SavesCore
    <2> QED BY <1>4, <2>1, <2>2 DEF Finalises
  <1>5. CASE Advances(w) \/ Decides(w)
    <2>1. PICK q \in on[w] :
               \/ StartEnqueue(w, q) \/ StartSaveIds(w, q) \/ StartStash(w, q)
               \/ EnqueueGroup(w, q) \/ RecordGroup(w, q)
               \/ Drop(w, q) \/ NothingLeft(w, q) \/ JudgeGroup(w, q)
      BY <1>5 DEF Advances, Decides
    <2>2. q # r
      BY <2>1 DEF MovesOn
    <2> QED BY <1>0, <2>1, <2>2, LiveSaves DEF SameCore
  <1>6. ASSUME NEW q \in Runs, StartShell(w, q) PROVE SameCore(doc'[r], doc[r])
    <2>1. q # r /\ \E d : Save(q, d)
      BY <1>6 DEF StartShell, MovesOn
    <2> QED BY <1>0, <2>1 DEF Save, SameCore
  <1>7. ASSUME doc[r].status \notin Terminal, NEW o \in Operators, OperatorActs(o)
        PROVE  SameCore(doc'[r], doc[r])
    <2>1. ASSUME NEW q \in on[o], Teardown(o, q) PROVE SameCore(doc'[r], doc[r])
      <3>1. o \in Procs /\ q \in Runs /\ mine[o] \in Doc
        BY CopyFacts DEF Procs
      <3>2. SavesCore(o, q)
        BY <2>1, <3>1, TornIsCore DEF Teardown
      <3>3. doc[q].status \in Terminal
        BY DEF Apart, OperatorApart
      <3> QED BY <1>3, <1>7, <3>1, <3>2, <3>3 DEF SavesCore
    <2>2. ASSUME NEW q \in Runs, TeardownRead(o, q) PROVE UNCHANGED doc
      BY <2>2 DEF TeardownRead, docVars
    <2> QED BY <1>2, <1>7, <2>1, <2>2 DEF OperatorActs
  <1>8. ASSUME NEW j \in Job, JobWorks(j) \/ StopJob(j) PROVE UNCHANGED doc
    BY <1>8 DEF JobWorks, JobStart, JobSubmit, TaskEnds, JobEnds, StopJob, otherVars, docVars
  <1>9. CASE Next
    BY <1>1, <1>2, <1>4, <1>5, <1>6, <1>7, <1>8, <1>9, StepsUndisturbed, WaitsWriteNothing
       DEF WorkerActs
  <1> QED BY <1>2, <1>9 DEF vars, docVars

\* In every other step the worker stays where it is, or is not about to save
\* jobs, neither before nor after.
SavesJobs == StartLabel \cup {"record"}

LEMMA PlaceKept ==
    ASSUME NEW w, Undisturbed(w), RunsInv, Apart(w), [Next]_vars, \A r \in Runs : ~MovesOn(w, r)
    PROVE  Untouched(w) \/ (at[w] \notin SavesJobs /\ at'[w] \notin SavesJobs)
  <1>0. /\ w \in Procs /\ w \notin Operators /\ on[w] \subseteq Runs /\ mine[w] \in Doc
        /\ at \in [Procs -> Labels]
    BY PlanAssumption DEF RunsInv, ProcsOk, Undisturbed, Procs
  <1>1. CASE Waits(w)
    <2>1. CASE Tick(w)
      BY <1>0, <2>1 DEF Tick, SavesJobs, StartLabel
    <2>2. CASE \E r \in Runs : TakeRun(w, r)
      <3>1. at[w] = "next" /\ at'[w] \in {"judge", "drop"}
        BY <1>0, <2>2 DEF TakeRun
      <3> QED BY <3>1 DEF SavesJobs, StartLabel
    <2>3. CASE StillRunning(w)
      BY <1>0, <2>3, EndsFacts DEF StillRunning, SavesJobs, StartLabel
    <2>4. CASE EnqueueRaises(w)
      BY <1>0, <2>4 DEF EnqueueRaises, SavesJobs, StartLabel
    <2> QED BY <1>1, <2>1, <2>2, <2>3, <2>4 DEF Waits
  <1>2. CASE Finalises(w)
    <2>1. PICK r :
               \/ Report(w, r) \/ AutoTear(w, r) \/ AutoTearBlind(w, r) \/ AssureRead(w, r)
               \/ AssureSave(w, r) \/ Notify(w, r) \/ AlreadyNotified(w, r) \/ NotifySave(w, r)
               \/ NoTeardown(w) \/ AutoTearRaises(w)
      BY <1>2 DEF Finalises
    <2>2. at[w] \in FinalLabel
      BY <1>0, <2>1, FinalisesCore
    <2>3. Ends(w) \/ \E l \in FinalLabel : \E d : Goes(w, l, d)
      BY <1>0, <2>1, FinalisesGoes
    <2>4. at'[w] \in FinalLabel \cup {"next", "idle"}
      BY <1>0, <2>3, EndsFacts, GoesFacts
    <2> QED BY <2>2, <2>4 DEF FinalLabel, SavesJobs, StartLabel
  <1>3. ASSUME NEW o \in Operators, OperatorActs(o) PROVE Untouched(w)
    <2>1. o \in Procs /\ o # w
      BY <1>0 DEF Procs
    <2>2. CASE \E r \in on[o] : Teardown(o, r)
      BY <1>0, <2>1, <2>2, EndsFacts DEF Teardown
    <2>3. CASE \E r \in Runs : TeardownRead(o, r)
      BY <1>0, <2>1, <2>3 DEF TeardownRead, Untouched, RunsInv, ProcsOk
    <2> QED BY <1>3, <2>2, <2>3 DEF OperatorActs
  <1>4. ASSUME NEW j \in Job, JobWorks(j) \/ StopJob(j) PROVE Untouched(w)
    BY <1>4 DEF JobWorks, JobStart, JobSubmit, TaskEnds, JobEnds, StopJob, otherVars, procVars, Untouched
  <1>5. ~Advances(w) /\ ~Decides(w) /\ ~ \E r \in Runs : StartShell(w, r)
    BY <1>0 DEF Advances, Decides, MovesOn
  <1>6. CASE Next
    BY <1>1, <1>2, <1>3, <1>4, <1>5, <1>6, StepsUndisturbed DEF WorkerActs
  <1> QED BY <1>6 DEF vars, procVars, Untouched

LEMMA BookFacts ==
    ASSUME NEW w, Undisturbed(w), RunsInv, NEW r \in Runs, HonestRun(w, r)
    PROVE  /\ w \in Procs /\ Book(w, r) \in Doc /\ Sound(Book(w, r), state, cancelReq)
           /\ Book(w, r).idx \in 1 .. Groups + 1
           /\ \A j \in Created(r) : /\ j \in Job /\ j[1] = r /\ j[2] \in Group
                                    /\ j \in Book(w, r).ids[j[2]]
  <1>1. w \in Procs
    BY DEF Undisturbed, Procs
  <1>2. Book(w, r) \in Doc /\ Sound(Book(w, r), state, cancelReq)
    BY <1>1 DEF Book, RunsInv, ProcsOk, DocsOk
  <1>3. Book(w, r).idx \in 1 .. Groups + 1
    BY <1>2 DEF Doc
  <1>4. ASSUME NEW j \in Created(r)
        PROVE  j \in Job /\ j[1] = r /\ j[2] \in Group /\ j \in Book(w, r).ids[j[2]]
    <2>1. j \in Job /\ j[1] = r
      BY DEF Created
    <2>2. PICK q \in Runs, g \in Group, a \in 1 .. Attempts : j \in JobsOf(q, g, a)
      BY <2>1 DEF Job
    <2>3. j[2] = g
      BY <2>2, JobsOfFacts
    <2>4. j \in GroupJobs(r, g)
      BY <2>3 DEF GroupJobs
    <2> QED BY <2>1, <2>3, <2>4 DEF HonestRun, BookComplete
  <1> QED BY <1>1, <1>2, <1>3, <1>4

\* A step that leaves the jobs of run r and what is said of them.
LEMMA RunAsBefore ==
    ASSUME NEW w, Undisturbed(w), RunsInv, NEW r \in Runs, HonestRun(w, r), JobsAlike(r),
           doc'[r].status = doc[r].status,
           Book(w, r)'.ids = Book(w, r).ids, Book(w, r)'.idx = Book(w, r).idx,
           Book(w, r).pend => Book(w, r)'.pend,
           Starting(w, r) => Starting(w, r)' \/ Book(w, r)'.pend,
           on'[w] = {r} /\ at'[w] = "first" => on[w] = {r} /\ at[w] = "first"
    PROVE  HonestRun(w, r)'
  <1>1. /\ Created(r)' = Created(r)
        /\ \A g \in Group : GroupJobs(r, g)' = GroupJobs(r, g)
        /\ \A g \in Group : Settled(r, g) => Settled(r, g)'
        /\ \A j \in Created(r) : state[j] \in Terminal => state'[j] = state[j]
    BY AlikeFacts
  <1>2. BookComplete(w, r)'
    BY <1>1 DEF HonestRun, BookComplete
  <1>3. /\ doc'[r].status = "NONE" => Created(r)' = {}
        /\ doc'[r].status = "RUNNING" => Book(w, r)'.pend \/ Starting(w, r)'
        /\ on'[w] = {r} /\ at'[w] = "first" => Created(r)' = {}
    BY <1>1 DEF HonestRun, RunGoesOn
  <1>4. ASSUME doc'[r].status = "RUNNING", Halt, NEW j \in Created(r), j[2] < Book(w, r)'.idx
        PROVE  state'[j] # "FAILED"
    <2>1. state[j] # "FAILED"
      BY <1>4 DEF HonestRun, RunGoesOn
    <2>2. state[j] \in Terminal
      BY <1>4, BookFacts DEF Sound
    <2> QED BY <1>1, <2>1, <2>2
  <1>5. RunGoesOn(w, r)'
    BY <1>1, <1>3, <1>4 DEF RunGoesOn
  <1>6. ASSUME doc'[r].status = "COMPLETED"
        PROVE  /\ \A g \in NonEmpty : Settled(r, g)'
               /\ Halt => \A j \in Created(r) : state'[j] # "FAILED"
    <2>1. /\ \A g \in NonEmpty : Settled(r, g)
          /\ Halt => \A j \in Created(r) : state[j] # "FAILED"
          /\ \A j \in Created(r) : state[j] \in Terminal
      BY <1>6 DEF HonestRun, RunHasEnded, Terminal
    <2> QED BY <1>1, <2>1 DEF NonEmpty
  <1>7. doc'[r].status \in Terminal => \A j \in Created(r)' : state'[j] \in Terminal
    BY <1>1 DEF HonestRun, RunHasEnded
  <1>8. RunHasEnded(r)'
    BY <1>1, <1>6, <1>7 DEF RunHasEnded
  <1> QED BY <1>2, <1>5, <1>8 DEF HonestRun

\* A run that the worker is not moving on.
LEMMA OthersHonest ==
    ASSUME NEW w, Undisturbed(w), RunsInv, Apart(w), [Next]_vars, NEW r \in Runs,
           HonestRun(w, r), ~MovesOn(w, r)
    PROVE  HonestRun(w, r)'
  <1>0. w \in Procs /\ on[w] \subseteq Runs /\ \A p, q \in on[w] : p = q
    BY DEF Undisturbed, Procs, RunsInv, ProcsOk, InHand
  <1>1. SameCore(doc'[r], doc[r]) /\ JobsAlike(r)
    BY CoreKept, JobsStayAlike DEF MovesOn
  <1>2. CASE on[w] # {r} /\ on'[w] # {r}
    <2>1. Book(w, r) = doc[r] /\ Book(w, r)' = doc'[r] /\ ~Starting(w, r)
      BY <1>2 DEF Book, Starting
    <2> QED BY <1>1, <1>2, <2>1, RunAsBefore DEF SameCore
  <1>3. CASE \A q \in Runs : ~MovesOn(w, q)
    <2>1. CASE Untouched(w)
      <3>1. \/ Book(w, r) = mine[w] /\ Book(w, r)' = mine[w]
            \/ Book(w, r) = doc[r] /\ Book(w, r)' = doc'[r]
        <4>1. at'[w] = at[w] /\ on'[w] = on[w] /\ mine'[w] = mine[w]
          BY <2>1 DEF Untouched
        <4>2. CASE on[w] = {r} /\ at[w] \in {"ids", "record"}
          BY <4>1, <4>2 DEF Book
        <4>3. CASE ~(on[w] = {r} /\ at[w] \in {"ids", "record"})
          BY <4>1, <4>3 DEF Book
        <4> QED BY <4>2, <4>3
      <3>2. Starting(w, r)' = Starting(w, r)
        BY <2>1 DEF Starting, Untouched
      <3>3. on'[w] = on[w] /\ at'[w] = at[w]
        BY <2>1 DEF Untouched
      <3>4. Book(w, r)'.ids = Book(w, r).ids /\ Book(w, r)'.idx = Book(w, r).idx
            /\ Book(w, r)'.pend = Book(w, r).pend
        BY <1>1, <3>1 DEF SameCore
      <3> QED BY <1>1, <3>2, <3>3, <3>4, RunAsBefore DEF SameCore
    <2>2. CASE at[w] \notin SavesJobs /\ at'[w] \notin SavesJobs
      <3>1. Book(w, r) = doc[r] /\ Book(w, r)' = doc'[r] /\ ~Starting(w, r) /\ at'[w] # "first"
        BY <2>2 DEF Book, Starting, SavesJobs, StartLabel
      <3> QED BY <1>1, <3>1, RunAsBefore DEF SameCore
    <2> QED BY <1>3, <2>1, <2>2, PlaceKept
  <1>4. ASSUME NEW q \in Runs, MovesOn(w, q) PROVE on[w] # {r} /\ on'[w] # {r}
    <2>1. q # r
      BY <1>4
    <2>2. CASE StartShell(w, q)
      <3>1. at[w] = "idle" /\ on'[w] = {q}
        BY <1>0, <2>2 DEF StartShell, RunsInv, ProcsOk
      <3>2. on[w] = {}
        BY <3>1 DEF Apart, WorkerApart
      <3> QED BY <2>1, <3>1, <3>2
    <2>3. CASE ~StartShell(w, q)
      <3>1. on[w] = {q}
        BY <1>0, <1>4, <2>3 DEF MovesOn
      <3>2. Ends(w) \/ \E l : \E d : Goes(w, l, d)
        BY <1>4, <2>3 DEF MovesOn, StartEnqueue, StartSaveIds, StartStash, EnqueueGroup, RecordGroup,
                          Drop, NothingLeft, JudgeGroup, EndRun
      <3>3. on'[w] \in {on[w], {}}
        BY <1>0, <3>2, EndsFacts, GoesFacts
      <3> QED BY <2>1, <3>1, <3>3
    <2> QED BY <2>2, <2>3
  <1> QED BY <1>2, <1>3, <1>4

\* The copy is saved as it was: the jobs of a group, the rows of all groups.
LEMMA SavesHonest ==
    ASSUME NEW w, Undisturbed(w), RunsInv, Apart(w), [Next]_vars, NEW r \in on[w],
           StartSaveIds(w, r) \/ StartStash(w, r) \/ RecordGroup(w, r) \/ Drop(w, r),
           HonestRun(w, r)
    PROVE  HonestRun(w, r)'
  <1>0. /\ w \in Procs /\ r \in Runs /\ on[w] = {r} /\ mine[w] \in Doc /\ InHand(w)
        /\ doc \in [Runs -> Doc]
    BY CopyFacts DEF Undisturbed, Procs, RunsInv, DocsOk
  <1>1. JobsAlike(r)
    BY <1>0, JobsStayAlike DEF StartSaveIds, StartStash, RecordGroup, Drop, StartEnqueue, EnqueueGroup
  <1>2. at[w] \in Live => doc[r].status = "RUNNING" /\ mine[w].status = "RUNNING"
    BY <1>0 DEF Apart, WorkerApart, InHand
  <1>3. CASE StartSaveIds(w, r)
    <2>1. at[w] = "ids" /\ Save(r, mine[w]) /\ Goes(w, "stash", mine[w])
      BY <1>3 DEF StartSaveIds
    <2>2. doc'[r] = mine[w] /\ at'[w] = "stash" /\ on'[w] = {r}
      BY <1>0, <2>1, GoesFacts DEF Save
    <2>3. Book(w, r) = mine[w] /\ Book(w, r)' = mine[w] /\ Starting(w, r)'
      BY <1>0, <2>1, <2>2 DEF Book, Starting, StartLabel
    <2> QED BY <1>0, <1>1, <1>2, <2>1, <2>2, <2>3, RunAsBefore DEF Live, StartLabel
  <1>4. CASE StartStash(w, r)
    <2> DEFINE d == [mine[w] EXCEPT !.pend = TRUE]
    <2>1. at[w] = "stash" /\ Save(r, d) /\ Ends(w)
      BY <1>4 DEF StartStash
    <2>2. mine[w] = doc[r] /\ doc[r].status = "RUNNING"
      BY <1>0, <1>2, <2>1 DEF Apart, WorkerApart, Live, StartLabel
    <2>3. d.status = "RUNNING" /\ d.pend /\ d.ids = doc[r].ids /\ d.idx = doc[r].idx
      BY <1>0, <2>2 DEF Doc
    <2> HIDE DEF d
    <2>4. doc'[r] = d /\ on'[w] = {}
      BY <1>0, <2>1, EndsFacts DEF Save
    <2>5. Book(w, r) = doc[r] /\ Book(w, r)' = d
      BY <1>0, <2>1, <2>4 DEF Book
    <2> QED BY <1>0, <1>1, <2>2, <2>3, <2>4, <2>5, RunAsBefore
  <1>5. CASE RecordGroup(w, r)
    <2>1. at[w] = "record" /\ Save(r, mine[w]) /\ Ends(w)
      BY <1>5 DEF RecordGroup
    <2>2. doc'[r] = mine[w] /\ on'[w] = {}
      BY <1>0, <2>1, EndsFacts DEF Save
    <2>3. Book(w, r) = mine[w] /\ Book(w, r)' = mine[w] /\ ~Starting(w, r)
      BY <1>0, <2>1, <2>2 DEF Book, Starting, StartLabel
    <2> QED BY <1>0, <1>1, <1>2, <2>1, <2>2, <2>3, RunAsBefore DEF Live
  <1>6. CASE Drop(w, r)
    <2>1. at[w] = "drop" /\ UNCHANGED doc /\ Ends(w)
      BY <1>6 DEF Drop
    <2>2. on'[w] = {}
      BY <1>0, <2>1, EndsFacts
    <2>3. Book(w, r) = doc[r] /\ Book(w, r)' = doc[r] /\ ~Starting(w, r)
      BY <1>0, <2>1, <2>2 DEF Book, Starting, StartLabel
    <2> QED BY <1>0, <1>1, <2>1, <2>2, <2>3, RunAsBefore
  <1> QED BY <1>3, <1>4, <1>5, <1>6

\* A run starts without jobs.
LEMMA StartShellHonest ==
    ASSUME NEW w, Undisturbed(w), RunsInv, Apart(w), NEW r \in Runs, StartShell(w, r),
           HonestRun(w, r)
    PROVE  HonestRun(w, r)'
  <1>0. w \in Procs /\ doc \in [Runs -> Doc] /\ on \in [Procs -> SUBSET Runs] /\ at \in [Procs -> Labels]
    BY DEF Undisturbed, Procs, RunsInv, DocsOk, ProcsOk
  <1>1. PICK d : Save(r, d) /\ d.status = "RUNNING" /\ \A g \in Group : d.ids[g] = {}
    <2> DEFINE d == [NoDoc EXCEPT !.status = "RUNNING", !.idx = Opening]
    <2>1. Save(r, d)
      BY DEF StartShell, Opening
    <2>2. d.status = "RUNNING" /\ \A g \in Group : d.ids[g] = {}
      BY DEF NoDoc
    <2> HIDE DEF d
    <2> QED BY <2>1, <2>2
  <1>2. doc'[r] = d /\ at'[w] = "first" /\ on'[w] = {r} /\ state' = state /\ doc[r].status = "NONE"
    BY <1>0, <1>1 DEF StartShell, Save, jobVars
  <1>3. Created(r)' = {}
    BY <1>2 DEF HonestRun, RunGoesOn, Created
  <1>4. \A g \in Group : GroupJobs(r, g)' = {}
    BY <1>3 DEF GroupJobs
  <1>5. Book(w, r)' = d /\ Starting(w, r)'
    BY <1>2 DEF Book, Starting, StartLabel
  <1>6. BookComplete(w, r)'
    BY <1>1, <1>4, <1>5 DEF BookComplete
  <1>7. RunGoesOn(w, r)'
    BY <1>1, <1>2, <1>3, <1>5 DEF RunGoesOn
  <1>8. RunHasEnded(r)'
    BY <1>1, <1>2 DEF RunHasEnded, Terminal
  <1> QED BY <1>6, <1>7, <1>8 DEF HonestRun

\* The jobs of a group are created, and put on the copy that is saved next.
LEMMA CreateHonest ==
    ASSUME NEW w, Undisturbed(w), RunsInv, NEW r \in Runs, NEW g \in Group, NEW e,
           HonestRun(w, r), doc'[r].status = "RUNNING",
           Book(w, r).ids[g] = {}, Enqueue(NextJobs(r, g)),
           Book(w, r)' = e, e.ids = [Book(w, r).ids EXCEPT ![g] = NextJobs(r, g)], e.idx = g,
           e.pend \/ Starting(w, r)', at'[w] # "first",
           \A j \in Created(r) : j[2] < g => j[2] < Book(w, r).idx,
           doc[r].status = "RUNNING"
    PROVE  HonestRun(w, r)'
  <1>1. GroupJobs(r, g) = {} /\ \A h \in Group : Book(w, r).ids[h] = GroupJobs(r, h)
    BY DEF HonestRun, BookComplete
  <1>2. /\ NextJobs(r, g) = JobsOf(r, g, 1) /\ GroupJobs(r, g)' = JobsOf(r, g, 1)
        /\ \A h \in Group : h # g => GroupJobs(r, h)' = GroupJobs(r, h)
        /\ \A j \in JobsOf(r, g, 1) : state'[j] = "PENDING" /\ j[2] = g
        /\ \A j \in Job : j \notin JobsOf(r, g, 1) => state'[j] = state[j]
    BY <1>1, GroupCreated
  <1>3. Book(w, r).ids \in [Group -> SUBSET Job]
    BY BookFacts DEF Doc
  <1>4. ASSUME NEW h \in Group
        PROVE  /\ e.ids[h] = GroupJobs(r, h)'
               /\ GroupJobs(r, h)' \in {{}, JobsOf(r, h, 1)}
    <2>1. CASE h = g
      BY <1>2, <1>3, <2>1
    <2>2. CASE h # g
      <3>1. e.ids[h] = Book(w, r).ids[h] /\ GroupJobs(r, h)' = GroupJobs(r, h)
        BY <1>2, <1>3, <2>2
      <3> QED BY <3>1 DEF HonestRun, BookComplete
    <2> QED BY <2>1, <2>2
  <1>5. BookComplete(w, r)'
    BY <1>4 DEF BookComplete
  <1>6. ASSUME Halt, NEW j \in Created(r)', j[2] < g PROVE state'[j] # "FAILED"
    <2>0. j \in Job /\ j[1] = r /\ g \in Nat
      BY PlanAssumption DEF Created, Group
    <2>1. j \notin JobsOf(r, g, 1)
      BY <1>2, <1>6, <2>0
    <2>2. state'[j] = state[j] /\ j \in Created(r)
      BY <1>2, <2>0, <2>1 DEF Created
    <2> QED BY <1>6, <2>2 DEF HonestRun, RunGoesOn
  <1>7. RunGoesOn(w, r)'
    BY <1>6 DEF RunGoesOn
  <1>8. RunHasEnded(r)'
    BY DEF RunHasEnded, Terminal
  <1> QED BY <1>5, <1>7, <1>8 DEF HonestRun

LEMMA StartEnqueueHonest ==
    ASSUME NEW w, Undisturbed(w), RunsInv, Apart(w), NEW r \in on[w], StartEnqueue(w, r),
           HonestRun(w, r)
    PROVE  HonestRun(w, r)'
  <1> DEFINE g == mine[w].idx
             e == [mine[w] EXCEPT !.ids[g] = NextJobs(r, g)]
  <1>0. /\ w \in Procs /\ r \in Runs /\ on[w] = {r} /\ mine[w] \in Doc /\ InHand(w)
        /\ doc \in [Runs -> Doc]
    BY CopyFacts DEF Undisturbed, Procs, RunsInv, DocsOk
  <1>1. at[w] = "first" /\ Enqueue(NextJobs(r, g)) /\ Goes(w, "ids", e) /\ UNCHANGED doc
    BY DEF StartEnqueue, docVars
  <1>2. g \in Group
    BY <1>0, <1>1, OpeningIsLeast DEF InHand, StartLabel, NonEmpty
  <1>3. mine[w] = doc[r] /\ doc[r].status = "RUNNING" /\ Created(r) = {}
    BY <1>0, <1>1 DEF Apart, WorkerApart, Live, StartLabel, HonestRun, RunGoesOn
  <1>4. e.ids = [mine[w].ids EXCEPT ![g] = NextJobs(r, g)] /\ e.idx = g
    BY <1>0 DEF Doc
  <1> HIDE DEF e
  <1>5. at'[w] = "ids" /\ mine'[w] = e /\ on'[w] = {r} /\ doc'[r] = doc[r]
    BY <1>0, <1>1, GoesFacts
  <1>6. Book(w, r) = mine[w] /\ Book(w, r)' = e /\ Starting(w, r)'
    BY <1>0, <1>1, <1>3, <1>5 DEF Book, Starting, StartLabel
  <1>7. Book(w, r).ids[g] = {}
    BY <1>2, <1>3 DEF HonestRun, BookComplete, GroupJobs
  <1> HIDE DEF g
  <1>8. Book(w, r).ids = mine[w].ids
    BY <1>6
  <1> QED BY <1>0, <1>1, <1>2, <1>3, <1>4, <1>5, <1>6, <1>7, <1>8, CreateHonest

LEMMA EnqueueGroupHonest ==
    ASSUME NEW w, Undisturbed(w), RunsInv, Apart(w), NEW r \in on[w], EnqueueGroup(w, r),
           HonestRun(w, r)
    PROVE  HonestRun(w, r)'
  <1> DEFINE g == Current(w)
             e == [mine[w] EXCEPT !.ids[g] = NextJobs(r, g), !.idx = g]
  <1>0. /\ w \in Procs /\ r \in Runs /\ on[w] = {r} /\ mine[w] \in Doc /\ InHand(w)
        /\ doc \in [Runs -> Doc] /\ mine[w].idx \in 1 .. Groups + 1
    BY CopyFacts DEF Undisturbed, Procs, RunsInv, DocsOk
  <1>1. /\ at[w] = "judge" /\ Enqueue(NextJobs(r, g)) /\ Goes(w, "record", e) /\ UNCHANGED doc
        /\ g \in Group /\ mine[w].ids[g] = {}
    BY DEF EnqueueGroup, docVars, CurrentJobs
  <1>2. \A h \in Group : mine[w].idx <= h /\ h < g => mine[w].ids[h] = {}
    BY <1>0, <1>1, JudgeFacts
  <1>3. mine[w] = doc[r] /\ doc[r].status = "RUNNING"
    BY <1>0, <1>1 DEF Apart, WorkerApart, Live
  <1>4. /\ e.ids = [mine[w].ids EXCEPT ![g] = NextJobs(r, g)] /\ e.idx = g
        /\ e.pend = mine[w].pend
    BY <1>0 DEF Doc
  <1> HIDE DEF e, g
  <1>5. at'[w] = "record" /\ mine'[w] = e /\ on'[w] = {r} /\ doc'[r] = doc[r]
    BY <1>0, <1>1, GoesFacts
  <1>6. Book(w, r) = mine[w] /\ Book(w, r)' = e /\ ~Starting(w, r)
    BY <1>0, <1>1, <1>3, <1>5 DEF Book, Starting, StartLabel
  <1>7. e.pend
    BY <1>3, <1>4, <1>6 DEF HonestRun, RunGoesOn
  <1>8. ASSUME NEW j \in Created(r), j[2] < g PROVE j[2] < mine[w].idx
    <2>1. j[2] \in Group /\ j \in mine[w].ids[j[2]]
      BY <1>0, <1>6, BookFacts
    <2>2. ASSUME NEW h \in Group, h = j[2], mine[w].idx <= h PROVE FALSE
      <3>1. mine[w].ids[h] = {}
        BY <1>2, <1>8, <2>2
      <3> QED BY <2>1, <2>2, <3>1
    <2> QED BY <1>0, <2>1, <2>2, PlanAssumption DEF Group
  <1>9. Book(w, r).ids = mine[w].ids /\ Book(w, r).idx = mine[w].idx
    BY <1>6
  <1> QED BY <1>0, <1>1, <1>3, <1>4, <1>5, <1>6, <1>7, <1>8, <1>9, CreateHonest

\* An outcome is saved: every job has ended, and a COMPLETED run has done all.
LEMMA EndRunHonest ==
    ASSUME NEW w, Undisturbed(w), RunsInv, NEW r \in on[w], NEW status \in Terminal, NEW idx,
           EndRun(w, r, status, idx), UNCHANGED state, HonestRun(w, r), Book(w, r) = mine[w],
           \A j \in Created(r) : state[j] \in Terminal,
           status = "COMPLETED" => /\ \A g \in NonEmpty : mine[w].ids[g] # {}
                                   /\ Halt => \A j \in Created(r) : state[j] # "FAILED"
    PROVE  HonestRun(w, r)'
  <1> DEFINE d == [mine[w] EXCEPT !.status = status, !.idx = idx]
  <1>0. /\ w \in Procs /\ r \in Runs /\ on[w] = {r} /\ mine[w] \in Doc /\ doc \in [Runs -> Doc]
    BY CopyFacts DEF Undisturbed, Procs, RunsInv, DocsOk
  <1>1. Save(r, d) /\ Goes(w, "report", d)
    BY DEF EndRun
  <1>2. d.status = status /\ d.ids = mine[w].ids
    BY <1>0 DEF Doc
  <1> HIDE DEF d
  <1>3. doc'[r] = d /\ at'[w] = "report"
    BY <1>0, <1>1, GoesFacts DEF Save
  <1>4. JobsAlike(r)
    BY DEF JobsAlike
  <1>5. /\ Created(r)' = Created(r) /\ \A g \in Group : GroupJobs(r, g)' = GroupJobs(r, g)
        /\ \A g \in Group : Started(r, g)' <=> Started(r, g)
    BY <1>0, <1>4, AlikeFacts
  <1>6. Book(w, r)' = d
    BY <1>3 DEF Book
  <1>7. BookComplete(w, r)'
    BY <1>2, <1>5, <1>6 DEF HonestRun, BookComplete
  <1>8. RunGoesOn(w, r)'
    BY <1>2, <1>3 DEF RunGoesOn, Terminal
  <1>9. ASSUME status = "COMPLETED", NEW g \in NonEmpty PROVE Settled(r, g)'
    <2>1. g \in Group /\ GroupJobs(r, g) # {}
      BY <1>9 DEF NonEmpty, HonestRun, BookComplete
    <2>2. Started(r, g)
      BY <1>0, <2>1, StartedIs
    <2>3. \A j \in GroupJobs(r, g) : state'[j] \in Terminal
      BY DEF GroupJobs
    <2> QED BY <1>5, <2>1, <2>2, <2>3 DEF Settled
  <1>10. RunHasEnded(r)'
    BY <1>2, <1>3, <1>5, <1>9 DEF RunHasEnded, NonEmpty
  <1> QED BY <1>7, <1>8, <1>10 DEF HonestRun

LEMMA NothingLeftHonest ==
    ASSUME NEW w, Undisturbed(w), RunsInv, Apart(w), NEW r \in on[w], NothingLeft(w, r),
           HonestRun(w, r)
    PROVE  HonestRun(w, r)'
  <1>0. /\ w \in Procs /\ r \in Runs /\ on[w] = {r} /\ mine[w] \in Doc
        /\ Sound(mine[w], state, cancelReq) /\ mine[w].idx \in 1 .. Groups + 1
        /\ Groups \in Nat /\ Group = 1 .. Groups /\ NonEmpty \subseteq Group
    BY CopyFacts, PlanAssumption DEF Undisturbed, Procs, Group, NonEmpty
  <1>1. /\ at[w] = "judge" /\ Current(w) > Groups /\ UNCHANGED state
        /\ EndRun(w, r, "COMPLETED", Current(w))
    BY DEF NothingLeft, jobVars
  <1>2. mine[w] = doc[r] /\ Book(w, r) = mine[w] /\ doc[r].status = "RUNNING"
    BY <1>0, <1>1 DEF Apart, WorkerApart, Book, Live
  <1>3. mine[w].pend
    BY <1>1, <1>2 DEF HonestRun, RunGoesOn, Starting, StartLabel
  <1>4. /\ Current(w) \in mine[w].idx .. Groups + 1
        /\ \A h \in Group : mine[w].idx <= h /\ h < Current(w) => mine[w].ids[h] = {}
        /\ \A h \in NonEmpty : h < Current(w) => mine[w].ids[h] # {}
    BY <1>0, <1>1, <1>3, JudgeFacts
  <1>5. \A h \in NonEmpty : mine[w].ids[h] # {}
    BY <1>0, <1>1, <1>4
  <1>6. ASSUME NEW j \in Created(r)
        PROVE  state[j] \in Terminal /\ (Halt => state[j] # "FAILED")
    <2>1. j[2] \in Group /\ j \in mine[w].ids[j[2]]
      BY <1>0, <1>2, BookFacts
    <2>2. ~(mine[w].idx <= j[2] /\ j[2] < Current(w))
      BY <1>4, <2>1
    <2>3. j[2] < mine[w].idx
      BY <1>0, <1>1, <1>4, <2>1, <2>2
    <2> QED BY <1>0, <1>2, <2>1, <2>3 DEF Sound, HonestRun, RunGoesOn
  <1> QED BY <1>1, <1>2, <1>5, <1>6, EndRunHonest DEF Terminal

LEMMA JudgeGroupHonest ==
    ASSUME NEW w, Undisturbed(w), RunsInv, Apart(w), NEW r \in on[w], JudgeGroup(w, r),
           HonestRun(w, r)
    PROVE  HonestRun(w, r)'
  <1> DEFINE c == Current(w)
             next == FirstFrom(mine[w], c + 1)
  <1>0. /\ w \in Procs /\ r \in Runs /\ on[w] = {r} /\ mine[w] \in Doc /\ doc \in [Runs -> Doc]
        /\ Sound(mine[w], state, cancelReq) /\ mine[w].idx \in 1 .. Groups + 1
    BY CopyFacts DEF Undisturbed, Procs, RunsInv, DocsOk
  <1>00. Groups \in Nat /\ Group = 1 .. Groups /\ NonEmpty \subseteq Group
         /\ \A h \in NonEmpty : Rows[h] > 0
    BY PlanAssumption DEF Group, NonEmpty
  <1>1. /\ at[w] = "judge" /\ UNCHANGED state /\ c \in Group
        /\ CurrentJobs(w) # {} /\ HasEnded(w)
    BY DEF JudgeGroup, jobVars
  <1>2. \/ EndRun(w, r, "FAILED", mine[w].idx)
        \/ EndRun(w, r, "CANCELLED", mine[w].idx)
        \/ ~GroupFails(w) /\ next > Groups /\ EndRun(w, r, "COMPLETED", next)
        \/ ~GroupFails(w) /\ Save(r, [mine[w] EXCEPT !.idx = next]) /\ Ends(w)
    BY DEF JudgeGroup
  <1>3. mine[w] = doc[r] /\ Book(w, r) = mine[w] /\ doc[r].status = "RUNNING"
    BY <1>0, <1>1 DEF Apart, WorkerApart, Book, Live
  <1>4. mine[w].pend
    BY <1>1, <1>3 DEF HonestRun, RunGoesOn, Starting, StartLabel
  <1>5. c \in mine[w].idx .. Groups + 1 /\ \A h \in NonEmpty : h < c => mine[w].ids[h] # {}
    BY <1>0, <1>1, <1>4, JudgeFacts
  <1>6. mine[w].ids[c] # {} /\ (~GroupFails(w) /\ Halt => \A j \in mine[w].ids[c] : state[j] # "FAILED")
    BY <1>1 DEF CurrentJobs, GroupFails, SomeJob
  <1>7. c + 1 \in 1 .. Groups + 1
    BY <1>00, <1>1
  <1>8. /\ next \in c + 1 .. Groups + 1
        /\ \A h \in c + 1 .. Groups : h < next => ~(Rows[h] > 0)
    BY <1>4, <1>7, FirstFromIsFirst
  <1>9. \A j \in Recorded(mine[w]) : state[j] \in Terminal
    BY <1>0, <1>1, EndedFacts
  <1> HIDE DEF c, next
  <1>10. ASSUME NEW j \in Created(r)
         PROVE  state[j] \in Terminal /\ (Halt /\ ~GroupFails(w) => state[j] # "FAILED")
    <2>1. j[2] \in Group /\ j \in mine[w].ids[j[2]]
      BY <1>0, <1>3, BookFacts
    <2>2. j \in Recorded(mine[w])
      BY <2>1 DEF Recorded
    <2>3. ~(mine[w].idx < j[2])
      BY <1>0, <2>1 DEF Sound
    <2>4. CASE j[2] < mine[w].idx
      BY <1>3, <1>9, <2>2, <2>4 DEF HonestRun, RunGoesOn
    <2>5. CASE j[2] = mine[w].idx
      <3>1. ~(mine[w].idx < c)
        <4>1. SUFFICES ASSUME mine[w].idx < c PROVE FALSE
          OBVIOUS
        <4>2. mine[w].ids[c] = {}
          BY <1>0, <1>1, <4>1 DEF Sound
        <4> QED BY <1>6, <4>2
      <3>2. j[2] = c
        BY <1>0, <1>00, <1>5, <2>5, <3>1
      <3> QED BY <1>6, <1>9, <2>1, <2>2, <3>2
    <2> QED BY <1>0, <1>00, <2>1, <2>3, <2>4, <2>5
  <1>11. ASSUME next > Groups, NEW h \in NonEmpty PROVE mine[w].ids[h] # {}
    <2>1. ~(h \in c + 1 .. Groups)
      BY <1>00, <1>8, <1>11
    <2>2. h < c \/ h = c
      BY <1>00, <1>1, <2>1
    <2> QED BY <1>5, <1>6, <2>2
  <1>12. CASE EndRun(w, r, "FAILED", mine[w].idx) \/ EndRun(w, r, "CANCELLED", mine[w].idx)
    BY <1>1, <1>3, <1>10, <1>12, EndRunHonest DEF Terminal
  <1>13. CASE ~GroupFails(w) /\ next > Groups /\ EndRun(w, r, "COMPLETED", next)
    BY <1>1, <1>3, <1>10, <1>11, <1>13, EndRunHonest DEF Terminal
  <1>14. CASE ~GroupFails(w) /\ Save(r, [mine[w] EXCEPT !.idx = next]) /\ Ends(w)
    <2> DEFINE d == [mine[w] EXCEPT !.idx = next]
    <2>1. Save(r, d) /\ Ends(w)
      BY <1>14
    <2>2. d.status = "RUNNING" /\ d.pend /\ d.ids = mine[w].ids
      BY <1>0, <1>3, <1>4 DEF Doc
    <2> HIDE DEF d
    <2>3. doc'[r] = d /\ on'[w] = {}
      BY <1>0, <2>1, EndsFacts DEF Save
    <2>4. Book(w, r)' = d
      BY <2>3 DEF Book
    <2>5. JobsAlike(r)
      BY <1>1 DEF JobsAlike
    <2>6. Created(r)' = Created(r) /\ \A g \in Group : GroupJobs(r, g)' = GroupJobs(r, g)
      BY <1>0, <2>5, AlikeFacts
    <2>7. BookComplete(w, r)'
      BY <1>3, <2>2, <2>4, <2>6 DEF HonestRun, BookComplete
    <2>8. RunGoesOn(w, r)'
      BY <1>1, <1>10, <1>14, <2>2, <2>3, <2>4, <2>6 DEF RunGoesOn
    <2>9. RunHasEnded(r)'
      BY <2>2, <2>3 DEF RunHasEnded, Terminal
    <2> QED BY <2>7, <2>8, <2>9 DEF HonestRun
  <1> QED BY <1>2, <1>12, <1>13, <1>14

LEMMA HonestKept ==
    ASSUME NEW w, Undisturbed(w), RunsInv, Apart(w), Honest(w), [Next]_vars
    PROVE  Honest(w)'
  <1>1. ASSUME NEW r \in Runs PROVE HonestRun(w, r)'
    <2>1. HonestRun(w, r)
      BY DEF Honest
    <2> QED BY <2>1, OthersHonest, StartShellHonest, StartEnqueueHonest, SavesHonest,
               EnqueueGroupHonest, NothingLeftHonest, JudgeGroupHonest DEF MovesOn
  <1> QED BY <1>1 DEF Honest

LEMMA HonestInitially ==
    ASSUME NEW w, Undisturbed(w), Init PROVE Honest(w)
  <1>1. \A j \in Job : state[j] = "NONE"
    BY DEF Init
  <1>2. ASSUME NEW r \in Runs PROVE HonestRun(w, r)
    <2>1. doc[r] = NoDoc /\ on[w] = {} /\ Created(r) = {}
      BY <1>1 DEF Init, Created, Undisturbed, Procs
    <2>2. doc[r].status = "NONE" /\ \A g \in Group : doc[r].ids[g] = {}
      <3>1. NoDoc.status = "NONE" /\ \A g \in Group : NoDoc.ids[g] = {}
        BY DEF NoDoc
      <3> QED BY <2>1, <3>1
    <2>4. \A g \in Group : GroupJobs(r, g) = {}
      BY <2>1 DEF GroupJobs
    <2>3. Book(w, r) = doc[r]
      BY <2>1 DEF Book
    <2> QED BY <2>1, <2>2, <2>3, <2>4 DEF HonestRun, BookComplete, RunGoesOn, RunHasEnded, Terminal
  <1> QED BY <1>2 DEF Honest

\* The invariant of one undisturbed worker.
LEMMA HonestInvariant ==
    ASSUME NEW w, Undisturbed(w)
    PROVE  Spec => [](RunsInv /\ Apart(w) /\ Honest(w))
  <1>1. Init => RunsInv /\ Apart(w) /\ Honest(w)
    BY RunsInvInitially, ApartInitially, HonestInitially
  <1>2. RunsInv /\ Apart(w) /\ Honest(w) /\ [Next]_vars => (RunsInv /\ Apart(w) /\ Honest(w))'
    BY RunsInvKept, ApartKept, HonestKept
  <1> QED BY <1>1, <1>2, PTL DEF Spec

\* CompletedIsWhole: a run saved as COMPLETED has restored every group, whose
\* jobs exist, are on its document, have ended, and did not fail (Halt).
THEOREM CompletedWhole ==
  ASSUME NEW w, Undisturbed(w)
  PROVE  Spec => []CompletedIsWhole
  <1>1. RunsInv /\ Apart(w) /\ Honest(w) => CompletedIsWhole
    <2> SUFFICES ASSUME RunsInv, Apart(w), Honest(w), NEW r \in Runs, doc[r].status = "COMPLETED"
                 PROVE  /\ \A g \in NonEmpty : Settled(r, g) /\ GroupJobs(r, g) \subseteq doc[r].ids[g]
                        /\ Halt => \A j \in Created(r) : state[j] # "FAILED"
      BY DEF CompletedIsWhole
    <2>1. HonestRun(w, r)
      BY DEF Honest
    <2>2. Book(w, r) = doc[r]
      BY DEF Apart, WorkerApart, Book, Live, StartLabel
    <2> QED BY <2>1, <2>2 DEF HonestRun, BookComplete, RunHasEnded, NonEmpty
  <1> QED BY <1>1, HonestInvariant, PTL
-----------------------------------------------------------------------------
(* Once only: the jobs of a group, the report, the notification.           *)

LEMMA JobsOfCount ==
    ASSUME NEW r \in Runs, NEW g \in Group
    PROVE  Cardinality(JobsOf(r, g, 1)) <= Rows[g] /\ 0 <= Rows[g] /\ Cardinality({}) = 0
  <1>1. Rows[g] \in Nat
    BY PlanAssumption DEF Group
  <1>2. IsFiniteSet(1 .. Rows[g]) /\ Cardinality(1 .. Rows[g]) = Rows[g]
    BY <1>1, FS_Interval
  <1> DEFINE f == [k \in 1 .. Rows[g] |-> <<r, g, k, 1>>]
  <1>3. f \in Surjection(1 .. Rows[g], JobsOf(r, g, 1))
    BY DEF JobsOf, Surjection
  <1>4. Cardinality(JobsOf(r, g, 1)) <= Cardinality(1 .. Rows[g])
    BY <1>2, <1>3, FS_Surjection
  <1> QED BY <1>1, <1>2, <1>4, FS_EmptySet

\* The steps that log a report or a notification.
LEMMA LogsChangedBy ==
    ASSUME NEW w, Undisturbed(w), RunsInv, Apart(w), [Next]_vars
    PROVE  UNCHANGED logVars \/ \E r \in on[w] : Report(w, r) \/ Notify(w, r)
  <1>1. CASE Finalises(w)
    BY <1>1 DEF Finalises, AutoTear, AutoTearBlind, AssureRead, AssureSave, AlreadyNotified,
                NotifySave, NoTeardown, AutoTearRaises, TearDown, logVars
  <1>2. CASE Advances(w) \/ Decides(w) \/ \E r \in Runs : StartShell(w, r)
    BY <1>2 DEF Advances, Decides, StartEnqueue, StartSaveIds, StartStash, EnqueueGroup, RecordGroup,
                Drop, NothingLeft, JudgeGroup, StartShell
  <1>3. ASSUME NEW o \in Operators, OperatorActs(o) PROVE UNCHANGED logVars
    BY <1>3 DEF OperatorActs, TeardownRead, Teardown, TearDown
  <1>4. ASSUME NEW j \in Job, JobWorks(j) \/ StopJob(j) PROVE UNCHANGED logVars
    BY <1>4 DEF JobWorks, JobStart, JobSubmit, TaskEnds, JobEnds, StopJob, otherVars
  <1>5. CASE Next
    BY <1>1, <1>2, <1>3, <1>4, <1>5, StepsUndisturbed, WaitsWriteNothing DEF WorkerActs
  <1> QED BY <1>5 DEF vars

\* The worker comes to the end of a run when it saves its outcome.
LEMMA UntoldReached ==
    ASSUME NEW w, Undisturbed(w), RunsInv, Apart(w), [Next]_vars, NEW r \in Runs,
           on'[w] = {r}, at'[w] \in Untold
    PROVE  \/ doc[r].status = "RUNNING"
           \/ on[w] = {r} /\ at[w] \in Untold /\ (at'[w] = "report" => Untouched(w))
  <1>0. /\ w \in Procs /\ w \notin Operators /\ on[w] \subseteq Runs /\ mine[w] \in Doc
        /\ at \in [Procs -> Labels]
    BY PlanAssumption DEF RunsInv, ProcsOk, Undisturbed, Procs
  <1>1. CASE Untouched(w)
    BY <1>1 DEF Untouched
  <1>2. ~Ends(w)
    BY <1>0, EndsFacts
  <1>3. CASE Waits(w)
    <2>1. ~Tick(w) /\ ~StillRunning(w) /\ ~EnqueueRaises(w)
      BY <1>0, <1>2 DEF Tick, StillRunning, EnqueueRaises, Untold
    <2>2. ASSUME NEW q \in Runs, TakeRun(w, q) PROVE FALSE
      BY <1>0, <2>2 DEF TakeRun, Untold
    <2> QED BY <1>3, <2>1, <2>2 DEF Waits
  <1>4. CASE Finalises(w)
    <2>1. ~Notify(w, r) /\ ~AlreadyNotified(w, r) /\ ~NotifySave(w, r)
      BY <1>0, <1>2, GoesFacts DEF Notify, AlreadyNotified, NotifySave, Untold
    <2>2. PICK q :
               \/ q \in on[w] /\ \/ Report(w, q) \/ AutoTear(w, q) \/ AutoTearBlind(w, q)
                                 \/ AssureRead(w, q) \/ AssureSave(w, q)
                                 \/ Notify(w, q) \/ AlreadyNotified(w, q) \/ NotifySave(w, q)
               \/ NoTeardown(w) \/ AutoTearRaises(w)
      BY <1>4 DEF Finalises
    <2>3. \E l \in {"teardown", "assure", "notify", "verdict", "sent"} : \E d : Goes(w, l, d)
      BY <1>2, <2>2 DEF Report, AutoTear, AutoTearBlind, AssureRead, AssureSave, Notify,
                   AlreadyNotified, NotifySave, NoTeardown, AutoTearRaises
    <2>4. at'[w] # "report" /\ on'[w] = on[w] /\ on[w] = {r}
      BY <1>0, <2>3, GoesFacts
    <2>5. q = r \/ NoTeardown(w) \/ AutoTearRaises(w)
      BY <2>2, <2>4
    <2>6. at[w] \in Untold
      BY <2>1, <2>2, <2>5 DEF Report, AutoTear, AutoTearBlind, AssureRead, AssureSave, NoTeardown,
                              AutoTearRaises, Untold
    <2> QED BY <2>4, <2>6
  <1>5. CASE Advances(w)
    <2>1. \E l \in {"ids", "stash", "record"} : \E d : Goes(w, l, d)
      BY <1>2, <1>5 DEF Advances, StartEnqueue, StartSaveIds, StartStash, EnqueueGroup, RecordGroup
    <2> QED BY <1>0, <2>1, GoesFacts DEF Untold
  <1>6. CASE Decides(w)
    <2>1. PICK q \in on[w] : NothingLeft(w, q) \/ JudgeGroup(w, q)
      BY <1>2, <1>6 DEF Decides, Drop
    <2>2. \E d : Goes(w, "report", d)
      BY <1>2, <2>1 DEF NothingLeft, JudgeGroup, EndRun
    <2>3. on[w] = {r} /\ at[w] = "judge"
      BY <1>0, <2>1, <2>2, GoesFacts DEF NothingLeft, JudgeGroup
    <2> QED BY <2>3 DEF Apart, WorkerApart, Live
  <1>7. ASSUME NEW q \in Runs, StartShell(w, q) PROVE FALSE
    BY <1>0, <1>7 DEF StartShell, Untold
  <1>8. ASSUME NEW o \in Operators, OperatorActs(o) PROVE Untouched(w)
    <2>1. o \in Procs /\ o # w
      BY <1>0 DEF Procs
    <2>2. CASE \E q \in on[o] : Teardown(o, q)
      BY <1>0, <2>1, <2>2, EndsFacts DEF Teardown
    <2>3. CASE \E q \in Runs : TeardownRead(o, q)
      BY <1>0, <2>1, <2>3 DEF TeardownRead, Untouched, RunsInv, ProcsOk
    <2> QED BY <1>8, <2>2, <2>3 DEF OperatorActs
  <1>9. ASSUME NEW j \in Job, JobWorks(j) \/ StopJob(j) PROVE Untouched(w)
    BY <1>9 DEF JobWorks, JobStart, JobSubmit, TaskEnds, JobEnds, StopJob, otherVars, procVars, Untouched
  <1>10. CASE UNCHANGED vars
    BY <1>10 DEF vars, procVars, Untouched
  <1> QED BY <1>1, <1>3, <1>4, <1>5, <1>6, <1>7, <1>8, <1>9, <1>10, StepsUndisturbed DEF WorkerActs

LEMMA ToldOnceKept ==
    ASSUME NEW w, Undisturbed(w), RunsInv, Apart(w), ToldOnce(w), [Next]_vars
    PROVE  ToldOnce(w)'
  <1>0. /\ w \in Procs /\ on[w] \subseteq Runs /\ mine[w] \in Doc /\ \A p, q \in on[w] : p = q
        /\ reports \in [Runs -> Nat] /\ notices \in [Runs -> Nat]
    BY DEF RunsInv, ProcsOk, LogsOk, InHand, Undisturbed, Procs
  <1> SUFFICES ASSUME NEW r \in Runs
               PROVE  /\ reports'[r] \in {0, 1} /\ notices'[r] \in {0, 1}
                      /\ reports'[r] = 1 =>
                           doc'[r].status \in Terminal /\ ~(on'[w] = {r} /\ at'[w] = "report")
                      /\ notices'[r] = 1 =>
                           doc'[r].status \in Terminal /\ ~(on'[w] = {r} /\ at'[w] \in Untold)
    BY DEF ToldOnce
  <1>1. doc[r].status \in Terminal => doc'[r].status \in Terminal
    BY CoreStays DEF SameCore
  <1>2. /\ reports[r] \in {0, 1} /\ notices[r] \in {0, 1}
        /\ reports[r] = 1 =>
             doc[r].status \in Terminal /\ ~(on[w] = {r} /\ at[w] = "report")
        /\ notices[r] = 1 =>
             doc[r].status \in Terminal /\ ~(on[w] = {r} /\ at[w] \in Untold)
    BY DEF ToldOnce
  <1>3. ASSUME on'[w] = {r}, at'[w] \in Untold, reports'[r] = reports[r], notices'[r] = notices[r]
        PROVE  notices'[r] # 1 /\ (at'[w] = "report" => reports'[r] # 1)
    <2>1. CASE doc[r].status = "RUNNING"
      BY <1>2, <1>3, <2>1 DEF Terminal
    <2>2. CASE on[w] = {r} /\ at[w] \in Untold /\ (at'[w] = "report" => Untouched(w))
      BY <1>2, <1>3, <2>2 DEF Untouched
    <2> QED BY <1>3, <2>1, <2>2, UntoldReached
  <1>4. CASE reports'[r] = reports[r] /\ notices'[r] = notices[r]
    BY <1>1, <1>2, <1>3, <1>4 DEF Untold
  <1>5. ASSUME NEW q \in on[w], Report(w, q) \/ Notify(w, q) PROVE at[w] \in FinalLabel /\ q \in Runs
    BY <1>0, <1>5, FinalisesCore
  <1>6. ASSUME r \in on[w], Report(w, r), ~mine[w].report
        PROVE  /\ reports'[r] = 1 /\ notices'[r] = notices[r] /\ notices[r] # 1
               /\ doc[r].status \in Terminal /\ at'[w] = "teardown"
    <2>1. /\ at[w] = "report" /\ reports' = [reports EXCEPT ![r] = @ + 1] /\ notices' = notices
          /\ \E d : Goes(w, "teardown", d)
      BY <1>6 DEF Report
    <2>2. on[w] = {r} /\ doc[r].status \in Terminal
      BY <1>0, <1>5, <1>6 DEF Apart, WorkerApart
    <2>3. reports[r] = 0 /\ notices[r] # 1
      BY <1>2, <2>1, <2>2 DEF Untold
    <2> QED BY <1>0, <2>1, <2>2, <2>3, GoesFacts
  <1>7. ASSUME r \in on[w], Notify(w, r)
        PROVE  /\ notices'[r] = 1 /\ reports'[r] = reports[r]
               /\ doc[r].status \in Terminal /\ at'[w] = "sent"
    <2>1. /\ at[w] = "notify" /\ notices' = [notices EXCEPT ![r] = @ + 1] /\ reports' = reports
          /\ \E d : Goes(w, "sent", d)
      BY <1>7 DEF Notify
    <2>2. on[w] = {r} /\ doc[r].status \in Terminal
      BY <1>0, <1>5, <1>7 DEF Apart, WorkerApart
    <2>3. notices[r] = 0
      BY <1>2, <2>1, <2>2 DEF Untold
    <2> QED BY <1>0, <2>1, <2>2, <2>3, GoesFacts
  <1>8. \/ reports'[r] = reports[r] /\ notices'[r] = notices[r]
        \/ r \in on[w] /\ (Notify(w, r) \/ (Report(w, r) /\ ~mine[w].report))
    <2>1. CASE UNCHANGED logVars
      BY <2>1 DEF logVars
    <2>2. ASSUME NEW q \in on[w], Report(w, q) \/ Notify(w, q), q # r
          PROVE  reports'[r] = reports[r] /\ notices'[r] = notices[r]
      BY <1>0, <2>2 DEF Report, Notify
    <2>3. CASE Report(w, r) /\ mine[w].report
      BY <2>3 DEF Report
    <2> QED BY <2>1, <2>2, <2>3, LogsChangedBy
  <1>9. CASE r \in on[w] /\ Report(w, r) /\ ~mine[w].report
    BY <1>1, <1>2, <1>6, <1>9
  <1>10. CASE r \in on[w] /\ Notify(w, r)
    BY <1>1, <1>2, <1>7, <1>10 DEF Untold
  <1> QED BY <1>4, <1>8, <1>9, <1>10

\* OnceOnly: no group of a run is enqueued twice, no run is reported or
\* notified twice, however often its tick and its finish are repeated.
THEOREM RestoredOnce ==
  ASSUME NEW w, Undisturbed(w)
  PROVE  Spec => []OnceOnly
  <1>1. Init => ToldOnce(w)
    BY DEF Init, ToldOnce
  <1>2. RunsInv /\ Apart(w) /\ ToldOnce(w) /\ [Next]_vars => ToldOnce(w)'
    BY ToldOnceKept
  <1>3. RunsInv /\ Apart(w) /\ Honest(w) /\ ToldOnce(w) => OnceOnly
    <2> SUFFICES ASSUME RunsInv, Honest(w), ToldOnce(w), NEW r \in Runs
                 PROVE  /\ \A g \in Group : Cardinality(GroupJobs(r, g)) <= Rows[g]
                        /\ reports[r] <= 1 /\ notices[r] <= 1
      BY DEF OnceOnly
    <2>1. \A g \in Group : GroupJobs(r, g) \in {{}, JobsOf(r, g, 1)}
      BY DEF Honest, HonestRun, BookComplete
    <2>2. ASSUME NEW g \in Group PROVE Cardinality(GroupJobs(r, g)) <= Rows[g]
      BY <2>1, JobsOfCount
    <2>3. reports[r] <= 1 /\ notices[r] <= 1
      BY DEF ToldOnce
    <2> QED BY <2>2, <2>3
  <1> QED BY <1>1, <1>2, <1>3, HonestInvariant, PTL DEF Spec
-----------------------------------------------------------------------------
(* A run that is torn down completely has left no guest.                   *)

\* What a step may write to a document or a copy of run r as its teardown.
TornFrom(r) == {"", doc[r].torn} \cup {mine[p].torn : p \in {q \in Procs : r \in on[q]}}

\* A teardown that found the guests of every recorded job.
TearsDown(r) ==
    \E p \in Procs : /\ r \in on[p] /\ at[p] \in FinalLabel \cup {"destroy"}
                     /\ TearDown(p, r, {})

LEMMA GoesTorn ==
    ASSUME RunsInv, NEW p \in Procs, NEW r \in Runs, NEW q \in Procs, r \in on'[q], NEW l, NEW d,
           Goes(p, l, d), q = p => d.torn \in TornFrom(r)
    PROVE  mine'[q].torn \in TornFrom(r)
  <1>1. CASE q = p
    BY <1>1, GoesFacts
  <1>2. CASE q # p
    <2>1. Untouched(q)
      BY <1>2, GoesFacts
    <2> QED BY <2>1 DEF Untouched, TornFrom
  <1> QED BY <1>1, <1>2

LEMMA EndsTorn ==
    ASSUME RunsInv, NEW p \in Procs, NEW r \in Runs, NEW q \in Procs, r \in on'[q], Ends(p)
    PROVE  mine'[q].torn \in TornFrom(r)
  <1>1. q # p /\ Untouched(q)
    BY EndsFacts
  <1> QED BY <1>1 DEF Untouched, TornFrom

\* A copy is one that was there, an edit of it, or the stored document.
LEMMA CopyTorn ==
    ASSUME NEW w, Undisturbed(w), RunsInv, Apart(w), [Next]_vars, NEW r \in Runs,
           NEW q \in Procs, r \in on'[q]
    PROVE  mine'[q].torn \in TornFrom(r)
  <1>0. w \in Procs /\ mine[w] \in Doc /\ doc[r] \in Doc /\ \A x, y \in on[w] : x = y
    BY DEF Undisturbed, Procs, RunsInv, ProcsOk, DocsOk, InHand
  <1>1. ASSUME Untouched(q) PROVE mine'[q].torn \in TornFrom(r)
    BY <1>1 DEF Untouched, TornFrom
  <1>2. ASSUME NEW s \in Runs, NEW p \in Procs,
               on' = [on EXCEPT ![p] = {s}], q = p /\ r = s => mine'[p] = doc[s] \/ mine'[p].torn = "",
               at' = [at EXCEPT ![p] = at'[p]], mine' = [mine EXCEPT ![p] = mine'[p]]
        PROVE  mine'[q].torn \in TornFrom(r)
    <2>1. CASE q = p
      <3>1. r = s
        BY <1>2, <2>1 DEF RunsInv, ProcsOk
      <3> QED BY <1>2, <2>1, <3>1 DEF TornFrom
    <2>2. CASE q # p
      <3>1. on'[q] = on[q] /\ mine'[q] = mine[q]
        BY <1>2, <2>2 DEF RunsInv, ProcsOk
      <3> QED BY <3>1 DEF TornFrom
    <2> QED BY <2>1, <2>2
  <1>3. CASE Waits(w)
    <2>1. ASSUME NEW s \in Runs, TakeRun(w, s) PROVE mine'[q].torn \in TornFrom(r)
      <3>1. /\ on' = [on EXCEPT ![w] = {s}] /\ mine' = [mine EXCEPT ![w] = doc[s]]
            /\ \E l : at' = [at EXCEPT ![w] = l]
        BY <2>1 DEF TakeRun
      <3>2. mine'[w] = doc[s] /\ at' = [at EXCEPT ![w] = at'[w]]
        BY <1>0, <3>1 DEF RunsInv, ProcsOk
      <3> QED BY <1>0, <1>2, <3>1, <3>2
    <2>2. CASE Tick(w)
      <3>1. mine' = mine /\ on' = on
        BY <2>2 DEF Tick
      <3> QED BY <3>1 DEF TornFrom
    <2>3. CASE StillRunning(w)
      BY <1>0, <2>3, EndsTorn DEF StillRunning
    <2>4. CASE EnqueueRaises(w)
      <3>1. on' = [on EXCEPT ![w] = {}] /\ mine' = [mine EXCEPT ![w] = NoDoc]
        BY <2>4 DEF EnqueueRaises
      <3>2. q # w
        BY <1>0, <3>1 DEF RunsInv, ProcsOk
      <3>3. on'[q] = on[q] /\ mine'[q] = mine[q]
        BY <1>0, <3>1, <3>2 DEF RunsInv, ProcsOk
      <3> QED BY <3>3 DEF TornFrom
    <2> QED BY <1>3, <2>1, <2>2, <2>3, <2>4 DEF Waits
  <1>4. ASSUME NEW l, NEW d, Goes(w, l, d), r \in on[w] => d.torn \in {mine[w].torn, doc[r].torn}
        PROVE  mine'[q].torn \in TornFrom(r)
    <2>1. on'[w] = on[w]
      BY <1>0, <1>4, GoesFacts
    <2>2. ASSUME q = w PROVE d.torn \in TornFrom(r)
      <3>1. r \in on[w] /\ d.torn \in {mine[w].torn, doc[r].torn}
        BY <1>4, <2>1, <2>2
      <3>2. mine[w].torn \in TornFrom(r)
        BY <1>0, <3>1 DEF TornFrom
      <3>3. doc[r].torn \in TornFrom(r)
        BY DEF TornFrom
      <3> QED BY <3>1, <3>2, <3>3
    <2> QED BY <1>0, <1>4, <2>2, GoesTorn
  <1>5. CASE Finalises(w)
    <2>1. PICK s :
               \/ s \in on[w] /\ \/ Report(w, s) \/ AutoTear(w, s) \/ AutoTearBlind(w, s)
                                 \/ AssureRead(w, s) \/ AssureSave(w, s)
                                 \/ Notify(w, s) \/ AlreadyNotified(w, s) \/ NotifySave(w, s)
               \/ NoTeardown(w) \/ AutoTearRaises(w)
      BY <1>5 DEF Finalises
    <2>2. CASE Report(w, s)
      <3> DEFINE d == [mine[w] EXCEPT !.report = TRUE]
      <3>1. Goes(w, "teardown", d) \/ Goes(w, "teardown", mine[w])
        BY <2>2 DEF Report
      <3>2. d.torn = mine[w].torn
        BY <1>0 DEF Doc
      <3> HIDE DEF d
      <3> QED BY <1>4, <3>1, <3>2
    <2>3. CASE \/ AutoTear(w, s) \/ AutoTearBlind(w, s) \/ AssureSave(w, s) \/ NoTeardown(w)
               \/ AutoTearRaises(w)
      <3>1. Goes(w, "assure", mine[w]) \/ Goes(w, "notify", mine[w])
        BY <2>3 DEF AutoTear, AutoTearBlind, AssureSave, NoTeardown, AutoTearRaises
      <3> QED BY <1>4, <3>1
    <2>4. CASE s \in on[w] /\ (AssureRead(w, s) \/ Notify(w, s))
      <3>1. \E l : Goes(w, l, doc[s])
        BY <2>4 DEF AssureRead, Notify
      <3>2. r \in on[w] => s = r
        BY <1>0, <2>4
      <3> QED BY <1>4, <3>1, <3>2
    <2>5. CASE AlreadyNotified(w, s) \/ NotifySave(w, s)
      BY <1>0, <2>5, EndsTorn DEF AlreadyNotified, NotifySave
    <2> QED BY <2>1, <2>2, <2>3, <2>4, <2>5
  <1>6. CASE Advances(w)
    <2>1. PICK s \in on[w] :
               \/ StartEnqueue(w, s) \/ StartSaveIds(w, s) \/ StartStash(w, s)
               \/ EnqueueGroup(w, s) \/ RecordGroup(w, s)
      BY <1>6 DEF Advances
    <2>2. CASE StartEnqueue(w, s)
      <3> DEFINE d == [mine[w] EXCEPT !.ids[mine[w].idx] = NextJobs(s, mine[w].idx)]
      <3>1. Goes(w, "ids", d) /\ d.torn = mine[w].torn
        BY <1>0, <2>2 DEF StartEnqueue, Doc
      <3> HIDE DEF d
      <3> QED BY <1>4, <3>1
    <2>3. CASE EnqueueGroup(w, s)
      <3> DEFINE d == [mine[w] EXCEPT !.ids[Current(w)] = NextJobs(s, Current(w)), !.idx = Current(w)]
      <3>1. Goes(w, "record", d) /\ d.torn = mine[w].torn
        BY <1>0, <2>3 DEF EnqueueGroup, Doc
      <3> HIDE DEF d
      <3> QED BY <1>4, <3>1
    <2>4. CASE StartSaveIds(w, s)
      BY <1>4, <2>4 DEF StartSaveIds
    <2>5. CASE StartStash(w, s) \/ RecordGroup(w, s)
      BY <1>0, <2>5, EndsTorn DEF StartStash, RecordGroup
    <2> QED BY <2>1, <2>2, <2>3, <2>4, <2>5
  <1>7. CASE Decides(w)
    <2>1. PICK s \in on[w] : Drop(w, s) \/ NothingLeft(w, s) \/ JudgeGroup(w, s)
      BY <1>7 DEF Decides
    <2>2. ASSUME NEW status, NEW idx, EndRun(w, s, status, idx) PROVE mine'[q].torn \in TornFrom(r)
      <3> DEFINE d == [mine[w] EXCEPT !.status = status, !.idx = idx]
      <3>1. Goes(w, "report", d) /\ d.torn = mine[w].torn
        BY <1>0, <2>2 DEF EndRun, Doc
      <3> HIDE DEF d
      <3> QED BY <1>4, <3>1
    <2>3. Ends(w) \/ \E status : \E idx : EndRun(w, s, status, idx)
      BY <2>1 DEF Drop, NothingLeft, JudgeGroup
    <2> QED BY <1>0, <2>2, <2>3, EndsTorn
  <1>8. ASSUME NEW s \in Runs, StartShell(w, s) PROVE mine'[q].torn \in TornFrom(r)
    <2> DEFINE d == [NoDoc EXCEPT !.status = "RUNNING", !.idx = Opening]
    <2>1. /\ on' = [on EXCEPT ![w] = {s}] /\ mine' = [mine EXCEPT ![w] = d]
          /\ at' = [at EXCEPT ![w] = "first"]
      BY <1>8 DEF StartShell, Opening
    <2>2. d.torn = ""
      BY DEF NoDoc
    <2> HIDE DEF d
    <2>3. mine'[w] = d /\ at' = [at EXCEPT ![w] = at'[w]]
      BY <1>0, <2>1 DEF RunsInv, ProcsOk
    <2> QED BY <1>0, <1>2, <2>1, <2>2, <2>3
  <1>9. ASSUME NEW o \in Operators, OperatorActs(o) PROVE mine'[q].torn \in TornFrom(r)
    <2>0. o \in Procs
      BY DEF Procs
    <2>1. ASSUME NEW s \in Runs, TeardownRead(o, s) PROVE mine'[q].torn \in TornFrom(r)
      <3>1. /\ on' = [on EXCEPT ![o] = {s}] /\ mine' = [mine EXCEPT ![o] = doc[s]]
            /\ at' = [at EXCEPT ![o] = "destroy"]
        BY <2>1 DEF TeardownRead
      <3>2. mine'[o] = doc[s] /\ at' = [at EXCEPT ![o] = at'[o]]
        BY <2>0, <3>1 DEF RunsInv, ProcsOk
      <3> QED BY <1>2, <2>0, <3>1, <3>2
    <2> QED BY <1>9, <2>0, <2>1, EndsTorn DEF OperatorActs, Teardown
  <1>10. ASSUME NEW j \in Job, JobWorks(j) \/ StopJob(j) PROVE Untouched(q)
    BY <1>10 DEF JobWorks, JobStart, JobSubmit, TaskEnds, JobEnds, StopJob, otherVars, procVars,
       Untouched
  <1>11. CASE UNCHANGED vars
    BY <1>1, <1>11 DEF vars, procVars, Untouched
  <1> QED BY <1>1, <1>3, <1>5, <1>6, <1>7, <1>8, <1>9, <1>10, <1>11, StepsUndisturbed DEF WorkerActs

LEMMA DocTorn ==
    ASSUME NEW w, Undisturbed(w), "listing" \notin Failing, RunsInv, Apart(w), [Next]_vars,
           NEW r \in Runs
    PROVE  doc'[r].torn \in TornFrom(r) \/ TearsDown(r)
  <1>0. w \in Procs /\ mine[w] \in Doc /\ on[w] \subseteq Runs /\ doc \in [Runs -> Doc]
    BY DEF Undisturbed, Procs, RunsInv, ProcsOk, DocsOk
  <1>1. ASSUME UNCHANGED doc PROVE doc'[r].torn \in TornFrom(r)
    BY <1>1 DEF TornFrom
  <1>2. ASSUME NEW s \in Runs, NEW d, Save(s, d), s = r => d.torn \in TornFrom(r)
        PROVE  doc'[r].torn \in TornFrom(r)
    <2>1. doc' = [doc EXCEPT ![s] = d]
      BY <1>2 DEF Save
    <2>2. CASE s = r
      BY <1>0, <1>2, <2>1, <2>2
    <2>3. CASE s # r
      <3>1. doc'[r] = doc[r]
        BY <1>0, <2>1, <2>3
      <3> QED BY <3>1 DEF TornFrom
    <2> QED BY <2>2, <2>3
  <1>3. ASSUME NEW s \in on[w], NEW d, Save(s, d), d.torn = mine[w].torn
        PROVE  doc'[r].torn \in TornFrom(r)
    <2>1. s = r => d.torn \in TornFrom(r)
      BY <1>0, <1>3 DEF TornFrom
    <2> QED BY <1>0, <1>2, <1>3, <2>1
  <1>4. ASSUME NEW p \in Procs, NEW s \in on[p], at[p] \in FinalLabel \cup {"destroy"},
               TearDown(p, s, {})
        PROVE  doc'[r].torn \in TornFrom(r) \/ TearsDown(r)
    <2>1. s \in Runs
      BY <1>4 DEF RunsInv, ProcsOk
    <2>2. CASE s = r
      BY <1>4, <2>2 DEF TearsDown
    <2>3. CASE s # r
      BY <1>2, <1>4, <2>1, <2>3 DEF TearDown
    <2> QED BY <2>2, <2>3
  <1>5. CASE Finalises(w)
    <2>1. PICK s :
               \/ s \in on[w] /\ \/ Report(w, s) \/ AutoTear(w, s) \/ AutoTearBlind(w, s)
                                 \/ AssureRead(w, s) \/ AssureSave(w, s)
                                 \/ Notify(w, s) \/ AlreadyNotified(w, s) \/ NotifySave(w, s)
               \/ NoTeardown(w) \/ AutoTearRaises(w)
      BY <1>5 DEF Finalises
    <2>2. CASE s \in on[w] /\ Report(w, s)
      <3> DEFINE d == [mine[w] EXCEPT !.report = TRUE]
      <3>1. Save(s, d) \/ UNCHANGED doc
        BY <2>2 DEF Report, docVars
      <3>2. d.torn = mine[w].torn
        BY <1>0 DEF Doc
      <3> HIDE DEF d
      <3> QED BY <1>1, <1>3, <2>2, <3>1, <3>2
    <2>3. CASE s \in on[w] /\ AutoTear(w, s)
      <3>1. at[w] \in FinalLabel /\ TearDown(w, s, {})
        BY <2>3 DEF AutoTear, FinalLabel
      <3> QED BY <1>0, <1>4, <2>3, <3>1
    <2>4. CASE s \in on[w] /\ AssureSave(w, s)
      <3> DEFINE d == [mine[w] EXCEPT !.evaluated = TRUE, !.verdict = Verdict(mine[w])]
      <3>1. Save(s, d)
        BY <2>4 DEF AssureSave
      <3>2. d.torn = mine[w].torn
        BY <1>0 DEF Doc
      <3> HIDE DEF d
      <3> QED BY <1>3, <2>4, <3>1, <3>2
    <2>5. CASE s \in on[w] /\ NotifySave(w, s)
      <3> DEFINE d == [mine[w] EXCEPT !.notified = TRUE]
      <3>1. Save(s, d)
        BY <2>5 DEF NotifySave
      <3>2. d.torn = mine[w].torn
        BY <1>0 DEF Doc
      <3> HIDE DEF d
      <3> QED BY <1>3, <2>5, <3>1, <3>2
    <2>6. CASE UNCHANGED doc
      BY <1>1, <2>6
    <2>7. ~AutoTearBlind(w, s)
      BY DEF AutoTearBlind, Raises
    <2> QED BY <2>1, <2>2, <2>3, <2>4, <2>5, <2>6, <2>7
          DEF AssureRead, Notify, AlreadyNotified, NoTeardown, AutoTearRaises, docVars
  <1>6. CASE Advances(w) \/ Decides(w)
    <2>1. PICK s \in on[w] :
               \/ StartEnqueue(w, s) \/ StartSaveIds(w, s) \/ StartStash(w, s)
               \/ EnqueueGroup(w, s) \/ RecordGroup(w, s)
               \/ Drop(w, s) \/ NothingLeft(w, s) \/ JudgeGroup(w, s)
      BY <1>6 DEF Advances, Decides
    <2>2. UNCHANGED doc \/ \E d \in {mine[w], [mine[w] EXCEPT !.pend = TRUE]} : Save(s, d)
          \/ (\E i : Save(s, [mine[w] EXCEPT !.idx = i]))
          \/ (\E status, i : Save(s, [mine[w] EXCEPT !.status = status, !.idx = i]))
      BY <2>1 DEF StartEnqueue, StartSaveIds, StartStash, EnqueueGroup, RecordGroup, Drop,
                  NothingLeft, JudgeGroup, EndRun, docVars
    <2>3. CASE UNCHANGED doc
      BY <1>1, <2>3
    <2>4. CASE Save(s, mine[w])
      BY <1>3, <2>4
    <2>5. CASE Save(s, [mine[w] EXCEPT !.pend = TRUE])
      <3>1. [mine[w] EXCEPT !.pend = TRUE].torn = mine[w].torn
        BY <1>0 DEF Doc
      <3> QED BY <1>3, <2>5, <3>1
    <2>6. ASSUME NEW i, Save(s, [mine[w] EXCEPT !.idx = i]) PROVE doc'[r].torn \in TornFrom(r)
      <3>1. [mine[w] EXCEPT !.idx = i].torn = mine[w].torn
        BY <1>0 DEF Doc
      <3> QED BY <1>3, <2>6, <3>1
    <2>7. ASSUME NEW status, NEW i, Save(s, [mine[w] EXCEPT !.status = status, !.idx = i])
          PROVE  doc'[r].torn \in TornFrom(r)
      <3>1. [mine[w] EXCEPT !.status = status, !.idx = i].torn = mine[w].torn
        BY <1>0 DEF Doc
      <3> QED BY <1>3, <2>7, <3>1
    <2> QED BY <2>2, <2>3, <2>4, <2>5, <2>6, <2>7
  <1>7. ASSUME NEW s \in Runs, StartShell(w, s) PROVE doc'[r].torn \in TornFrom(r)
    <2> DEFINE d == [NoDoc EXCEPT !.status = "RUNNING", !.idx = Opening]
    <2>1. Save(s, d)
      BY <1>7 DEF StartShell, Opening
    <2>2. d.torn = ""
      BY DEF NoDoc
    <2> HIDE DEF d
    <2> QED BY <1>2, <2>1, <2>2 DEF TornFrom
  <1>8. ASSUME NEW o \in Operators, OperatorActs(o)
        PROVE  doc'[r].torn \in TornFrom(r) \/ TearsDown(r)
    <2>1. CASE \E s \in Runs : TeardownRead(o, s)
      BY <1>1, <2>1 DEF TeardownRead, docVars
    <2>2. ASSUME NEW s \in on[o], Teardown(o, s)
          PROVE  doc'[r].torn \in TornFrom(r) \/ TearsDown(r)
      BY <1>4, <2>2 DEF Teardown, Procs
    <2> QED BY <1>8, <2>1, <2>2 DEF OperatorActs
  <1>9. ASSUME NEW j \in Job, JobWorks(j) \/ StopJob(j) PROVE UNCHANGED doc
    BY <1>9 DEF JobWorks, JobStart, JobSubmit, TaskEnds, JobEnds, StopJob, otherVars, docVars
  <1>10. CASE Next
    BY <1>1, <1>5, <1>6, <1>7, <1>8, <1>9, <1>10, StepsUndisturbed, WaitsWriteNothing DEF WorkerActs
  <1> QED BY <1>1, <1>10 DEF vars, docVars

\* The guests of a bare run stay away.
LEMMA GuestsStayAway ==
    ASSUME NEW w, Undisturbed(w), RunsInv, Apart(w), [Next]_vars,
           NEW j \in Job, state[j] \in Terminal, guest[j] \in {"none", "gone"}
    PROVE  guest'[j] \in {"none", "gone"}
  <1>0. guest \in [Job -> {"none", "locked", "there", "gone"}]
    BY DEF RunsInv, JobsOk
  <1>1. ASSUME NEW p, NEW r, NEW blind, TearDown(p, r, blind) PROVE guest'[j] \in {"none", "gone"}
    BY <1>0, <1>1 DEF TearDown
  <1>2. ASSUME NEW i \in Job, JobWorks(i) \/ StopJob(i) PROVE guest'[j] \in {"none", "gone"}
    <2>1. CASE JobSubmit(i)
      <3>1. i # j
        BY <2>1 DEF JobSubmit, Apart, ThreadsRestore, Terminal
      <3> QED BY <1>0, <2>1, <3>1 DEF JobSubmit
    <2>2. ASSUME NEW result, TaskEnds(i, result) PROVE guest'[j] \in {"none", "gone"}
      BY <1>0, <2>2 DEF TaskEnds
    <2>3. CASE JobStart(i) \/ StopJob(i) \/ \E s \in Terminal : JobEnds(i, s)
      BY <2>3 DEF JobStart, StopJob, JobEnds
    <2> QED BY <1>2, <2>1, <2>2, <2>3 DEF JobWorks
  <1>3. CASE UNCHANGED guest
    BY <1>3
  <1>4. CASE WorkerActs(w)
    <2>1. CASE Finalises(w)
      BY <1>1, <1>3, <2>1
         DEF Finalises, Report, AutoTear, AutoTearBlind, AssureRead, AssureSave, Notify,
             AlreadyNotified, NotifySave, NoTeardown, AutoTearRaises, jobVars
    <2>2. CASE Advances(w) \/ Decides(w) \/ \E r \in Runs : StartShell(w, r)
      BY <1>3, <2>2
         DEF Advances, Decides, StartEnqueue, StartSaveIds, StartStash, EnqueueGroup, RecordGroup,
             Drop, NothingLeft, JudgeGroup, StartShell, Enqueue, jobVars
    <2> QED BY <1>3, <1>4, <2>1, <2>2, WaitsWriteNothing DEF WorkerActs, jobVars
  <1>5. ASSUME NEW o \in Operators, OperatorActs(o) PROVE guest'[j] \in {"none", "gone"}
    BY <1>1, <1>3, <1>5 DEF OperatorActs, TeardownRead, Teardown, jobVars
  <1> QED BY <1>2, <1>3, <1>4, <1>5, StepsUndisturbed DEF vars, jobVars

LEMMA BareStays ==
    ASSUME NEW w, Undisturbed(w), RunsInv, Apart(w), [Next]_vars, NEW r \in Runs, Bare(r)
    PROVE  Bare(r)'
  <1>1. doc'[r].status \in Terminal
    BY CoreStays DEF Bare, SameCore
  <1>2. JobsAlike(r)
    <2>1. r \notin on[w] \/ at[w] \notin Live
      BY DEF Apart, WorkerApart, Bare, Terminal
    <2> QED BY <2>1, JobsStayAlike DEF StartEnqueue, EnqueueGroup, Live, StartLabel
  <1>3. Created(r)' = Created(r) /\ \A j \in Created(r) : state'[j] = state[j]
    BY <1>2, AlikeFacts DEF Bare
  <1>4. \A j \in Created(r) : guest'[j] \in {"none", "gone"}
    BY GuestsStayAway DEF Bare, Created
  <1> QED BY <1>1, <1>3, <1>4 DEF Bare

\* A teardown that destroyed the guest of every recorded job leaves none.
LEMMA TearsBare ==
    ASSUME NEW w, Undisturbed(w), RunsInv, Apart(w), Honest(w), [Next]_vars, NEW r \in Runs,
           TearsDown(r), doc'[r].torn = "completed"
    PROVE  Bare(r)'
  <1>0. HonestRun(w, r) /\ doc \in [Runs -> Doc]
    BY DEF Honest, RunsInv, DocsOk
  <1>1. PICK p \in Procs : r \in on[p] /\ at[p] \in FinalLabel \cup {"destroy"} /\ TearDown(p, r, {})
    BY DEF TearsDown
  <1>2. doc[r].status \in Terminal /\ SameCore(mine[p], doc[r]) /\ mine[p] \in Doc
    <2>1. CASE p = w
      BY <1>1, <2>1, CopyFacts DEF Apart, WorkerApart
    <2>2. CASE p \in Operators
      BY <1>1, <2>2, CopyFacts DEF Apart, OperatorApart
    <2> QED BY <2>1, <2>2 DEF Undisturbed, Procs
  <1>3. Book(w, r) = doc[r]
    BY <1>2 DEF Apart, WorkerApart, Book, Live, StartLabel, Terminal
  <1>4. Created(r) \subseteq Recorded(mine[p])
    <2>1. ASSUME NEW j \in Created(r) PROVE j \in Recorded(mine[p])
      <3>1. j[2] \in Group /\ j \in doc[r].ids[j[2]]
        BY <1>0, <1>3, BookFacts
      <3> QED BY <1>2, <3>1 DEF SameCore, Recorded
    <2> QED BY <2>1
  <1> DEFINE targets == Recorded(mine[p])
             failed == {j \in targets : guest[j] = "locked"}
  <1>5. /\ guest' = [j \in Job |-> IF j \in targets /\ guest[j] = "there" THEN "gone" ELSE guest[j]]
        /\ doc'[r] = [mine[p] EXCEPT !.torn = Torn(targets, failed)]
        /\ UNCHANGED state
    <2>1. targets \ {} = targets
      OBVIOUS
    <2> QED BY <1>0, <1>1, <2>1 DEF TearDown, Save
  <1>6. failed = {}
    <2>1. Torn(targets, failed) = "completed"
      BY <1>2, <1>5 DEF Doc
    <2> QED BY <2>1 DEF Torn
  <1>7. ASSUME NEW j \in Created(r)
        PROVE  state'[j] \in Terminal /\ guest'[j] \in {"none", "gone"}
    <2>1. j \in Job /\ j \in targets /\ guest[j] # "locked"
      BY <1>4, <1>6 DEF Created
    <2>2. guest[j] \in {"none", "there", "gone"}
      BY <2>1 DEF RunsInv, JobsOk
    <2> HIDE DEF targets, failed
    <2>3. state[j] \in Terminal
      BY <1>0, <1>2 DEF HonestRun, RunHasEnded
    <2> QED BY <1>5, <2>1, <2>2, <2>3
  <1>8. Created(r)' = Created(r)
    BY <1>5 DEF Created
  <1>9. doc'[r].status \in Terminal
    BY <1>2, CoreStays DEF SameCore
  <1> QED BY <1>7, <1>8, <1>9 DEF Bare

LEMMA TornIsBareKept ==
    ASSUME NEW w, Undisturbed(w), "listing" \notin Failing, RunsInv, Apart(w), Honest(w),
           TornIsBare, [Next]_vars
    PROVE  TornIsBare'
  <1>1. ASSUME NEW r \in Runs, "completed" \in TornFrom(r) PROVE Bare(r)'
    <2>1. Bare(r)
      BY <1>1 DEF TornFrom, TornIsBare
    <2> QED BY <2>1, BareStays
  <1>2. ASSUME NEW r \in Runs, doc'[r].torn = "completed" PROVE Bare(r)'
    BY <1>1, <1>2, DocTorn, TearsBare
  <1>3. ASSUME NEW p \in Procs, NEW r \in on'[p], mine'[p].torn = "completed" PROVE Bare(r)'
    <2>1. r \in Runs
      BY RunsInvKept DEF RunsInv, ProcsOk
    <2> QED BY <1>1, <1>3, <2>1, CopyTorn
  <1> QED BY <1>2, <1>3 DEF TornIsBare

\* The invariant, with the teardowns.
LEMMA BareInvariant ==
    ASSUME NEW w, Undisturbed(w), "listing" \notin Failing
    PROVE  Spec => [](RunsInv /\ Apart(w) /\ Honest(w) /\ TornIsBare)
  <1>1. Init => TornIsBare
    <2> SUFFICES ASSUME Init PROVE TornIsBare
      OBVIOUS
    <2>1. NoDoc.torn = ""
      BY DEF NoDoc
    <2>2. /\ \A r \in Runs : doc[r] = NoDoc
          /\ \A p \in Procs : on[p] = {}
      BY DEF Init
    <2> QED BY <2>1, <2>2 DEF TornIsBare
  <1>2. RunsInv /\ Apart(w) /\ Honest(w) /\ TornIsBare /\ [Next]_vars => TornIsBare'
    BY TornIsBareKept
  <1> QED BY <1>1, <1>2, HonestInvariant, PTL DEF Spec

\* TornDownIsEmpty: where the document says that the teardown is complete, no
\* job of the run has a guest, nor will it get one (Bare is what is kept).
THEOREM TornEmpty ==
  ASSUME NEW w, Undisturbed(w), "listing" \notin Failing
  PROVE  Spec => []TornDownIsEmpty
  <1>1. TornIsBare => TornDownIsEmpty
    BY DEF TornIsBare, Bare, TornDownIsEmpty
  <1> QED BY <1>1, BareInvariant, PTL
-----------------------------------------------------------------------------
(* The order of the groups: PlanOrder is implemented.                      *)

\* What PlanOrder sees of a run.
Opened(r) == {g \in NonEmpty : Started(r, g)}
Done(r) == {g \in NonEmpty : Settled(r, g)}
Bad(r) == {g \in NonEmpty : Settled(r, g) /\ \E j \in GroupJobs(r, g) : state[j] = "FAILED"}

SameGroups(q) == Opened(q)' = Opened(q) /\ Done(q)' = Done(q) /\ Bad(q)' = Bad(q)
OthersStill(r) == \A q \in Runs : q # r => doc'[q].status = doc[q].status /\ SameGroups(q)

LEMMA BeginMoves ==
    ASSUME NEW r \in Runs, OthersStill(r), SameGroups(r),
           doc[r].status = "NONE", doc'[r].status = "RUNNING"
    PROVE  Order!Next
  <1> DEFINE ph == [q \in Runs |-> doc[q].status]
             op == [q \in Runs |-> Opened(q)]
             dn == [q \in Runs |-> Done(q)]
             bd == [q \in Runs |-> Bad(q)]
  <1>1. op' = op /\ dn' = dn /\ bd' = bd
    BY DEF OthersStill, SameGroups
  <1>2. ph[r] = "NONE" /\ ph' = [ph EXCEPT ![r] = "RUNNING"]
    BY DEF OthersStill
  <1>3. Order!Begin(r)
    BY <1>1, <1>2 DEF Order!Begin, Opened, Done, Bad
  <1> QED BY <1>3 DEF Order!Next

LEMMA OpenMoves ==
    ASSUME NEW r \in Runs, NEW g \in NonEmpty, OthersStill(r),
           doc[r].status = "RUNNING", doc'[r].status = "RUNNING", g \notin Opened(r),
           \A h \in NonEmpty : h < g => h \in Done(r) /\ (Halt => h \notin Bad(r)),
           Opened(r)' = Opened(r) \cup {g}, Done(r)' = Done(r), Bad(r)' = Bad(r)
    PROVE  Order!Next
  <1> DEFINE ph == [q \in Runs |-> doc[q].status]
             op == [q \in Runs |-> Opened(q)]
             dn == [q \in Runs |-> Done(q)]
             bd == [q \in Runs |-> Bad(q)]
  <1>1. ph' = ph /\ dn' = dn /\ bd' = bd
    BY DEF OthersStill, SameGroups
  <1>2. op' = [op EXCEPT ![r] = @ \cup {g}]
    BY DEF OthersStill, SameGroups
  <1>3. /\ ph[r] = "RUNNING" /\ g \in NonEmpty \ op[r]
        /\ \A h \in NonEmpty : h < g => h \in dn[r] /\ (Halt => h \notin bd[r])
    OBVIOUS
  <1>4. Order!Open(r, g)
    BY <1>1, <1>2, <1>3 DEF Order!Open, Opened, Done, Bad
  <1> QED BY <1>4 DEF Order!Next

LEMMA CloseMoves ==
    ASSUME NEW r \in Runs, NEW g \in NonEmpty, OthersStill(r),
           doc'[r].status = doc[r].status, g \in Opened(r), g \notin Done(r),
           Opened(r)' = Opened(r), Done(r)' = Done(r) \cup {g},
           NEW failed \in SUBSET {g}, Bad(r)' = Bad(r) \cup failed
    PROVE  Order!Next
  <1> DEFINE ph == [q \in Runs |-> doc[q].status]
             op == [q \in Runs |-> Opened(q)]
             dn == [q \in Runs |-> Done(q)]
             bd == [q \in Runs |-> Bad(q)]
  <1>1. ph' = ph /\ op' = op
    BY DEF OthersStill, SameGroups
  <1>2. dn' = [dn EXCEPT ![r] = @ \cup {g}]
    BY DEF OthersStill, SameGroups
  <1>3. bd' = [bd EXCEPT ![r] = @ \cup failed]
    BY DEF OthersStill, SameGroups
  <1>4. g \in op[r] \ dn[r]
    OBVIOUS
  <1>5. Order!Close(r, g)
    BY <1>1, <1>2, <1>3, <1>4 DEF Order!Close, Opened, Done, Bad
  <1> QED BY <1>5 DEF Order!Next

LEMMA EndMoves ==
    ASSUME NEW r \in Runs, OthersStill(r), SameGroups(r), NEW outcome \in Terminal,
           doc[r].status = "RUNNING", doc'[r].status = outcome, Opened(r) = Done(r),
           outcome = "COMPLETED" => Done(r) = NonEmpty /\ (Halt => Bad(r) = {}),
           outcome = "FAILED" => Halt /\ Bad(r) # {}
    PROVE  Order!Next
  <1> DEFINE ph == [q \in Runs |-> doc[q].status]
             op == [q \in Runs |-> Opened(q)]
             dn == [q \in Runs |-> Done(q)]
             bd == [q \in Runs |-> Bad(q)]
  <1>1. op' = op /\ dn' = dn /\ bd' = bd
    BY DEF OthersStill, SameGroups
  <1>2. ph[r] = "RUNNING" /\ ph' = [ph EXCEPT ![r] = outcome]
    BY DEF OthersStill
  <1>3. /\ op[r] = dn[r]
        /\ outcome = "COMPLETED" => dn[r] = NonEmpty /\ (Halt => bd[r] = {})
        /\ outcome = "FAILED" => Halt /\ bd[r] # {}
    OBVIOUS
  <1>4. Order!End(r, outcome)
    BY <1>1, <1>2, <1>3 DEF Order!End, Opened, Done, Bad
  <1> QED BY <1>4 DEF Order!Next, Terminal

LEMMA NothingMoves ==
    ASSUME \A q \in Runs : doc'[q].status = doc[q].status /\ SameGroups(q)
    PROVE  UNCHANGED Order!vars
  <1>1. /\ [q \in Runs |-> doc[q].status]' = [q \in Runs |-> doc[q].status]
        /\ [q \in Runs |-> Opened(q)]' = [q \in Runs |-> Opened(q)]
        /\ [q \in Runs |-> Done(q)]' = [q \in Runs |-> Done(q)]
        /\ [q \in Runs |-> Bad(q)]' = [q \in Runs |-> Bad(q)]
    BY DEF SameGroups
  <1> QED BY <1>1 DEF Order!vars, Opened, Done, Bad

\* A group is started when it has jobs, after a step as well.
LEMMA GroupsAre ==
    ASSUME NEW r \in Runs, NEW g \in NonEmpty
    PROVE  /\ g \in Opened(r) <=> GroupJobs(r, g) # {}
           /\ g \in Done(r) <=> GroupJobs(r, g) # {} /\ \A j \in GroupJobs(r, g) : state[j] \in Terminal
           /\ g \in Bad(r) <=> g \in Done(r) /\ \E j \in GroupJobs(r, g) : state[j] = "FAILED"
  <1>1. Started(r, g) <=> GroupJobs(r, g) # {}
    BY StartedIs DEF NonEmpty
  <1> QED BY <1>1 DEF Opened, Done, Bad, Settled

LEMMA GroupsWillBe ==
    ASSUME NEW r \in Runs, NEW g \in NonEmpty
    PROVE  /\ g \in Opened(r)' <=> GroupJobs(r, g)' # {}
           /\ g \in Done(r)' <=> GroupJobs(r, g)' # {} /\ \A j \in GroupJobs(r, g)' : state'[j] \in Terminal
           /\ g \in Bad(r)' <=> g \in Done(r)' /\ \E j \in GroupJobs(r, g)' : state'[j] = "FAILED"
  <1>0. NonEmpty' = NonEmpty /\ g \in Group
    BY DEF NonEmpty
  <1>1. ASSUME NEW a \in 1 .. Attempts, NEW j \in JobsOf(r, g, a)
        PROVE  j \in Job /\ j[1] = r /\ j[2] = g
    BY <1>0, JobsOfFacts
  <1>2. ASSUME NEW j \in Job, j[1] = r, j[2] = g
        PROVE  \E a \in 1 .. Attempts : j \in JobsOf(r, g, a)
    <2>1. PICK q \in Runs, h \in Group, a \in 1 .. Attempts : j \in JobsOf(q, h, a)
      BY DEF Job
    <2>2. PICK k \in 1 .. Rows[h] : j = <<q, h, k, a>>
      BY <2>1 DEF JobsOf
    <2> QED BY <1>2, <2>1, <2>2
  <1>3. Started(r, g)' <=> GroupJobs(r, g)' # {}
    BY <1>1, <1>2 DEF Started, GroupJobs, Created
  <1> QED BY <1>0, <1>3 DEF Opened, Done, Bad, Settled

LEMMA GroupsStay ==
    ASSUME NEW r \in Runs, \A j \in Job : j[1] = r => state'[j] = state[j]
    PROVE  SameGroups(r)
  <1>1. \A g \in Group : GroupJobs(r, g)' = GroupJobs(r, g)
    BY DEF GroupJobs, Created
  <1>2. \A g \in Group : \A j \in GroupJobs(r, g) : state'[j] = state[j]
    BY DEF GroupJobs, Created
  <1>3. ASSUME NEW g \in NonEmpty
        PROVE  /\ g \in Opened(r)' <=> g \in Opened(r)
               /\ g \in Done(r)' <=> g \in Done(r)
               /\ g \in Bad(r)' <=> g \in Bad(r)
    <2>1. g \in Group
      BY DEF NonEmpty
    <2> QED BY <1>1, <1>2, <2>1, GroupsAre, GroupsWillBe
  <1>4. /\ Opened(r) \subseteq NonEmpty /\ Done(r) \subseteq NonEmpty /\ Bad(r) \subseteq NonEmpty
        /\ Opened(r)' \subseteq NonEmpty /\ Done(r)' \subseteq NonEmpty /\ Bad(r)' \subseteq NonEmpty
    BY DEF Opened, Done, Bad, NonEmpty
  <1> QED BY <1>3, <1>4 DEF SameGroups

\* A job that goes on may be the last one of its group.
LEMMA JobMoves ==
    ASSUME RunsInv, NEW j \in Job, UNCHANGED doc,
           state[j] \notin Terminal \cup {"NONE"}, state'[j] # "NONE",
           \A i \in Job : i # j => state'[i] = state[i]
    PROVE  Order!Next \/ UNCHANGED Order!vars
  <1>1. PICK r \in Runs, g \in Group, a \in 1 .. Attempts : j \in JobsOf(r, g, a)
    BY DEF Job
  <1>2. j[1] = r /\ j[2] = g
    BY <1>1, JobsOfFacts
  <1>3. g \in NonEmpty
    <2>1. Rows[g] \in Nat
      BY PlanAssumption DEF Group
    <2>2. PICK k \in 1 .. Rows[g] : TRUE
      BY <1>1 DEF JobsOf
    <2>3. Rows[g] > 0
      BY <2>1, <2>2
    <2> QED BY <2>3 DEF NonEmpty
  <1>4. OthersStill(r)
    BY <1>2, GroupsStay DEF OthersStill
  <1>5. \A h \in Group : GroupJobs(r, h)' = GroupJobs(r, h)
    BY DEF GroupJobs, Created
  <1>6. j \in GroupJobs(r, g)
    BY <1>2 DEF GroupJobs, Created
  <1>7. \A h \in Group : h # g => \A i \in GroupJobs(r, h) : state'[i] = state[i]
    BY <1>2 DEF GroupJobs, Created
  <1>8. ASSUME NEW h \in NonEmpty, h # g
        PROVE  /\ h \in Opened(r)' <=> h \in Opened(r)
               /\ h \in Done(r)' <=> h \in Done(r)
               /\ h \in Bad(r)' <=> h \in Bad(r)
    <2>1. h \in Group
      BY DEF NonEmpty
    <2> QED BY <1>5, <1>7, <1>8, <2>1, GroupsAre, GroupsWillBe
  <1>9. g \in Opened(r) /\ g \in Opened(r)' /\ g \notin Done(r) /\ g \notin Bad(r)
    BY <1>3, <1>5, <1>6, GroupsAre, GroupsWillBe
  <1>10. /\ Opened(r) \subseteq NonEmpty /\ Done(r) \subseteq NonEmpty /\ Bad(r) \subseteq NonEmpty
         /\ Opened(r)' \subseteq NonEmpty /\ Done(r)' \subseteq NonEmpty /\ Bad(r)' \subseteq NonEmpty
    BY DEF Opened, Done, Bad, NonEmpty
  <1>11. Opened(r)' = Opened(r)
    BY <1>8, <1>9, <1>10
  <1>12. CASE g \in Done(r)'
    <2>1. Done(r)' = Done(r) \cup {g}
      BY <1>3, <1>8, <1>10, <1>12
    <2>2. \E failed \in SUBSET {g} : Bad(r)' = Bad(r) \cup failed
      <3>1. CASE g \in Bad(r)'
        <4>1. Bad(r)' = Bad(r) \cup {g}
          BY <1>3, <1>8, <1>10, <3>1
        <4> QED BY <4>1
      <3>2. CASE g \notin Bad(r)'
        <4>1. Bad(r)' = Bad(r) \cup {}
          BY <1>8, <1>9, <1>10, <3>2
        <4> QED BY <4>1
      <3> QED BY <3>1, <3>2
    <2>3. PICK failed \in SUBSET {g} : Bad(r)' = Bad(r) \cup failed
      BY <2>2
    <2>4. doc'[r].status = doc[r].status
      OBVIOUS
    <2> QED BY <1>3, <1>4, <1>9, <1>11, <2>1, <2>3, <2>4, CloseMoves
  <1>13. CASE g \notin Done(r)'
    <2>1. Done(r)' = Done(r)
      BY <1>8, <1>9, <1>10, <1>13
    <2>2. g \notin Bad(r)'
      BY <1>3, <1>13, GroupsWillBe
    <2>3. Bad(r)' = Bad(r)
      BY <1>8, <1>9, <1>10, <2>2
    <2> QED BY <1>4, <1>11, <2>1, <2>3, NothingMoves DEF OthersStill, SameGroups
  <1> QED BY <1>12, <1>13

LEMMA AnyJobMoves ==
    ASSUME NEW w, RunsInv, Apart(w), NEW j \in Job, JobWorks(j) \/ StopJob(j)
    PROVE  Order!Next \/ UNCHANGED Order!vars
  <1>0. /\ state \in [Job -> {"NONE", "PENDING", "RESTORING"} \cup Terminal]
        /\ UNCHANGED doc
    BY DEF RunsInv, JobsOk, JobWorks, JobStart, JobSubmit, TaskEnds, JobEnds, StopJob, otherVars, docVars
  <1>1. CASE UNCHANGED state
    BY <1>0, <1>1, GroupsStay, NothingMoves
  <1>2. ASSUME NEW s \in {"RESTORING"} \cup Terminal, state' = [state EXCEPT ![j] = s],
               state[j] \in {"PENDING", "RESTORING"}
        PROVE  Order!Next \/ UNCHANGED Order!vars
    <2>1. /\ state[j] \notin Terminal \cup {"NONE"} /\ state'[j] # "NONE"
          /\ \A i \in Job : i # j => state'[i] = state[i]
      BY <1>0, <1>2 DEF Terminal
    <2> QED BY <1>0, <2>1, JobMoves
  <1>3. CASE JobStart(j)
    BY <1>2, <1>3 DEF JobStart
  <1>4. ASSUME NEW s \in Terminal, JobEnds(j, s)
        PROVE  Order!Next \/ UNCHANGED Order!vars
    <2>1. state[j] = "RESTORING"
      BY <1>4 DEF JobEnds, Apart, ThreadsRestore
    <2> QED BY <1>2, <1>4, <2>1 DEF JobEnds
  <1>5. CASE StopJob(j) /\ state[j] = "PENDING"
    BY <1>2, <1>5 DEF StopJob, Terminal
  <1>6. CASE StopJob(j) /\ state[j] # "PENDING"
    BY <1>1, <1>6 DEF StopJob
  <1>7. CASE JobSubmit(j) \/ \E result : TaskEnds(j, result)
    BY <1>1, <1>7 DEF JobSubmit, TaskEnds
  <1> QED BY <1>3, <1>4, <1>5, <1>6, <1>7 DEF JobWorks

\* A group is opened by the step that creates its jobs.
LEMMA CreateMoves ==
    ASSUME NEW w, Undisturbed(w), RunsInv, NEW r \in Runs, NEW g \in NonEmpty, UNCHANGED doc,
           HonestRun(w, r), doc[r].status = "RUNNING",
           GroupJobs(r, g) = {}, Enqueue(NextJobs(r, g)),
           \A h \in NonEmpty : h < g => h \in Done(r) /\ (Halt => h \notin Bad(r))
    PROVE  Order!Next
  <1>0. g \in Group /\ Rows[g] \in Nat /\ Rows[g] > 0
    BY PlanAssumption DEF NonEmpty, Group
  <1>1. /\ GroupJobs(r, g)' = JobsOf(r, g, 1)
        /\ \A h \in Group : h # g => GroupJobs(r, h)' = GroupJobs(r, h)
        /\ \A j \in JobsOf(r, g, 1) : state'[j] = "PENDING"
        /\ \A j \in Job : j \notin JobsOf(r, g, 1) => state'[j] = state[j]
        /\ \A j \in JobsOf(r, g, 1) : j \in Job /\ j[1] = r /\ j[2] = g
    BY <1>0, GroupCreated
  <1>2. <<r, g, 1, 1>> \in JobsOf(r, g, 1)
    BY <1>0 DEF JobsOf
  <1>3. OthersStill(r)
    <2>1. ASSUME NEW q \in Runs, q # r PROVE \A j \in Job : j[1] = q => state'[j] = state[j]
      BY <1>1, <2>1
    <2> QED BY <2>1, GroupsStay DEF OthersStill
  <1>4. ASSUME NEW h \in NonEmpty, h # g
        PROVE  /\ h \in Opened(r)' <=> h \in Opened(r)
               /\ h \in Done(r)' <=> h \in Done(r)
               /\ h \in Bad(r)' <=> h \in Bad(r)
    <2>1. h \in Group /\ GroupJobs(r, h)' = GroupJobs(r, h)
      BY <1>1, <1>4 DEF NonEmpty
    <2>2. \A i \in GroupJobs(r, h) : i \in Job /\ i[2] = h
      BY DEF GroupJobs, Created
    <2>3. \A i \in GroupJobs(r, h) : state'[i] = state[i]
      BY <1>1, <1>4, <2>2
    <2> QED BY <2>1, <2>3, GroupsAre, GroupsWillBe
  <1>5. g \notin Opened(r) /\ g \notin Done(r) /\ g \notin Bad(r)
    BY GroupsAre
  <1>6. g \in Opened(r)' /\ g \notin Done(r)' /\ g \notin Bad(r)'
    BY <1>1, <1>2, GroupsWillBe DEF Terminal
  <1>7. /\ Opened(r) \subseteq NonEmpty /\ Done(r) \subseteq NonEmpty /\ Bad(r) \subseteq NonEmpty
        /\ Opened(r)' \subseteq NonEmpty /\ Done(r)' \subseteq NonEmpty /\ Bad(r)' \subseteq NonEmpty
    BY DEF Opened, Done, Bad, NonEmpty
  <1>8. Opened(r)' = Opened(r) \cup {g}
    BY <1>4, <1>6, <1>7
  <1>9. Done(r)' = Done(r) /\ Bad(r)' = Bad(r)
    BY <1>4, <1>5, <1>6, <1>7
  <1>10. doc'[r].status = "RUNNING"
    OBVIOUS
  <1> QED BY <1>3, <1>5, <1>8, <1>9, <1>10, OpenMoves

LEMMA EnqueuesMove ==
    ASSUME NEW w, Undisturbed(w), RunsInv, Apart(w), NEW r \in on[w], HonestRun(w, r),
           StartEnqueue(w, r) \/ EnqueueGroup(w, r)
    PROVE  Order!Next
  <1>0. /\ w \in Procs /\ r \in Runs /\ on[w] = {r} /\ mine[w] \in Doc /\ InHand(w)
        /\ Sound(mine[w], state, cancelReq) /\ mine[w].idx \in 1 .. Groups + 1
    BY CopyFacts DEF Undisturbed, Procs
  <1>00. Groups \in Nat /\ Group = 1 .. Groups /\ NonEmpty \subseteq Group
    BY PlanAssumption DEF Group, NonEmpty
  <1>1. UNCHANGED doc /\ at[w] \in {"first", "judge"}
    BY DEF StartEnqueue, EnqueueGroup, docVars
  <1>2. mine[w] = doc[r] /\ Book(w, r) = doc[r] /\ doc[r].status = "RUNNING"
    BY <1>0, <1>1 DEF Apart, WorkerApart, Book, Live, StartLabel
  <1>3. CASE StartEnqueue(w, r)
    <2> DEFINE g == mine[w].idx
    <2>1. at[w] = "first" /\ Enqueue(NextJobs(r, g))
      BY <1>3 DEF StartEnqueue
    <2>2. g \in NonEmpty /\ \A h \in NonEmpty : g <= h
      BY <1>0, <2>1, OpeningIsLeast DEF InHand, StartLabel
    <2>3. GroupJobs(r, g) = {}
      BY <1>0, <2>1 DEF HonestRun, RunGoesOn, GroupJobs
    <2> HIDE DEF g
    <2>4. \A h \in NonEmpty : ~(h < g)
      BY <1>00, <2>2
    <2> QED BY <1>0, <1>1, <1>2, <2>1, <2>2, <2>3, <2>4, CreateMoves
  <1>4. CASE EnqueueGroup(w, r)
    <2> DEFINE g == Current(w)
    <2>1. at[w] = "judge" /\ g \in Group /\ mine[w].ids[g] = {} /\ Enqueue(NextJobs(r, g))
      BY <1>4 DEF EnqueueGroup, CurrentJobs
    <2>2. /\ g \in mine[w].idx .. Groups + 1
          /\ \A h \in Group : mine[w].idx <= h /\ h < g => mine[w].ids[h] = {}
          /\ \A h \in NonEmpty : mine[w].pend /\ h < g => mine[w].ids[h] # {}
      BY <1>0, <2>1, JudgeFacts
    <2>3. g # Groups + 1 => mine[w].ids[g] # {} \/ (mine[w].pend /\ Rows[g] > 0)
      BY <1>0, FirstFromIsFirst DEF Current
    <2> HIDE DEF g
    <2>4. mine[w].pend /\ g \in NonEmpty
      BY <1>00, <2>1, <2>3 DEF NonEmpty
    <2>5. GroupJobs(r, g) = {}
      BY <1>2, <2>1 DEF HonestRun, BookComplete
    <2>6. ASSUME NEW h \in NonEmpty, h < g PROVE h \in Done(r) /\ (Halt => h \notin Bad(r))
      <3>1. mine[w].ids[h] # {} /\ h \in Group
        BY <1>00, <2>2, <2>4, <2>6
      <3>2. ~(mine[w].idx <= h)
        BY <2>2, <2>6, <3>1
      <3>3. h < mine[w].idx
        BY <1>0, <1>00, <3>1, <3>2
      <3>4. GroupJobs(r, h) = mine[w].ids[h]
        BY <1>2, <3>1 DEF HonestRun, BookComplete
      <3>5. \A j \in GroupJobs(r, h) : state[j] \in Terminal
        BY <1>0, <3>1, <3>3, <3>4 DEF Sound
      <3>6. Halt => \A j \in GroupJobs(r, h) : state[j] # "FAILED"
        BY <1>2, <3>3 DEF HonestRun, RunGoesOn, GroupJobs
      <3> QED BY <1>0, <3>1, <3>4, <3>5, <3>6, GroupsAre
    <2> QED BY <1>0, <1>1, <1>2, <2>1, <2>4, <2>5, <2>6, CreateMoves
  <1> QED BY <1>3, <1>4

\* An outcome is saved once all jobs of the run have ended.
LEMMA DecidesMove ==
    ASSUME NEW w, Undisturbed(w), RunsInv, Apart(w), NEW r \in on[w], HonestRun(w, r), HonestRun(w, r)',
           Drop(w, r) \/ NothingLeft(w, r) \/ JudgeGroup(w, r)
    PROVE  Order!Next \/ UNCHANGED Order!vars
  <1>0. /\ w \in Procs /\ r \in Runs /\ on[w] = {r} /\ mine[w] \in Doc /\ InHand(w)
        /\ doc \in [Runs -> Doc]
    BY CopyFacts DEF Undisturbed, Procs, RunsInv, DocsOk
  <1>1. UNCHANGED state
    BY DEF Drop, NothingLeft, JudgeGroup, jobVars
  <1>2. \A q \in Runs : SameGroups(q)
    BY <1>1, GroupsStay
  <1>3. \A q \in Runs : q # r => doc'[q] = doc[q]
    BY <1>0, LiveSaves
  <1>4. OthersStill(r)
    BY <1>2, <1>3 DEF OthersStill
  <1>5. CASE Drop(w, r)
    BY <1>2, <1>5, NothingMoves DEF Drop
  <1>6. ASSUME NEW status \in Terminal, NEW idx, EndRun(w, r, status, idx), at[w] = "judge",
               status = "FAILED" => Halt /\ Bad(r) # {}
        PROVE  Order!Next
    <2>1. doc[r].status = "RUNNING"
      BY <1>0, <1>6 DEF Apart, WorkerApart, Live
    <2>2. doc'[r].status = status
      BY <1>0, <1>6 DEF EndRun, Save, Doc
    <2>3. JobsAlike(r)
      BY <1>1 DEF JobsAlike
    <2>4. Created(r)' = Created(r)
      BY <1>0, <2>3, AlikeFacts
    <2>5. \A j \in Created(r) : state[j] \in Terminal
      BY <1>1, <2>2, <2>4 DEF HonestRun, RunHasEnded
    <2>6. ASSUME NEW g \in NonEmpty PROVE g \in Opened(r) <=> g \in Done(r)
      <3>1. \A j \in GroupJobs(r, g) : state[j] \in Terminal
        BY <2>5 DEF GroupJobs
      <3> QED BY <1>0, <3>1, GroupsAre
    <2>7. Opened(r) = Done(r)
      BY <2>6 DEF Opened, Done
    <2>8. ASSUME status = "COMPLETED" PROVE Done(r) = NonEmpty /\ (Halt => Bad(r) = {})
      <3>1. \A g \in NonEmpty : g \in Done(r)'
        BY <2>2, <2>8 DEF HonestRun, RunHasEnded, Done, NonEmpty
      <3>2. Done(r) = NonEmpty
        BY <1>0, <1>2, <3>1 DEF SameGroups, Done
      <3>3. Halt => \A j \in Created(r) : state[j] # "FAILED"
        BY <1>1, <2>2, <2>4, <2>8 DEF HonestRun, RunHasEnded
      <3>4. Halt => Bad(r) = {}
        BY <3>3 DEF Bad, GroupJobs
      <3> QED BY <3>2, <3>4
    <2> QED BY <1>0, <1>2, <1>4, <1>6, <2>1, <2>2, <2>7, <2>8, EndMoves
  <1>7. CASE NothingLeft(w, r)
    BY <1>6, <1>7 DEF NothingLeft, Terminal
  <1>8. CASE JudgeGroup(w, r)
    <2>1. at[w] = "judge"
      BY <1>8 DEF JudgeGroup
    <2>2. mine[w] = doc[r] /\ Book(w, r) = doc[r] /\ doc[r].status = "RUNNING"
      BY <1>0, <2>1 DEF Apart, WorkerApart, Book, Live
    <2>3. CASE GroupFails(w)
      <3> DEFINE c == Current(w)
      <3>1. EndRun(w, r, "FAILED", mine[w].idx) /\ c \in Group /\ HasEnded(w)
        BY <1>8, <2>3 DEF JudgeGroup
      <3>2. Halt /\ \E j \in mine[w].ids[c] : state[j] = "FAILED"
        BY <2>3 DEF GroupFails, SomeJob, CurrentJobs
      <3>3. \A j \in mine[w].ids[c] : state[j] \in Terminal
        BY <3>1 DEF HasEnded, CurrentJobs
      <3> HIDE DEF c
      <3>4. GroupJobs(r, c) = mine[w].ids[c] /\ GroupJobs(r, c) \in {{}, JobsOf(r, c, 1)}
        BY <2>2, <3>1 DEF HonestRun, BookComplete
      <3>5. c \in NonEmpty
        <4>1. PICK j \in JobsOf(r, c, 1) : TRUE
          BY <3>2, <3>4
        <4>2. PICK k \in 1 .. Rows[c] : TRUE
          BY <4>1 DEF JobsOf
        <4>3. Rows[c] \in Nat
          BY <3>1, PlanAssumption DEF Group
        <4> QED BY <3>1, <4>2, <4>3 DEF NonEmpty
      <3>6. c \in Bad(r)
        BY <1>0, <3>2, <3>3, <3>4, <3>5, GroupsAre
      <3> QED BY <1>6, <2>1, <3>1, <3>2, <3>6 DEF Terminal
    <2>4. CASE ~GroupFails(w)
      <3>1. \/ \E idx : EndRun(w, r, "CANCELLED", idx)
            \/ \E idx : EndRun(w, r, "COMPLETED", idx)
            \/ \E idx : Save(r, [mine[w] EXCEPT !.idx = idx])
        BY <1>8, <2>4 DEF JudgeGroup
      <3>2. CASE \/ \E idx : EndRun(w, r, "CANCELLED", idx)
                 \/ \E idx : EndRun(w, r, "COMPLETED", idx)
        BY <1>6, <2>1, <3>2 DEF Terminal
      <3>3. ASSUME NEW idx, Save(r, [mine[w] EXCEPT !.idx = idx]) PROVE UNCHANGED Order!vars
        <4>1. doc'[r].status = doc[r].status
          BY <1>0, <2>2, <3>3 DEF Save, Doc
        <4> QED BY <1>2, <1>3, <4>1, NothingMoves
      <3> QED BY <3>1, <3>2, <3>3
    <2> QED BY <2>3, <2>4
  <1> QED BY <1>5, <1>7, <1>8

\* The shell of a run, the other saves of a RUNNING one, and every other step.
LEMMA ShellMoves ==
    ASSUME NEW w, Undisturbed(w), RunsInv, NEW r \in Runs, StartShell(w, r)
    PROVE  Order!Next
  <1>0. doc \in [Runs -> Doc]
    BY DEF RunsInv, DocsOk
  <1>1. PICK d : Save(r, d) /\ d.status = "RUNNING"
    <2> DEFINE d == [NoDoc EXCEPT !.status = "RUNNING", !.idx = Opening]
    <2>1. Save(r, d)
      BY DEF StartShell, Opening
    <2>2. d.status = "RUNNING"
      BY DEF NoDoc
    <2> HIDE DEF d
    <2> QED BY <2>1, <2>2
  <1>2. /\ doc[r].status = "NONE" /\ doc'[r].status = "RUNNING" /\ UNCHANGED state
        /\ \A q \in Runs : q # r => doc'[q] = doc[q]
    BY <1>0, <1>1 DEF StartShell, Save, jobVars
  <1>3. \A q \in Runs : SameGroups(q)
    BY <1>2, GroupsStay
  <1> QED BY <1>2, <1>3, BeginMoves DEF OthersStill

LEMMA SavesMoveNothing ==
    ASSUME NEW w, Undisturbed(w), RunsInv, Apart(w), NEW r \in on[w],
           StartSaveIds(w, r) \/ StartStash(w, r) \/ RecordGroup(w, r)
    PROVE  UNCHANGED Order!vars
  <1>0. /\ w \in Procs /\ r \in Runs /\ mine[w] \in Doc /\ InHand(w) /\ doc \in [Runs -> Doc]
    BY CopyFacts DEF Undisturbed, Procs, RunsInv, DocsOk
  <1>1. at[w] \in Live /\ UNCHANGED state
    BY DEF StartSaveIds, StartStash, RecordGroup, Live, StartLabel, jobVars
  <1>2. doc[r].status = "RUNNING" /\ mine[w].status = "RUNNING"
    BY <1>0, <1>1 DEF Apart, WorkerApart, InHand
  <1>3. PICK d : Save(r, d) /\ d.status = mine[w].status
    <2>1. CASE StartSaveIds(w, r) \/ RecordGroup(w, r)
      BY <2>1 DEF StartSaveIds, RecordGroup
    <2>2. CASE StartStash(w, r)
      <3> DEFINE d == [mine[w] EXCEPT !.pend = TRUE]
      <3>1. Save(r, d)
        BY <2>2 DEF StartStash
      <3>2. d.status = mine[w].status
        BY <1>0 DEF Doc
      <3> HIDE DEF d
      <3> QED BY <3>1, <3>2
    <2> QED BY <2>1, <2>2
  <1>4. doc'[r].status = doc[r].status
    BY <1>0, <1>2, <1>3 DEF Save
  <1>5. \A q \in Runs : q # r => doc'[q] = doc[q]
    BY <1>0, LiveSaves
  <1>6. \A q \in Runs : SameGroups(q)
    BY <1>1, GroupsStay
  <1> QED BY <1>4, <1>5, <1>6, NothingMoves

LEMMA OrderStep ==
    ASSUME NEW w, Undisturbed(w), RunsInv, Apart(w), Honest(w), [Next]_vars
    PROVE  Order!Next \/ UNCHANGED Order!vars
  <1>0. w \in Procs /\ on[w] \subseteq Runs /\ Honest(w)'
    BY HonestKept DEF Undisturbed, Procs, RunsInv, ProcsOk
  <1>1. ASSUME NEW r \in Runs PROVE HonestRun(w, r) /\ HonestRun(w, r)'
    BY <1>0 DEF Honest
  <1>2. CASE \E j \in Job : JobWorks(j) \/ StopJob(j)
    BY <1>2, AnyJobMoves
  <1>3. ASSUME NEW r \in Runs, MovesOn(w, r) PROVE Order!Next \/ UNCHANGED Order!vars
    <2>1. HonestRun(w, r) /\ HonestRun(w, r)'
      BY <1>1
    <2> QED BY <1>3, <2>1, ShellMoves, SavesMoveNothing, EnqueuesMove, DecidesMove DEF MovesOn
  <1>4. CASE /\ \A r \in Runs : ~MovesOn(w, r)
             /\ ~ \E j \in Job : JobWorks(j) \/ StopJob(j)
    <2>1. UNCHANGED state
      BY <1>0, <1>4, JobsChangedBy DEF MovesOn
    <2>2. \A q \in Runs : SameGroups(q)
      BY <2>1, GroupsStay
    <2>3. \A q \in Runs : doc'[q].status = doc[q].status
      BY <1>4, CoreKept DEF SameCore
    <2> QED BY <2>2, <2>3, NothingMoves
  <1> QED BY <1>2, <1>3, <1>4

\* OrderImplemented: the documents, copies and jobs of start_plan_run and
\* advance_plan_runs implement PlanOrder: a group is enqueued when the ones
\* before it are done, and the outcome fits the jobs and is final.
THEOREM OrderRefined ==
  ASSUME NEW w, Undisturbed(w)
  PROVE  Spec => OrderImplemented
  <1>1. Init => Order!Init
    <2> SUFFICES ASSUME Init PROVE Order!Init
      OBVIOUS
    <2>1. \A j \in Job : state[j] = "NONE"
      BY DEF Init
    <2>2. \A r \in Runs : doc[r].status = "NONE"
      <3>1. NoDoc.status = "NONE"
        BY DEF NoDoc
      <3> QED BY <3>1 DEF Init
    <2>3. ASSUME NEW r \in Runs PROVE Opened(r) = {} /\ Done(r) = {} /\ Bad(r) = {}
      <3>1. ASSUME NEW g \in NonEmpty PROVE g \notin Opened(r) /\ g \notin Done(r) /\ g \notin Bad(r)
        <4>1. GroupJobs(r, g) = {}
          BY <2>1 DEF GroupJobs, Created
        <4> QED BY <4>1, GroupsAre
      <3>2. Opened(r) \subseteq NonEmpty /\ Done(r) \subseteq NonEmpty /\ Bad(r) \subseteq NonEmpty
        BY DEF Opened, Done, Bad
      <3> QED BY <3>1, <3>2
    <2> QED BY <2>2, <2>3 DEF Order!Init, Opened, Done, Bad
  <1>2. RunsInv /\ Apart(w) /\ Honest(w) /\ [Next]_vars => [Order!Next]_(Order!vars)
    BY OrderStep
  <1> QED BY <1>1, <1>2, HonestInvariant, PTL DEF Spec, OrderImplemented, Order!Spec
-----------------------------------------------------------------------------
(* A drill becomes ASSURED on evidence.                                    *)

\* Where the worker is between the outcome of a run and its verdict.
Unjudged == {"report", "teardown", "assure", "verdict"}

\* An operator will write a copy of run r back that is not ASSURED.
Unaware(r) == \E o \in Operators : r \in on[o] /\ mine[o].verdict # "ASSURED"

\* A copy of run r that is ASSURED has been read after its verdict, and where
\* it may restore a verdict that was lost, its teardown has not failed.
AssuredRun(w, r) ==
    /\ doc[r].verdict = "ASSURED" =>
         doc[r].status = "COMPLETED" /\ ~(r \in on[w] /\ at[w] \in Unjudged)
    /\ r \in on[w] /\ mine[w].verdict = "ASSURED" =>
         doc[r].status = "COMPLETED" /\ at[w] \notin Unjudged
    /\ \A o \in Operators :
         r \in on[o] /\ mine[o].verdict = "ASSURED" => doc[r].verdict = "ASSURED"
    /\ r \in on[w] /\ at[w] = "sent" /\ mine[w].verdict # "ASSURED" => doc[r].verdict # "ASSURED"
    /\ doc[r].verdict = "ASSURED" /\ Unaware(r) => doc[r].torn \in {"", "completed"}
    /\ r \in on[w] /\ at[w] = "sent" /\ mine[w].verdict = "ASSURED"
         /\ (doc[r].verdict # "ASSURED" \/ Unaware(r)) => mine[w].torn \in {"", "completed"}
Assured(w) == \A r \in Runs : AssuredRun(w, r)

\* The steps that concern run r; every other one is quiet.
Quiet(r) == doc'[r] = doc[r] /\ \A p \in Procs : r \in on'[p] => Untouched(p)
LiveStep(w, r) ==
    \/ StartEnqueue(w, r) \/ StartSaveIds(w, r) \/ StartStash(w, r)
    \/ EnqueueGroup(w, r) \/ RecordGroup(w, r) \/ NothingLeft(w, r) \/ JudgeGroup(w, r)
FinalStep(w, r) ==
    \/ Report(w, r) \/ AutoTear(w, r) \/ AssureRead(w, r) \/ AssureSave(w, r)
    \/ Notify(w, r) \/ NotifySave(w, r) \/ NoTeardown(w) \/ AutoTearRaises(w)

\* A process that works on one run leaves the others.
LEMMA OneRunAtATime ==
    ASSUME RunsInv, NEW p \in Procs, NEW r \in Runs, r \notin on'[p],
           \A q \in Procs : q # p => Untouched(q), doc'[r] = doc[r]
    PROVE  Quiet(r)
  BY DEF Quiet

LEMMA RunSteps ==
    ASSUME NEW w, Undisturbed(w), "listing" \notin Failing, RunsInv, Apart(w), [Next]_vars,
           NEW r \in Runs
    PROVE  \/ Quiet(r) \/ StartShell(w, r) \/ TakeRun(w, r)
           \/ r \in on[w] /\ (LiveStep(w, r) \/ FinalStep(w, r))
           \/ \E o \in Operators : TeardownRead(o, r) \/ (r \in on[o] /\ Teardown(o, r))
  <1>0. /\ w \in Procs /\ on[w] \subseteq Runs /\ mine[w] \in Doc /\ \A x, y \in on[w] : x = y
        /\ doc \in [Runs -> Doc] /\ on \in [Procs -> SUBSET Runs]
    BY DEF RunsInv, ProcsOk, DocsOk, InHand, Undisturbed, Procs
  <1>1. ASSUME NEW p \in Procs, Ends(p), doc'[r] = doc[r] PROVE Quiet(r)
    <2>1. on'[p] = {} /\ \A q \in Procs : q # p => Untouched(q)
      BY <1>1, EndsFacts
    <2> QED BY <1>1, <2>1, OneRunAtATime
  <1>2. ASSUME NEW s \in on[w], s # r, Ends(w) \/ (\E l, d : Goes(w, l, d)), doc'[r] = doc[r]
        PROVE  Quiet(r)
    <2>1. r \notin on[w]
      BY <1>0, <1>2
    <2>2. ASSUME NEW l, NEW d, Goes(w, l, d) PROVE Quiet(r)
      <3>1. on'[w] = on[w] /\ \A q \in Procs : q # w => Untouched(q)
        BY <1>0, <2>2, GoesFacts
      <3> QED BY <1>0, <1>2, <2>1, <3>1, OneRunAtATime
    <2> QED BY <1>0, <1>1, <1>2, <2>2
  <1>3. ASSUME NEW p \in Procs, NEW s \in Runs, s # r, NEW l, NEW d,
               at' = [at EXCEPT ![p] = l], on' = [on EXCEPT ![p] = {s}],
               mine' = [mine EXCEPT ![p] = d], doc'[r] = doc[r],
               \A q \in Procs : q # p => todo'[q] = todo[q] /\ seen'[q] = seen[q]
        PROVE  Quiet(r)
    <2>1. on'[p] = {s} /\ \A q \in Procs : q # p => Untouched(q)
      BY <1>0, <1>3 DEF RunsInv, ProcsOk, Untouched
    <2> QED BY <1>3, <2>1, OneRunAtATime
  <1>4. ASSUME UNCHANGED doc, UNCHANGED procVars PROVE Quiet(r)
    BY <1>4 DEF Quiet, procVars, Untouched
  <1>5. CASE Waits(w)
    <2>1. UNCHANGED doc
      BY <1>5, WaitsWriteNothing
    <2>2. CASE Tick(w)
      <3>1. on' = on /\ on[w] = {} /\ \A q \in Procs : q # w => Untouched(q)
        BY <1>0, <2>2 DEF Tick, Apart, WorkerApart, RunsInv, ProcsOk, Untouched
      <3> QED BY <1>0, <2>1, <3>1, OneRunAtATime
    <2>3. CASE StillRunning(w)
      BY <1>0, <1>1, <2>1, <2>3 DEF StillRunning
    <2>4. CASE EnqueueRaises(w)
      <3>1. on'[w] = {} /\ \A q \in Procs : q # w => Untouched(q)
        BY <1>0, <2>4 DEF EnqueueRaises, RunsInv, ProcsOk, Untouched
      <3> QED BY <1>0, <2>1, <3>1, OneRunAtATime
    <2>5. ASSUME NEW s \in Runs, TakeRun(w, s), s # r PROVE Quiet(r)
      <3>1. /\ \E l : at' = [at EXCEPT ![w] = l]
            /\ on' = [on EXCEPT ![w] = {s}] /\ mine' = [mine EXCEPT ![w] = doc[s]]
            /\ \A q \in Procs : q # w => todo'[q] = todo[q] /\ seen'[q] = seen[q]
        BY <1>0, <2>5 DEF TakeRun, RunsInv, ProcsOk
      <3> QED BY <1>0, <1>3, <2>1, <2>5, <3>1
    <2> QED BY <1>5, <2>2, <2>3, <2>4, <2>5 DEF Waits
  <1>6. ASSUME NEW s \in on[w],
               \/ Report(w, s) \/ AutoTear(w, s) \/ AssureRead(w, s) \/ AssureSave(w, s)
               \/ Notify(w, s) \/ AlreadyNotified(w, s) \/ NotifySave(w, s)
        PROVE  Quiet(r) \/ (s = r /\ FinalStep(w, r))
    <2>1. Ends(w) \/ (\E l, d : Goes(w, l, d))
      BY <1>6 DEF Report, AutoTear, AssureRead, AssureSave, Notify, AlreadyNotified, NotifySave
    <2>2. UNCHANGED doc \/ \E d : Save(s, d)
      BY <1>0, <1>6, FinalisesCore DEF SavesCore
    <2>3. CASE s = r
      <3>1. AlreadyNotified(w, r) => Quiet(r)
        BY <1>0, <1>1 DEF AlreadyNotified, docVars
      <3> QED BY <1>6, <2>3, <3>1 DEF FinalStep
    <2>4. CASE s # r
      <3>1. doc'[r] = doc[r]
        BY <1>0, <2>2, <2>4 DEF Save
      <3> QED BY <1>2, <2>1, <2>4, <3>1
    <2> QED BY <2>3, <2>4
  <1>7. CASE NoTeardown(w) \/ AutoTearRaises(w)
    <2>1. UNCHANGED doc /\ Goes(w, "assure", mine[w])
      BY <1>7 DEF NoTeardown, AutoTearRaises, docVars
    <2>2. CASE r \in on[w]
      BY <1>7, <2>2 DEF FinalStep
    <2>3. CASE r \notin on[w]
      <3>1. on'[w] = on[w] /\ \A q \in Procs : q # w => Untouched(q)
        BY <1>0, <2>1, GoesFacts
      <3> QED BY <1>0, <2>1, <2>3, <3>1, OneRunAtATime
    <2> QED BY <2>2, <2>3
  <1>8. ASSUME NEW s \in on[w],
               \/ StartEnqueue(w, s) \/ StartSaveIds(w, s) \/ StartStash(w, s)
               \/ EnqueueGroup(w, s) \/ RecordGroup(w, s)
               \/ Drop(w, s) \/ NothingLeft(w, s) \/ JudgeGroup(w, s)
        PROVE  Quiet(r) \/ (s = r /\ LiveStep(w, r))
    <2>1. Ends(w) \/ (\E l, d : Goes(w, l, d))
      BY <1>8 DEF StartEnqueue, StartSaveIds, StartStash, EnqueueGroup, RecordGroup, Drop,
                  NothingLeft, JudgeGroup, EndRun
    <2>2. CASE s = r
      <3>1. Drop(w, r) => Quiet(r)
        BY <1>0, <1>1 DEF Drop
      <3> QED BY <1>8, <2>2, <3>1 DEF LiveStep
    <2>3. CASE s # r
      <3>1. doc'[r] = doc[r]
        BY <1>0, <1>8, <2>3, LiveSaves
      <3> QED BY <1>2, <2>1, <2>3, <3>1
    <2> QED BY <2>2, <2>3
  <1>9. ASSUME NEW s \in Runs, StartShell(w, s), s # r PROVE Quiet(r)
    <2>1. /\ \E d : Save(s, d) /\ mine' = [mine EXCEPT ![w] = d]
          /\ at' = [at EXCEPT ![w] = "first"] /\ on' = [on EXCEPT ![w] = {s}]
          /\ todo' = todo /\ seen' = seen
      BY <1>9 DEF StartShell
    <2>2. doc'[r] = doc[r]
      BY <1>0, <1>9, <2>1 DEF Save
    <2> QED BY <1>0, <1>3, <1>9, <2>1, <2>2
  <1>10. ASSUME NEW o \in Operators, OperatorActs(o)
         PROVE  Quiet(r) \/ TeardownRead(o, r) \/ (r \in on[o] /\ Teardown(o, r))
    <2>0. o \in Procs
      BY DEF Procs
    <2>1. ASSUME NEW s \in Runs, TeardownRead(o, s), s # r PROVE Quiet(r)
      <3>1. /\ at' = [at EXCEPT ![o] = "destroy"] /\ on' = [on EXCEPT ![o] = {s}]
            /\ mine' = [mine EXCEPT ![o] = doc[s]] /\ todo' = todo /\ seen' = seen /\ doc' = doc
        BY <2>1 DEF TeardownRead, docVars
      <3> QED BY <1>3, <2>0, <2>1, <3>1
    <2>2. ASSUME NEW s \in on[o], Teardown(o, s), s # r PROVE Quiet(r)
      <3>1. Ends(o) /\ \E d : Save(s, d)
        BY <2>2 DEF Teardown, TearDown
      <3>2. doc'[r] = doc[r]
        BY <1>0, <2>2, <3>1 DEF Save
      <3> QED BY <1>1, <2>0, <3>1, <3>2
    <2> QED BY <1>10, <2>1, <2>2 DEF OperatorActs
  <1>11. ASSUME NEW j \in Job, JobWorks(j) \/ StopJob(j) PROVE Quiet(r)
    <2>1. UNCHANGED doc /\ UNCHANGED procVars
      BY <1>11 DEF JobWorks, JobStart, JobSubmit, TaskEnds, JobEnds, StopJob, otherVars, docVars
    <2> QED BY <1>4, <2>1
  <1>12. CASE WorkerActs(w)
    <2>1. \A s : ~AutoTearBlind(w, s)
      BY DEF AutoTearBlind, Raises
    <2> QED BY <1>5, <1>6, <1>7, <1>8, <1>9, <1>12, <2>1
          DEF WorkerActs, Finalises, Advances, Decides
  <1>13. CASE UNCHANGED vars
    BY <1>4, <1>13 DEF vars, docVars
  <1> QED BY <1>10, <1>11, <1>12, <1>13, StepsUndisturbed

\* Where neither the document nor a copy is ASSURED, none has to be shown.
LEMMA NoneAssured ==
    ASSUME NEW w, NEW r, doc[r].verdict # "ASSURED",
           r \in on[w] => mine[w].verdict # "ASSURED",
           \A o \in Operators : r \in on[o] => mine[o].verdict # "ASSURED"
    PROVE  AssuredRun(w, r)
  BY DEF AssuredRun

LEMMA QuietAssured ==
    ASSUME NEW w, Undisturbed(w), NEW r, AssuredRun(w, r), Quiet(r)
    PROVE  AssuredRun(w, r)'
  <1>1. w \in Procs /\ Operators \subseteq Procs
    BY DEF Undisturbed, Procs
  <1>2. r \in on'[w] => at'[w] = at[w] /\ r \in on[w] /\ mine'[w] = mine[w]
    BY <1>1 DEF Quiet, Untouched
  <1>3. \A o \in Operators : r \in on'[o] => r \in on[o] /\ mine'[o] = mine[o]
    BY <1>1 DEF Quiet, Untouched
  <1>4. doc'[r] = doc[r]
    BY DEF Quiet
  <1>5. Unaware(r)' => Unaware(r)
    BY <1>3 DEF Unaware
  <1> QED BY <1>2, <1>3, <1>4, <1>5 DEF AssuredRun

\* Nobody has a copy of a run that is RUNNING but the worker.
LEMMA RunningAlone ==
    ASSUME NEW w, Undisturbed(w), RunsInv, Apart(w), NEW r \in Runs, AssuredRun(w, r),
           doc[r].status \notin Terminal
    PROVE  /\ doc[r].verdict # "ASSURED" /\ (r \in on[w] => mine[w].verdict # "ASSURED")
           /\ \A o \in Operators : r \notin on[o]
  BY DEF AssuredRun, Apart, OperatorApart, Terminal

\* The start and the tick of a run save no verdict.
LEMMA LiveAssured ==
    ASSUME NEW w, Undisturbed(w), RunsInv, Apart(w), NEW r \in on[w], AssuredRun(w, r),
           LiveStep(w, r)
    PROVE  AssuredRun(w, r)' /\ doc'[r].verdict # "ASSURED"
  <1>0. /\ w \in Procs /\ r \in Runs /\ mine[w] \in Doc /\ doc \in [Runs -> Doc] /\ w \notin Operators
        /\ Operators \subseteq Procs
    BY PlanAssumption DEF RunsInv, ProcsOk, DocsOk, Undisturbed, Procs
  <1>1. doc[r].status = "RUNNING"
    BY DEF LiveStep, StartEnqueue, StartSaveIds, StartStash, EnqueueGroup, RecordGroup,
           NothingLeft, JudgeGroup, Apart, WorkerApart, Live, StartLabel
  <1>2. /\ doc[r].verdict # "ASSURED" /\ mine[w].verdict # "ASSURED"
        /\ \A o \in Operators : r \notin on[o]
    BY <1>0, <1>1, RunningAlone DEF Terminal
  <1>3. /\ Ends(w) \/ \E l, d : Goes(w, l, d) /\ d.verdict = mine[w].verdict
        /\ UNCHANGED doc \/ \E d : Save(r, d) /\ d.verdict = mine[w].verdict
    <2>1. CASE StartEnqueue(w, r)
      <3> DEFINE d == [mine[w] EXCEPT !.ids[mine[w].idx] = NextJobs(r, mine[w].idx)]
      <3>1. Goes(w, "ids", d) /\ UNCHANGED doc /\ d.verdict = mine[w].verdict
        BY <1>0, <2>1 DEF StartEnqueue, docVars, Doc
      <3> HIDE DEF d
      <3> QED BY <3>1
    <2>2. CASE StartSaveIds(w, r) \/ RecordGroup(w, r)
      BY <2>2 DEF StartSaveIds, RecordGroup
    <2>3. CASE StartStash(w, r)
      <3> DEFINE d == [mine[w] EXCEPT !.pend = TRUE]
      <3>1. Ends(w) /\ Save(r, d) /\ d.verdict = mine[w].verdict
        BY <1>0, <2>3 DEF StartStash, Doc
      <3> HIDE DEF d
      <3> QED BY <3>1
    <2>4. CASE EnqueueGroup(w, r)
      <3> DEFINE d == [mine[w] EXCEPT !.ids[Current(w)] = NextJobs(r, Current(w)), !.idx = Current(w)]
      <3>1. Goes(w, "record", d) /\ UNCHANGED doc /\ d.verdict = mine[w].verdict
        BY <1>0, <2>4 DEF EnqueueGroup, docVars, Doc
      <3> HIDE DEF d
      <3> QED BY <3>1
    <2>5. ASSUME NEW status, NEW idx, EndRun(w, r, status, idx)
          PROVE  \E d : Goes(w, "report", d) /\ Save(r, d) /\ d.verdict = mine[w].verdict
      <3> DEFINE d == [mine[w] EXCEPT !.status = status, !.idx = idx]
      <3>1. Goes(w, "report", d) /\ Save(r, d) /\ d.verdict = mine[w].verdict
        BY <1>0, <2>5 DEF EndRun, Doc
      <3> HIDE DEF d
      <3> QED BY <3>1
    <2>6. ASSUME NEW idx, Ends(w), Save(r, [mine[w] EXCEPT !.idx = idx])
          PROVE  \E d : Save(r, d) /\ d.verdict = mine[w].verdict
      <3> DEFINE d == [mine[w] EXCEPT !.idx = idx]
      <3>1. Save(r, d) /\ d.verdict = mine[w].verdict
        BY <1>0, <2>6 DEF Doc
      <3> HIDE DEF d
      <3> QED BY <3>1
    <2>7. CASE NothingLeft(w, r) \/ JudgeGroup(w, r)
      <3>1. \/ \E status, idx : EndRun(w, r, status, idx)
            \/ \E idx : Ends(w) /\ Save(r, [mine[w] EXCEPT !.idx = idx])
        BY <2>7 DEF NothingLeft, JudgeGroup
      <3> QED BY <2>5, <2>6, <3>1
    <2> QED BY <2>1, <2>2, <2>3, <2>4, <2>7 DEF LiveStep
  <1>4. doc'[r].verdict # "ASSURED"
    BY <1>0, <1>2, <1>3 DEF Save
  <1>5. r \in on'[w] => mine'[w].verdict # "ASSURED"
    BY <1>0, <1>2, <1>3, GoesFacts, EndsFacts
  <1>6. \A o \in Operators : r \notin on'[o]
    BY <1>0, <1>2, <1>3, GoesFacts, EndsFacts DEF Untouched
  <1>7. AssuredRun(w, r)'
    BY <1>4, <1>5, <1>6 DEF AssuredRun
  <1> QED BY <1>4, <1>7

LEMMA StartAssured ==
    ASSUME NEW w, Undisturbed(w), RunsInv, Apart(w), NEW r \in Runs, AssuredRun(w, r),
           StartShell(w, r) \/ TakeRun(w, r)
    PROVE  AssuredRun(w, r)' /\ (doc'[r].verdict = "ASSURED" => doc[r].verdict = "ASSURED")
  <1>0. /\ w \in Procs /\ doc \in [Runs -> Doc] /\ w \notin Operators /\ Operators \subseteq Procs
    BY PlanAssumption DEF RunsInv, DocsOk, Undisturbed, Procs
  <1>1. \A o \in Operators : Untouched(o)
    BY <1>0 DEF StartShell, TakeRun, RunsInv, ProcsOk, Untouched
  <1>2. CASE StartShell(w, r)
    <2> DEFINE d == [NoDoc EXCEPT !.status = "RUNNING", !.idx = Opening]
    <2>1. doc[r].status = "NONE" /\ Save(r, d) /\ mine' = [mine EXCEPT ![w] = d]
      BY <1>2 DEF StartShell, Opening
    <2>2. d.verdict # "ASSURED"
      BY DEF NoDoc
    <2> HIDE DEF d
    <2>3. doc'[r].verdict # "ASSURED" /\ mine'[w].verdict # "ASSURED"
      BY <1>0, <2>1, <2>2 DEF Save, RunsInv, ProcsOk
    <2>4. \A o \in Operators : r \notin on'[o]
      BY <1>1, <2>1, RunningAlone DEF Terminal, Untouched
    <2>5. AssuredRun(w, r)'
      BY <2>3, <2>4 DEF AssuredRun
    <2> QED BY <2>3, <2>5
  <1>3. CASE TakeRun(w, r)
    <2>1. /\ doc' = doc /\ mine'[w] = doc[r] /\ at'[w] \in {"judge", "drop"}
      BY <1>0, <1>3 DEF TakeRun, docVars, RunsInv, ProcsOk
    <2>2. Unaware(r)' => Unaware(r)
      BY <1>1 DEF Unaware, Untouched
    <2>3. \A o \in Operators : on'[o] = on[o] /\ mine'[o] = mine[o]
      BY <1>1 DEF Untouched
    <2>4. AssuredRun(w, r)'
      BY <2>1, <2>2, <2>3 DEF AssuredRun, Unjudged
    <2> QED BY <2>1, <2>4
  <1> QED BY <1>2, <1>3

\* What the verdict of run r is judged on, when the worker saves it.
Evidence(w, r) ==
    mine[w].status = "COMPLETED" /\ mine[w].torn \in {"", "completed"} /\ doc'[r].torn = mine[w].torn

LEMMA FinalAssured ==
    ASSUME NEW w, Undisturbed(w), RunsInv, Apart(w), NEW r \in on[w], AssuredRun(w, r),
           FinalStep(w, r)
    PROVE  /\ AssuredRun(w, r)'
           /\ doc[r].verdict # "ASSURED" /\ doc'[r].verdict = "ASSURED" => Evidence(w, r)
  <1>0. /\ w \in Procs /\ r \in Runs /\ mine[w] \in Doc /\ doc \in [Runs -> Doc] /\ w \notin Operators
        /\ Operators \subseteq Procs
    BY PlanAssumption DEF RunsInv, ProcsOk, DocsOk, Undisturbed, Procs
  <1>1. at[w] \in FinalLabel /\ doc[r].status \in Terminal /\ mine[w].status = doc[r].status
    <2>1. at[w] \in FinalLabel
      BY <1>0, FinalisesCore DEF FinalStep
    <2> QED BY <2>1 DEF Apart, WorkerApart, SameCore
  <1>2. \A o \in Operators : Untouched(o)
    <2>1. Ends(w) \/ \E l, d : Goes(w, l, d)
      BY DEF FinalStep, Report, AutoTear, AssureRead, AssureSave, Notify, NotifySave, NoTeardown,
             AutoTearRaises
    <2> QED BY <1>0, <2>1, GoesFacts, EndsFacts
  <1>3. /\ \A o \in Operators : on'[o] = on[o] /\ mine'[o] = mine[o]
        /\ Unaware(r)' <=> Unaware(r)
    BY <1>2 DEF Untouched, Unaware
  <1>4. ASSUME at[w] \in Unjudged
        PROVE  /\ doc[r].verdict # "ASSURED" /\ mine[w].verdict # "ASSURED"
               /\ \A o \in Operators : r \in on[o] => mine[o].verdict # "ASSURED"
    BY <1>4 DEF AssuredRun
  <1>5. ASSUME at[w] \in Unjudged, doc'[r].verdict # "ASSURED", mine'[w].verdict # "ASSURED"
        PROVE  AssuredRun(w, r)'
    BY <1>3, <1>4, <1>5 DEF AssuredRun
  <1>6. CASE Report(w, r)
    <2> DEFINE d == [mine[w] EXCEPT !.report = TRUE]
    <2>1. /\ at[w] \in Unjudged
          /\ \/ Goes(w, "teardown", mine[w]) /\ doc' = doc
             \/ Goes(w, "teardown", d) /\ Save(r, d)
      BY <1>6 DEF Report, Unjudged, docVars
    <2>2. d.verdict = mine[w].verdict
      BY <1>0 DEF Doc
    <2> HIDE DEF d
    <2>3. doc'[r].verdict # "ASSURED" /\ mine'[w].verdict # "ASSURED"
      BY <1>0, <1>4, <2>1, <2>2, GoesFacts DEF Save
    <2> QED BY <1>5, <2>1, <2>3
  <1>7. CASE AutoTear(w, r) \/ NoTeardown(w) \/ AutoTearRaises(w)
    <2>1. at[w] \in Unjudged /\ Goes(w, "assure", mine[w])
      BY <1>7 DEF AutoTear, NoTeardown, AutoTearRaises, Unjudged
    <2>2. doc' = doc \/ \E t : Save(r, [mine[w] EXCEPT !.torn = t])
      BY <1>7 DEF AutoTear, NoTeardown, AutoTearRaises, TearDown, docVars
    <2>3. ASSUME NEW t, Save(r, [mine[w] EXCEPT !.torn = t]) PROVE doc'[r].verdict = mine[w].verdict
      <3> DEFINE d == [mine[w] EXCEPT !.torn = t]
      <3>1. d.verdict = mine[w].verdict
        BY <1>0 DEF Doc
      <3>2. doc'[r] = d
        BY <1>0, <2>3 DEF Save
      <3> HIDE DEF d
      <3> QED BY <3>1, <3>2
    <2>4. mine[w].verdict # "ASSURED" /\ doc[r].verdict # "ASSURED"
      BY <1>4, <2>1
    <2>5. doc'[r].verdict # "ASSURED"
      BY <2>2, <2>3, <2>4
    <2>6. mine'[w].verdict # "ASSURED"
      BY <1>0, <2>1, <2>4, GoesFacts
    <2> QED BY <1>5, <2>1, <2>4, <2>5, <2>6
  <1>8. CASE AssureRead(w, r)
    <2>1. at[w] \in Unjudged /\ doc' = doc /\ \E l : Goes(w, l, doc[r])
      BY <1>8 DEF AssureRead, Unjudged, docVars
    <2>2. doc'[r].verdict # "ASSURED" /\ mine'[w].verdict # "ASSURED"
      BY <1>0, <1>4, <2>1, GoesFacts
    <2> QED BY <1>5, <2>1, <2>2
  <1>9. CASE AssureSave(w, r)
    <2> DEFINE d == [mine[w] EXCEPT !.evaluated = TRUE, !.verdict = Verdict(mine[w])]
    <2>1. at[w] \in Unjudged /\ Save(r, d) /\ Goes(w, "notify", mine[w])
      BY <1>9 DEF AssureSave, Unjudged
    <2>2. d.verdict = Verdict(mine[w]) /\ d.status = mine[w].status /\ d.torn = mine[w].torn
      BY <1>0 DEF Doc
    <2>3. doc'[r] = d
      BY <1>0, <2>1 DEF Save
    <2> HIDE DEF d
    <2>4. at'[w] = "notify" /\ mine'[w].verdict # "ASSURED"
      BY <1>0, <1>4, <2>1, GoesFacts
    <2>5. CASE doc'[r].verdict # "ASSURED"
      BY <1>5, <2>1, <2>4, <2>5
    <2>6. CASE doc'[r].verdict = "ASSURED"
      <3>1. mine[w].status = "COMPLETED" /\ mine[w].torn \in {"", "completed"}
        BY <2>2, <2>3, <2>6 DEF Verdict
      <3>2. Evidence(w, r) /\ doc'[r].status = "COMPLETED"
        BY <2>2, <2>3, <3>1 DEF Evidence
      <3>3. AssuredRun(w, r)'
        BY <1>3, <1>4, <2>1, <2>4, <2>6, <3>2 DEF AssuredRun, Unjudged, Evidence
      <3> QED BY <3>2, <3>3
    <2> QED BY <2>5, <2>6
  <1>10. CASE Notify(w, r)
    <2>1. doc' = doc /\ Goes(w, "sent", doc[r])
      BY <1>10 DEF Notify, docVars
    <2>2. at'[w] = "sent" /\ mine'[w] = doc[r]
      BY <1>0, <2>1, GoesFacts
    <2>3. AssuredRun(w, r)'
      BY <1>3, <2>1, <2>2 DEF AssuredRun, Unjudged
    <2> QED BY <2>1, <2>3
  <1>11. CASE NotifySave(w, r)
    <2> DEFINE d == [mine[w] EXCEPT !.notified = TRUE]
    <2>1. at[w] = "sent" /\ Save(r, d) /\ Ends(w)
      BY <1>11 DEF NotifySave
    <2>2. d.verdict = mine[w].verdict /\ d.status = mine[w].status /\ d.torn = mine[w].torn
      BY <1>0 DEF Doc
    <2>3. doc'[r] = d
      BY <1>0, <2>1 DEF Save
    <2> HIDE DEF d
    <2>4. on'[w] = {}
      BY <1>0, <2>1, EndsFacts
    <2>5. mine[w].verdict = "ASSURED" => doc[r].status = "COMPLETED"
      BY DEF AssuredRun
    <2>6. \A o \in Operators :
            r \in on[o] /\ mine[o].verdict = "ASSURED" => mine[w].verdict = "ASSURED"
      BY <2>1 DEF AssuredRun
    <2>7. mine[w].verdict = "ASSURED" /\ (doc[r].verdict # "ASSURED" \/ Unaware(r)) =>
            mine[w].torn \in {"", "completed"}
      BY <2>1 DEF AssuredRun
    <2>8. AssuredRun(w, r)'
      BY <1>1, <1>3, <2>2, <2>3, <2>4, <2>5, <2>6, <2>7 DEF AssuredRun
    <2>9. doc[r].verdict # "ASSURED" /\ doc'[r].verdict = "ASSURED" => Evidence(w, r)
      BY <1>1, <2>2, <2>3, <2>5, <2>7 DEF Evidence
    <2> QED BY <2>8, <2>9
  <1> QED BY <1>6, <1>7, <1>8, <1>9, <1>10, <1>11 DEF FinalStep

\* A teardown request may lose a verdict, it never brings one.
LEMMA OperatorAssured ==
    ASSUME NEW w, Undisturbed(w), \A o1, o2 \in Operators : o1 = o2, RunsInv, Apart(w), NEW r \in Runs,
           AssuredRun(w, r), NEW o \in Operators,
           TeardownRead(o, r) \/ (r \in on[o] /\ Teardown(o, r))
    PROVE  AssuredRun(w, r)' /\ (doc'[r].verdict = "ASSURED" => doc[r].verdict = "ASSURED")
  <1>0. /\ w \in Procs /\ o \in Procs /\ w # o /\ mine[o] \in Doc /\ doc \in [Runs -> Doc]
        /\ \A x \in Operators : x = o
    BY PlanAssumption DEF RunsInv, ProcsOk, DocsOk, Undisturbed, Procs
  <1>1. CASE TeardownRead(o, r)
    <2>1. doc' = doc /\ mine'[o] = doc[r] /\ Untouched(w) /\ at[o] = "idle"
      BY <1>0, <1>1 DEF TeardownRead, docVars, RunsInv, ProcsOk, Untouched
    <2>2. Unaware(r)' => doc[r].verdict # "ASSURED"
      BY <1>0, <2>1 DEF Unaware
    <2>3. \A x \in Operators : mine'[x] = doc[r]
      BY <1>0, <2>1
    <2>4. AssuredRun(w, r)'
      BY <2>1, <2>2, <2>3 DEF AssuredRun, Untouched
    <2> QED BY <2>1, <2>4
  <1>2. CASE r \in on[o] /\ Teardown(o, r)
    <2>1. PICK t : Save(r, [mine[o] EXCEPT !.torn = t])
      BY <1>2 DEF Teardown, TearDown
    <2> DEFINE d == [mine[o] EXCEPT !.torn = t]
    <2>2. d.verdict = mine[o].verdict /\ d.status = mine[o].status
      BY <1>0 DEF Doc
    <2>3. doc'[r] = d
      BY <1>0, <2>1 DEF Save
    <2> HIDE DEF d
    <2>4. mine[o].status = doc[r].status
      BY <1>2 DEF Apart, OperatorApart, SameCore
    <2>5. on'[o] = {} /\ Untouched(w)
      BY <1>0, <1>2, EndsFacts DEF Teardown
    <2>6. \A x \in Operators : r \notin on'[x]
      BY <1>0, <2>5
    <2>7. doc'[r].verdict = "ASSURED" => doc[r].verdict = "ASSURED"
      BY <1>2, <2>2, <2>3 DEF AssuredRun
    <2>8. doc'[r].verdict # "ASSURED" => Unaware(r)
      BY <1>2, <2>2, <2>3 DEF Unaware
    <2>9. AssuredRun(w, r)'
      BY <2>2, <2>3, <2>4, <2>5, <2>6, <2>7, <2>8 DEF AssuredRun, Unaware, Untouched
    <2> QED BY <2>7, <2>9
  <1> QED BY <1>1, <1>2

LEMMA AssuredStep ==
    ASSUME NEW w, Undisturbed(w), "listing" \notin Failing, \A o1, o2 \in Operators : o1 = o2,
           RunsInv, Apart(w), [Next]_vars, NEW r \in Runs, AssuredRun(w, r)
    PROVE  /\ AssuredRun(w, r)'
           /\ doc[r].verdict # "ASSURED" /\ doc'[r].verdict = "ASSURED" => r \in on[w] /\ Evidence(w, r)
                                                                        /\ at[w] \in FinalLabel
  <1>1. CASE Quiet(r)
    BY <1>1, QuietAssured DEF Quiet
  <1>2. CASE StartShell(w, r) \/ TakeRun(w, r)
    BY <1>2, StartAssured
  <1>3. CASE r \in on[w] /\ LiveStep(w, r)
    BY <1>3, LiveAssured
  <1>4. CASE r \in on[w] /\ FinalStep(w, r)
    <2>1. w \in Procs /\ mine[w] \in Doc
      BY DEF RunsInv, ProcsOk, Undisturbed, Procs
    <2>2. at[w] \in FinalLabel
      BY <1>4, <2>1, FinalisesCore DEF FinalStep
    <2> QED BY <1>4, <2>2, FinalAssured
  <1>5. ASSUME NEW o \in Operators, TeardownRead(o, r) \/ (r \in on[o] /\ Teardown(o, r))
        PROVE  AssuredRun(w, r)' /\ (doc'[r].verdict = "ASSURED" => doc[r].verdict = "ASSURED")
    BY <1>5, OperatorAssured
  <1> QED BY <1>1, <1>2, <1>3, <1>4, <1>5, RunSteps

\* AssuredIsProven: _finalize_plan_run_report makes a drill ASSURED only when
\* its jobs were all restored (or stopped one by one) and, where its guests
\* have been torn down, none is left.  One operator at a time: of two, one may
\* lose the verdict and the other bring it back beside a newer teardown.
THEOREM AssuredProven ==
  ASSUME NEW w, Undisturbed(w), "listing" \notin Failing, \A o1, o2 \in Operators : o1 = o2
  PROVE  Spec => AssuredIsProven
  <1> DEFINE Inv == RunsInv /\ Apart(w) /\ Honest(w) /\ TornIsBare /\ Assured(w)
             Proven == \A r \in Runs : doc[r].verdict # "ASSURED" /\ doc'[r].verdict = "ASSURED" =>
                         /\ Halt => \A j \in Created(r) : state[j] \in {"COMPLETED", "CANCELLED"}
                         /\ doc'[r].torn # "" => \A j \in Created(r) : guest[j] # "there"
  <1>1. Init => Assured(w)
    <2> SUFFICES ASSUME Init, NEW r \in Runs PROVE AssuredRun(w, r)
      BY DEF Assured
    <2>1. NoDoc.verdict # "ASSURED"
      BY DEF NoDoc
    <2>2. doc[r] = NoDoc /\ \A p \in Procs : on[p] = {}
      BY DEF Init
    <2>3. w \in Procs /\ Operators \subseteq Procs
      BY DEF Undisturbed, Procs
    <2> QED BY <2>1, <2>2, <2>3, NoneAssured
  <1>2. RunsInv /\ Apart(w) /\ Assured(w) /\ [Next]_vars => Assured(w)'
    BY AssuredStep DEF Assured
  <1>3. Inv /\ [Next]_vars => [Proven]_vars
    <2> SUFFICES ASSUME Inv, [Next]_vars, NEW r \in Runs,
                        doc[r].verdict # "ASSURED", doc'[r].verdict = "ASSURED"
                 PROVE  /\ Halt => \A j \in Created(r) : state[j] \in {"COMPLETED", "CANCELLED"}
                        /\ doc'[r].torn # "" => \A j \in Created(r) : guest[j] # "there"
      OBVIOUS
    <2>1. r \in on[w] /\ Evidence(w, r) /\ at[w] \in FinalLabel
      BY AssuredStep DEF Assured
    <2>2. doc[r].status = "COMPLETED"
      BY <2>1 DEF Evidence, Apart, WorkerApart, SameCore
    <2>3. HonestRun(w, r)
      BY DEF Honest
    <2>4. Halt => \A j \in Created(r) : state[j] \in {"COMPLETED", "CANCELLED"}
      BY <2>2, <2>3 DEF HonestRun, RunHasEnded, Terminal
    <2>5. ASSUME doc'[r].torn # "" PROVE \A j \in Created(r) : guest[j] # "there"
      <3>1. mine[w].torn = "completed" /\ w \in Procs
        BY <2>1, <2>5 DEF Evidence, Undisturbed, Procs
      <3>2. Bare(r)
        BY <2>1, <3>1 DEF TornIsBare
      <3> QED BY <3>2 DEF Bare
    <2> QED BY <2>4, <2>5
  <1>4. AssuredIsProven <=> [][Proven]_vars
    BY DEF AssuredIsProven
  <1> HIDE DEF Proven
  <1> QED BY <1>1, <1>2, <1>3, <1>4, BareInvariant, PTL DEF Spec
================================================================================
