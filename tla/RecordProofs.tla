----------------------------- MODULE RecordProofs -----------------------------
(***************************************************************************)
(* Proofs about PlanRecord, for every number of operators, days, runs and  *)
(* kills: its types, and that a VERIFIED plan passed its last check with   *)
(* the groups and the location it has.                                     *)
(*                                                                         *)
(* VerifiedIsChecked speaks of the stored document only, and is not        *)
(* inductive: any old copy may be stored again.  IInv says the same of     *)
(* every copy a process holds.  No copy is ever half a document, which is  *)
(* why writing whole ones keeps a verdict and its membership together.     *)
(***************************************************************************)
EXTENDS PlanRecord, FiniteSetTheorems, TLAPS

Sound == {d \in Document : d.verification = "VERIFIED" => d.passed = {d.members}}

Docs ==
    /\ stored = {} \/ \E d \in Sound : stored = {d}
    /\ mine \in [Procs -> SUBSET Sound]

Rests ==
    /\ at \in [Procs -> Place]
    /\ day \in 0 .. MaxDays
    /\ begun \in 0 .. MaxRuns /\ active \subseteq 1 .. begun
    /\ mineRun \in [Procs -> {0} \cup Runs]
    /\ stale \subseteq Procs
    /\ noted \in Days
    /\ calls \in 0 .. MaxCalls /\ mishaps \in 0 .. MaxMishaps

IInv == Docs /\ Rests
-----------------------------------------------------------------------------
(* The documents the code writes.                                          *)

\* update_plan takes the verification away with the membership.
LEMMA EditedSound ==
    ASSUME NEW d \in Sound, NEW e \in Edited(d)
    PROVE  e \in Sound
  <1>1. CASE \E m \in Memberships :
               e = [d EXCEPT !.members = m,
                             !.verification = IF m = d.members THEN @ ELSE "NEEDS_VERIFIED"]
    <2>1. PICK m \in Memberships :
               e = [d EXCEPT !.members = m,
                             !.verification = IF m = d.members THEN @ ELSE "NEEDS_VERIFIED"]
      BY <1>1
    <2>2. CASE m = d.members
      BY <2>1, <2>2 DEF Sound, Document
    <2>3. CASE m # d.members
      BY <2>1, <2>3 DEF Sound, Document, Verification
    <2> QED BY <2>2, <2>3
  <1>2. CASE \E mode \in Mode : e = [d EXCEPT !.mode = mode]
    BY <1>2 DEF Sound, Document
  <1> QED BY <1>1, <1>2 DEF Edited

\* apply_check_result writes the verdict and the membership it is about.
LEMMA CheckedSound ==
    ASSUME NEW d \in Sound, NEW ok \in BOOLEAN
    PROVE  Checked(d, ok) \in Sound
  <1>1. CASE ok
    BY <1>1 DEF Checked, Sound, Document, Verification
  <1>2. CASE ~ok
    BY <1>2 DEF Checked, Sound, Document, Verification
  <1> QED BY <1>1, <1>2

\* start_plan_run
LEMMA StartedSound ==
    ASSUME NEW d \in Sound
    PROVE  Started(d) \in Sound
  <1>1. CASE d.verification = "VERIFIED"
    BY <1>1 DEF Started, Sound, Document, Verification
  <1>2. CASE d.verification # "VERIFIED"
    BY <1>2 DEF Started, Sound, Document, Verification
  <1> QED BY <1>1, <1>2

\* Times and runs are written beside the verdict.
LEMMA StampedSound ==
    ASSUME NEW d \in Sound, NEW t \in Days, NEW r \in {0} \cup Runs
    PROVE  /\ [d EXCEPT !.checkedAt = t] \in Sound
           /\ [d EXCEPT !.scheduledAt = t] \in Sound
           /\ [d EXCEPT !.reported = r] \in Sound
           /\ [d EXCEPT !.judged = r] \in Sound
  BY DEF Sound, Document
-----------------------------------------------------------------------------
(* Reading and writing them.                                               *)

LEMMA SaveKeeps ==
    ASSUME Docs, Rests, NEW p \in Procs, NEW d \in Sound, NEW keeps \in SUBSET Sound,
           Save(p, d, keeps)
    PROVE  Docs' /\ stale' \subseteq Procs /\ noted' \in Days
  BY RecordAssumption DEF Docs, Rests, Save, Days, Never

LEMMA TakeKeeps ==
    ASSUME Docs, Rests, NEW p \in Procs, Take(p), UNCHANGED stored
    PROVE  Docs' /\ stale' \subseteq Procs
  BY DEF Docs, Rests, Take

LEMMA DropKeeps ==
    ASSUME Docs, Rests, NEW p \in Procs, Drop(p), UNCHANGED stored
    PROVE  Docs' /\ stale' \subseteq Procs
  BY DEF Docs, Rests, Drop

LEMMA DayIsDay ==
    ASSUME Rests PROVE day \in Days
  BY RecordAssumption DEF Rests, Days, Never

LEMMA BeginCheckKeeps ==
    ASSUME Docs, Rests, NEW p \in Procs, BeginCheck(p), UNCHANGED stored
    PROVE  Docs' /\ stale' \subseteq Procs /\ at' \in [Procs -> Place]
  <1>1. \A d \in stored : [d EXCEPT !.checkedAt = day] \in Sound
    BY DayIsDay, StampedSound DEF Docs
  <1>2. {[d EXCEPT !.checkedAt = day] : d \in stored} \in SUBSET Sound
    BY <1>1
  <1> QED BY <1>2 DEF BeginCheck, Docs, Rests, Goes, Place

LEMMA GoesKeeps ==
    ASSUME Rests, NEW p \in Procs, NEW place \in Place, Goes(p, place)
    PROVE  at' \in [Procs -> Place]
  BY DEF Rests, Goes

LEMMA PlacesOfProcs ==
    ASSUME NEW p \in Procs
    PROVE  Rest(p) \in Place /\ AfterCheck(p) \in Place
  BY DEF Rest, AfterCheck, Place

LEMMA BeginRunKeeps ==
    ASSUME Rests, BeginRun
    PROVE  begun' \in 0 .. MaxRuns /\ active' \subseteq 1 .. begun'
  BY RecordAssumption DEF Rests, BeginRun
-----------------------------------------------------------------------------
(* Steps.                                                                  *)

\* A step that leaves the documents alone.
LEMMA DocsUnchanged ==
    ASSUME Docs, UNCHANGED <<stored, mine>> PROVE Docs'
  BY DEF Docs

\* A process saves the document it holds.
LEMMA Operator ==
    ASSUME NEW o \in Operators PROVE o \in Procs
  BY DEF Procs

\* What every process does keeps IInv.
LEMMA WorksKeeps ==
    ASSUME IInv, NEW p \in Procs, Works(p)
    PROVE  IInv'
  <1> USE DEF IInv
  <1> mine[p] \subseteq Sound
    BY DEF Docs
  <1>1. ASSUME NEW ok \in BOOLEAN, CheckSave(p, ok) PROVE IInv'
    <2>1. PICK d \in mine[p] : Save(p, Checked(d, ok), {Checked(d, ok)})
      BY <1>1 DEF CheckSave
    <2>2. Docs' /\ stale' \subseteq Procs /\ noted' \in Days
      BY <2>1, CheckedSound, SaveKeeps
    <2>3. at' \in [Procs -> Place]
      BY <1>1, GoesKeeps DEF CheckSave, Place
    <2> QED BY <1>1, <2>2, <2>3 DEF CheckSave, Rests, runVars, Bounds
  <1>2. CASE AttachReport(p)
    <2>1. PICK d \in mine[p] : Save(p, d, {})
      BY <1>2 DEF AttachReport
    <2>2. Docs' /\ stale' \subseteq Procs /\ noted' \in Days
      BY <2>1, SaveKeeps
    <2>3. at' \in [Procs -> Place]
      BY <1>2, GoesKeeps, PlacesOfProcs DEF AttachReport
    <2> QED BY <1>2, <2>2, <2>3 DEF AttachReport, Rests, runVars, Bounds
  <1>3. CASE CheckGivesUp(p)
    <2>1. Docs' /\ stale' \subseteq Procs
      BY <1>3, DropKeeps DEF CheckGivesUp
    <2>2. at' \in [Procs -> Place]
      BY <1>3, GoesKeeps, PlacesOfProcs DEF CheckGivesUp
    <2> QED BY <1>3, <2>1, <2>2 DEF CheckGivesUp, Rests, runVars, Bounds
  <1>4. CASE StartRun(p)
    <2>1. at' \in [Procs -> Place]
      BY <1>4, GoesKeeps DEF StartRun, Place
    <2>2. begun' \in 0 .. MaxRuns /\ active' \subseteq 1 .. begun'
      BY <1>4, BeginRunKeeps DEF StartRun
    <2> QED BY <1>4, <2>1, <2>2, DocsUnchanged DEF StartRun, Rests, Bounds
  <1>5. CASE StartRefused(p)
    <2>1. Docs' /\ stale' \subseteq Procs
      BY <1>5, DropKeeps DEF StartRefused
    <2>2. at' \in [Procs -> Place]
      BY <1>5, GoesKeeps, PlacesOfProcs DEF StartRefused
    <2> QED BY <1>5, <2>1, <2>2 DEF StartRefused, Rests, runVars, Bounds
  <1>6. CASE StartFails(p)
    <2>1. Docs' /\ stale' \subseteq Procs
      BY <1>6, DropKeeps DEF StartFails
    <2>2. at' \in [Procs -> Place]
      BY <1>6, GoesKeeps, PlacesOfProcs DEF StartFails
    <2>3. begun' \in 0 .. MaxRuns /\ active' \subseteq 1 .. begun'
      BY <1>6, BeginRunKeeps DEF StartFails
    <2>4. mishaps' \in 0 .. MaxMishaps
      BY <1>6, RecordAssumption DEF StartFails, Mishap, Rests
    <2> QED BY <1>6, <2>1, <2>2, <2>3, <2>4 DEF StartFails, Rests
  <1>7. CASE StartSave(p)
    <2>1. PICK d \in mine[p] : Save(p, Started(d), IF p = Worker THEN {d} ELSE {})
      BY <1>7 DEF StartSave
    <2>2. (IF p = Worker THEN {d} ELSE {}) \in SUBSET Sound
      OBVIOUS
    <2>3. Docs' /\ stale' \subseteq Procs /\ noted' \in Days
      BY <2>1, <2>2, StartedSound, SaveKeeps
    <2>4. at' \in [Procs -> Place]
      BY <1>7, GoesKeeps DEF StartSave, Place
    <2> QED BY <1>7, <2>3, <2>4 DEF StartSave, Rests, runVars, Bounds
  <1>8. ASSUME NEW r \in Runs, RunEnds(p, r) PROVE IInv'
    <2>1. Docs' /\ stale' \subseteq Procs
      BY <1>8, TakeKeeps DEF RunEnds
    <2>2. at' \in [Procs -> Place]
      BY <1>8, GoesKeeps DEF RunEnds, Place
    <2>3. calls' \in 0 .. MaxCalls
      BY <1>8, RecordAssumption DEF RunEnds, Rests
    <2>4. active' \subseteq 1 .. begun' /\ mineRun' \in [Procs -> {0} \cup Runs]
      BY <1>8 DEF RunEnds, Rests
    <2> QED BY <1>8, <2>1, <2>2, <2>3, <2>4 DEF RunEnds, Rests
  <1>9. CASE ReportSave(p)
    <2>1. PICK d \in mine[p] : Save(p, [d EXCEPT !.reported = mineRun[p]], {})
      BY <1>9 DEF ReportSave
    <2>2. [d EXCEPT !.reported = mineRun[p]] \in Sound
      <3>1. mineRun[p] \in {0} \cup Runs /\ day \in Days
        BY DayIsDay DEF Rests
      <3> QED BY <3>1, StampedSound
    <2>3. Docs' /\ stale' \subseteq Procs /\ noted' \in Days
      BY <2>1, <2>2, SaveKeeps
    <2>4. at' \in [Procs -> Place]
      BY <1>9, GoesKeeps DEF ReportSave, Place
    <2> QED BY <1>9, <2>3, <2>4 DEF ReportSave, Rests, runVars, Bounds
  <1>10. CASE ReportGivenUp(p)
    <2>1. Docs' /\ stale' \subseteq Procs
      BY <1>10, DropKeeps DEF ReportGivenUp
    <2>2. at' \in [Procs -> Place]
      BY <1>10, GoesKeeps DEF ReportGivenUp, Place
    <2> QED BY <1>10, <2>1, <2>2 DEF ReportGivenUp, Rests, runVars, Bounds
  <1>11. CASE JudgeRead(p)
    <2>1. Docs' /\ stale' \subseteq Procs
      BY <1>11, TakeKeeps DEF JudgeRead
    <2>2. at' \in [Procs -> Place]
      BY <1>11, GoesKeeps DEF JudgeRead, Place
    <2> QED BY <1>11, <2>1, <2>2 DEF JudgeRead, Rests, runVars, Bounds
  <1>12. CASE JudgeSave(p)
    <2>1. PICK d \in mine[p] : Save(p, [d EXCEPT !.judged = mineRun[p]], {})
      BY <1>12 DEF JudgeSave
    <2>2. [d EXCEPT !.judged = mineRun[p]] \in Sound
      <3>1. mineRun[p] \in {0} \cup Runs /\ day \in Days
        BY DayIsDay DEF Rests
      <3> QED BY <3>1, StampedSound
    <2>3. Docs' /\ stale' \subseteq Procs /\ noted' \in Days
      BY <2>1, <2>2, SaveKeeps
    <2>4. at' \in [Procs -> Place] /\ mineRun' \in [Procs -> {0} \cup Runs]
      BY <1>12, GoesKeeps, PlacesOfProcs DEF JudgeSave, Rests
    <2> QED BY <1>12, <2>3, <2>4 DEF JudgeSave, Rests, runVars, Bounds
  <1>13. CASE NotJudged(p)
    <2>1. Docs' /\ stale' \subseteq Procs
      BY <1>13, DropKeeps DEF NotJudged
    <2>2. at' \in [Procs -> Place] /\ mineRun' \in [Procs -> {0} \cup Runs]
      BY <1>13, GoesKeeps, PlacesOfProcs DEF NotJudged, Rests
    <2> QED BY <1>13, <2>1, <2>2 DEF NotJudged, Rests, runVars, Bounds
  <1> QED BY <1>1, <1>2, <1>3, <1>4, <1>5, <1>6, <1>7, <1>8, <1>9, <1>10, <1>11, <1>12, <1>13
          DEF Works

\* What only operators do.
LEMMA OperatorKeeps ==
    ASSUME IInv, NEW o \in Operators,
           EditRead(o) \/ EditSave(o) \/ Delete(o) \/ CheckRead(o) \/ RunRead(o)
    PROVE  IInv'
  <1> USE Operator DEF IInv
  <1>1. CASE EditRead(o)
    <2>1. Docs' /\ stale' \subseteq Procs
      BY <1>1, TakeKeeps DEF EditRead
    <2>2. at' \in [Procs -> Place]
      BY <1>1, GoesKeeps DEF EditRead, Place
    <2>3. calls' \in 0 .. MaxCalls
      BY <1>1, RecordAssumption DEF EditRead, Call, Rests
    <2> QED BY <1>1, <2>1, <2>2, <2>3 DEF EditRead, Rests, runVars
  <1>2. CASE EditSave(o)
    <2>1. PICK d \in mine[o] : \E e \in Edited(d) : Save(o, e, {})
      BY <1>2 DEF EditSave
    <2>2. PICK e \in Edited(d) : Save(o, e, {})
      BY <2>1
    <2>3. d \in Sound
      BY DEF Docs
    <2>4. Docs' /\ stale' \subseteq Procs /\ noted' \in Days
      BY <2>2, <2>3, EditedSound, SaveKeeps
    <2>5. at' \in [Procs -> Place]
      BY <1>2, GoesKeeps DEF EditSave, Place
    <2> QED BY <1>2, <2>4, <2>5 DEF EditSave, Rests, runVars, Bounds
  <1>3. CASE Delete(o)
    <2>1. Docs' /\ stale' \subseteq Procs
      BY <1>3 DEF Delete, Docs
    <2>2. calls' \in 0 .. MaxCalls
      BY <1>3, RecordAssumption DEF Delete, Call, Rests
    <2> QED BY <1>3, <2>1, <2>2 DEF Delete, Rests, runVars
  <1>4. CASE CheckRead(o)
    <2>1. Docs' /\ stale' \subseteq Procs /\ at' \in [Procs -> Place]
      BY <1>4, BeginCheckKeeps DEF CheckRead
    <2>2. calls' \in 0 .. MaxCalls
      BY <1>4, RecordAssumption DEF CheckRead, Call, Rests
    <2> QED BY <1>4, <2>1, <2>2 DEF CheckRead, Rests, runVars
  <1>5. CASE RunRead(o)
    <2>1. Docs' /\ stale' \subseteq Procs
      BY <1>5, TakeKeeps DEF RunRead
    <2>2. at' \in [Procs -> Place]
      BY <1>5, GoesKeeps DEF RunRead, Place
    <2>3. calls' \in 0 .. MaxCalls
      BY <1>5, RecordAssumption DEF RunRead, Call, Rests
    <2> QED BY <1>5, <2>1, <2>2, <2>3 DEF RunRead, Rests, runVars
  <1> QED BY <1>1, <1>2, <1>3, <1>4, <1>5

\* The ticks of the worker.
LEMMA TicksKeep ==
    ASSUME IInv, ReadyTick \/ SchedTick \/ SchedLooks \/ SchedSave
    PROVE  IInv'
  <1> USE DEF IInv
  <1>0. Worker \in Procs
    BY DEF Procs
  <1>1. CASE ReadyTick
    <2>1. Docs' /\ stale' \subseteq Procs /\ at' \in [Procs -> Place]
      <3>1. CASE BeginCheck(Worker)
        BY <1>0, <1>1, <3>1, BeginCheckKeeps DEF ReadyTick
      <3>2. CASE Goes(Worker, "sched") /\ UNCHANGED <<mine, stale>>
        BY <1>0, <1>1, <3>2, GoesKeeps, DocsUnchanged DEF ReadyTick, Rests, Place
      <3> QED BY <1>1, <3>1, <3>2 DEF ReadyTick
    <2> QED BY <1>1, <2>1 DEF ReadyTick, Rests, runVars, Bounds
  <1>2. CASE SchedTick
    <2>1. Docs' /\ stale' \subseteq Procs /\ at' \in [Procs -> Place]
      <3>1. CASE Take(Worker) /\ Goes(Worker, "due")
        BY <1>0, <1>2, <3>1, TakeKeeps, GoesKeeps DEF SchedTick, Place
      <3>2. CASE Goes(Worker, "advance") /\ UNCHANGED <<mine, stale>>
        BY <1>0, <1>2, <3>2, GoesKeeps, DocsUnchanged DEF SchedTick, Rests, Place
      <3> QED BY <1>2, <3>1, <3>2 DEF SchedTick
    <2> QED BY <1>2, <2>1 DEF SchedTick, Rests, runVars, Bounds
  <1>3. CASE SchedLooks
    <2>1. Docs' /\ stale' \subseteq Procs /\ at' \in [Procs -> Place]
      <3>1. CASE Goes(Worker, "run") /\ UNCHANGED <<mine, stale>>
        BY <1>0, <1>3, <3>1, GoesKeeps, DocsUnchanged DEF SchedLooks, Rests, Place
      <3>2. CASE Goes(Worker, "advance") /\ Drop(Worker)
        BY <1>0, <1>3, <3>2, DropKeeps, GoesKeeps DEF SchedLooks, Place
      <3> QED BY <1>3, <3>1, <3>2 DEF SchedLooks
    <2> QED BY <1>3, <2>1 DEF SchedLooks, Rests, runVars, Bounds
  <1>4. CASE SchedSave
    <2>1. PICK d \in mine[Worker] :
              /\ stored' = {[d EXCEPT !.scheduledAt = day]}
              /\ mine' = [mine EXCEPT ![Worker] = {}]
              /\ stale' = {q \in Procs : mine'[q] # {}}
      BY <1>4 DEF SchedSave
    <2>2. d \in Sound
      BY <1>0 DEF Docs
    <2>3. [d EXCEPT !.scheduledAt = day] \in Sound
      BY <2>2, DayIsDay, StampedSound
    <2>4. Docs' /\ stale' \subseteq Procs
      BY <1>0, <2>1, <2>3 DEF Docs
    <2>5. at' \in [Procs -> Place] /\ noted' \in Days
      BY <1>0, <1>4, GoesKeeps, DayIsDay DEF SchedSave, Place
    <2> QED BY <1>4, <2>4, <2>5 DEF SchedSave, Rests, runVars, Bounds
  <1> QED BY <1>1, <1>2, <1>3, <1>4
-----------------------------------------------------------------------------
(* Theorems.                                                               *)

\* IInv is an invariant: no copy of the document, stored or held, is VERIFIED
\* without the check its membership passed.
THEOREM CopiesAreSound == FairSpec => []IInv
  <1>1. Init => IInv
    <2> SUFFICES ASSUME Init PROVE IInv
      OBVIOUS
    <2>1. PICK plan \in Plans : stored = {Created(plan[1], plan[2])}
      BY DEF Init
    <2>2. plan[1] \in Memberships /\ plan[2] \in Mode
      BY RecordAssumption
    <2>3. Created(plan[1], plan[2]) \in Sound
      BY <2>2, RecordAssumption DEF Created, Sound, Document, Verification, Days, Never
    <2>4. Docs
      BY <2>1, <2>3 DEF Docs, Init
    <2>5. Rests
      BY RecordAssumption, PlacesOfProcs DEF Rests, Init, Days, Never
    <2> QED BY <2>4, <2>5 DEF IInv
  <1>2. IInv /\ [Next]_vars => IInv'
    <2> SUFFICES ASSUME IInv, [Next]_vars PROVE IInv'
      OBVIOUS
    <2>1. CASE WorkerStep
      BY <2>1, WorksKeeps, TicksKeep DEF WorkerStep, Procs
    <2>2. ASSUME NEW o \in Operators, OperatorStep(o) PROVE IInv'
      BY <2>2, Operator, WorksKeeps, OperatorKeeps DEF OperatorStep
    <2>3. ASSUME NEW p \in Procs, Kill(p) PROVE IInv'
      <3>1. Docs' /\ stale' \subseteq Procs
        BY <2>3, DropKeeps DEF IInv, Kill
      <3>2. at' \in [Procs -> Place] /\ mineRun' \in [Procs -> {0} \cup Runs]
        BY <2>3, GoesKeeps, PlacesOfProcs DEF IInv, Kill, Rests
      <3>3. mishaps' \in 0 .. MaxMishaps
        BY <2>3, RecordAssumption DEF IInv, Kill, Mishap, Rests
      <3> QED BY <2>3, <3>1, <3>2, <3>3 DEF IInv, Kill, Rests, runVars
    <2>4. CASE PassDay
      <3>1. day' \in 0 .. MaxDays
        BY <2>4, RecordAssumption DEF PassDay, IInv, Rests
      <3> QED BY <2>4, <3>1 DEF PassDay, IInv, Docs, Rests, runVars
    <2>5. CASE UNCHANGED vars
      <3>1. Docs'
        BY <2>5, DocsUnchanged DEF IInv, vars
      <3> QED BY <2>5, <3>1 DEF IInv, Rests, vars, runVars
    <2> QED BY <2>1, <2>2, <2>3, <2>4, <2>5 DEF Next
  <1> QED BY <1>1, <1>2, PTL DEF FairSpec

\* The types hold in every behaviour.
THEOREM RecordTyped == FairSpec => []TypeOK
  <1>1. IInv => TypeOK
    <2> SUFFICES ASSUME IInv PROVE TypeOK
      OBVIOUS
    <2>1. stored \in SUBSET Document /\ mine \in [Procs -> SUBSET Document]
      BY DEF IInv, Docs, Sound
    <2>2. Cardinality(stored) <= 1
      <3>1. CASE stored = {}
        <4>1. Cardinality(stored) = 0
          BY <3>1, FS_EmptySet
        <4> QED BY <4>1
      <3>2. CASE \E d \in Sound : stored = {d}
        <4>1. Cardinality(stored) = 1
          BY <3>2, FS_Singleton
        <4> QED BY <4>1
      <3> QED BY <3>1, <3>2 DEF IInv, Docs
    <2> QED BY <2>1, <2>2 DEF IInv, Rests, TypeOK
  <1> QED BY <1>1, CopiesAreSound, PTL

\* VerifiedIsChecked holds in every behaviour, whichever copies are saved over
\* each other.
THEOREM VerdictsAreEarned == FairSpec => []VerifiedIsChecked
  <1>1. IInv => VerifiedIsChecked
    BY DEF IInv, Docs, Sound, VerifiedIsChecked
  <1> QED BY <1>1, CopiesAreSound, PTL
-----------------------------------------------------------------------------
(* What old copies do, and only old copies.                                *)
(*                                                                         *)
(* A copy that is not old is the stored document, but for what its process *)
(* has set in it so far: the time of its check, and what the start of a    *)
(* scheduled run has made of the verification (Fresh).                     *)

Held(p) == at[p] \notin {"idle", "advance", "sched", "judge"}

Agrees(place, d, e) ==
    /\ d.members = e.members /\ d.mode = e.mode /\ d.scheduledAt = e.scheduledAt
    /\ d.reported = e.reported /\ d.judged = e.judged
    /\ place # "check" => d.checkedAt = e.checkedAt
    /\ place # "stamp" => d.verification = e.verification

Current(p) == \A d \in mine[p] : \E e \in stored : Agrees(at[p], d, e)

Fresh ==
    \A p \in Procs :
        /\ ~Held(p) => mine[p] = {}
        /\ p \notin stale => Current(p)

LEMMA TakeFresh ==
    ASSUME IInv, Fresh, NEW p \in Procs, NEW place, Take(p), UNCHANGED stored, Goes(p, place),
           place \notin {"idle", "advance", "sched", "judge"}
    PROVE  Fresh'
  <1> SUFFICES ASSUME NEW q \in Procs
               PROVE  (~Held(q) => mine[q] = {})' /\ (q \notin stale => Current(q))'
    BY DEF Fresh
  <1>1. CASE q = p
    BY <1>1 DEF IInv, Docs, Rests, Take, Goes, Held, Current, Agrees
  <1>2. CASE q # p
    BY <1>2 DEF IInv, Docs, Rests, Take, Goes, Held, Current, Fresh
  <1> QED BY <1>1, <1>2

LEMMA DropFresh ==
    ASSUME IInv, Fresh, NEW p \in Procs, NEW place, Drop(p), UNCHANGED stored, Goes(p, place)
    PROVE  Fresh'
  <1> SUFFICES ASSUME NEW q \in Procs
               PROVE  (~Held(q) => mine[q] = {})' /\ (q \notin stale => Current(q))'
    BY DEF Fresh
  <1>1. CASE q = p
    BY <1>1 DEF IInv, Docs, Rests, Drop, Goes, Current
  <1>2. CASE q # p
    BY <1>2 DEF IInv, Docs, Rests, Drop, Goes, Held, Current, Fresh
  <1> QED BY <1>1, <1>2

LEMMA BeginCheckFresh ==
    ASSUME IInv, Fresh, NEW p \in Procs, BeginCheck(p), UNCHANGED stored
    PROVE  Fresh'
  <1> SUFFICES ASSUME NEW q \in Procs
               PROVE  (~Held(q) => mine[q] = {})' /\ (q \notin stale => Current(q))'
    BY DEF Fresh
  <1>1. CASE q = p
    <2>1. /\ at'[q] = "check" /\ mine'[q] = {[d EXCEPT !.checkedAt = day] : d \in stored}
      BY <1>1 DEF IInv, Docs, Rests, BeginCheck, Goes
    <2>2. \A d \in stored : Agrees("check", [d EXCEPT !.checkedAt = day], d)
      BY DEF IInv, Docs, Sound, Document, Agrees
    <2> QED BY <2>1, <2>2 DEF Held, Current
  <1>2. CASE q # p
    BY <1>2 DEF IInv, Docs, Rests, BeginCheck, Goes, Held, Current, Fresh
  <1> QED BY <1>1, <1>2

\* p goes on with its copy, or without one.
LEMMA MoveFresh ==
    ASSUME IInv, Fresh, NEW p \in Procs, NEW place, UNCHANGED <<stored, mine, stale>>,
           Goes(p, place),
           \/ ~Held(p)
           \/ at[p] \notin {"check", "stamp"}
              /\ place \notin {"idle", "advance", "sched", "judge", "check", "stamp"}
    PROVE  Fresh'
  <1> SUFFICES ASSUME NEW q \in Procs
               PROVE  (~Held(q) => mine[q] = {})' /\ (q \notin stale => Current(q))'
    BY DEF Fresh
  <1>1. CASE q = p /\ ~Held(p)
    BY <1>1 DEF IInv, Docs, Rests, Goes, Held, Current, Fresh
  <1>2. CASE q = p /\ Held(p)
    BY <1>2 DEF IInv, Docs, Rests, Goes, Held, Current, Agrees, Fresh
  <1>3. CASE q # p
    BY <1>3 DEF IInv, Docs, Rests, Goes, Held, Current, Fresh
  <1> QED BY <1>1, <1>2, <1>3

\* Whoever holds a copy while p saves holds an old one from here on.
LEMMA SaveFresh ==
    ASSUME IInv, Fresh, NEW p \in Procs, NEW place, NEW d, NEW keeps, Save(p, d, keeps),
           Goes(p, place), \A k \in keeps : Agrees(place, k, d),
           keeps = {} \/ place \notin {"idle", "advance", "sched", "judge"}
    PROVE  Fresh'
  <1> SUFFICES ASSUME NEW q \in Procs
               PROVE  (~Held(q) => mine[q] = {})' /\ (q \notin stale => Current(q))'
    BY DEF Fresh
  <1>1. CASE q = p
    BY <1>1 DEF IInv, Docs, Rests, Save, Goes, Held, Current
  <1>2. CASE q # p
    BY <1>2 DEF IInv, Docs, Rests, Save, Goes, Held, Current, Fresh
  <1> QED BY <1>1, <1>2

\* Every step keeps Fresh.
LEMMA WorksFresh ==
    ASSUME IInv, Fresh, NEW p \in Procs, Works(p)
    PROVE  Fresh'
  <1>1. ASSUME NEW ok \in BOOLEAN, CheckSave(p, ok) PROVE Fresh'
    <2>1. PICK d \in mine[p] : Save(p, Checked(d, ok), {Checked(d, ok)})
      BY <1>1 DEF CheckSave
    <2> QED BY <1>1, <2>1, SaveFresh DEF CheckSave, Agrees
  <1>2. CASE AttachReport(p)
    BY <1>2, SaveFresh DEF AttachReport
  <1>3. CASE CheckGivesUp(p) \/ StartRefused(p) \/ StartFails(p) \/ ReportGivenUp(p) \/ NotJudged(p)
    BY <1>3, DropFresh DEF CheckGivesUp, StartRefused, StartFails, ReportGivenUp, NotJudged
  <1>4. CASE StartRun(p)
    BY <1>4, MoveFresh DEF StartRun
  <1>5. CASE StartSave(p)
    <2>1. PICK d \in mine[p] : Save(p, Started(d), IF p = Worker THEN {d} ELSE {})
      BY <1>5 DEF StartSave
    <2>2. Agrees("stamp", d, Started(d))
      BY DEF IInv, Docs, Sound, Document, Agrees, Started
    <2>3. CASE p = Worker
      BY <1>5, <2>1, <2>2, <2>3, SaveFresh DEF StartSave
    <2>4. CASE p # Worker
      BY <1>5, <2>1, <2>4, SaveFresh DEF StartSave
    <2> QED BY <2>3, <2>4
  <1>6. ASSUME NEW r \in Runs, RunEnds(p, r) PROVE Fresh'
    BY <1>6, TakeFresh DEF RunEnds
  <1>7. CASE ReportSave(p)
    BY <1>7, SaveFresh DEF ReportSave
  <1>8. CASE JudgeRead(p)
    BY <1>8, TakeFresh DEF JudgeRead
  <1>9. CASE JudgeSave(p)
    BY <1>9, SaveFresh DEF JudgeSave
  <1> QED BY <1>1, <1>2, <1>3, <1>4, <1>5, <1>6, <1>7, <1>8, <1>9 DEF Works

LEMMA WorkerInProcs == Worker \in Procs
  BY DEF Procs

LEMMA StepFresh ==
    ASSUME IInv, Fresh, [Next]_vars
    PROVE  Fresh'
  <1>1. ASSUME NEW p \in Procs, Works(p) PROVE Fresh'
    BY <1>1, WorksFresh
  <1>2. CASE ReadyTick
    <2>1. CASE BeginCheck(Worker)
      BY <1>2, <2>1, BeginCheckFresh, WorkerInProcs DEF ReadyTick
    <2>2. CASE Goes(Worker, "sched") /\ UNCHANGED <<mine, stale>>
      BY <1>2, <2>2, MoveFresh, WorkerInProcs DEF ReadyTick, Held
    <2> QED BY <1>2, <2>1, <2>2 DEF ReadyTick
  <1>3. CASE SchedTick
    <2>1. CASE Take(Worker) /\ Goes(Worker, "due")
      BY <1>3, <2>1, TakeFresh, WorkerInProcs DEF SchedTick
    <2>2. CASE Goes(Worker, "advance") /\ UNCHANGED <<mine, stale>>
      BY <1>3, <2>2, MoveFresh, WorkerInProcs DEF SchedTick, Held
    <2> QED BY <1>3, <2>1, <2>2 DEF SchedTick
  <1>4. CASE SchedLooks
    <2>1. CASE Goes(Worker, "run") /\ UNCHANGED <<mine, stale>>
      BY <1>4, <2>1, MoveFresh, WorkerInProcs DEF SchedLooks
    <2>2. CASE Goes(Worker, "advance") /\ Drop(Worker)
      BY <1>4, <2>2, DropFresh, WorkerInProcs DEF SchedLooks
    <2> QED BY <1>4, <2>1, <2>2 DEF SchedLooks
  <1>5. CASE SchedSave
    <2> SUFFICES ASSUME NEW q \in Procs
                 PROVE  (~Held(q) => mine[q] = {})' /\ (q \notin stale => Current(q))'
      BY DEF Fresh
    <2>1. mine' = [mine EXCEPT ![Worker] = {}] /\ stale' = {r \in Procs : mine'[r] # {}}
      BY <1>5 DEF SchedSave
    <2>2. CASE q = Worker
      BY <2>1, <2>2 DEF IInv, Docs, Current
    <2>3. CASE q # Worker
      BY <1>5, <2>1, <2>3 DEF SchedSave, IInv, Docs, Rests, Goes, Held, Current, Fresh
    <2> QED BY <2>2, <2>3
  <1>6. ASSUME NEW o \in Operators,
               EditRead(o) \/ EditSave(o) \/ Delete(o) \/ CheckRead(o) \/ RunRead(o)
        PROVE  Fresh'
    <2> USE Operator
    <2>1. CASE EditRead(o) \/ RunRead(o)
      BY <2>1, TakeFresh DEF EditRead, RunRead
    <2>2. CASE EditSave(o)
      BY <2>2, SaveFresh DEF EditSave
    <2>3. CASE Delete(o)
      BY <2>3 DEF Delete, IInv, Docs, Rests, Held, Current, Fresh
    <2>4. CASE CheckRead(o)
      BY <2>4, BeginCheckFresh DEF CheckRead
    <2> QED BY <1>6, <2>1, <2>2, <2>3, <2>4
  <1>7. ASSUME NEW p \in Procs, Kill(p) PROVE Fresh'
    BY <1>7, DropFresh DEF Kill
  <1>8. CASE UNCHANGED <<stored, mine, at, stale>>
    BY <1>8 DEF Held, Current, Fresh
  <1>9. CASE PassDay \/ UNCHANGED vars
    BY <1>8, <1>9 DEF PassDay, vars
  <1> QED BY <1>1, <1>2, <1>3, <1>4, <1>5, <1>6, <1>7, <1>9, WorkerInProcs, Operator
          DEF Next, WorkerStep, OperatorStep

\* A process that moves writes the document in one of these steps or not at all.
LEMMA Writers ==
    ASSUME IInv, Next, NEW p \in Procs, Acts(p)
    PROVE  \/ UNCHANGED stored
           \/ (\E ok \in BOOLEAN : CheckSave(p, ok)) \/ AttachReport(p) \/ StartSave(p)
           \/ ReportSave(p) \/ JudgeSave(p) \/ EditSave(p) \/ (p = Worker /\ SchedSave)
  <1>0. ASSUME NEW q, NEW place, Goes(q, place) PROVE p = q
    BY <1>0 DEF Goes, Acts, IInv, Rests
  <1>1. ASSUME NEW q \in Procs, Works(q)
        PROVE  \/ UNCHANGED stored
               \/ (\E ok \in BOOLEAN : CheckSave(p, ok)) \/ AttachReport(p) \/ StartSave(p)
               \/ ReportSave(p) \/ JudgeSave(p)
    <2>1. CASE \/ (\E ok \in BOOLEAN : CheckSave(q, ok)) \/ AttachReport(q) \/ StartSave(q)
               \/ ReportSave(q) \/ JudgeSave(q)
      <3>1. \E place : Goes(q, place)
        BY <2>1 DEF CheckSave, AttachReport, StartSave, ReportSave, JudgeSave
      <3> QED BY <1>0, <2>1, <3>1
    <2>2. CASE \/ CheckGivesUp(q) \/ StartRun(q) \/ StartRefused(q) \/ StartFails(q)
               \/ (\E r \in Runs : RunEnds(q, r)) \/ ReportGivenUp(q) \/ JudgeRead(q)
               \/ NotJudged(q)
      BY <2>2 DEF CheckGivesUp, StartRun, StartRefused, StartFails, RunEnds, ReportGivenUp,
                  JudgeRead, NotJudged
    <2> QED BY <1>1, <2>1, <2>2 DEF Works
  <1>2. CASE ReadyTick \/ SchedTick \/ SchedLooks
    BY <1>2 DEF ReadyTick, SchedTick, SchedLooks
  <1>3. CASE SchedSave
    BY <1>0, <1>3 DEF SchedSave
  <1>4. ASSUME NEW o \in Operators, EditRead(o) \/ Delete(o) \/ CheckRead(o) \/ RunRead(o)
        PROVE  UNCHANGED stored
    BY <1>4 DEF EditRead, Delete, CheckRead, RunRead, Acts
  <1>5. ASSUME NEW o \in Operators, EditSave(o) PROVE EditSave(p)
    BY <1>0, <1>5 DEF EditSave
  <1>6. ASSUME NEW q \in Procs, Kill(q) PROVE UNCHANGED stored
    BY <1>6 DEF Kill
  <1>7. CASE PassDay
    BY <1>7 DEF PassDay
  <1> QED BY <1>1, <1>2, <1>3, <1>4, <1>5, <1>6, <1>7, WorkerInProcs, Operator
          DEF Next, WorkerStep, OperatorStep

\* A plan becomes VERIFIED where it may.
Earned(place, d, e) ==
    e.verification = "VERIFIED" /\ d.verification # "VERIFIED" => place \in {"check", "stamp"}

LEMMA MovesKeep ==
    ASSUME IInv, Fresh, Next, NEW p \in Procs, Acts(p), p \notin stale
    PROVE  /\ stored = {} => stored' = {}
           /\ \A d \in stored, e \in stored' : KeepsTheRest(at[p], d, e) /\ Earned(at[p], d, e)
  <1>1. CASE UNCHANGED stored
    BY <1>1 DEF IInv, Docs, KeepsTheRest, Earned
  <1>2. ASSUME NEW c \in mine[p], NEW n, stored' = {n},
               \A d \in Sound : Agrees(at[p], c, d) => KeepsTheRest(at[p], d, n) /\ Earned(at[p], d, n)
        PROVE  /\ stored = {} => stored' = {}
               /\ \A d \in stored, e \in stored' : KeepsTheRest(at[p], d, e) /\ Earned(at[p], d, e)
    <2>1. PICK d \in stored : Agrees(at[p], c, d)
      BY DEF Fresh, Current
    <2>2. stored = {d} /\ d \in Sound
      BY DEF IInv, Docs
    <2> QED BY <1>2, <2>1, <2>2
  <1> mine[p] \subseteq Sound
    BY DEF IInv, Docs
  <1>3. CASE \E ok \in BOOLEAN : CheckSave(p, ok)
    <2>1. PICK ok \in BOOLEAN : CheckSave(p, ok)
      BY <1>3
    <2>2. PICK c \in mine[p] : stored' = {Checked(c, ok)}
      BY <2>1 DEF CheckSave, Save
    <2>3. at[p] = "check"
      BY <2>1 DEF CheckSave
    <2>4. LET n == Checked(c, ok) IN
          /\ n.members = c.members /\ n.mode = c.mode /\ n.checkedAt = c.checkedAt
          /\ n.scheduledAt = c.scheduledAt /\ n.reported = c.reported /\ n.judged = c.judged
      BY DEF Checked, Sound, Document
    <2> QED BY <1>2, <2>2, <2>3, <2>4 DEF Agrees, KeepsTheRest, Earned
  <1>4. CASE AttachReport(p)
    <2>1. at[p] = "attach" /\ \E c \in mine[p] : stored' = {c}
      BY <1>4 DEF AttachReport, Save
    <2> QED BY <1>2, <2>1 DEF Agrees, KeepsTheRest, Earned
  <1>5. CASE StartSave(p)
    <2>1. at[p] = "started" /\ \E c \in mine[p] : stored' = {Started(c)}
      BY <1>5 DEF StartSave, Save
    <2>2. PICK c \in mine[p] : stored' = {Started(c)}
      BY <2>1
    <2> DEFINE n == Started(c)
    <2>3. /\ n.members = c.members /\ n.mode = c.mode /\ n.checkedAt = c.checkedAt
          /\ n.scheduledAt = c.scheduledAt /\ n.reported = c.reported /\ n.judged = c.judged
          /\ n.verification \in {c.verification, "NEEDS_VERIFIED"}
      BY DEF Started, Sound, Document
    <2>4. stored' = {n}
      BY <2>2
    <2> HIDE DEF n
    <2>5. ASSUME NEW d \in Sound, Agrees(at[p], c, d)
          PROVE  KeepsTheRest(at[p], d, n) /\ Earned(at[p], d, n)
      BY <2>1, <2>3, <2>5 DEF Agrees, KeepsTheRest, Earned
    <2> QED BY <1>2, <2>4, <2>5
  <1>6. CASE ReportSave(p)
    <2>1. at[p] = "reporting"
      BY <1>6 DEF ReportSave
    <2>2. PICK c \in mine[p] : stored' = {[c EXCEPT !.reported = mineRun[p]]}
      BY <1>6 DEF ReportSave, Save
    <2> DEFINE n == [c EXCEPT !.reported = mineRun[p]]
    <2>3. /\ n.members = c.members /\ n.mode = c.mode /\ n.checkedAt = c.checkedAt
          /\ n.scheduledAt = c.scheduledAt /\ n.judged = c.judged
          /\ n.verification = c.verification
      BY DEF Sound, Document
    <2>4. stored' = {n}
      BY <2>2
    <2> HIDE DEF n
    <2>5. ASSUME NEW d \in Sound, Agrees(at[p], c, d)
          PROVE  KeepsTheRest(at[p], d, n) /\ Earned(at[p], d, n)
      BY <2>1, <2>3, <2>5 DEF Agrees, KeepsTheRest, Earned
    <2> QED BY <1>2, <2>4, <2>5
  <1>7. CASE JudgeSave(p)
    <2>1. at[p] = "judging"
      BY <1>7 DEF JudgeSave
    <2>2. PICK c \in mine[p] : stored' = {[c EXCEPT !.judged = mineRun[p]]}
      BY <1>7 DEF JudgeSave, Save
    <2> DEFINE n == [c EXCEPT !.judged = mineRun[p]]
    <2>3. /\ n.members = c.members /\ n.mode = c.mode /\ n.checkedAt = c.checkedAt
          /\ n.scheduledAt = c.scheduledAt /\ n.reported = c.reported
          /\ n.verification = c.verification
      BY DEF Sound, Document
    <2>4. stored' = {n}
      BY <2>2
    <2> HIDE DEF n
    <2>5. ASSUME NEW d \in Sound, Agrees(at[p], c, d)
          PROVE  KeepsTheRest(at[p], d, n) /\ Earned(at[p], d, n)
      BY <2>1, <2>3, <2>5 DEF Agrees, KeepsTheRest, Earned
    <2> QED BY <1>2, <2>4, <2>5
  <1>8. CASE EditSave(p)
    <2>1. at[p] = "edit"
      BY <1>8 DEF EditSave
    <2>2. PICK c \in mine[p] : \E n \in Edited(c) : stored' = {n}
      BY <1>8 DEF EditSave, Save
    <2>3. PICK n \in Edited(c) : stored' = {n}
      BY <2>2
    <2>4. /\ n.checkedAt = c.checkedAt /\ n.scheduledAt = c.scheduledAt
          /\ n.reported = c.reported /\ n.judged = c.judged
          /\ n.verification \in {c.verification, "NEEDS_VERIFIED"}
      BY <2>3 DEF Edited, Sound, Document
    <2>5. ASSUME NEW d \in Sound, Agrees(at[p], c, d)
          PROVE  KeepsTheRest(at[p], d, n) /\ Earned(at[p], d, n)
      BY <2>1, <2>4, <2>5 DEF Agrees, KeepsTheRest, Earned
    <2> QED BY <1>2, <2>3, <2>5
  <1>9. CASE p = Worker /\ SchedSave
    <2>1. at[p] = "stamp"
      BY <1>9 DEF SchedSave
    <2>2. PICK c \in mine[p] : stored' = {[c EXCEPT !.scheduledAt = day]}
      BY <1>9 DEF SchedSave
    <2> DEFINE n == [c EXCEPT !.scheduledAt = day]
    <2>3. /\ n.members = c.members /\ n.mode = c.mode /\ n.checkedAt = c.checkedAt
          /\ n.reported = c.reported /\ n.judged = c.judged /\ n.verification = c.verification
      BY DEF Sound, Document
    <2>4. stored' = {n}
      BY <2>2
    <2> HIDE DEF n
    <2>5. ASSUME NEW d \in Sound, Agrees(at[p], c, d)
          PROVE  KeepsTheRest(at[p], d, n) /\ Earned(at[p], d, n)
      BY <2>1, <2>3, <2>5 DEF Agrees, KeepsTheRest, Earned
    <2> QED BY <1>2, <2>4, <2>5
  <1> QED BY <1>1, <1>3, <1>4, <1>5, <1>6, <1>7, <1>8, <1>9, Writers

LEMMA CopiesAreFresh == FairSpec => [](IInv /\ Fresh)
  <1>1. Init => Fresh
    BY DEF Init, Fresh, Current
  <1>2. IInv /\ Fresh /\ [Next]_vars => Fresh'
    BY StepFresh
  <1> QED BY <1>1, <1>2, CopiesAreSound, PTL DEF FairSpec

\* OnlyStaleCopiesUndo holds in every behaviour: whatever the processes are
\* and however they interleave, what is lost is lost to an old copy.
THEOREM OldCopiesLose == FairSpec => OnlyStaleCopiesUndo
  <1>1. IInv /\ Fresh /\ [Next]_vars => [NothingUndone]_vars
    BY MovesKeep DEF NothingUndone
  <1> QED BY <1>1, CopiesAreFresh, PTL DEF FairSpec, OnlyStaleCopiesUndo

\* VerifiedOnlyByCheck holds in every behaviour: no edit, run, report or
\* verdict of an assurance makes a plan VERIFIED.
THEOREM VerdictsOnlyByCheck == FairSpec => VerifiedOnlyByCheck
  <1>1. IInv /\ Fresh /\ [Next]_vars => [CheckVerifies]_vars
    BY MovesKeep DEF Earned, CheckVerifies
  <1> QED BY <1>1, CopiesAreFresh, PTL DEF FairSpec, VerifiedOnlyByCheck
-----------------------------------------------------------------------------
(* Scheduled runs.                                                         *)

\* The note of a scheduled run stays in the document until an old copy is
\* saved over it, and the worker goes on only when it is an interval old.
Noted == noted # Never => \A d \in stored : d.scheduledAt = noted
Due == at[Worker] \in {"due", "run"} => RunApart

\* A document saved by a process that does not set the time.
LEMMA SaveNoted ==
    ASSUME IInv, Fresh, Noted, NEW p \in Procs, NEW c \in mine[p], NEW n, NEW keeps,
           Save(p, n, keeps), at[p] # "stamp", n.scheduledAt = c.scheduledAt
    PROVE  Noted' /\ noted' \in {noted, Never}
  <1>1. CASE p \in stale
    BY <1>1 DEF Save, Noted
  <1>2. CASE p \notin stale
    <2>1. PICK d \in stored : Agrees(at[p], c, d)
      BY <1>2 DEF Fresh, Current
    <2> QED BY <1>2, <2>1 DEF Save, Noted, Agrees
  <1> QED BY <1>1, <1>2

LEMMA WorksNoted ==
    ASSUME IInv, Fresh, Noted, NEW p \in Procs, Works(p)
    PROVE  Noted' /\ noted' \in {noted, Never} /\ UNCHANGED day
           /\ ~(at'[p] \in {"due", "run"})
  <1> mine[p] \subseteq Sound
    BY DEF IInv, Docs
  <1>0. ASSUME NEW place, Goes(p, place), place \notin {"due", "run"}
        PROVE  ~(at'[p] \in {"due", "run"})
    BY <1>0 DEF Goes, IInv, Rests
  <1>1. Rest(p) \notin {"due", "run"} /\ AfterCheck(p) \notin {"due", "run"}
    BY DEF Rest, AfterCheck
  <1>2. ASSUME NEW ok \in BOOLEAN, CheckSave(p, ok)
        PROVE  Noted' /\ noted' \in {noted, Never}
    <2>1. PICK c \in mine[p] : Save(p, Checked(c, ok), {Checked(c, ok)})
      BY <1>2 DEF CheckSave
    <2>2. Checked(c, ok).scheduledAt = c.scheduledAt
      BY DEF Checked, Sound, Document
    <2> QED BY <1>2, <2>1, <2>2, SaveNoted DEF CheckSave
  <1>3. ASSUME AttachReport(p) PROVE Noted' /\ noted' \in {noted, Never}
    BY <1>3, SaveNoted DEF AttachReport
  <1>4. ASSUME StartSave(p) PROVE Noted' /\ noted' \in {noted, Never}
    <2>1. PICK c \in mine[p] : Save(p, Started(c), IF p = Worker THEN {c} ELSE {})
      BY <1>4 DEF StartSave
    <2>2. Started(c).scheduledAt = c.scheduledAt
      BY DEF Started, Sound, Document
    <2> QED BY <1>4, <2>1, <2>2, SaveNoted DEF StartSave
  <1>5. ASSUME ReportSave(p) PROVE Noted' /\ noted' \in {noted, Never}
    <2>1. PICK c \in mine[p] : Save(p, [c EXCEPT !.reported = mineRun[p]], {})
      BY <1>5 DEF ReportSave
    <2>2. [c EXCEPT !.reported = mineRun[p]].scheduledAt = c.scheduledAt
      BY DEF Sound, Document
    <2> QED BY <1>5, <2>1, <2>2, SaveNoted DEF ReportSave
  <1>6. ASSUME JudgeSave(p) PROVE Noted' /\ noted' \in {noted, Never}
    <2>1. PICK c \in mine[p] : Save(p, [c EXCEPT !.judged = mineRun[p]], {})
      BY <1>6 DEF JudgeSave
    <2>2. [c EXCEPT !.judged = mineRun[p]].scheduledAt = c.scheduledAt
      BY DEF Sound, Document
    <2> QED BY <1>6, <2>1, <2>2, SaveNoted DEF JudgeSave
  <1>7. ASSUME UNCHANGED <<stored, noted>> PROVE Noted' /\ noted' \in {noted, Never}
    BY <1>7 DEF Noted
  <1>8. ASSUME \/ CheckGivesUp(p) \/ StartRun(p) \/ StartRefused(p) \/ StartFails(p)
               \/ (\E r \in Runs : RunEnds(p, r)) \/ ReportGivenUp(p) \/ JudgeRead(p)
               \/ NotJudged(p)
        PROVE  Noted' /\ noted' \in {noted, Never}
    BY <1>7, <1>8 DEF CheckGivesUp, StartRun, StartRefused, StartFails, RunEnds, ReportGivenUp,
                     JudgeRead, NotJudged
  <1>9. Noted' /\ noted' \in {noted, Never}
    BY <1>2, <1>3, <1>4, <1>5, <1>6, <1>8 DEF Works
  <1>10. UNCHANGED day
    BY DEF Works, CheckSave, AttachReport, CheckGivesUp, StartRun, StartRefused, StartFails,
           StartSave, RunEnds, ReportSave, ReportGivenUp, JudgeRead, JudgeSave, NotJudged, Bounds
  <1>11. \E place : Goes(p, place) /\ place \notin {"due", "run"}
    BY <1>1 DEF Works, CheckSave, AttachReport, CheckGivesUp, StartRun, StartRefused, StartFails,
           StartSave, RunEnds, ReportSave, ReportGivenUp, JudgeRead, JudgeSave, NotJudged
  <1> QED BY <1>0, <1>9, <1>10, <1>11

\* The note only goes, and days only come.
LEMMA StaysApart ==
    ASSUME IInv, RunApart, noted' \in {noted, Never}, day' \in {day, day + 1}
    PROVE  RunApart'
  BY RecordAssumption DEF IInv, Rests, RunApart, Days, Never

\* A process that goes on, but for the worker's way to a scheduled run.
LEMMA StaysDue ==
    ASSUME IInv, Due, noted' \in {noted, Never}, day' \in {day, day + 1},
           at'[Worker] \in {"due", "run"} => at[Worker] \in {"due", "run"}
    PROVE  Due'
  BY StaysApart DEF Due

LEMMA StepNoted ==
    ASSUME IInv, Fresh, Noted, Due, [Next]_vars
    PROVE  Noted' /\ Due'
  <1>0. at \in [Procs -> Place] /\ Worker \in Procs
    BY WorkerInProcs DEF IInv, Rests
  <1>1. ASSUME UNCHANGED <<stored, noted>> PROVE Noted'
    BY <1>1 DEF Noted
  <1>2. ASSUME NEW p \in Procs, Works(p) PROVE Noted' /\ Due'
    <2>1. \E place : Goes(p, place)
      BY <1>2 DEF Works, CheckSave, AttachReport, CheckGivesUp, StartRun, StartRefused, StartFails,
             StartSave, RunEnds, ReportSave, ReportGivenUp, JudgeRead, JudgeSave, NotJudged
    <2>2. p # Worker => at'[Worker] = at[Worker]
      BY <1>0, <2>1 DEF Goes
    <2> QED BY <1>2, <2>2, WorksNoted, StaysDue
  <1>3. CASE ReadyTick
    <2>1. UNCHANGED <<stored, noted, day>> /\ at'[Worker] \in {"check", "sched"}
      BY <1>0, <1>3 DEF ReadyTick, BeginCheck, Goes, Bounds
    <2> QED BY <1>1, <2>1, StaysDue
  <1>4. CASE SchedTick
    <2>1. UNCHANGED <<stored, noted, day>> /\ at'[Worker] \in {"due", "advance"}
      BY <1>0, <1>4 DEF SchedTick, Goes, Bounds
    <2>2. CASE \E d \in stored : DueForRun(d)
      <3>1. PICK d \in stored : DueForRun(d)
        BY <2>2
      <3>2. noted = Never \/ d.scheduledAt = noted
        BY DEF Noted
      <3>3. RunApart
        BY <3>1, <3>2 DEF DueForRun, RunApart
      <3>4. RunApart'
        BY <2>1, <3>3, StaysApart
      <3> QED BY <1>1, <2>1, <3>4 DEF Due
    <2>3. CASE ~ \E d \in stored : DueForRun(d)
      <3>1. at'[Worker] = "advance"
        BY <1>0, <1>4, <2>3 DEF SchedTick, Goes
      <3> QED BY <1>1, <2>1, <3>1 DEF Due
    <2> QED BY <2>2, <2>3
  <1>5. CASE SchedLooks
    <2>1. UNCHANGED <<stored, noted, day>> /\ at[Worker] = "due"
      BY <1>5 DEF SchedLooks, Bounds
    <2> QED BY <1>1, <2>1, StaysDue
  <1>6. CASE SchedSave
    <2>1. PICK d \in mine[Worker] : stored' = {[d EXCEPT !.scheduledAt = day]}
      BY <1>6 DEF SchedSave
    <2>2. noted' = day /\ at'[Worker] = "advance"
      BY <1>0, <1>6 DEF SchedSave, Goes
    <2>3. d \in Document
      BY <1>0 DEF IInv, Docs, Sound
    <2>4. [d EXCEPT !.scheduledAt = day].scheduledAt = day
      BY <2>3 DEF Document
    <2> QED BY <2>1, <2>2, <2>4 DEF Noted, Due
  <1>7. ASSUME NEW o \in Operators,
               EditRead(o) \/ EditSave(o) \/ Delete(o) \/ CheckRead(o) \/ RunRead(o)
        PROVE  Noted' /\ Due'
    <2>1. o \in Procs /\ o # Worker
      BY Operator, RecordAssumption
    <2>2. Noted' /\ noted' \in {noted, Never}
      <3>1. CASE EditSave(o)
        <4>1. PICK c \in mine[o] : \E n \in Edited(c) : Save(o, n, {})
          BY <3>1 DEF EditSave
        <4>2. PICK n \in Edited(c) : Save(o, n, {})
          BY <4>1
        <4>3. n.scheduledAt = c.scheduledAt
          <5>1. c \in Document
            BY <2>1 DEF IInv, Docs, Sound
          <5> QED BY <4>2, <5>1 DEF Edited, Document
        <4> QED BY <2>1, <3>1, <4>2, <4>3, SaveNoted DEF EditSave
      <3>2. CASE Delete(o)
        BY <3>2 DEF Delete, Noted
      <3>3. CASE EditRead(o) \/ CheckRead(o) \/ RunRead(o)
        BY <1>1, <3>3 DEF EditRead, CheckRead, RunRead
      <3> QED BY <1>7, <3>1, <3>2, <3>3
    <2>3. UNCHANGED day /\ at'[Worker] = at[Worker]
      BY <1>0, <1>7, <2>1 DEF EditRead, EditSave, Delete, CheckRead, RunRead, BeginCheck, Goes, Bounds
    <2> QED BY <2>2, <2>3, StaysDue
  <1>8. ASSUME NEW p \in Procs, Kill(p) PROVE Noted' /\ Due'
    <2>1. UNCHANGED <<stored, noted, day>>
      BY <1>8 DEF Kill
    <2>2. at'[Worker] \in {"due", "run"} => at[Worker] \in {"due", "run"}
      BY <1>0, <1>8 DEF Kill, Goes, Rest
    <2> QED BY <1>1, <2>1, <2>2, StaysDue
  <1>9. CASE PassDay
    BY <1>1, <1>9, StaysDue DEF PassDay
  <1>10. CASE UNCHANGED vars
    BY <1>1, <1>10, StaysDue DEF vars
  <1> QED BY <1>2, <1>3, <1>4, <1>5, <1>6, <1>7, <1>8, <1>9, <1>10, WorkerInProcs, Operator
          DEF Next, WorkerStep, OperatorStep

\* ScheduledOnce holds in every behaviour: two scheduled runs of a plan begin
\* within an interval only after an old copy was saved over the note.
THEOREM ScheduledApart == FairSpec => ScheduledOnce
  <1>1. Init => Noted /\ Due
    BY WorkerInProcs DEF Init, Noted, Due, Rest
  <1>2. IInv /\ Fresh /\ Noted /\ Due /\ [Next]_vars => (Noted /\ Due)'
    BY StepNoted
  <1>3. Due => [at[Worker] = "run" /\ begun' > begun => RunApart]_vars
    BY DEF Due
  <1> QED BY <1>1, <1>2, <1>3, CopiesAreFresh, PTL DEF FairSpec, ScheduledOnce
=============================================================================
