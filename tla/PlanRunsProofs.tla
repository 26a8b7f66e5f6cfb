----------------------------- MODULE PlanRunsProofs -----------------------------
(***************************************************************************)
(* Proofs about PlanRuns, for any number of runs, groups, workers,         *)
(* operators, failures and kills: the order of what the document records,  *)
(* the reach of a cancel, and who can change an outcome.                   *)
(***************************************************************************)
EXTENDS PlanRuns, WellFoundedInduction, TLAPS

\* A set of naturals that is not empty has a least element.
LEMMA HasLeast ==
    ASSUME NEW S \in SUBSET Nat, S # {}
    PROVE  \E a \in S : \A b \in S : a <= b
  <1> DEFINE LT == {ss \in Nat \X Nat : ss[1] < ss[2]}
  <1>1. IsWellFoundedOn(LT, Nat)
    BY NatLessThanWellFounded DEF OpToRel
  <1>2. \A a, b \in Nat : <<b, a>> \in LT <=> b < a
    OBVIOUS
  <1> HIDE DEF LT
  <1>3. \E a \in S : \A b \in S : ~ (<<b, a>> \in LT)
    BY <1>1, WFMin
  <1>4. PICK a \in S : \A b \in S : ~ (<<b, a>> \in LT)
    BY <1>3
  <1>5. ASSUME NEW b \in S PROVE a <= b
    <2>1. a \in Nat /\ b \in Nat
      OBVIOUS
    <2>2. ~ (b < a)
      BY <1>2, <1>4, <2>1
    <2> QED BY <2>1, <2>2
  <1> QED BY <1>5

\* The group a run starts with.
Opening == CHOOSE g \in NonEmpty : \A h \in NonEmpty : g <= h

LEMMA OpeningIsLeast == Opening \in NonEmpty /\ \A h \in NonEmpty : Opening <= h
  <1>1. NonEmpty # {} /\ NonEmpty \in SUBSET Nat
    <2>1. PICK g \in 1 .. Groups : Rows[g] > 0
      BY PlanAssumption
    <2>2. g \in NonEmpty
      BY <2>1 DEF NonEmpty, Group
    <2>3. 1 .. Groups \subseteq Nat
      BY PlanAssumption
    <2> QED BY <2>2, <2>3 DEF NonEmpty, Group
  <1>2. \E g \in NonEmpty : \A h \in NonEmpty : g <= h
    BY <1>1, HasLeast
  <1> QED BY <1>2 DEF Opening

\* FirstFrom is the first group from k on that is open, or past the last.
LEMMA FirstFromIsFirst ==
    ASSUME NEW d, NEW k \in 1 .. Groups + 1
    PROVE  /\ FirstFrom(d, k) \in k .. Groups + 1
           /\ \A g \in k .. Groups : g < FirstFrom(d, k) =>
                d.ids[g] = {} /\ ~(d.pend /\ Rows[g] > 0)
           /\ FirstFrom(d, k) # Groups + 1 =>
                d.ids[FirstFrom(d, k)] # {} \/ (d.pend /\ Rows[FirstFrom(d, k)] > 0)
  <1> DEFINE open == {g \in k .. Groups : d.ids[g] # {} \/ (d.pend /\ Rows[g] > 0)}
             c == CHOOSE g \in open : \A h \in open : g <= h
  <1>0. Groups \in Nat
    BY PlanAssumption
  <1>1. open \in SUBSET Nat
    BY <1>0
  <1>2. CASE open = {}
    <2>1. FirstFrom(d, k) = Groups + 1
      BY <1>2 DEF FirstFrom
    <2> QED BY <1>0, <1>2, <2>1
  <1>3. CASE open # {}
    <2>1. FirstFrom(d, k) = c
      BY <1>3 DEF FirstFrom
    <2>2. \E g \in open : \A h \in open : g <= h
      BY <1>1, <1>3, HasLeast
    <2>3. c \in open /\ \A h \in open : c <= h
      BY <2>2
    <2> HIDE DEF c
    <2>4. \A g \in k .. Groups : g < c => g \notin open
      BY <1>0, <2>3
    <2> QED BY <1>0, <2>1, <2>3, <2>4
  <1> QED BY <1>2, <1>3

\* The jobs of an enqueue are new, and of its run.
LEMMA NextJobsAreNew ==
    ASSUME NEW r \in Runs, NEW g \in Group, Unused(r, g) # {}
    PROVE  /\ NextJobs(r, g) \subseteq Job
           /\ \A j \in NextJobs(r, g) : state[j] = "NONE" /\ j[1] = r
  <1> DEFINE a == CHOOSE a \in Unused(r, g) : \A b \in Unused(r, g) : a <= b
  <1>1. Unused(r, g) \in SUBSET Nat
    BY PlanAssumption DEF Unused
  <1>2. \E x \in Unused(r, g) : \A b \in Unused(r, g) : x <= b
    BY <1>1, HasLeast
  <1>3. a \in Unused(r, g)
    BY <1>2
  <1>4. NextJobs(r, g) = JobsOf(r, g, a)
    BY DEF NextJobs
  <1> HIDE DEF a
  <1>5. a \in 1 .. Attempts /\ \A j \in JobsOf(r, g, a) : state[j] = "NONE"
    BY <1>3 DEF Unused
  <1>6. \A j \in JobsOf(r, g, a) : j[1] = r
    BY DEF JobsOf
  <1>7. JobsOf(r, g, a) \subseteq Job
    BY <1>5 DEF Job
  <1> QED BY <1>4, <1>5, <1>6, <1>7
-----------------------------------------------------------------------------
(* The inductive invariant: its parts.                                     *)

\* What every copy of a document says is so, the stored one and those that
\* processes hold, as long as it may be saved: given the states st of the
\* jobs and those req that are asked to stop.
Sound(d, st, req) ==
    /\ \A j \in Recorded(d) : st[j] # "NONE"
    /\ \A g \in Group : g < d.idx => \A j \in d.ids[g] : st[j] \in Terminal
    /\ \A g \in Group : d.idx < g => d.ids[g] = {}
    /\ \A g, h \in NonEmpty : g < h /\ d.ids[h] # {} => d.ids[g] # {}
    /\ d.pend => \A g \in NonEmpty : g < d.idx => d.ids[g] # {}
    /\ d.status = "CANCELLED" => \A j \in Recorded(d) : st[j] \in Terminal \/ j \in req

\* Labels at which a process works on a run that was RUNNING when it read it.
Live == StartLabel \cup {"judge", "record", "cancel", "mark"}

\* What a process has in hand at its label.
InHand(p) ==
    /\ \A q, r \in on[p] : q = r
    /\ \A e, f \in seen[p] : e = f
    /\ \A e \in seen[p] : state[e[1]] # "NONE"
    /\ at[p] \in StartLabel => mine[p].idx = Opening
    /\ at[p] \in Live => mine[p].status = "RUNNING"
    /\ at[p] \in {"cancel", "mark"} =>
         /\ todo[p] \subseteq Recorded(mine[p])
         /\ \A j \in Recorded(mine[p]) :
              \/ j \in todo[p] \/ state[j] \in Terminal \/ j \in cancelReq
              \/ at[p] = "mark" /\ \E e \in seen[p] : e[1] = j

JobsOk ==
    /\ state \in [Job -> {"NONE", "PENDING", "RESTORING"} \cup Terminal]
    /\ cancelReq \subseteq Job
    /\ running \subseteq Job
    /\ guest \in [Job -> {"none", "locked", "there", "gone"}]
    /\ \A j \in running : state[j] # "NONE"

DocsOk ==
    /\ doc \in [Runs -> Doc]
    /\ active \subseteq Runs
    /\ \A r \in Runs : Sound(doc[r], state, cancelReq)

ProcsOk ==
    /\ at \in [Procs -> Labels]
    /\ on \in [Procs -> SUBSET Runs]
    /\ mine \in [Procs -> Doc]
    /\ todo \in [Procs -> SUBSET (Runs \cup Job)]
    /\ seen \in [Procs -> SUBSET (Job \X {"PENDING", "RESTORING"})]
    /\ \A p \in Procs : Sound(mine[p], state, cancelReq) /\ InHand(p)

LogsOk == reports \in [Runs -> Nat] /\ notices \in [Runs -> Nat]
BoundsOk == {outages, cancels, teardowns, crashes} \subseteq Nat

RunsInv == JobsOk /\ DocsOk /\ ProcsOk /\ LogsOk /\ BoundsOk

\* Jobs that exist stay, those that have ended stay so, requests are not
\* taken back.
Later ==
    /\ \A j \in Job : state[j] # "NONE" => state'[j] # "NONE"
    /\ \A j \in Job : state[j] \in Terminal => state'[j] \in Terminal
    /\ cancelReq \subseteq cancelReq'

LEMMA RecordedAreJobs ==
    ASSUME NEW d \in Doc PROVE Recorded(d) \subseteq Job
  <1>1. ASSUME NEW g \in Group PROVE d.ids[g] \subseteq Job
    BY DEF Doc
  <1> QED BY <1>1 DEF Recorded

LEMMA SoundStays ==
    ASSUME NEW d \in Doc, Sound(d, state, cancelReq), Later
    PROVE  Sound(d, state', cancelReq')
  <1>1. Recorded(d) \subseteq Job /\ \A g \in Group : d.ids[g] \subseteq Job
    BY RecordedAreJobs DEF Doc
  <1>2. \A j \in Recorded(d) : state'[j] # "NONE"
    BY <1>1 DEF Sound, Later
  <1>3. \A g \in Group : g < d.idx => \A j \in d.ids[g] : state'[j] \in Terminal
    BY <1>1 DEF Sound, Later
  <1>4. d.status = "CANCELLED" =>
          \A j \in Recorded(d) : state'[j] \in Terminal \/ j \in cancelReq'
    BY <1>1 DEF Sound, Later
  <1> QED BY <1>2, <1>3, <1>4 DEF Sound

\* A process that others leave alone.
Untouched(p) ==
    /\ at'[p] = at[p] /\ on'[p] = on[p] /\ mine'[p] = mine[p]
    /\ todo'[p] = todo[p] /\ seen'[p] = seen[p]

LEMMA InHandStays ==
    ASSUME RunsInv, Later, NEW p \in Procs, Untouched(p)
    PROVE  Sound(mine'[p], state', cancelReq') /\ InHand(p)'
  <1>1. mine[p] \in Doc /\ seen[p] \subseteq Job \X {"PENDING", "RESTORING"}
    BY DEF RunsInv, ProcsOk
  <1>2. Recorded(mine[p]) \subseteq Job
    BY <1>1, RecordedAreJobs
  <1>3. Sound(mine'[p], state', cancelReq')
    BY <1>1, SoundStays DEF RunsInv, ProcsOk, Untouched
  <1>4. \A e \in seen[p] : e[1] \in Job
    BY <1>1
  <1>5. InHand(p)
    BY DEF RunsInv, ProcsOk
  <1>6. \A e \in seen[p] : state'[e[1]] # "NONE"
    BY <1>4, <1>5 DEF InHand, Later
  <1>7. ASSUME at[p] \in {"cancel", "mark"}
        PROVE  /\ todo[p] \subseteq Recorded(mine[p])
               /\ \A j \in Recorded(mine[p]) :
                    \/ j \in todo[p] \/ state'[j] \in Terminal \/ j \in cancelReq'
                    \/ at[p] = "mark" /\ \E e \in seen[p] : e[1] = j
    BY <1>2, <1>5, <1>7 DEF InHand, Later
  <1>8. Recorded(mine[p])' = Recorded(mine[p])
    BY DEF Recorded, Untouched
  <1>9. InHand(p)'
    BY <1>5, <1>6, <1>7, <1>8 DEF InHand, Untouched
  <1> QED BY <1>3, <1>9
-----------------------------------------------------------------------------
(* What the building blocks of the actions keep.                           *)

LEMMA DocsKept ==
    ASSUME RunsInv, Later, UNCHANGED docVars
    PROVE  DocsOk'
  BY SoundStays DEF RunsInv, DocsOk, docVars

LEMMA SaveKeeps ==
    ASSUME RunsInv, Later, NEW r \in Runs, NEW d \in Doc, Save(r, d),
           Sound(d, state', cancelReq')
    PROVE  DocsOk'
  <1>1. doc' = [doc EXCEPT ![r] = d] /\ doc \in [Runs -> Doc] /\ active \subseteq Runs
    BY DEF RunsInv, DocsOk, Save
  <1>2. doc' \in [Runs -> Doc] /\ active' \subseteq Runs
    BY <1>1 DEF Save
  <1>3. ASSUME NEW q \in Runs PROVE Sound(doc'[q], state', cancelReq')
    <2>1. CASE q = r
      BY <1>1, <2>1
    <2>2. CASE q # r
      <3>1. doc'[q] = doc[q] /\ doc[q] \in Doc /\ Sound(doc[q], state, cancelReq)
        BY <1>1, <2>2 DEF RunsInv, DocsOk
      <3> QED BY <3>1, SoundStays
    <2> QED BY <2>1, <2>2
  <1> QED BY <1>2, <1>3 DEF DocsOk

LEMMA ProcsKept ==
    ASSUME RunsInv, Later, UNCHANGED procVars
    PROVE  ProcsOk'
  <1>1. \A p \in Procs : Untouched(p)
    BY DEF Untouched, procVars
  <1> QED BY <1>1, InHandStays DEF RunsInv, ProcsOk, procVars

\* A step of p that leaves what the others have in hand.
LEMMA ActorKeeps ==
    ASSUME RunsInv, Later, NEW p \in Procs,
           NEW l \in Labels, NEW o \in SUBSET Runs, NEW d \in Doc,
           NEW t \in SUBSET (Runs \cup Job),
           NEW s \in SUBSET (Job \X {"PENDING", "RESTORING"}),
           at' = [at EXCEPT ![p] = l], on' = [on EXCEPT ![p] = o],
           mine' = [mine EXCEPT ![p] = d], todo' = [todo EXCEPT ![p] = t],
           seen' = [seen EXCEPT ![p] = s],
           Sound(d, state', cancelReq'), InHand(p)'
    PROVE  ProcsOk'
  <1>1. /\ at \in [Procs -> Labels] /\ on \in [Procs -> SUBSET Runs] /\ mine \in [Procs -> Doc]
        /\ todo \in [Procs -> SUBSET (Runs \cup Job)]
        /\ seen \in [Procs -> SUBSET (Job \X {"PENDING", "RESTORING"})]
    BY DEF RunsInv, ProcsOk
  <1>2. /\ at' \in [Procs -> Labels] /\ on' \in [Procs -> SUBSET Runs] /\ mine' \in [Procs -> Doc]
        /\ todo' \in [Procs -> SUBSET (Runs \cup Job)]
        /\ seen' \in [Procs -> SUBSET (Job \X {"PENDING", "RESTORING"})]
    BY <1>1
  <1>3. ASSUME NEW q \in Procs PROVE Sound(mine'[q], state', cancelReq') /\ InHand(q)'
    <2>1. CASE q = p
      BY <1>1, <2>1
    <2>2. CASE q # p
      <3>1. Untouched(q)
        BY <1>1, <2>2 DEF Untouched
      <3> QED BY <3>1, InHandStays
    <2> QED BY <2>1, <2>2
  <1> QED BY <1>2, <1>3 DEF ProcsOk

\* The start, the tick and what follows an outcome go on with a copy.
LEMMA GoesKeeps ==
    ASSUME RunsInv, Later, NEW p \in Procs, NEW l \in Labels \ {"cancel", "mark"}, NEW d \in Doc,
           Goes(p, l, d), Sound(d, state', cancelReq'),
           l \in StartLabel => d.idx = Opening, l \in Live => d.status = "RUNNING"
    PROVE  ProcsOk'
  <1>1. /\ at' = [at EXCEPT ![p] = l] /\ mine' = [mine EXCEPT ![p] = d]
        /\ on' = [on EXCEPT ![p] = on[p]] /\ todo' = [todo EXCEPT ![p] = todo[p]]
        /\ seen' = [seen EXCEPT ![p] = seen[p]]
    BY DEF Goes, RunsInv, ProcsOk
  <1>2. /\ on[p] \in SUBSET Runs /\ todo[p] \in SUBSET (Runs \cup Job)
        /\ seen[p] \in SUBSET (Job \X {"PENDING", "RESTORING"}) /\ InHand(p)
    BY DEF RunsInv, ProcsOk
  <1>3. at'[p] = l /\ mine'[p] = d /\ on'[p] = on[p] /\ todo'[p] = todo[p] /\ seen'[p] = seen[p]
    BY <1>1 DEF RunsInv, ProcsOk
  <1>4. \A e \in seen[p] : state'[e[1]] # "NONE"
    <2>1. \A e \in seen[p] : e[1] \in Job
      BY <1>2
    <2> QED BY <1>2, <2>1 DEF InHand, Later
  <1>5. InHand(p)'
    BY <1>2, <1>3, <1>4 DEF InHand
  <1> QED BY <1>1, <1>2, <1>5, ActorKeeps

LEMMA NoDocIsSound ==
    ASSUME NEW st, NEW req PROVE NoDoc \in Doc /\ Sound(NoDoc, st, req)
  <1>1. 1 \in 1 .. Groups + 1
    BY PlanAssumption
  <1>2. NoDoc \in Doc
    BY <1>1 DEF NoDoc, Doc
  <1>3. /\ NoDoc.pend = FALSE /\ NoDoc.status = "NONE"
        /\ \A g \in Group : NoDoc.ids[g] = {}
    BY DEF NoDoc
  <1>4. Recorded(NoDoc) = {} /\ NonEmpty \subseteq Group
    BY <1>3 DEF Recorded, NonEmpty
  <1> QED BY <1>2, <1>3, <1>4 DEF Sound

LEMMA EndsKeeps ==
    ASSUME RunsInv, Later, NEW p \in Procs, Ends(p)
    PROVE  ProcsOk'
  <1> DEFINE l == IF todo[p] # {} THEN "next" ELSE "idle"
  <1>1. /\ at' = [at EXCEPT ![p] = l] /\ mine' = [mine EXCEPT ![p] = NoDoc]
        /\ on' = [on EXCEPT ![p] = {}] /\ todo' = [todo EXCEPT ![p] = todo[p]]
        /\ seen' = [seen EXCEPT ![p] = seen[p]]
    BY DEF Ends, RunsInv, ProcsOk
  <1>2. /\ todo[p] \in SUBSET (Runs \cup Job)
        /\ seen[p] \in SUBSET (Job \X {"PENDING", "RESTORING"}) /\ InHand(p)
    BY DEF RunsInv, ProcsOk
  <1>3. at'[p] \in {"next", "idle"} /\ on'[p] = {} /\ seen'[p] = seen[p]
    BY <1>1 DEF RunsInv, ProcsOk
  <1>4. \A e \in seen[p] : state'[e[1]] # "NONE"
    <2>1. \A e \in seen[p] : e[1] \in Job
      BY <1>2
    <2> QED BY <1>2, <2>1 DEF InHand, Later
  <1>5. InHand(p)'
    BY <1>2, <1>3, <1>4 DEF InHand, StartLabel, Live
  <1>6. l \in Labels
    BY DEF Labels
  <1> HIDE DEF l
  <1> QED BY <1>1, <1>2, <1>5, <1>6, NoDocIsSound, ActorKeeps

LEMMA JobsKept ==
    ASSUME RunsInv, UNCHANGED jobVars
    PROVE  JobsOk' /\ Later
  BY DEF RunsInv, JobsOk, jobVars, Later

\* Whatever is saved may be logged, and counted.
LEMMA LogsKept ==
    ASSUME RunsInv, UNCHANGED <<logVars, bounds>>
    PROVE  LogsOk' /\ BoundsOk'
  BY DEF RunsInv, LogsOk, BoundsOk, logVars, bounds

LEMMA RaisesKeeps ==
    ASSUME RunsInv, NEW call, Raises(call)
    PROVE  BoundsOk'
  BY DEF RunsInv, BoundsOk, Raises

LEMMA EnqueueKeeps ==
    ASSUME RunsInv, NEW r \in Runs, NEW g \in Group, Unused(r, g) # {}, Enqueue(NextJobs(r, g))
    PROVE  /\ JobsOk' /\ Later
           /\ \A j \in NextJobs(r, g) : state'[j] # "NONE"
  <1>1. /\ NextJobs(r, g) \subseteq Job
        /\ \A j \in NextJobs(r, g) : state[j] = "NONE"
    BY NextJobsAreNew
  <1> QED BY <1>1 DEF Enqueue, RunsInv, JobsOk, Later, Terminal

\* A copy changed in what no job hangs on is as sound as before.
LEMMA SoundEdit ==
    ASSUME NEW d \in Doc, NEW e \in Doc, NEW st, NEW req, Sound(d, st, req),
           e.ids = d.ids, e.idx = d.idx, e.pend = d.pend,
           e.status = d.status \/ e.status # "CANCELLED"
    PROVE  Sound(e, st, req)
  <1>1. Recorded(e) = Recorded(d)
    BY DEF Recorded
  <1> QED BY <1>1 DEF Sound

\* Group g of run d is enqueued as the jobs new: it is the current one.
LEMMA SoundOpening ==
    ASSUME NEW d \in Doc, NEW e \in Doc, NEW g \in Group, NEW new \in SUBSET Job,
           NEW st, NEW req, Sound(d, st, req),
           d.idx \in 1 .. g,
           \A h \in Group : d.idx <= h /\ h < g => d.ids[h] = {},
           \A h \in NonEmpty : h < g => d.ids[h] # {},
           \A j \in new : st[j] # "NONE",
           e.ids = [d.ids EXCEPT ![g] = new], e.idx = g, e.pend = d.pend, e.status = "RUNNING"
    PROVE  Sound(e, st, req)
  <1>0. Groups \in Nat /\ Group \subseteq Nat /\ NonEmpty \subseteq Group
    BY PlanAssumption DEF Group, NonEmpty
  <1>1. /\ d.ids \in [Group -> SUBSET Job] /\ e.ids[g] = new
        /\ \A h \in Group : h # g => e.ids[h] = d.ids[h]
    BY DEF Doc
  <1>2. \A j \in Recorded(e) : st[j] # "NONE"
    BY <1>1 DEF Recorded, Sound
  <1>3. \A h \in Group : h < g => \A j \in e.ids[h] : st[j] \in Terminal
    <2> SUFFICES ASSUME NEW h \in Group, h < g, NEW j \in e.ids[h] PROVE st[j] \in Terminal
      OBVIOUS
    <2>1. e.ids[h] = d.ids[h] /\ h < d.idx
      BY <1>0, <1>1
    <2> QED BY <2>1 DEF Sound
  <1>4. \A h \in Group : g < h => e.ids[h] = {}
    <2> SUFFICES ASSUME NEW h \in Group, g < h PROVE e.ids[h] = {}
      OBVIOUS
    <2>1. e.ids[h] = d.ids[h] /\ d.idx < h
      BY <1>0, <1>1
    <2> QED BY <2>1 DEF Sound
  <1>5. \A h, k \in NonEmpty : h < k /\ e.ids[k] # {} => e.ids[h] # {}
    <2> SUFFICES ASSUME NEW h \in NonEmpty, NEW k \in NonEmpty, h < k, e.ids[k] # {}
                 PROVE  e.ids[h] # {}
      OBVIOUS
    <2>1. k <= g
      BY <1>0, <1>4
    <2>2. h < g
      BY <1>0, <2>1
    <2>3. e.ids[h] = d.ids[h]
      BY <1>0, <1>1, <2>2
    <2> QED BY <2>2, <2>3
  <1>6. \A h \in NonEmpty : h < g => e.ids[h] # {}
    BY <1>0, <1>1
  <1> QED BY <1>2, <1>3, <1>4, <1>5, <1>6 DEF Sound
-----------------------------------------------------------------------------
(* Each action keeps the invariant: the start.                             *)

LEMMA StartShellKeeps ==
    ASSUME RunsInv, NEW p \in Procs, NEW r \in Runs, StartShell(p, r)
    PROVE  RunsInv'
  <1> DEFINE d == [NoDoc EXCEPT !.status = "RUNNING", !.idx = Opening]
  <1>0. Opening \in Group /\ Opening \in NonEmpty /\ \A h \in NonEmpty : Opening <= h
    BY OpeningIsLeast DEF NonEmpty
  <1>1. Save(r, d) /\ mine' = [mine EXCEPT ![p] = d]
    BY DEF StartShell, Opening
  <1>2. UNCHANGED jobVars /\ Later /\ JobsOk' /\ LogsOk' /\ BoundsOk'
    BY JobsKept, LogsKept DEF StartShell
  <1>3. d \in Doc /\ d.status = "RUNNING" /\ d.idx = Opening /\ d.pend = FALSE
        /\ \A g \in Group : d.ids[g] = {}
    <2>1. NoDoc \in Doc
      BY NoDocIsSound
    <2>2. Opening \in 1 .. Groups + 1
      BY <1>0, PlanAssumption DEF Group
    <2> QED BY <2>1, <2>2 DEF NoDoc, Doc
  <1> HIDE DEF d
  <1>4. Sound(d, state', cancelReq')
    <2>1. Recorded(d) = {} /\ NonEmpty \subseteq Group
      BY <1>3 DEF Recorded, NonEmpty
    <2> QED BY <1>3, <2>1 DEF Sound
  <1>5. DocsOk'
    BY <1>1, <1>2, <1>3, <1>4, SaveKeeps
  <1>6. /\ at' = [at EXCEPT ![p] = "first"] /\ on' = [on EXCEPT ![p] = {r}]
        /\ todo' = [todo EXCEPT ![p] = todo[p]] /\ seen' = [seen EXCEPT ![p] = seen[p]]
    BY DEF StartShell, RunsInv, ProcsOk
  <1>7. /\ todo[p] \in SUBSET (Runs \cup Job)
        /\ seen[p] \in SUBSET (Job \X {"PENDING", "RESTORING"}) /\ InHand(p)
    BY DEF RunsInv, ProcsOk
  <1>8. at'[p] = "first" /\ on'[p] = {r} /\ mine'[p] = d /\ seen'[p] = seen[p] /\ state' = state
    BY <1>1, <1>2, <1>6 DEF RunsInv, ProcsOk, jobVars
  <1>9. InHand(p)'
    BY <1>3, <1>7, <1>8 DEF InHand
  <1>10. ProcsOk'
    BY <1>1, <1>2, <1>3, <1>4, <1>6, <1>7, <1>9, ActorKeeps DEF Labels, StartLabel
  <1> QED BY <1>2, <1>5, <1>10 DEF RunsInv

\* What is known of the copy of a process that works on a run.
LEMMA CopyFacts ==
    ASSUME RunsInv, NEW p \in Procs, NEW r \in on[p]
    PROVE  /\ r \in Runs /\ on[p] = {r}
           /\ mine[p] \in Doc /\ Sound(mine[p], state, cancelReq) /\ InHand(p)
           /\ mine[p].idx \in 1 .. Groups + 1 /\ mine[p].ids \in [Group -> SUBSET Job]
  <1>1. on[p] \subseteq Runs /\ mine[p] \in Doc /\ Sound(mine[p], state, cancelReq) /\ InHand(p)
    BY DEF RunsInv, ProcsOk
  <1>2. on[p] = {r}
    BY <1>1 DEF InHand
  <1>3. mine[p].idx \in 1 .. Groups + 1 /\ mine[p].ids \in [Group -> SUBSET Job]
    BY <1>1 DEF Doc
  <1> QED BY <1>1, <1>2, <1>3

LEMMA StartEnqueueKeeps ==
    ASSUME RunsInv, NEW p \in Procs, NEW r \in on[p], StartEnqueue(p, r)
    PROVE  RunsInv'
  <1> DEFINE g == mine[p].idx
             new == NextJobs(r, g)
             e == [mine[p] EXCEPT !.ids[g] = new]
  <1>0. r \in Runs /\ mine[p] \in Doc /\ Sound(mine[p], state, cancelReq) /\ InHand(p)
    BY CopyFacts
  <1>1. at[p] = "first" /\ Unused(r, g) # {} /\ Enqueue(new) /\ Goes(p, "ids", e)
        /\ UNCHANGED <<docVars, logVars, bounds>>
    BY DEF StartEnqueue
  <1>2. g = Opening /\ mine[p].status = "RUNNING"
    BY <1>0, <1>1 DEF InHand, StartLabel, Live
  <1>3. g \in Group /\ \A h \in NonEmpty : g <= h
    BY <1>2, OpeningIsLeast DEF NonEmpty
  <1>4. JobsOk' /\ Later /\ new \in SUBSET Job /\ \A j \in new : state'[j] # "NONE"
    BY <1>0, <1>1, <1>3, EnqueueKeeps, NextJobsAreNew
  <1> HIDE DEF new
  <1>5. /\ e \in Doc /\ e.ids = [mine[p].ids EXCEPT ![g] = new] /\ e.idx = g
        /\ e.pend = mine[p].pend /\ e.status = "RUNNING"
    BY <1>0, <1>2, <1>3, <1>4 DEF Doc
  <1> HIDE DEF e
  <1>6. Sound(mine[p], state', cancelReq')
    BY <1>0, <1>4, SoundStays
  <1>7. Sound(e, state', cancelReq')
    <2>1. g \in 1 .. g /\ \A h \in Group : ~(g <= h /\ h < g)
      BY <1>3, PlanAssumption DEF Group
    <2>2. \A h \in NonEmpty : ~(h < g)
      BY <1>3, PlanAssumption DEF Group, NonEmpty
    <2> QED BY <1>0, <1>3, <1>4, <1>5, <1>6, <2>1, <2>2, SoundOpening
  <1>8. ProcsOk'
    BY <1>1, <1>2, <1>4, <1>5, <1>7, GoesKeeps DEF Labels, StartLabel
  <1>9. DocsOk' /\ LogsOk' /\ BoundsOk'
    BY <1>1, <1>4, DocsKept, LogsKept
  <1> QED BY <1>4, <1>8, <1>9 DEF RunsInv

LEMMA StartRaisesKeeps ==
    ASSUME RunsInv, NEW p \in Procs, StartRaises(p)
    PROVE  RunsInv'
  <1>1. JobsOk' /\ Later
    BY JobsKept DEF StartRaises
  <1>2. DocsOk' /\ ProcsOk' /\ BoundsOk'
    BY <1>1, DocsKept, EndsKeeps, RaisesKeeps DEF StartRaises
  <1>3. LogsOk'
    BY DEF StartRaises, RunsInv, LogsOk, logVars
  <1> QED BY <1>1, <1>2, <1>3 DEF RunsInv

LEMMA StartSavesKeep ==
    ASSUME RunsInv, NEW p \in Procs, NEW r \in on[p], StartSaveIds(p, r) \/ StartStash(p, r)
    PROVE  RunsInv'
  <1> DEFINE e == [mine[p] EXCEPT !.pend = TRUE]
  <1>0. r \in Runs /\ mine[p] \in Doc /\ Sound(mine[p], state, cancelReq) /\ InHand(p)
    BY CopyFacts
  <1>1. JobsOk' /\ Later /\ LogsOk' /\ BoundsOk'
    BY JobsKept, LogsKept DEF StartSaveIds, StartStash
  <1>2. mine[p].idx = Opening /\ mine[p].status = "RUNNING"
    BY <1>0 DEF InHand, StartSaveIds, StartStash, StartLabel, Live
  <1>3. Sound(mine[p], state', cancelReq')
    BY <1>0, <1>1, SoundStays
  <1>4. CASE StartSaveIds(p, r)
    <2>1. DocsOk' /\ ProcsOk'
      BY <1>0, <1>1, <1>2, <1>3, <1>4, SaveKeeps, GoesKeeps DEF StartSaveIds, Labels, StartLabel
    <2> QED BY <1>1, <2>1 DEF RunsInv
  <1>5. CASE StartStash(p, r)
    <2>1. /\ e \in Doc /\ e.ids = mine[p].ids /\ e.idx = mine[p].idx
          /\ e.status = mine[p].status
      BY <1>0 DEF Doc
    <2>2. Save(r, e) /\ Ends(p)
      BY <1>5 DEF StartStash
    <2> HIDE DEF e
    <2>3. \A g \in NonEmpty : ~(g < e.idx)
      BY <1>2, <2>1, OpeningIsLeast, PlanAssumption DEF NonEmpty, Group
    <2>4. Recorded(e) = Recorded(mine[p])
      BY <2>1 DEF Recorded
    <2>5. Sound(e, state', cancelReq')
      BY <1>2, <1>3, <2>1, <2>3, <2>4 DEF Sound
    <2>6. DocsOk' /\ ProcsOk'
      BY <1>0, <1>1, <2>1, <2>2, <2>5, SaveKeeps, EndsKeeps
    <2> QED BY <1>1, <2>6 DEF RunsInv
  <1> QED BY <1>4, <1>5
-----------------------------------------------------------------------------
(* The tick.                                                               *)

LEMMA TickKeeps ==
    ASSUME RunsInv, NEW p \in Procs, Tick(p)
    PROVE  RunsInv'
  <1>1. JobsOk' /\ Later /\ DocsOk' /\ LogsOk' /\ BoundsOk'
    BY JobsKept, DocsKept, LogsKept DEF Tick
  <1>2. /\ on[p] \in SUBSET Runs /\ mine[p] \in Doc /\ active \in SUBSET (Runs \cup Job)
        /\ seen[p] \in SUBSET (Job \X {"PENDING", "RESTORING"}) /\ InHand(p)
        /\ Sound(mine[p], state, cancelReq)
    BY DEF RunsInv, ProcsOk, DocsOk
  <1>3. /\ at' = [at EXCEPT ![p] = "next"] /\ todo' = [todo EXCEPT ![p] = active]
        /\ on' = [on EXCEPT ![p] = on[p]] /\ mine' = [mine EXCEPT ![p] = mine[p]]
        /\ seen' = [seen EXCEPT ![p] = seen[p]]
    BY DEF Tick, RunsInv, ProcsOk
  <1>4. /\ at'[p] = "next" /\ on'[p] = on[p] /\ seen'[p] = seen[p] /\ state' = state
    BY <1>3 DEF Tick, RunsInv, ProcsOk, jobVars
  <1>5. InHand(p)'
    BY <1>2, <1>4 DEF InHand, StartLabel, Live
  <1>6. Sound(mine[p], state', cancelReq')
    BY <1>1, <1>2, SoundStays
  <1>7. ProcsOk'
    BY <1>1, <1>2, <1>3, <1>5, <1>6, ActorKeeps DEF Labels
  <1> QED BY <1>1, <1>7 DEF RunsInv

LEMMA TakeRunKeeps ==
    ASSUME RunsInv, NEW p \in Procs, NEW r \in Runs, TakeRun(p, r)
    PROVE  RunsInv'
  <1> DEFINE l == IF doc[r].status = "RUNNING" THEN "judge" ELSE "drop"
  <1>1. JobsOk' /\ Later /\ DocsOk' /\ LogsOk' /\ BoundsOk'
    BY JobsKept, DocsKept, LogsKept DEF TakeRun
  <1>2. /\ doc[r] \in Doc /\ todo[p] \ {r} \in SUBSET (Runs \cup Job) /\ {r} \in SUBSET Runs
        /\ seen[p] \in SUBSET (Job \X {"PENDING", "RESTORING"}) /\ InHand(p)
        /\ Sound(doc[r], state, cancelReq)
    BY DEF RunsInv, ProcsOk, DocsOk
  <1>3. /\ at' = [at EXCEPT ![p] = l] /\ todo' = [todo EXCEPT ![p] = todo[p] \ {r}]
        /\ on' = [on EXCEPT ![p] = {r}] /\ mine' = [mine EXCEPT ![p] = doc[r]]
        /\ seen' = [seen EXCEPT ![p] = seen[p]]
    BY DEF TakeRun, RunsInv, ProcsOk
  <1>4. /\ at'[p] = l /\ on'[p] = {r} /\ seen'[p] = seen[p] /\ state' = state /\ mine'[p] = doc[r]
    BY <1>3 DEF TakeRun, RunsInv, ProcsOk, jobVars
  <1>5. l \in Labels /\ l \notin StartLabel /\ l \notin {"cancel", "mark"}
        /\ (l \in Live => doc[r].status = "RUNNING")
    BY DEF Labels, StartLabel, AdvanceLabel, Live
  <1> HIDE DEF l
  <1>6. InHand(p)'
    BY <1>2, <1>4, <1>5 DEF InHand
  <1>7. Sound(doc[r], state', cancelReq')
    BY <1>1, <1>2, SoundStays
  <1>8. ProcsOk'
    BY <1>1, <1>2, <1>3, <1>5, <1>6, <1>7, ActorKeeps
  <1> QED BY <1>1, <1>8 DEF RunsInv

LEMMA DropKeeps ==
    ASSUME RunsInv, NEW p \in Procs, NEW r \in on[p], Drop(p, r)
    PROVE  RunsInv'
  <1>1. JobsOk' /\ Later /\ LogsOk' /\ BoundsOk'
    BY JobsKept, LogsKept DEF Drop
  <1>2. ProcsOk'
    BY <1>1, EndsKeeps DEF Drop
  <1>3. DocsOk'
    BY <1>1, SoundStays DEF Drop, RunsInv, DocsOk
  <1> QED BY <1>1, <1>2, <1>3 DEF RunsInv

LEMMA StillRunningKeeps ==
    ASSUME RunsInv, NEW p \in Procs, StillRunning(p)
    PROVE  RunsInv'
  <1>1. JobsOk' /\ Later /\ LogsOk' /\ BoundsOk' /\ DocsOk'
    BY JobsKept, LogsKept, DocsKept DEF StillRunning
  <1>2. ProcsOk'
    BY <1>1, EndsKeeps DEF StillRunning
  <1> QED BY <1>1, <1>2 DEF RunsInv

\* A process that drops what it has in hand.
LEMMA IdleKeeps ==
    ASSUME RunsInv, Later, NEW p \in Procs,
           at' = [at EXCEPT ![p] = "idle"], on' = [on EXCEPT ![p] = {}],
           mine' = [mine EXCEPT ![p] = NoDoc], todo' = [todo EXCEPT ![p] = {}],
           NEW s \in SUBSET seen[p], seen' = [seen EXCEPT ![p] = s]
    PROVE  ProcsOk'
  <1>1. s \in SUBSET (Job \X {"PENDING", "RESTORING"}) /\ InHand(p)
    BY DEF RunsInv, ProcsOk
  <1>2. at'[p] = "idle" /\ on'[p] = {} /\ seen'[p] = s
    BY DEF RunsInv, ProcsOk
  <1>3. \A e \in s : state'[e[1]] # "NONE"
    <2>1. \A e \in s : e[1] \in Job
      BY <1>1
    <2> QED BY <1>1, <2>1 DEF InHand, Later
  <1>4. InHand(p)'
    BY <1>1, <1>2, <1>3 DEF InHand, StartLabel, Live
  <1> QED BY <1>1, <1>4, NoDocIsSound, ActorKeeps DEF Labels

LEMMA EnqueueRaisesKeeps ==
    ASSUME RunsInv, NEW p \in Procs, EnqueueRaises(p)
    PROVE  RunsInv'
  <1>1. JobsOk' /\ Later /\ DocsOk' /\ BoundsOk'
    BY JobsKept, DocsKept, RaisesKeeps DEF EnqueueRaises
  <1>2. LogsOk'
    BY DEF EnqueueRaises, RunsInv, LogsOk, logVars
  <1>3. seen' = [seen EXCEPT ![p] = seen[p]]
    BY DEF EnqueueRaises, RunsInv, ProcsOk
  <1>4. ProcsOk'
    BY <1>1, <1>3, IdleKeeps DEF EnqueueRaises
  <1> QED BY <1>1, <1>2, <1>4 DEF RunsInv

LEMMA RecordGroupKeeps ==
    ASSUME RunsInv, NEW p \in Procs, NEW r \in on[p], RecordGroup(p, r)
    PROVE  RunsInv'
  <1>1. JobsOk' /\ Later /\ LogsOk' /\ BoundsOk'
    BY JobsKept, LogsKept DEF RecordGroup
  <1>2. r \in Runs /\ mine[p] \in Doc /\ Sound(mine[p], state, cancelReq)
    BY CopyFacts
  <1>3. DocsOk' /\ ProcsOk'
    BY <1>1, <1>2, SoundStays, SaveKeeps, EndsKeeps DEF RecordGroup
  <1> QED BY <1>1, <1>3 DEF RunsInv

LEMMA CrashKeeps ==
    ASSUME RunsInv, NEW p \in Procs, Crash(p)
    PROVE  RunsInv'
  <1>1. Later
    BY DEF Crash, Later
  <1>2. JobsOk' /\ LogsOk' /\ BoundsOk'
    BY DEF Crash, RunsInv, JobsOk, LogsOk, BoundsOk, logVars
  <1>3. DocsOk' /\ ProcsOk'
    BY <1>1, DocsKept, IdleKeeps DEF Crash
  <1> QED BY <1>2, <1>3 DEF RunsInv

\* A copy moves on to group i, past groups whose jobs have all ended.
LEMMA SoundAdvance ==
    ASSUME NEW d \in Doc, NEW e \in Doc, NEW i \in Nat, NEW st, NEW req, Sound(d, st, req),
           e.ids = d.ids, e.pend = d.pend, e.idx = i, d.idx <= i, e.status # "CANCELLED",
           \A h \in Group : d.idx <= h /\ h < i => \A j \in d.ids[h] : st[j] \in Terminal,
           \A h \in NonEmpty : d.pend /\ d.idx <= h /\ h < i => d.ids[h] # {}
    PROVE  Sound(e, st, req)
  <1>0. /\ Groups \in Nat /\ Group \subseteq Nat /\ NonEmpty \subseteq Group
        /\ d.idx \in 1 .. Groups + 1
    <2>1. Groups \in Nat /\ Group \subseteq Nat /\ NonEmpty \subseteq Group
      BY PlanAssumption DEF Group, NonEmpty
    <2>2. d.idx \in 1 .. Groups + 1
      BY DEF Doc
    <2> QED BY <2>1, <2>2
  <1>1. Recorded(e) = Recorded(d)
    BY DEF Recorded
  <1>2. \A h \in Group : h < i => \A j \in e.ids[h] : st[j] \in Terminal
    <2> SUFFICES ASSUME NEW h \in Group, h < i, NEW j \in e.ids[h] PROVE st[j] \in Terminal
      OBVIOUS
    <2>1. CASE h < d.idx
      BY <2>1 DEF Sound
    <2>2. CASE d.idx <= h
      BY <2>2
    <2> QED BY <1>0, <2>1, <2>2
  <1>3. \A h \in Group : i < h => e.ids[h] = {}
    BY <1>0 DEF Sound
  <1>4. e.pend => \A h \in NonEmpty : h < i => e.ids[h] # {}
    <2> SUFFICES ASSUME e.pend, NEW h \in NonEmpty, h < i PROVE e.ids[h] # {}
      OBVIOUS
    <2>1. CASE h < d.idx
      BY <2>1 DEF Sound
    <2>2. CASE d.idx <= h
      BY <2>2
    <2> QED BY <1>0, <2>1, <2>2
  <1> QED BY <1>1, <1>2, <1>3, <1>4 DEF Sound

\* What a tick has found at its copy of run r.
LEMMA JudgeFacts ==
    ASSUME RunsInv, NEW p \in Procs, NEW r \in on[p], at[p] = "judge"
    PROVE  /\ mine[p].status = "RUNNING"
           /\ Current(p) \in mine[p].idx .. Groups + 1
           /\ \A h \in Group : mine[p].idx <= h /\ h < Current(p) =>
                mine[p].ids[h] = {} /\ ~(mine[p].pend /\ Rows[h] > 0)
           /\ \A h \in NonEmpty : mine[p].pend /\ h < Current(p) => mine[p].ids[h] # {}
  <1>0. /\ mine[p] \in Doc /\ Sound(mine[p], state, cancelReq) /\ InHand(p)
        /\ mine[p].idx \in 1 .. Groups + 1
    BY CopyFacts
  <1>1. Groups \in Nat /\ Group = 1 .. Groups /\ NonEmpty \subseteq Group
        /\ \A h \in NonEmpty : Rows[h] > 0
    BY PlanAssumption DEF Group, NonEmpty
  <1>2. /\ Current(p) \in mine[p].idx .. Groups + 1
        /\ \A h \in mine[p].idx .. Groups : h < Current(p) =>
                mine[p].ids[h] = {} /\ ~(mine[p].pend /\ Rows[h] > 0)
    BY <1>0, FirstFromIsFirst DEF Current
  <1>3. \A h \in Group : mine[p].idx <= h /\ h < Current(p) =>
                mine[p].ids[h] = {} /\ ~(mine[p].pend /\ Rows[h] > 0)
    BY <1>0, <1>1, <1>2
  <1>4. \A h \in NonEmpty : mine[p].pend /\ h < Current(p) => mine[p].ids[h] # {}
    <2> SUFFICES ASSUME NEW h \in NonEmpty, mine[p].pend, h < Current(p)
                 PROVE  mine[p].ids[h] # {}
      OBVIOUS
    <2>1. CASE h < mine[p].idx
      BY <1>0, <2>1 DEF Sound
    <2>2. CASE mine[p].idx <= h
      BY <1>1, <1>3, <2>2
    <2> QED BY <1>0, <1>1, <2>1, <2>2
  <1>5. mine[p].status = "RUNNING"
    BY <1>0 DEF InHand, Live
  <1> QED BY <1>2, <1>3, <1>4, <1>5

LEMMA NothingLeftKeeps ==
    ASSUME RunsInv, NEW p \in Procs, NEW r \in on[p], NothingLeft(p, r)
    PROVE  RunsInv'
  <1> DEFINE e == [mine[p] EXCEPT !.status = "COMPLETED", !.idx = Current(p)]
  <1>0. r \in Runs /\ mine[p] \in Doc /\ Sound(mine[p], state, cancelReq)
        /\ mine[p].idx \in 1 .. Groups + 1
    BY CopyFacts
  <1>1. JobsOk' /\ Later /\ LogsOk' /\ BoundsOk'
    BY JobsKept, LogsKept DEF NothingLeft
  <1>2. Save(r, e) /\ Goes(p, "report", e) /\ at[p] = "judge"
    BY DEF NothingLeft, EndRun
  <1>3. /\ Current(p) \in mine[p].idx .. Groups + 1
        /\ \A h \in Group : mine[p].idx <= h /\ h < Current(p) => mine[p].ids[h] = {}
        /\ \A h \in NonEmpty : mine[p].pend /\ h < Current(p) => mine[p].ids[h] # {}
    BY <1>2, JudgeFacts
  <1>4. /\ Current(p) \in 1 .. Groups + 1 /\ Current(p) \in Nat /\ mine[p].idx <= Current(p)
    BY <1>0, <1>3, PlanAssumption
  <1>5. /\ e \in Doc /\ e.ids = mine[p].ids /\ e.pend = mine[p].pend /\ e.idx = Current(p)
        /\ e.status = "COMPLETED"
    BY <1>0, <1>4 DEF Doc, Terminal
  <1> HIDE DEF e
  <1>6. Sound(mine[p], state', cancelReq')
    BY <1>0, <1>1, SoundStays
  <1>7. Sound(e, state', cancelReq')
    BY <1>0, <1>3, <1>4, <1>5, <1>6, SoundAdvance
  <1>8. DocsOk'
    BY <1>0, <1>1, <1>2, <1>5, <1>7, SaveKeeps
  <1>9. ProcsOk'
    BY <1>0, <1>1, <1>2, <1>5, <1>7, GoesKeeps DEF Labels, FinalLabel, StartLabel, Live
  <1> QED BY <1>1, <1>8, <1>9 DEF RunsInv

LEMMA EnqueueGroupKeeps ==
    ASSUME RunsInv, NEW p \in Procs, NEW r \in on[p], EnqueueGroup(p, r)
    PROVE  RunsInv'
  <1> DEFINE c == Current(p)
             new == NextJobs(r, c)
             e == [mine[p] EXCEPT !.ids[c] = new, !.idx = c]
  <1>0. r \in Runs /\ mine[p] \in Doc /\ Sound(mine[p], state, cancelReq)
        /\ mine[p].idx \in 1 .. Groups + 1
    BY CopyFacts
  <1>1. /\ at[p] = "judge" /\ c \in Group /\ mine[p].ids[c] = {} /\ Unused(r, c) # {}
        /\ Enqueue(new) /\ Goes(p, "record", e) /\ UNCHANGED <<docVars, logVars, bounds>>
    BY DEF EnqueueGroup, CurrentJobs
  <1>2. /\ mine[p].status = "RUNNING" /\ c \in mine[p].idx .. Groups + 1
        /\ \A h \in Group : mine[p].idx <= h /\ h < c => mine[p].ids[h] = {}
        /\ \A h \in NonEmpty : mine[p].pend /\ h < c => mine[p].ids[h] # {}
    BY <1>1, JudgeFacts
  <1>3. mine[p].pend
    <2>1. c # Groups + 1
      BY <1>1, PlanAssumption DEF Group
    <2> QED BY <1>0, <1>1, <2>1, FirstFromIsFirst DEF Current
  <1>4. JobsOk' /\ Later /\ new \in SUBSET Job /\ \A j \in new : state'[j] # "NONE"
    BY <1>0, <1>1, EnqueueKeeps, NextJobsAreNew
  <1>5. c \in 1 .. Groups + 1 /\ mine[p].idx \in 1 .. c
    BY <1>0, <1>2, PlanAssumption
  <1> HIDE DEF new, c
  <1>6. /\ e \in Doc /\ e.ids = [mine[p].ids EXCEPT ![c] = new] /\ e.idx = c
        /\ e.pend = mine[p].pend /\ e.status = "RUNNING"
    BY <1>0, <1>1, <1>2, <1>4, <1>5 DEF Doc
  <1> HIDE DEF e
  <1>7. Sound(mine[p], state', cancelReq')
    BY <1>0, <1>4, SoundStays
  <1>8. Sound(e, state', cancelReq')
    BY <1>0, <1>1, <1>2, <1>3, <1>4, <1>5, <1>6, <1>7, SoundOpening
  <1>9. ProcsOk'
    BY <1>1, <1>4, <1>6, <1>8, GoesKeeps DEF Labels, AdvanceLabel, StartLabel
  <1>10. DocsOk' /\ LogsOk' /\ BoundsOk'
    BY <1>1, <1>4, DocsKept, LogsKept
  <1> QED BY <1>4, <1>9, <1>10 DEF RunsInv

\* What a tick knows of a group whose jobs have all ended, and what follows it.
LEMMA EndedFacts ==
    ASSUME RunsInv, NEW p \in Procs, NEW r \in on[p], at[p] = "judge",
           Current(p) \in Group, CurrentJobs(p) # {}, HasEnded(p),
           NEW next, next = FirstFrom(mine[p], Current(p) + 1)
    PROVE  /\ next \in mine[p].idx .. Groups + 1
           /\ \A h \in Group : mine[p].idx <= h /\ h < next =>
                \A j \in mine[p].ids[h] : state[j] \in Terminal
           /\ \A h \in NonEmpty : mine[p].pend /\ mine[p].idx <= h /\ h < next =>
                mine[p].ids[h] # {}
           /\ \A j \in Recorded(mine[p]) : state[j] \in Terminal
  <1> DEFINE c == Current(p)
  <1>0. /\ mine[p] \in Doc /\ Sound(mine[p], state, cancelReq)
        /\ mine[p].idx \in 1 .. Groups + 1
    BY CopyFacts
  <1>1. Groups \in Nat /\ Group = 1 .. Groups /\ NonEmpty \subseteq Group
        /\ \A h \in NonEmpty : Rows[h] > 0
    BY PlanAssumption DEF Group, NonEmpty
  <1>2. /\ c \in mine[p].idx .. Groups + 1 /\ c \in Group
        /\ \A h \in Group : mine[p].idx <= h /\ h < c => mine[p].ids[h] = {}
        /\ \A h \in NonEmpty : mine[p].pend /\ h < c => mine[p].ids[h] # {}
    BY JudgeFacts
  <1>3. mine[p].ids[c] # {} /\ \A j \in mine[p].ids[c] : state[j] \in Terminal
    BY DEF CurrentJobs, HasEnded
  <1> HIDE DEF c
  <1>4. /\ next \in c + 1 .. Groups + 1
        /\ \A h \in c + 1 .. Groups : h < next =>
             mine[p].ids[h] = {} /\ ~(mine[p].pend /\ Rows[h] > 0)
    <2>1. c + 1 \in 1 .. Groups + 1
      BY <1>1, <1>2
    <2> QED BY <2>1, FirstFromIsFirst DEF c
  <1>5. next \in mine[p].idx .. Groups + 1
    BY <1>0, <1>1, <1>2, <1>4
  <1>6. ASSUME NEW h \in Group, mine[p].idx <= h, h < next
        PROVE  \A j \in mine[p].ids[h] : state[j] \in Terminal
    <2>1. h < c \/ h = c \/ h \in c + 1 .. Groups
      BY <1>1, <1>2
    <2> QED BY <1>2, <1>3, <1>4, <1>6, <2>1
  <1>7. ASSUME NEW h \in NonEmpty, mine[p].pend, mine[p].idx <= h, h < next
        PROVE  mine[p].ids[h] # {}
    <2>1. h < c \/ h = c \/ h \in c + 1 .. Groups
      BY <1>1, <1>2
    <2> QED BY <1>1, <1>2, <1>3, <1>4, <1>7, <2>1
  <1>8. ASSUME NEW j \in Recorded(mine[p]) PROVE state[j] \in Terminal
    <2>1. PICK g \in Group : j \in mine[p].ids[g]
      BY DEF Recorded
    <2>2. CASE g < mine[p].idx
      BY <1>0, <2>1, <2>2 DEF Sound
    <2>3. CASE mine[p].idx <= g /\ g < next
      BY <1>6, <2>1, <2>3
    <2>4. CASE mine[p].idx < g
      BY <1>0, <2>1, <2>4 DEF Sound
    <2>5. g < mine[p].idx \/ (mine[p].idx <= g /\ g < next) \/ mine[p].idx < g
      BY <1>0, <1>1, <1>2, <1>4
    <2> QED BY <2>2, <2>3, <2>4, <2>5
  <1> QED BY <1>5, <1>6, <1>7, <1>8

LEMMA JudgeGroupKeeps ==
    ASSUME RunsInv, NEW p \in Procs, NEW r \in on[p], JudgeGroup(p, r)
    PROVE  RunsInv'
  <1> DEFINE next == FirstFrom(mine[p], Current(p) + 1)
  <1>0. r \in Runs /\ mine[p] \in Doc /\ Sound(mine[p], state, cancelReq)
        /\ mine[p].idx \in 1 .. Groups + 1
    BY CopyFacts
  <1>1. JobsOk' /\ Later /\ LogsOk' /\ BoundsOk' /\ state' = state /\ cancelReq' = cancelReq
    BY JobsKept, LogsKept DEF JudgeGroup, jobVars
  <1>2. at[p] = "judge" /\ mine[p].status = "RUNNING"
    BY JudgeFacts DEF JudgeGroup
  <1>3. /\ next \in mine[p].idx .. Groups + 1
        /\ \A h \in Group : mine[p].idx <= h /\ h < next =>
                \A j \in mine[p].ids[h] : state[j] \in Terminal
        /\ \A h \in NonEmpty : mine[p].pend /\ mine[p].idx <= h /\ h < next =>
                mine[p].ids[h] # {}
        /\ \A j \in Recorded(mine[p]) : state[j] \in Terminal
    BY EndedFacts DEF JudgeGroup
  <1>4. \/ EndRun(p, r, "FAILED", mine[p].idx) \/ EndRun(p, r, "CANCELLED", mine[p].idx)
        \/ EndRun(p, r, "COMPLETED", next)
        \/ Save(r, [mine[p] EXCEPT !.idx = next]) /\ Ends(p)
    BY DEF JudgeGroup
  <1> HIDE DEF next
  <1>5. next \in Nat /\ next \in 1 .. Groups + 1 /\ mine[p].idx <= next
    BY <1>0, <1>3, PlanAssumption
  <1>6. ASSUME NEW status \in Terminal, NEW i \in 1 .. Groups + 1, EndRun(p, r, status, i),
               i = mine[p].idx \/ (i = next /\ status # "CANCELLED")
        PROVE  RunsInv'
    <2> DEFINE e == [mine[p] EXCEPT !.status = status, !.idx = i]
    <2>1. Save(r, e) /\ Goes(p, "report", e)
      BY <1>6 DEF EndRun
    <2>2. /\ e \in Doc /\ e.ids = mine[p].ids /\ e.pend = mine[p].pend /\ e.idx = i
          /\ e.status = status
      BY <1>0 DEF Doc
    <2> HIDE DEF e
    <2>3. Recorded(e) = Recorded(mine[p])
      BY <2>2 DEF Recorded
    <2>4. Sound(e, state, cancelReq)
      <3>1. CASE i = mine[p].idx
        BY <1>0, <1>3, <2>2, <2>3, <3>1 DEF Sound
      <3>2. CASE i = next /\ status # "CANCELLED"
        BY <1>0, <1>3, <1>5, <2>2, <3>2, SoundAdvance
      <3> QED BY <1>6, <3>1, <3>2
    <2>5. DocsOk'
      BY <1>0, <1>1, <2>1, <2>2, <2>4, SaveKeeps
    <2>6. ProcsOk'
      BY <1>0, <1>1, <2>1, <2>2, <2>4, GoesKeeps DEF Labels, FinalLabel, StartLabel, Live
    <2> QED BY <1>1, <2>5, <2>6 DEF RunsInv
  <1>7. CASE Save(r, [mine[p] EXCEPT !.idx = next]) /\ Ends(p)
    <2> DEFINE e == [mine[p] EXCEPT !.idx = next]
    <2>1. Save(r, e) /\ Ends(p)
      BY <1>7
    <2>2. /\ e \in Doc /\ e.ids = mine[p].ids /\ e.pend = mine[p].pend /\ e.idx = next
          /\ e.status = "RUNNING"
      BY <1>0, <1>2, <1>5 DEF Doc
    <2> HIDE DEF e
    <2>3. Sound(e, state, cancelReq)
      BY <1>0, <1>3, <1>5, <2>2, SoundAdvance
    <2>4. DocsOk' /\ ProcsOk'
      BY <1>0, <1>1, <2>1, <2>2, <2>3, SaveKeeps, EndsKeeps
    <2> QED BY <1>1, <2>4 DEF RunsInv
  <1> QED BY <1>0, <1>4, <1>5, <1>6, <1>7 DEF Terminal
-----------------------------------------------------------------------------
(* The finalisation.                                                       *)

LEMMA ReportKeeps ==
    ASSUME RunsInv, NEW p \in Procs, NEW r \in on[p], Report(p, r)
    PROVE  RunsInv'
  <1> DEFINE e == [mine[p] EXCEPT !.report = TRUE]
  <1>0. r \in Runs /\ mine[p] \in Doc /\ Sound(mine[p], state, cancelReq)
    BY CopyFacts
  <1>1. JobsOk' /\ Later /\ state' = state /\ cancelReq' = cancelReq
    BY JobsKept DEF Report, jobVars
  <1>2. LogsOk' /\ BoundsOk'
    BY <1>0 DEF Report, RunsInv, LogsOk, BoundsOk, bounds
  <1>3. CASE mine[p].report
    <2>1. Goes(p, "teardown", mine[p]) /\ UNCHANGED docVars
      BY <1>3 DEF Report
    <2>2. DocsOk' /\ ProcsOk'
      BY <1>0, <1>1, <2>1, DocsKept, GoesKeeps DEF Labels, FinalLabel, StartLabel, Live
    <2> QED BY <1>1, <1>2, <2>2 DEF RunsInv
  <1>4. CASE ~mine[p].report
    <2>1. Goes(p, "teardown", e) /\ Save(r, e)
      BY <1>4 DEF Report
    <2>2. /\ e \in Doc /\ e.ids = mine[p].ids /\ e.pend = mine[p].pend /\ e.idx = mine[p].idx
          /\ e.status = mine[p].status
      BY <1>0 DEF Doc
    <2> HIDE DEF e
    <2>3. Sound(e, state', cancelReq')
      BY <1>0, <1>1, <2>2, SoundEdit
    <2>4. DocsOk' /\ ProcsOk'
      BY <1>0, <1>1, <2>1, <2>2, <2>3, SaveKeeps, GoesKeeps
         DEF Labels, FinalLabel, StartLabel, Live
    <2> QED BY <1>1, <1>2, <2>4 DEF RunsInv
  <1> QED BY <1>3, <1>4

LEMMA TearDownKeeps ==
    ASSUME RunsInv, NEW p \in Procs, NEW r \in on[p], NEW blind, TearDown(p, r, blind)
    PROVE  JobsOk' /\ Later /\ DocsOk' /\ LogsOk'
  <1>0. r \in Runs /\ mine[p] \in Doc /\ Sound(mine[p], state, cancelReq)
    BY CopyFacts
  <1>1. JobsOk' /\ Later /\ LogsOk' /\ state' = state /\ cancelReq' = cancelReq
    BY DEF TearDown, RunsInv, JobsOk, Later, LogsOk, logVars
  <1>2. PICK torn \in {"completed", "partial", "failed"} : Save(r, [mine[p] EXCEPT !.torn = torn])
    BY DEF TearDown, Torn
  <1> DEFINE e == [mine[p] EXCEPT !.torn = torn]
  <1>3. /\ e \in Doc /\ e.ids = mine[p].ids /\ e.pend = mine[p].pend /\ e.idx = mine[p].idx
        /\ e.status = mine[p].status
    BY <1>0 DEF Doc
  <1>4. Save(r, e)
    BY <1>2
  <1> HIDE DEF e
  <1>5. Sound(e, state', cancelReq')
    BY <1>0, <1>1, <1>3, SoundEdit
  <1> QED BY <1>0, <1>1, <1>3, <1>4, <1>5, SaveKeeps

LEMMA AssureGoes ==
    ASSUME RunsInv, Later, NEW p \in Procs, Goes(p, "assure", mine[p])
    PROVE  ProcsOk'
  <1>1. mine[p] \in Doc /\ Sound(mine[p], state, cancelReq)
    BY DEF RunsInv, ProcsOk
  <1> QED BY <1>1, SoundStays, GoesKeeps DEF Labels, FinalLabel, StartLabel, Live

LEMMA TeardownsKeep ==
    ASSUME RunsInv, NEW p \in Procs, NEW r \in on[p],
           AutoTear(p, r) \/ AutoTearBlind(p, r) \/ Teardown(p, r)
    PROVE  RunsInv'
  <1>1. PICK blind \in SUBSET Recorded(mine[p]) : TearDown(p, r, blind)
    BY DEF AutoTear, AutoTearBlind, Teardown
  <1>2. JobsOk' /\ Later /\ DocsOk' /\ LogsOk'
    BY <1>1, TearDownKeeps
  <1>3. BoundsOk'
    BY RaisesKeeps DEF AutoTear, AutoTearBlind, Teardown, RunsInv, BoundsOk, bounds
  <1>4. ProcsOk'
    BY <1>2, AssureGoes, EndsKeeps DEF AutoTear, AutoTearBlind, Teardown
  <1> QED BY <1>2, <1>3, <1>4 DEF RunsInv

LEMMA NoTeardownKeeps ==
    ASSUME RunsInv, NEW p \in Procs, AutoTearRaises(p) \/ NoTeardown(p)
    PROVE  RunsInv'
  <1>1. JobsOk' /\ Later /\ DocsOk'
    BY JobsKept, DocsKept DEF AutoTearRaises, NoTeardown
  <1>2. LogsOk' /\ BoundsOk'
    BY RaisesKeeps DEF AutoTearRaises, NoTeardown, RunsInv, LogsOk, BoundsOk, logVars, bounds
  <1>3. ProcsOk'
    BY <1>1, AssureGoes DEF AutoTearRaises, NoTeardown
  <1> QED BY <1>1, <1>2, <1>3 DEF RunsInv

LEMMA RereadKeeps ==
    ASSUME RunsInv, NEW p \in Procs, NEW r \in on[p], AssureRead(p, r) \/ Notify(p, r)
    PROVE  RunsInv'
  <1>1. JobsOk' /\ Later /\ DocsOk'
    BY JobsKept, DocsKept DEF AssureRead, Notify
  <1>2. r \in Runs /\ doc[r] \in Doc /\ Sound(doc[r], state, cancelReq)
    BY CopyFacts DEF RunsInv, DocsOk
  <1>3. LogsOk' /\ BoundsOk'
    BY <1>2 DEF AssureRead, Notify, RunsInv, LogsOk, BoundsOk, logVars, bounds
  <1>4. \E l \in {"notify", "verdict", "sent"} : Goes(p, l, doc[r])
    BY DEF AssureRead, Notify
  <1>5. ProcsOk'
    BY <1>1, <1>2, <1>4, SoundStays, GoesKeeps DEF Labels, FinalLabel, StartLabel, Live
  <1> QED BY <1>1, <1>3, <1>5 DEF RunsInv

LEMMA AssureSaveKeeps ==
    ASSUME RunsInv, NEW p \in Procs, NEW r \in on[p], AssureSave(p, r)
    PROVE  RunsInv'
  <1> DEFINE e == [mine[p] EXCEPT !.evaluated = TRUE, !.verdict = Verdict(mine[p])]
  <1>0. r \in Runs /\ mine[p] \in Doc /\ Sound(mine[p], state, cancelReq)
    BY CopyFacts
  <1>1. JobsOk' /\ Later /\ LogsOk' /\ BoundsOk' /\ state' = state /\ cancelReq' = cancelReq
    BY JobsKept, LogsKept DEF AssureSave, jobVars
  <1>2. Save(r, e) /\ Goes(p, "notify", mine[p])
    BY DEF AssureSave
  <1>3. Verdict(mine[p]) \in {"", "ASSURED", "FAILED"}
    BY DEF Verdict
  <1>4. /\ e \in Doc /\ e.ids = mine[p].ids /\ e.pend = mine[p].pend /\ e.idx = mine[p].idx
        /\ e.status = mine[p].status
    BY <1>0, <1>3 DEF Doc
  <1> HIDE DEF e
  <1>5. Sound(e, state', cancelReq')
    BY <1>0, <1>1, <1>4, SoundEdit
  <1>6. DocsOk' /\ ProcsOk'
    BY <1>0, <1>1, <1>2, <1>4, <1>5, SaveKeeps, GoesKeeps DEF Labels, FinalLabel, StartLabel, Live
  <1> QED BY <1>1, <1>6 DEF RunsInv

LEMMA NotifiedKeeps ==
    ASSUME RunsInv, NEW p \in Procs, NEW r \in on[p], AlreadyNotified(p, r) \/ NotifySave(p, r)
    PROVE  RunsInv'
  <1> DEFINE e == [mine[p] EXCEPT !.notified = TRUE]
  <1>0. r \in Runs /\ mine[p] \in Doc /\ Sound(mine[p], state, cancelReq)
    BY CopyFacts
  <1>1. JobsOk' /\ Later /\ LogsOk' /\ BoundsOk' /\ state' = state /\ cancelReq' = cancelReq
    BY JobsKept, LogsKept DEF AlreadyNotified, NotifySave, jobVars
  <1>2. ProcsOk' /\ (Save(r, e) \/ UNCHANGED docVars)
    BY <1>1, EndsKeeps DEF AlreadyNotified, NotifySave
  <1>3. /\ e \in Doc /\ e.ids = mine[p].ids /\ e.pend = mine[p].pend /\ e.idx = mine[p].idx
        /\ e.status = mine[p].status
    BY <1>0 DEF Doc
  <1> HIDE DEF e
  <1>4. Sound(e, state', cancelReq')
    BY <1>0, <1>1, <1>3, SoundEdit
  <1>5. DocsOk'
    BY <1>0, <1>1, <1>2, <1>3, <1>4, SaveKeeps, DocsKept
  <1> QED BY <1>1, <1>2, <1>5 DEF RunsInv
-----------------------------------------------------------------------------
(* The requests and the jobs.                                              *)

LEMMA RequestKeeps ==
    ASSUME RunsInv, NEW p \in Procs, NEW r \in Runs, CancelRead(p, r) \/ TeardownRead(p, r)
    PROVE  RunsInv'
  <1>1. JobsOk' /\ Later /\ DocsOk' /\ state' = state /\ cancelReq' = cancelReq
    BY JobsKept, DocsKept DEF CancelRead, TeardownRead, jobVars
  <1>2. LogsOk' /\ BoundsOk'
    BY DEF CancelRead, TeardownRead, RunsInv, LogsOk, BoundsOk, logVars
  <1>3. /\ doc[r] \in Doc /\ Sound(doc[r], state, cancelReq) /\ {r} \in SUBSET Runs
        /\ todo[p] \in SUBSET (Runs \cup Job) /\ InHand(p)
        /\ seen[p] \in SUBSET (Job \X {"PENDING", "RESTORING"})
    BY DEF RunsInv, DocsOk, ProcsOk
  <1>4. on' = [on EXCEPT ![p] = {r}] /\ mine' = [mine EXCEPT ![p] = doc[r]]
        /\ seen' = [seen EXCEPT ![p] = seen[p]]
    BY DEF CancelRead, TeardownRead, RunsInv, ProcsOk
  <1>5. on'[p] = {r} /\ mine'[p] = doc[r] /\ seen'[p] = seen[p]
    BY <1>4 DEF RunsInv, ProcsOk
  <1>6. CASE CancelRead(p, r)
    <2>1. /\ at' = [at EXCEPT ![p] = "cancel"] /\ todo' = [todo EXCEPT ![p] = Recorded(doc[r])]
          /\ doc[r].status = "RUNNING"
      BY <1>6 DEF CancelRead
    <2>2. at'[p] = "cancel" /\ todo'[p] = Recorded(doc[r])
      BY <2>1 DEF RunsInv, ProcsOk
    <2>3. Recorded(mine[p])' = Recorded(doc[r])
      BY <1>5 DEF Recorded
    <2>4. InHand(p)'
      BY <1>1, <1>3, <1>5, <2>1, <2>2, <2>3 DEF InHand, StartLabel
    <2>5. Recorded(doc[r]) \in SUBSET (Runs \cup Job)
      BY <1>3, RecordedAreJobs
    <2>6. ProcsOk'
      BY <1>1, <1>3, <1>4, <2>1, <2>4, <2>5, ActorKeeps DEF Labels
    <2> QED BY <1>1, <1>2, <2>6 DEF RunsInv
  <1>7. CASE TeardownRead(p, r)
    <2>1. at' = [at EXCEPT ![p] = "destroy"] /\ todo' = [todo EXCEPT ![p] = todo[p]]
      BY <1>7 DEF TeardownRead, RunsInv, ProcsOk
    <2>2. at'[p] = "destroy"
      BY <2>1 DEF RunsInv, ProcsOk
    <2>3. InHand(p)'
      BY <1>1, <1>3, <1>5, <2>2 DEF InHand, StartLabel, Live
    <2>4. ProcsOk'
      BY <1>1, <1>3, <1>4, <2>1, <2>3, ActorKeeps DEF Labels
    <2> QED BY <1>1, <1>2, <2>4 DEF RunsInv
  <1> QED BY <1>6, <1>7

LEMMA CancelLookKeeps ==
    ASSUME RunsInv, NEW p \in Procs, NEW j \in Job, CancelLook(p, j)
    PROVE  RunsInv'
  <1>1. JobsOk' /\ Later /\ DocsOk' /\ LogsOk' /\ BoundsOk' /\ state' = state
        /\ cancelReq' = cancelReq
    BY JobsKept, DocsKept, LogsKept DEF CancelLook, jobVars
  <1>2. /\ on[p] \in SUBSET Runs /\ mine[p] \in Doc /\ Sound(mine[p], state, cancelReq)
        /\ todo[p] \ {j} \in SUBSET (Runs \cup Job) /\ InHand(p)
        /\ seen[p] \in SUBSET (Job \X {"PENDING", "RESTORING"})
    BY DEF RunsInv, ProcsOk
  <1>3. /\ at[p] = "cancel" /\ j \in todo[p] /\ todo' = [todo EXCEPT ![p] = todo[p] \ {j}]
        /\ on' = [on EXCEPT ![p] = on[p]] /\ mine' = [mine EXCEPT ![p] = mine[p]]
    BY DEF CancelLook, RunsInv, ProcsOk
  <1>4. on'[p] = on[p] /\ mine'[p] = mine[p] /\ todo'[p] = todo[p] \ {j}
    BY <1>3 DEF RunsInv, ProcsOk
  <1>5. state[j] \in {"PENDING", "RESTORING"} \cup Terminal
    <2>1. j \in Recorded(mine[p])
      BY <1>2, <1>3 DEF InHand
    <2>2. state[j] # "NONE"
      BY <1>2, <2>1 DEF Sound
    <2> QED BY <2>2 DEF RunsInv, JobsOk
  <1>6. Recorded(mine[p])' = Recorded(mine[p])
    BY <1>4 DEF Recorded
  <1>7. CASE state[j] \in Terminal
    <2>1. at' = [at EXCEPT ![p] = at[p]] /\ seen' = [seen EXCEPT ![p] = seen[p]]
      BY <1>7 DEF CancelLook, RunsInv, ProcsOk
    <2>2. at'[p] = "cancel" /\ seen'[p] = seen[p]
      BY <1>3, <2>1 DEF RunsInv, ProcsOk
    <2>3. InHand(p)'
      BY <1>1, <1>2, <1>3, <1>4, <1>6, <1>7, <2>2 DEF InHand, StartLabel, Live
    <2>4. ProcsOk'
      BY <1>1, <1>2, <1>3, <2>1, <2>3, ActorKeeps DEF Labels
    <2> QED BY <1>1, <2>4 DEF RunsInv
  <1>8. CASE state[j] \notin Terminal
    <2>1. /\ at' = [at EXCEPT ![p] = "mark"] /\ seen' = [seen EXCEPT ![p] = {<<j, state[j]>>}]
          /\ {<<j, state[j]>>} \in SUBSET (Job \X {"PENDING", "RESTORING"})
      BY <1>5, <1>8 DEF CancelLook
    <2>2. at'[p] = "mark" /\ seen'[p] = {<<j, state[j]>>} /\ state[j] # "NONE"
      BY <1>5, <2>1 DEF RunsInv, ProcsOk, Terminal
    <2>3. InHand(p)'
      BY <1>1, <1>2, <1>3, <1>4, <1>6, <2>2 DEF InHand, StartLabel, Live
    <2>4. ProcsOk'
      BY <1>1, <1>2, <1>3, <2>1, <2>3, ActorKeeps DEF Labels
    <2> QED BY <1>1, <2>4 DEF RunsInv
  <1> QED BY <1>7, <1>8

LEMMA CancelMarkKeeps ==
    ASSUME RunsInv, NEW p \in Procs, CancelMark(p)
    PROVE  RunsInv'
  <1>1. PICK e \in seen[p] :
          /\ cancelReq' = cancelReq \cup {e[1]}
          /\ state' = IF e[2] = "PENDING" THEN [state EXCEPT ![e[1]] = "CANCELLED"] ELSE state
    BY DEF CancelMark
  <1>2. /\ on[p] \in SUBSET Runs /\ mine[p] \in Doc /\ Sound(mine[p], state, cancelReq)
        /\ todo[p] \in SUBSET (Runs \cup Job) /\ InHand(p)
        /\ seen[p] \in SUBSET (Job \X {"PENDING", "RESTORING"})
    BY DEF RunsInv, ProcsOk
  <1>3. e[1] \in Job /\ at[p] = "mark" /\ seen[p] = {e}
    BY <1>1, <1>2 DEF InHand, CancelMark
  <1>4. JobsOk' /\ Later
    BY <1>1, <1>3 DEF CancelMark, RunsInv, JobsOk, Later, Terminal
  <1>5. DocsOk' /\ LogsOk' /\ BoundsOk'
    BY <1>4, DocsKept, LogsKept DEF CancelMark
  <1>6. /\ at' = [at EXCEPT ![p] = "cancel"] /\ seen' = [seen EXCEPT ![p] = {}]
        /\ on' = [on EXCEPT ![p] = on[p]] /\ mine' = [mine EXCEPT ![p] = mine[p]]
        /\ todo' = [todo EXCEPT ![p] = todo[p]]
    BY DEF CancelMark, RunsInv, ProcsOk
  <1>7. /\ at'[p] = "cancel" /\ seen'[p] = {} /\ on'[p] = on[p] /\ mine'[p] = mine[p]
        /\ todo'[p] = todo[p]
    BY <1>6 DEF RunsInv, ProcsOk
  <1>8. Recorded(mine[p])' = Recorded(mine[p]) /\ Recorded(mine[p]) \subseteq Job
    BY <1>2, <1>7, RecordedAreJobs DEF Recorded
  <1>9. \A j \in Recorded(mine[p]) : j \in todo[p] \/ state'[j] \in Terminal \/ j \in cancelReq'
    BY <1>1, <1>2, <1>3, <1>4, <1>8 DEF InHand, Later
  <1>10. InHand(p)'
    BY <1>2, <1>3, <1>7, <1>8, <1>9 DEF InHand, StartLabel, Live
  <1>11. ProcsOk'
    BY <1>2, <1>4, <1>6, <1>10, SoundStays, ActorKeeps DEF Labels
  <1> QED BY <1>4, <1>5, <1>11 DEF RunsInv

LEMMA CancelSaveKeeps ==
    ASSUME RunsInv, NEW p \in Procs, NEW r \in on[p], CancelSave(p, r)
    PROVE  RunsInv'
  <1> DEFINE e == [mine[p] EXCEPT !.status = "CANCELLED", !.pend = FALSE]
  <1>0. r \in Runs /\ mine[p] \in Doc /\ Sound(mine[p], state, cancelReq) /\ InHand(p)
    BY CopyFacts
  <1>1. JobsOk' /\ Later /\ LogsOk' /\ BoundsOk' /\ state' = state /\ cancelReq' = cancelReq
    BY JobsKept, LogsKept DEF CancelSave, jobVars
  <1>2. Save(r, e) /\ Goes(p, "report", e) /\ at[p] = "cancel" /\ todo[p] = {}
    BY DEF CancelSave
  <1>3. /\ e \in Doc /\ e.ids = mine[p].ids /\ e.pend = FALSE /\ e.idx = mine[p].idx
    BY <1>0 DEF Doc, Terminal
  <1> HIDE DEF e
  <1>4. \A j \in Recorded(mine[p]) : state[j] \in Terminal \/ j \in cancelReq
    BY <1>0, <1>2 DEF InHand
  <1>5. Recorded(e) = Recorded(mine[p])
    BY <1>3 DEF Recorded
  <1>6. Sound(e, state', cancelReq')
    BY <1>0, <1>1, <1>3, <1>4, <1>5 DEF Sound
  <1>7. DocsOk' /\ ProcsOk'
    BY <1>0, <1>1, <1>2, <1>3, <1>6, SaveKeeps, GoesKeeps DEF Labels, FinalLabel, StartLabel, Live
  <1> QED BY <1>1, <1>7 DEF RunsInv

LEMMA JobKeeps ==
    ASSUME RunsInv, NEW j \in Job, JobWorks(j) \/ StopJob(j)
    PROVE  RunsInv'
  <1>1. JobsOk' /\ Later
    <2>1. CASE JobStart(j)
      BY <2>1 DEF JobStart, RunsInv, JobsOk, Later, Terminal
    <2>2. CASE JobSubmit(j) \/ \E result \in {"there", "gone"} : TaskEnds(j, result)
      BY <2>2 DEF JobSubmit, TaskEnds, RunsInv, JobsOk, Later
    <2>3. ASSUME NEW s \in Terminal, JobEnds(j, s) PROVE JobsOk' /\ Later
      BY <2>3 DEF JobEnds, RunsInv, JobsOk, Later, Terminal
    <2>4. CASE StopJob(j)
      BY <2>4 DEF StopJob, RunsInv, JobsOk, Later, Terminal
    <2> QED BY <2>1, <2>2, <2>3, <2>4 DEF JobWorks
  <1>2. UNCHANGED <<docVars, procVars, logVars, bounds>>
    BY DEF JobWorks, JobStart, JobSubmit, TaskEnds, JobEnds, StopJob, otherVars
  <1>3. DocsOk' /\ ProcsOk' /\ LogsOk' /\ BoundsOk'
    BY <1>1, <1>2, DocsKept, ProcsKept, LogsKept
  <1> QED BY <1>1, <1>3 DEF RunsInv
-----------------------------------------------------------------------------
(* The invariant holds, and what follows from it.                          *)

LEMMA RunsInvInitially == Init => RunsInv
  <1> SUFFICES ASSUME Init PROVE RunsInv
    OBVIOUS
  <1>1. JobsOk /\ LogsOk /\ BoundsOk
    BY DEF Init, JobsOk, LogsOk, BoundsOk
  <1>2. DocsOk
    BY NoDocIsSound DEF Init, DocsOk
  <1>3. ASSUME NEW p \in Procs PROVE Sound(mine[p], state, cancelReq) /\ InHand(p)
    <2>1. at[p] = "idle" /\ on[p] = {} /\ seen[p] = {} /\ mine[p] = NoDoc
      BY DEF Init
    <2> QED BY <2>1, NoDocIsSound DEF InHand, StartLabel, Live
  <1>4. ProcsOk
    BY <1>3, NoDocIsSound DEF Init, ProcsOk, Labels
  <1> QED BY <1>1, <1>2, <1>4 DEF RunsInv

LEMMA RunsInvKept == RunsInv /\ [Next]_vars => RunsInv'
  <1> SUFFICES ASSUME RunsInv, [Next]_vars PROVE RunsInv'
    OBVIOUS
  <1>1. ASSUME NEW p \in Procs, NEW r \in on[p], WorksOn(p, r) PROVE RunsInv'
    BY <1>1, StartEnqueueKeeps, StartSavesKeep, DropKeeps, NothingLeftKeeps, EnqueueGroupKeeps,
       RecordGroupKeeps, JudgeGroupKeeps, ReportKeeps, TeardownsKeep, RereadKeeps,
       AssureSaveKeeps, NotifiedKeeps, CancelSaveKeeps DEF WorksOn
  <1>2. ASSUME NEW p \in Procs, Proceeds(p) PROVE RunsInv'
    BY <1>1, <1>2, TakeRunKeeps, StillRunningKeeps, NoTeardownKeeps, CancelMarkKeeps,
       CancelLookKeeps DEF Proceeds
  <1>3. ASSUME NEW p \in Procs, NEW r \in on[p], AutoTearBlind(p, r) PROVE RunsInv'
    BY <1>3, TeardownsKeep
  <1>4. ASSUME NEW p \in Procs, NEW r \in Runs,
               StartShell(p, r) \/ CancelRead(p, r) \/ TeardownRead(p, r)
        PROVE  RunsInv'
    BY <1>4, StartShellKeeps, RequestKeeps
  <1>5. ASSUME NEW p \in Procs,
               Tick(p) \/ StartRaises(p) \/ EnqueueRaises(p) \/ AutoTearRaises(p) \/ Crash(p)
        PROVE  RunsInv'
    BY <1>5, TickKeeps, StartRaisesKeeps, EnqueueRaisesKeeps, NoTeardownKeeps, CrashKeeps
  <1>6. CASE UNCHANGED vars
    <2>1. JobsOk' /\ Later
      BY <1>6, JobsKept DEF vars
    <2>2. DocsOk' /\ ProcsOk' /\ LogsOk' /\ BoundsOk'
      BY <1>6, <2>1, DocsKept, ProcsKept, LogsKept DEF vars
    <2> QED BY <2>1, <2>2 DEF RunsInv
  <1> QED BY <1>2, <1>3, <1>4, <1>5, <1>6, JobKeeps DEF Next

\* The inductive invariant of documents, copies and jobs.
THEOREM CopiesAreSound == Spec => []RunsInv
  BY RunsInvInitially, RunsInvKept, PTL DEF Spec

\* TypeOK: every variable keeps its type.
THEOREM RunsTyped == Spec => []TypeOK
  <1>1. RunsInv => TypeOK
    BY DEF RunsInv, JobsOk, DocsOk, ProcsOk, LogsOk, BoundsOk, TypeOK
  <1> QED BY <1>1, CopiesAreSound, PTL

\* RecordedInOrder: whoever writes the document of a run, and whatever was
\* killed, recorded jobs follow recorded jobs that have all ended.
THEOREM RecordKeepsOrder == Spec => []RecordedInOrder
  <1>1. RunsInv => RecordedInOrder
    <2> SUFFICES ASSUME RunsInv, NEW r \in Runs, NEW g \in NonEmpty, NEW h \in NonEmpty,
                        g < h, doc[r].ids[h] # {}
                 PROVE  doc[r].ids[g] # {} /\ \A j \in doc[r].ids[g] : state[j] \in Terminal
      BY DEF RecordedInOrder
    <2>1. Sound(doc[r], state, cancelReq) /\ doc[r] \in Doc
      BY DEF RunsInv, DocsOk
    <2>2. doc[r].idx \in 1 .. Groups + 1
      BY <2>1 DEF Doc
    <2>3. g \in Group /\ h \in Group /\ Group \subseteq Nat /\ doc[r].idx \in Nat
      BY <2>2, PlanAssumption DEF NonEmpty, Group
    <2>4. ~(doc[r].idx < h)
      BY <2>1, <2>3 DEF Sound
    <2>5. g < doc[r].idx
      BY <2>3, <2>4
    <2> QED BY <2>1, <2>3, <2>5 DEF Sound
  <1> QED BY <1>1, CopiesAreSound, PTL

\* CancelReaches: every job on the document of a CANCELLED run has ended or is
\* asked to, whoever saved the document.
THEOREM CancelsReach == Spec => []CancelReaches
  <1>1. RunsInv => CancelReaches
    BY DEF RunsInv, DocsOk, Sound, CancelReaches
  <1> QED BY <1>1, CopiesAreSound, PTL

\* Jobs are created by a process that works on a copy that says RUNNING.
LEMMA CreatedBy ==
    ASSUME RunsInv, [Next]_vars, NEW j \in Job, state[j] = "NONE", state'[j] # "NONE"
    PROVE  \E p \in Procs : \E r \in on[p] : j[1] = r /\ at[p] \in Live
  <1>0. state' # state
    OBVIOUS
  <1>1. ASSUME NEW p \in Procs, NEW r \in on[p], WorksOn(p, r)
        PROVE  j[1] = r /\ at[p] \in Live
    <2>0. r \in Runs /\ InHand(p) /\ mine[p].idx \in 1 .. Groups + 1
      BY CopyFacts
    <2>1. CASE StartEnqueue(p, r)
      <3>1. at[p] \in StartLabel /\ at[p] \in Live
        BY <2>1 DEF StartEnqueue, StartLabel, Live
      <3>2. mine[p].idx \in Group
        BY <2>0, <3>1, OpeningIsLeast DEF InHand, NonEmpty
      <3>3. Unused(r, mine[p].idx) # {} /\ Enqueue(NextJobs(r, mine[p].idx))
        BY <2>1 DEF StartEnqueue
      <3>4. j \in NextJobs(r, mine[p].idx)
        BY <3>3 DEF Enqueue
      <3> QED BY <2>0, <3>1, <3>2, <3>3, <3>4, NextJobsAreNew
    <2>2. CASE EnqueueGroup(p, r)
      <3>1. /\ Current(p) \in Group /\ Unused(r, Current(p)) # {} /\ at[p] = "judge"
            /\ Enqueue(NextJobs(r, Current(p)))
        BY <2>2 DEF EnqueueGroup
      <3>2. j \in NextJobs(r, Current(p))
        BY <3>1 DEF Enqueue
      <3> QED BY <2>0, <3>1, <3>2, NextJobsAreNew DEF Live
    <2>3. CASE UNCHANGED state
      BY <1>0, <2>3
    <2> QED BY <1>1, <2>1, <2>2, <2>3
          DEF WorksOn, StartSaveIds, StartStash, Drop, NothingLeft, RecordGroup, JudgeGroup, Report,
          AutoTear, AssureRead, AssureSave, Notify, AlreadyNotified, NotifySave, CancelSave,
          Teardown, TearDown, jobVars
  <1>2. ASSUME NEW p \in Procs, CancelMark(p) PROVE FALSE
    <2>1. PICK e \in seen[p] :
            state' = IF e[2] = "PENDING" THEN [state EXCEPT ![e[1]] = "CANCELLED"] ELSE state
      BY <1>2 DEF CancelMark
    <2>2. e[1] # j
      BY <2>1 DEF RunsInv, ProcsOk, InHand
    <2> QED BY <2>1, <2>2 DEF RunsInv, JobsOk
  <1>3. ASSUME NEW i \in Job, JobWorks(i) \/ StopJob(i) PROVE FALSE
    <2>1. CASE JobStart(i) \/ StopJob(i)
      BY <2>1 DEF JobStart, StopJob, RunsInv, JobsOk
    <2>2. ASSUME NEW s \in Terminal, JobEnds(i, s) PROVE FALSE
      BY <2>2 DEF JobEnds, RunsInv, JobsOk
    <2> QED BY <1>0, <1>3, <2>1, <2>2 DEF JobWorks, JobSubmit, TaskEnds
  <1>4. ASSUME NEW p \in Procs, NEW r \in on[p], AutoTearBlind(p, r) PROVE FALSE
    BY <1>0, <1>4 DEF AutoTearBlind, TearDown
  <1>5. CASE UNCHANGED state
    BY <1>0, <1>5
  <1>6. ASSUME NEW p \in Procs, Proceeds(p), ~\E r \in on[p] : WorksOn(p, r), ~CancelMark(p)
        PROVE  UNCHANGED state
    BY <1>6 DEF Proceeds, TakeRun, StillRunning, NoTeardown, CancelLook, jobVars
  <1> QED BY <1>1, <1>2, <1>3, <1>4, <1>5, <1>6
        DEF Next, Tick, StartRaises, EnqueueRaises, AutoTearRaises, Crash, StartShell, CancelRead,
        TeardownRead, jobVars, vars

\* A job that exists stays.
LEMMA JobsStay ==
    ASSUME RunsInv, [Next]_vars, NEW j \in Job, state[j] # "NONE"
    PROVE  state'[j] # "NONE"
  <1>1. ASSUME NEW new, Enqueue(new) PROVE state'[j] # "NONE"
    BY <1>1 DEF Enqueue
  <1>2. ASSUME NEW p \in Procs, NEW r \in on[p], WorksOn(p, r) PROVE state'[j] # "NONE"
    <2>1. CASE StartEnqueue(p, r) \/ EnqueueGroup(p, r)
      BY <1>1, <2>1 DEF StartEnqueue, EnqueueGroup
    <2>2. CASE UNCHANGED state
      BY <2>2
    <2> QED BY <1>2, <2>1, <2>2
          DEF WorksOn, StartSaveIds, StartStash, Drop, NothingLeft, RecordGroup, JudgeGroup, Report,
          AutoTear, AssureRead, AssureSave, Notify, AlreadyNotified, NotifySave, CancelSave,
          Teardown, TearDown, jobVars
  <1>3. ASSUME NEW p \in Procs, CancelMark(p) PROVE state'[j] # "NONE"
    <2>1. PICK e \in seen[p] :
            state' = IF e[2] = "PENDING" THEN [state EXCEPT ![e[1]] = "CANCELLED"] ELSE state
      BY <1>3 DEF CancelMark
    <2> QED BY <2>1 DEF RunsInv, JobsOk
  <1>4. ASSUME NEW i \in Job, JobWorks(i) \/ StopJob(i) PROVE state'[j] # "NONE"
    <2>1. CASE JobStart(i) \/ StopJob(i)
      BY <2>1 DEF JobStart, StopJob, RunsInv, JobsOk
    <2>2. ASSUME NEW s \in Terminal, JobEnds(i, s) PROVE state'[j] # "NONE"
      BY <2>2 DEF JobEnds, RunsInv, JobsOk, Terminal
    <2>3. CASE UNCHANGED state
      BY <2>3
    <2> QED BY <1>4, <2>1, <2>2, <2>3 DEF JobWorks, JobSubmit, TaskEnds
  <1>5. ASSUME NEW p \in Procs, NEW r \in on[p], AutoTearBlind(p, r) PROVE UNCHANGED state
    BY <1>5 DEF AutoTearBlind, TearDown
  <1>6. ASSUME NEW p \in Procs, Proceeds(p), ~\E r \in on[p] : WorksOn(p, r), ~CancelMark(p)
        PROVE  UNCHANGED state
    BY <1>6 DEF Proceeds, TakeRun, StillRunning, NoTeardown, CancelLook, jobVars
  <1>7. CASE UNCHANGED state
    BY <1>7
  <1> QED BY <1>2, <1>3, <1>4, <1>5, <1>6, <1>7
        DEF Next, Tick, StartRaises, EnqueueRaises, AutoTearRaises, Crash, StartShell, CancelRead,
        TeardownRead, jobVars, vars

\* A teardown saves a copy that keeps its status.
LEMMA TornIsSaved ==
    ASSUME NEW p, NEW r, NEW blind, mine[p] \in Doc, TearDown(p, r, blind)
    PROVE  \E d : Save(r, d) /\ d.status = mine[p].status
  <1>1. PICK t : Save(r, [mine[p] EXCEPT !.torn = t])
    BY DEF TearDown
  <1>2. [mine[p] EXCEPT !.torn = t].status = mine[p].status
    BY DEF Doc
  <1> QED BY <1>1, <1>2

\* A status that has been saved is changed by a process that works on the run:
\* its copy said RUNNING when it began, or says something else than Redis.
LEMMA OutcomeChangedBy ==
    ASSUME RunsInv, [Next]_vars, NEW r \in Runs, doc[r].status # "NONE",
           doc'[r].status # doc[r].status
    PROVE  \E p \in Procs : /\ r \in on[p]
                            /\ at[p] \in Live \/ mine[p].status # doc[r].status
  <1>0. doc' # doc /\ doc \in [Runs -> Doc]
    BY DEF RunsInv, DocsOk
  <1>1. ASSUME NEW q \in Runs, NEW d, Save(q, d) PROVE q = r /\ doc'[r] = d
    BY <1>0, <1>1 DEF Save
  <1>2. ASSUME NEW p \in Procs, NEW q \in on[p], WorksOn(p, q)
        PROVE  q = r /\ (at[p] \in Live \/ mine[p].status # doc[r].status)
    <2>0. q \in Runs /\ mine[p] \in Doc
      BY CopyFacts
    <2>1. CASE \/ StartSaveIds(p, q) \/ StartStash(p, q) \/ NothingLeft(p, q)
               \/ RecordGroup(p, q) \/ JudgeGroup(p, q) \/ CancelSave(p, q)
      <3>1. at[p] \in Live
        BY <2>1 DEF StartSaveIds, StartStash, NothingLeft, RecordGroup, JudgeGroup, CancelSave,
                    Live, StartLabel
      <3>2. \E d : Save(q, d)
        BY <1>0, <2>1 DEF StartSaveIds, StartStash, NothingLeft, RecordGroup, JudgeGroup,
                          CancelSave, EndRun
      <3> QED BY <1>1, <2>0, <3>1, <3>2
    <2>2. CASE \/ Report(p, q) \/ AutoTear(p, q) \/ Teardown(p, q)
               \/ AssureSave(p, q) \/ NotifySave(p, q)
      <3>1. PICK d : Save(q, d) /\ d.status = mine[p].status
        <4>1. CASE Report(p, q)
          <5> DEFINE e == [mine[p] EXCEPT !.report = TRUE]
          <5>1. Save(q, e)
            BY <1>0, <4>1 DEF Report, docVars
          <5>2. e.status = mine[p].status
            BY <2>0 DEF Doc
          <5> HIDE DEF e
          <5> QED BY <5>1, <5>2
        <4>2. CASE AutoTear(p, q) \/ Teardown(p, q)
          <5>1. TearDown(p, q, {})
            BY <4>2 DEF AutoTear, Teardown
          <5> QED BY <5>1, <2>0, TornIsSaved
        <4>3. CASE AssureSave(p, q)
          <5> DEFINE e == [mine[p] EXCEPT !.evaluated = TRUE, !.verdict = Verdict(mine[p])]
          <5>1. Save(q, e)
            BY <4>3 DEF AssureSave
          <5>2. e.status = mine[p].status
            BY <2>0 DEF Doc
          <5> HIDE DEF e
          <5> QED BY <5>1, <5>2
        <4>4. CASE NotifySave(p, q)
          <5> DEFINE e == [mine[p] EXCEPT !.notified = TRUE]
          <5>1. Save(q, e)
            BY <4>4 DEF NotifySave
          <5>2. e.status = mine[p].status
            BY <2>0 DEF Doc
          <5> HIDE DEF e
          <5> QED BY <5>1, <5>2
        <4> QED BY <2>2, <4>1, <4>2, <4>3, <4>4
      <3>2. q = r /\ doc'[r] = d
        BY <1>1, <2>0, <3>1
      <3> QED BY <3>1, <3>2
    <2> QED BY <1>0, <1>2, <2>1, <2>2
          DEF WorksOn, StartEnqueue, Drop, EnqueueGroup, AssureRead, Notify, AlreadyNotified, docVars
  <1>3. ASSUME NEW p \in Procs, NEW q \in on[p], AutoTearBlind(p, q)
        PROVE  q = r /\ mine[p].status # doc[r].status
    <2>0. q \in Runs /\ mine[p] \in Doc
      BY CopyFacts
    <2>1. PICK d : Save(q, d) /\ d.status = mine[p].status
      BY <1>3, <2>0, TornIsSaved DEF AutoTearBlind
    <2>2. q = r /\ doc'[r] = d
      BY <1>1, <2>0, <2>1
    <2> QED BY <2>1, <2>2
  <1>4. ASSUME NEW p \in Procs, NEW q \in Runs, StartShell(p, q) PROVE FALSE
    <2>1. doc[q].status = "NONE" /\ \E d : Save(q, d)
      BY <1>4 DEF StartShell
    <2> QED BY <1>1, <2>1
  <1>5. ASSUME NEW p \in Procs, Proceeds(p), ~\E q \in on[p] : WorksOn(p, q)
        PROVE  UNCHANGED doc
    BY <1>5 DEF Proceeds, TakeRun, StillRunning, NoTeardown, CancelLook, CancelMark, docVars
  <1>6. ASSUME NEW i \in Job, JobWorks(i) \/ StopJob(i) PROVE UNCHANGED doc
    BY <1>6 DEF JobWorks, JobStart, JobSubmit, TaskEnds, JobEnds, StopJob, otherVars, docVars
  <1>7. CASE UNCHANGED doc
    BY <1>0, <1>7
  <1> QED BY <1>2, <1>3, <1>4, <1>5, <1>6, <1>7
        DEF Next, Tick, StartRaises, EnqueueRaises, AutoTearRaises, Crash, CancelRead,
        TeardownRead, docVars, vars

\* OnlyStaleCopiesRevive: an outcome is changed, and a job created after it,
\* only by a process whose copy of the document is out of date.
THEOREM OnlyStaleRevive == Spec => OnlyStaleCopiesRevive
  <1> DEFINE Kept(r) ==
        doc[r].status \in Terminal /\ (\A p \in Procs : ~Stale(p, r))
        => doc'[r].status = doc[r].status /\ Created(r)' = Created(r)
  <1>1. ASSUME RunsInv, [Next]_vars, NEW r \in Runs, doc[r].status \in Terminal,
               \A p \in Procs : ~Stale(p, r)
        PROVE  doc'[r].status = doc[r].status /\ Created(r)' = Created(r)
    <2>1. doc[r].status # "RUNNING" /\ doc[r].status # "NONE"
      BY <1>1 DEF Terminal
    <2>2. ASSUME NEW p \in Procs, r \in on[p]
          PROVE  at[p] \notin Live /\ mine[p].status = doc[r].status
      <3>1. on[p] = {r} /\ InHand(p)
        BY <1>1, <2>2 DEF RunsInv, ProcsOk, InHand
      <3>2. mine[p].status = doc[r].status
        BY <1>1, <3>1 DEF Stale
      <3> QED BY <2>1, <3>1, <3>2 DEF InHand
    <2>3. doc'[r].status = doc[r].status
      BY <1>1, <2>1, <2>2, OutcomeChangedBy
    <2>4. ASSUME NEW j \in Job, j[1] = r PROVE state[j] = "NONE" <=> state'[j] = "NONE"
      BY <1>1, <2>2, <2>4, CreatedBy, JobsStay
    <2>5. Created(r)' = Created(r)
      BY <2>4 DEF Created
    <2> QED BY <2>3, <2>5
  <1>2. RunsInv /\ [Next]_vars => [\A r \in Runs : Kept(r)]_vars
    BY <1>1
  <1> QED BY <1>2, CopiesAreSound, PTL DEF Spec, OnlyStaleCopiesRevive
=================================================================================
