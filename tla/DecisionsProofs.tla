---------------------------- MODULE DecisionsProofs ----------------------------
(***************************************************************************)
(* Proofs about Decisions, for every value of the constants: what the      *)
(* gates let through does not boot outside of isolation, an assurance      *)
(* drill can pass its policy, tags are read of the right backups, a batch  *)
(* gets the lowest free VMIDs, its jobs are spread level, and a plan whose *)
(* check found no error can be run.                                        *)
(*                                                                         *)
(* A behaviour takes one decision, so an invariant follows from what each  *)
(* action decides (Founded); the lemmas state that for arbitrary inputs.   *)
(* The loops are folds, and what they compute is proved by induction over  *)
(* the places of the list (FoldInTurn, IndexInduction).                    *)
(***************************************************************************)
EXTENDS Decisions, WellFoundedInduction, FiniteSetTheorems, TLAPS

\* Every request the options of a run boot a guest for is one the gate took
\* for a run that boots, but for the drill at a location of live restores.
LEMMA RunGate ==
    ASSUME NEW loc \in Location, NEW ask \in PlanRunRequest, NEW plan \in Policy,
           RunAccepted(plan, loc, ask, TRUE), Boots(Options(loc, ask))
    PROVE  \/ IsolatedLocation(loc.isolated, loc.network) \/ ask.allow_non_isolated
           \/ /\ ask.drill /\ loc.live_restore
              /\ ask.powered_off = "no" /\ ~ask.power_on /\ ask.qga = 0
  BY DEF Location, PlanRunRequest, RunAccepted, RunWantsBoot, IsolationGate, IsolatedLocation,
         Boots, Options, PowerOn, PoweredOff, WaitFor

\* What the assurance of a plan makes of a request.
LEMMA AssureAskFields ==
    ASSUME NEW loc \in Location, NEW ask \in PlanRunRequest, NEW plan \in Policy
    PROVE  LET asked == AssureAsk(plan, loc, ask) IN
           /\ asked \in PlanRunRequest
           /\ asked.drill /\ asked.auto_teardown
           /\ asked.power_on = (plan.require_qga \/ plan.require_http)
           /\ asked.qga > 0 <=> plan.require_qga \/ plan.require_http
           /\ ~(plan.require_qga \/ plan.require_http) => asked.powered_off = "yes"
           /\ asked.allow_non_isolated = ask.allow_non_isolated
  <1> DEFINE powers == plan.require_qga \/ plan.require_http
             qga == IF ~powers THEN 0 ELSE IF loc.qga > 0 THEN loc.qga ELSE 120
             off == IF powers THEN "no" ELSE "yes"
             asked == AssureAsk(plan, loc, ask)
  <1>1. asked = [ask EXCEPT !.drill = TRUE, !.auto_teardown = TRUE, !.power_on = powers,
                            !.powered_off = off, !.qga = qga]
    BY DEF AssureAsk
  <1>2. /\ powers \in BOOLEAN /\ qga \in Nat /\ (qga > 0 <=> powers)
        /\ off \in {"yes", "no", "default"} /\ (~powers => off = "yes")
    BY DEF Location, Policy
  <1> HIDE DEF powers, qga, off, asked
  <1>3. asked \in PlanRunRequest
    BY <1>1, <1>2 DEF PlanRunRequest
  <1>4. /\ asked.drill = TRUE /\ asked.auto_teardown = TRUE /\ asked.power_on = powers
        /\ asked.powered_off = off /\ asked.qga = qga
        /\ asked.allow_non_isolated = ask.allow_non_isolated
    BY <1>1 DEF PlanRunRequest
  <1> QED BY <1>2, <1>3, <1>4 DEF asked, powers

\* The drill of a plan boots guests only if the plan requires a check, which
\* is what its gate asks for.
LEMMA AssuranceGate ==
    ASSUME NEW loc \in Location, NEW ask \in PlanRunRequest, NEW plan \in Policy,
           AssureAccepted(plan, loc, ask, TRUE), Boots(Options(loc, AssureAsk(plan, loc, ask)))
    PROVE  IsolatedLocation(loc.isolated, loc.network) \/ ask.allow_non_isolated
  <1> DEFINE asked == AssureAsk(plan, loc, ask)
  <1>1. plan.require_qga \/ plan.require_http
    <2> SUFFICES ASSUME ~(plan.require_qga \/ plan.require_http) PROVE FALSE
      OBVIOUS
    <2>1. asked \in PlanRunRequest /\ asked.drill /\ ~asked.power_on /\ ~(asked.qga > 0)
          /\ asked.powered_off = "yes"
      BY AssureAskFields
    <2>2. ~Boots(Options(loc, asked))
      <3> HIDE DEF asked
      <3> QED BY <2>1 DEF Location, PlanRunRequest, Boots, Options, PowerOn, PoweredOff, WaitFor
    <2> QED BY <2>2
  <1> QED BY <1>1 DEF AssureAccepted, IsolationGate

\* A scheduled drill takes neither a location's power_on nor its live_restore.
LEMMA ScheduledDrill ==
    ASSUME NEW loc \in Location, NEW plan \in Policy, ScheduledAsk(plan).drill
    PROVE  ~Boots(Options(loc, ScheduledAsk(plan)))
  <1> DEFINE asked == ScheduledAsk(plan)
  <1>1. asked.drill /\ ~asked.power_on /\ asked.qga = 0
        /\ asked.powered_off = "default"
    BY DEF ScheduledAsk
  <1> HIDE DEF asked
  <1>2. ~PowerOn(loc, asked) /\ WaitFor(loc, asked) = 0
    <2>1. ~(asked.qga > 0)
      BY <1>1
    <2>2. ~PowerOn(loc, asked)
      BY <1>1, <2>1, Zenon DEF PowerOn
    <2>3. WaitFor(loc, asked) = asked.qga
      BY <1>1, Zenon DEF WaitFor
    <2> QED BY <1>1, <2>2, <2>3
  <1>3. PoweredOff(loc, asked)
    BY <1>1, <1>2 DEF PoweredOff
  <1>4. ~Boots(Options(loc, asked))
    <2>1. /\ Options(loc, asked).power_on = PowerOn(loc, asked)
          /\ Options(loc, asked).qga = WaitFor(loc, asked)
          /\ Options(loc, asked).live = (loc.live_restore /\ ~PoweredOff(loc, asked))
      BY DEF Options
    <2>2. ~Options(loc, asked).power_on /\ ~Options(loc, asked).live
      BY <1>2, <1>3, <2>1, Zenon
    <2>3. ~(Options(loc, asked).qga > 0)
      BY <1>2, <2>1
    <2> QED BY <2>2, <2>3, Zenon DEF Boots
  <1> QED BY <1>4 DEF asked

\* What a decision on nodes was made from.
NodesFounded ==
    Of("nodes") =>
        \E list \in NodeLists, byNode \in StorageChoices, default \in Storages \cup {NoName} :
            /\ decision.node \in Nodes \cup {NoName} /\ decision.jobs \in JobLists
            /\ decision.nodes = NodesOf(decision.node, list)
            /\ LocationOk(decision.nodes, byNode, default)
            /\ decision.storage = StorageMap(decision.nodes, byNode, default)

\* What a decision on the readiness of a plan was made from.
ReadyFounded ==
    Of("readiness") =>
        /\ decision.site \in Sites /\ decision.members \in PlanMembers
        /\ decision.loc.found = TRUE /\ decision.loc.dr \in BOOLEAN /\ decision.loc.start \in Nat
        /\ LocationOk(decision.loc.nodes, decision.loc.byNode, decision.loc.default)

\* What a decision was made from.
Founded ==
    /\ Of("run") =>
        /\ decision.loc \in Location /\ decision.ask \in PlanRunRequest /\ decision.plan \in Policy
        /\ RunAccepted(decision.plan, decision.loc, decision.ask, TRUE)
    /\ Of("assurance") =>
        /\ decision.loc \in Location /\ decision.plan \in Policy
        /\ \E ask \in PlanRunRequest :
            /\ AssureAccepted(decision.plan, decision.loc, ask, TRUE)
            /\ decision.ask = AssureAsk(decision.plan, decision.loc, ask)
    /\ Of("schedule") =>
        decision.loc \in Location /\ decision.plan \in Policy
        /\ decision.ask = ScheduledAsk(decision.plan)
    /\ Of("members") => decision.rows \in Seq(Backup)
    /\ Of("vmids") => decision.start \in Nat /\ decision.count \in Nat
    /\ NodesFounded /\ ReadyFounded

\* Every decision comes from a request and a location of the constants, and
\* runs from requests that have been accepted.
THEOREM DecisionsFounded == Spec => []Founded
  <1>1. Init => Founded
    BY DEF Init, Undecided, Founded, NodesFounded, ReadyFounded, Of
  <1>2. Founded /\ [Next]_decision => Founded'
    <2> SUFFICES ASSUME Founded, [Next]_decision PROVE Founded'
      OBVIOUS
    <2>1. CASE DecideVmids
      <3>1. PICK inUse \in SUBSET Vmids, start \in Vmids, count \in 0 .. MaxGuests :
                decision' = [of |-> "vmids", inUse |-> inUse, start |-> start, count |-> count]
        BY <2>1, Zenon DEF DecideVmids, Decide
      <3>2. decision'.of = "vmids" /\ decision'.start = start /\ decision'.count = count
        BY <3>1
      <3>3. Vmids \in SUBSET Nat /\ MaxGuests \in Nat
        BY DecisionsAssumption
      <3>4. start \in Nat
        BY <3>3
      <3>5. count \in Nat
        BY <3>3
      <3> QED BY <3>2, <3>4, <3>5 DEF Founded, NodesFounded, ReadyFounded, Of
    <2>2. CASE DecideNodes
      <3>1. PICK node \in Nodes \cup {NoName}, list \in NodeLists, byNode \in StorageChoices,
                 default \in Storages \cup {NoName}, jobs \in JobLists :
                /\ LocationOk(NodesOf(node, list), byNode, default)
                /\ decision' = [of |-> "nodes", node |-> node, nodes |-> NodesOf(node, list),
                                jobs |-> jobs,
                                storage |-> StorageMap(NodesOf(node, list), byNode, default)]
        BY <2>2, Zenon DEF DecideNodes, Decide
      <3>2. /\ decision'.of = "nodes" /\ decision'.node = node /\ decision'.jobs = jobs
            /\ decision'.nodes = NodesOf(node, list)
            /\ decision'.storage = StorageMap(NodesOf(node, list), byNode, default)
        BY <3>1
      <3>3. NodesFounded'
        BY <3>1, <3>2, Zenon DEF NodesFounded
      <3> QED BY <3>2, <3>3 DEF Founded, ReadyFounded, Of
    <2>3. CASE DecideMembers
      <3>1. decision'.of = "members" /\ decision'.rows \in Inventories
        BY <2>3 DEF DecideMembers, Decide
      <3> QED BY <3>1, DecisionsAssumption DEF Founded, NodesFounded, ReadyFounded, Of
    <2>4. CASE DecideReadiness
      <3>1. PICK site \in Sites, members \in PlanMembers, dr \in BOOLEAN, start \in Vmids,
                 byNode \in [Nodes -> Storages], missing \in BOOLEAN, nodes \in SavedNodes :
                /\ LocationOk(nodes, byNode, NoName)
                /\ decision' = [of |-> "readiness", site |-> site, members |-> members,
                                plan |-> [groups |-> Len(members), missing |-> missing],
                                loc |-> [found |-> TRUE, dr |-> dr, nodes |-> nodes,
                                         byNode |-> byNode, default |-> NoName, start |-> start]]
        BY <2>4, Zenon DEF DecideReadiness, Decide
      <3>2. /\ decision'.of = "readiness" /\ decision'.site = site /\ decision'.members = members
            /\ decision'.loc = [found |-> TRUE, dr |-> dr, nodes |-> nodes, byNode |-> byNode,
                                default |-> NoName, start |-> start]
        BY <3>1
      <3>3. /\ decision'.loc.found = TRUE /\ decision'.loc.dr = dr /\ decision'.loc.nodes = nodes
            /\ decision'.loc.byNode = byNode /\ decision'.loc.default = NoName
            /\ decision'.loc.start = start
        BY <3>2
      <3>4. start \in Nat
        BY DecisionsAssumption
      <3> QED BY <3>1, <3>2, <3>3, <3>4 DEF Founded, NodesFounded, ReadyFounded, Of
    <2>5. CASE DecideRun
      <3>1. PICK loc \in Locations, ask \in Asks, plan \in Policies :
                /\ RunAccepted(plan, loc, ask, TRUE)
                /\ decision' = [of |-> "run", loc |-> loc, ask |-> ask, plan |-> plan]
        BY <2>5 DEF DecideRun, Decide
      <3>2. /\ decision'.of = "run" /\ decision'.loc = loc
            /\ decision'.ask = ask /\ decision'.plan = plan
        BY <3>1
      <3> QED BY <3>1, <3>2, DecisionsAssumption DEF Founded, NodesFounded, ReadyFounded, Of
    <2>6. CASE DecideAssurance
      <3>1. PICK loc \in Locations, ask \in Asks, plan \in Policies :
                /\ AssureAccepted(plan, loc, ask, TRUE)
                /\ decision' = [of |-> "assurance", loc |-> loc,
                                ask |-> AssureAsk(plan, loc, ask), plan |-> plan]
        BY <2>6 DEF DecideAssurance, Decide
      <3>2. /\ decision'.of = "assurance" /\ decision'.loc = loc
            /\ decision'.ask = AssureAsk(plan, loc, ask) /\ decision'.plan = plan
        BY <3>1
      <3> QED BY <3>1, <3>2, DecisionsAssumption DEF Founded, NodesFounded, ReadyFounded, Of
    <2>7. CASE DecideScheduled
      <3>1. PICK loc \in Locations, plan \in Policies :
                decision' = [of |-> "schedule", loc |-> loc, ask |-> ScheduledAsk(plan),
                             plan |-> plan]
        BY <2>7 DEF DecideScheduled, Decide
      <3>2. /\ decision'.of = "schedule" /\ decision'.loc = loc
            /\ decision'.ask = ScheduledAsk(plan) /\ decision'.plan = plan
        BY <3>1
      <3> QED BY <3>1, <3>2, DecisionsAssumption DEF Founded, NodesFounded, ReadyFounded, Of
    <2>8. CASE UNCHANGED decision
      BY <2>8 DEF Founded, NodesFounded, ReadyFounded, Of
    <2> QED BY <2>1, <2>2, <2>3, <2>4, <2>5, <2>6, <2>7, <2>8 DEF Next
  <1> QED BY <1>1, <1>2, PTL DEF Spec

\* BootsAreGated holds in every decision: what start_plan_run boots, the gate
\* of the API has looked at, but for one kind of drill.
THEOREM RunsGated == Spec => []BootsAreGated
  <1>1. Founded => BootsAreGated
    <2> SUFFICES ASSUME Founded PROVE BootsAreGated
      OBVIOUS
    <2>1. ASSUME Of("run"), Booting
          PROVE  \/ Fenced \/ decision.ask.allow_non_isolated
                 \/ /\ Of("run") /\ decision.ask.drill /\ decision.loc.live_restore
                    /\ decision.ask.powered_off = "no" /\ ~decision.ask.power_on
                    /\ decision.ask.qga = 0
      BY <2>1, RunGate DEF Founded, Booting, Fenced
    <2>2. ASSUME Of("assurance"), Booting PROVE Fenced \/ decision.ask.allow_non_isolated
      <3>1. PICK ask \in PlanRunRequest :
                /\ AssureAccepted(decision.plan, decision.loc, ask, TRUE)
                /\ decision.ask = AssureAsk(decision.plan, decision.loc, ask)
        BY <2>2 DEF Founded
      <3>2. decision.loc \in Location /\ decision.plan \in Policy
        BY <2>2 DEF Founded
      <3>3. Boots(Options(decision.loc, AssureAsk(decision.plan, decision.loc, ask)))
        BY <2>2, <3>1 DEF Booting
      <3>4. Fenced \/ ask.allow_non_isolated
        BY <3>1, <3>2, <3>3, AssuranceGate DEF Fenced
      <3> QED BY <3>1, <3>2, <3>4, AssureAskFields
    <2>3. ASSUME Of("schedule"), decision.ask.drill PROVE ~Booting
      BY <2>3, ScheduledDrill DEF Founded, Booting
    <2> QED BY <2>1, <2>2, <2>3 DEF BootsAreGated
  <1> QED BY <1>1, DecisionsFounded, PTL

\* The newest backup of a guest is one, the lists being in their order.
LEMMA NewestIsOne ==
    ASSUME NEW rows \in Seq(Backup), NEW cutoff, NEW sources,
           NEW b \in Newest(rows, cutoff, sources), NEW c \in Newest(rows, cutoff, sources),
           b.vmid = c.vmid
    PROVE  b = c
  <1>1. PICK i \in DOMAIN rows : IsNewest(rows, i, cutoff, sources) /\ b = rows[i]
    BY DEF Newest
  <1>2. PICK k \in DOMAIN rows : IsNewest(rows, k, cutoff, sources) /\ c = rows[k]
    BY DEF Newest
  <1>3. i \in Nat /\ k \in Nat /\ rows[i].time \in Nat /\ rows[k].time \in Nat
    <2>1. i \in 1 .. Len(rows) /\ k \in 1 .. Len(rows)
      OBVIOUS
    <2>2. rows[i] \in Backup /\ rows[k] \in Backup
      OBVIOUS
    <2> QED BY <2>1, <2>2 DEF Backup
  <1>4. /\ rows[k].time < rows[i].time \/ (rows[k].time = rows[i].time /\ i <= k)
        /\ rows[i].time < rows[k].time \/ (rows[i].time = rows[k].time /\ k <= i)
    <2>1. Eligible(rows[i], cutoff, sources) /\ Eligible(rows[k], cutoff, sources)
      BY <1>1, <1>2, Zenon DEF IsNewest
    <2>2. rows[i].vmid = rows[k].vmid
      BY <1>1, <1>2
    <2> QED BY <1>1, <1>2, <2>1, <2>2, Zenon DEF IsNewest
  <1> QED BY <1>1, <1>2, <1>3, <1>4

\* A group of no sources is resolved from the backups whose tags are read, and
\* one of no tags does not ask for them.
LEMMA TagsSuffice ==
    ASSUME NEW group, NEW rows, NEW cutoff, NEW tagsIn, group.sources = {} \/ group.tags = {}
    PROVE  Members(group, rows, cutoff, tagsIn)
           = {c \in Newest(rows, cutoff, group.sources) :
                SelectedBy(group, c, TagsOf(c, tagsIn)) /\ ~ Excluded(group, c)}
  <1> DEFINE known == KnownTags(rows, cutoff, tagsIn)
  <1>1. ASSUME NEW c \in Newest(rows, cutoff, group.sources)
        PROVE  SelectedBy(group, c, TagsOf(c, known)) <=> SelectedBy(group, c, TagsOf(c, tagsIn))
    <2>1. CASE group.tags = {}
      BY <2>1 DEF SelectedBy
    <2>2. CASE group.sources = {}
      <3>1. c.id \in {b.id : b \in TagCandidates(rows, cutoff)}
        BY <2>2 DEF TagCandidates
      <3>2. TagsOf(c, known) = TagsOf(c, tagsIn)
        BY <3>1 DEF TagsOf, KnownTags
      <3> QED BY <3>2
    <2> QED BY <2>1, <2>2
  <1> HIDE DEF known
  <1>2. Members(group, rows, cutoff, tagsIn)
        = {c \in Newest(rows, cutoff, group.sources) :
             SelectedBy(group, c, TagsOf(c, known)) /\ ~ Excluded(group, c)}
    BY DEF Members, Resolve, known
  <1> QED BY <1>1, <1>2

\* TagsReachMembers holds in every decision: reading the tags of the newest
\* backup of each VMID finds every guest a tag stands for.
THEOREM TagsAreEnough == Spec => []TagsReachMembers
  <1>1. Founded => TagsReachMembers
    <2> SUFFICES ASSUME Founded, Of("members"),
                        decision.group.sources = {} \/ decision.group.tags = {}
                 PROVE  TagsReachMembers
      BY DEF TagsReachMembers
    <2> DEFINE members == Members(decision.group, decision.rows, decision.cutoff, TagsIn)
               meant == {c \in Newest(decision.rows, decision.cutoff, decision.group.sources) :
                           SelectedBy(decision.group, c, TagsOf(c, TagsIn))
                           /\ ~ Excluded(decision.group, c)}
    <2>1. members = meant
      BY TagsSuffice
    <2>2. GuestsMeant(decision.group, decision.rows, decision.cutoff, TagsIn)
          = {b.vmid : b \in meant}
      BY DEF GuestsMeant
    <2>3. decision.rows \in Seq(Backup)
      BY DEF Founded
    <2>4. \A b, c \in meant : b.vmid = c.vmid => b = c
      BY <2>3, NewestIsOne
    <2> HIDE DEF members, meant
    <2> QED BY <2>1, <2>2, <2>4 DEF TagsReachMembers, members
  <1> QED BY <1>1, DecisionsFounded, PTL

\* What the restores of the drill of a plan leave passes the plan's checks.
LEMMA DrillChecks ==
    ASSUME NEW loc \in Location, NEW ask \in PlanRunRequest, NEW plan \in Policy,
           NEW options, options = Options(loc, AssureAsk(plan, loc, ask)), plan.require_qga
    PROVE  JobSummary(JobResult(options)).qga_ok = "1"
  <1> DEFINE asked == AssureAsk(plan, loc, ask)
  <1>1. asked.qga > 0 /\ asked.drill
    BY AssureAskFields
  <1> HIDE DEF asked
  <1>2. options.qga = WaitFor(loc, asked)
    BY DEF Options, asked
  <1>3. options.qga > 0
    <2>1. WaitFor(loc, asked) = asked.qga
      BY <1>1, Zenon DEF WaitFor
    <2> QED BY <1>1, <1>2, <2>1
  <1> QED BY <1>3 DEF JobSummary, JobResult

\* AssuranceIsAttainable holds in every decision: what api_assure_plan asks
\* for is enough for evaluate_assurance_policy, but where HTTP is required.
THEOREM AssuranceCanPass == Spec => []AssuranceIsAttainable
  <1>1. Founded => AssuranceIsAttainable
    <2> SUFFICES ASSUME Founded, Of("assurance"), ~decision.plan.require_http
                 PROVE  AssuranceIsAttainable
      BY DEF AssuranceIsAttainable
    <2> DEFINE options == Options(decision.loc, decision.ask)
               run == [status |-> "COMPLETED", drill |-> decision.ask.drill, rto |-> 1,
                       auto_teardown |-> options.auto_teardown, teardown |-> "completed"]
               job == JobSummary(JobResult(options))
    <2>1. PICK ask \in PlanRunRequest :
              /\ AssureAccepted(decision.plan, decision.loc, ask, TRUE)
              /\ decision.ask = AssureAsk(decision.plan, decision.loc, ask)
      BY DEF Founded
    <2>2. decision.loc \in Location /\ decision.plan \in Policy
      BY DEF Founded
    <2>3. decision.ask.drill
      BY <2>1, <2>2, AssureAskFields
    <2>4. decision.plan.assurance_enabled /\ decision.plan.max_rto \in Nat
      BY <2>1, <2>2 DEF AssureAccepted, Policy
    <2>5. decision.plan.require_qga => job.qga_ok = "1"
      BY <2>1, <2>2, DrillChecks
    <2>6. /\ run.status = "COMPLETED" /\ run.drill /\ run.rto = 1 /\ run.teardown = "completed"
      BY <2>3
    <2> HIDE DEF options, run, job
    <2>7. decision.plan.require_qga => AllPass({job}, LAMBDA j : j.qga_ok = "1")
      BY <2>5 DEF AllPass
    <2>8. decision.plan.max_rto > 0 => run.rto # Unknown /\ run.rto <= decision.plan.max_rto
      BY <2>4, <2>6 DEF Unknown
    <2>9. AssuranceVerdict(decision.plan, run, {job}) = "ASSURED"
      BY <2>4, <2>6, <2>7, <2>8 DEF AssuranceVerdict
    <2> QED BY <2>9 DEF AssuranceIsAttainable, options, run, job
  <1> QED BY <1>1, DecisionsFounded, PTL
-----------------------------------------------------------------------------
(* Folds over lists.                                                       *)

\* A set of naturals that is not empty has a least one.
LEMMA LeastOf ==
    ASSUME NEW S \in SUBSET Nat, S # {}
    PROVE  \E n \in S : \A m \in S : n <= m
  <1> DEFINE LT == {ss \in Nat \X Nat : ss[1] < ss[2]}
  <1>1. IsWellFoundedOn(LT, Nat)
    BY NatLessThanWellFounded DEF OpToRel
  <1>2. \A a, b \in Nat : <<b, a>> \in LT <=> b < a
    OBVIOUS
  <1> HIDE DEF LT
  <1>3. \E n \in S : \A m \in S : ~ (<<m, n>> \in LT)
    BY <1>1, WFMin
  <1>4. PICK n \in S : \A m \in S : ~ (<<m, n>> \in LT)
    BY <1>3
  <1>5. ASSUME NEW m \in S PROVE n <= m
    <2>1. n \in Nat /\ m \in Nat
      OBVIOUS
    <2>2. ~ (m < n)
      BY <1>2, <1>4, <2>1
    <2> QED BY <2>1, <2>2
  <1> QED BY <1>5

\* The largest index of a set of them.
LEMMA MaxOfIndices ==
    ASSUME NEW k \in Nat, NEW s \in SUBSET (1 .. k), s # {}
    PROVE  Max(s) \in s /\ \A i \in s : i <= Max(s)
  <1> DEFINE far == {n \in Nat : \A i \in s : i <= n}
  <1>1. far \in SUBSET Nat /\ k \in far
    OBVIOUS
  <1>2. PICK n \in far : \A m \in far : n <= m
    BY <1>1, LeastOf
  <1>3. n \in s
    <2> SUFFICES ASSUME n \notin s PROVE FALSE
      OBVIOUS
    <2>1. n \in Nat /\ \A i \in s : i <= n /\ i \in 1 .. k
      BY <1>2
    <2>2. PICK i \in s : TRUE
      OBVIOUS
    <2>3. n - 1 \in Nat
      BY <2>1, <2>2
    <2>4. \A j \in s : j <= n - 1
      BY <2>1
    <2>5. n - 1 \in far
      BY <2>3, <2>4
    <2>6. n <= n - 1
      BY <1>2, <2>5
    <2> QED BY <2>1, <2>6
  <1>4. \A y \in s : n >= y
    BY <1>2
  <1>5. \E x \in s : \A y \in s : x >= y
    BY <1>3, <1>4
  <1>6. Max(s) \in s /\ \A y \in s : Max(s) >= y
    BY <1>5, Zenon DEF Max
  <1> DEFINE m == Max(s)
  <1>7. m \in s /\ \A y \in s : m >= y
    BY <1>6
  <1> HIDE DEF m
  <1>8. \A i \in s : i <= m
    BY <1>7
  <1> QED BY <1>7, <1>8 DEF m

\* Indices 0 to n: what holds of 0 and with each of them of the next.
LEMMA IndexInduction ==
    ASSUME NEW n \in Nat, NEW S, 0 \in S, \A k \in 0 .. n - 1 : k \in S => k + 1 \in S
    PROVE  \A k \in 0 .. n : k \in S
  <1> DEFINE wrong == {k \in 0 .. n : k \notin S}
  <1> SUFFICES ASSUME wrong # {} PROVE FALSE
    OBVIOUS
  <1>1. wrong \in SUBSET Nat
    OBVIOUS
  <1>2. PICK k \in wrong : \A m \in wrong : k <= m
    <2> HIDE DEF wrong
    <2> QED BY <1>1, LeastOf
  <1>3. k \in Nat /\ 1 <= k /\ k <= n
    BY <1>2
  <1> DEFINE m == k - 1
  <1>4. m \in 0 .. n - 1 /\ m \in 0 .. n /\ m + 1 = k /\ m < k /\ m \in Nat
    BY <1>3
  <1> HIDE DEF m
  <1>5. m \notin wrong
    <2> HIDE DEF wrong
    <2> QED BY <1>1, <1>2, <1>3, <1>4
  <1>6. m + 1 \in S
    BY <1>4, <1>5
  <1> QED BY <1>2, <1>4, <1>6

\* What the folds of Placement and Readiness do with one element of their list.
TakeFree(inUse, count, out, v) ==
    IF Len(out) < count /\ v \notin inUse THEN Append(out, v) ELSE out
AddName(out, n) == IF n = NoName \/ Contains(out, n) THEN out ELSE Append(out, n)
PlaceJob(nodes, acc) ==
    LET n == nodes[LeastLoaded(nodes, acc.load)]
    IN [load |-> [acc.load EXCEPT ![n] = @ + 1], out |-> Append(acc.out, n)]
EnqueueNext(loc, inUse, acc, guests) ==
    LET targets == Targets(loc, guests, inUse \cup acc.assigned, NextVmid(loc.start, acc.assigned))
    IN [assigned |-> acc.assigned \cup targets,
        ok |-> acc.ok /\ EnqueueAccepted(loc, guests, targets)]

\* The same for all of them: how says which fold, and with which arguments.
OneStep(how, acc, x) ==
    IF how.of = "free" THEN TakeFree(how.inUse, how.count, acc, x)
    ELSE IF how.of = "names" THEN AddName(acc, x)
    ELSE IF how.of = "jobs" THEN PlaceJob(how.nodes, acc)
    ELSE IF how.of = "guests" THEN acc + Cardinality(x)
    ELSE EnqueueNext(how.loc, how.inUse, acc, x)

\* f has what is folded of every set of the indices in D.
IsFold(f, how, base, list, D) ==
    f = [s \in SUBSET D |-> IF s = {} THEN base ELSE OneStep(how, f[s \ {Max(s)}], list[Max(s)])]
FoldOf(how, base, list) == (CHOOSE f : IsFold(f, how, base, list, DOMAIN list))

\* The folds, as such.
LEMMA AllocateIsFold ==
    ASSUME NEW inUse, NEW start, NEW count
    PROVE  LET list == Scanned(start, count)
               how == [of |-> "free", inUse |-> inUse, count |-> count]
           IN Allocate(inUse, start, count) = FoldOf(how, <<>>, list)[DOMAIN list]
  BY DEF Allocate, FoldLeft, MapThenFoldSet, FoldOf, IsFold, OneStep, TakeFree

LEMMA NodesOfIsFold ==
    ASSUME NEW node, NEW nodes
    PROVE  NodesOf(node, nodes)
           = FoldOf([of |-> "names"], IF node = NoName THEN <<>> ELSE <<node>>, nodes)[DOMAIN nodes]
  BY DEF NodesOf, FoldLeft, MapThenFoldSet, FoldOf, IsFold, OneStep, AddName

LEMMA AssignIsFold ==
    ASSUME NEW nodes, NEW count, NEW active
    PROVE  LET list == [k \in 1 .. count |-> k]
               how == [of |-> "jobs", nodes |-> nodes]
           IN Assign(nodes, count, active)
              = FoldOf(how, [load |-> active, out |-> <<>>], list)[DOMAIN list].out
  BY SMTT(20) DEF Assign, FoldLeft, MapThenFoldSet, FoldOf, IsFold, OneStep, PlaceJob

LEMMA MemberCountIsFold ==
    ASSUME NEW members
    PROVE  MemberCount(members) = FoldOf([of |-> "guests"], 0, members)[DOMAIN members]
  BY DEF MemberCount, FoldLeft, MapThenFoldSet, FoldOf, IsFold, OneStep

LEMMA RunIsFold ==
    ASSUME NEW loc, NEW members, NEW inUse
    PROVE  RunGoesThrough(loc, members, inUse)
           = FoldOf([of |-> "run", loc |-> loc, inUse |-> inUse],
                    [assigned |-> {}, ok |-> TRUE], members)[DOMAIN members].ok
  BY DEF RunGoesThrough, FoldLeft, MapThenFoldSet, FoldOf, IsFold, OneStep, EnqueueNext

\* A fold is defined for lists of every length.
LEMMA FoldExists ==
    ASSUME NEW how, NEW base, NEW list, NEW n \in Nat
    PROVE  \E f : IsFold(f, how, base, list, 1 .. n)
  <1> DEFINE S == {k \in Nat : \E f : IsFold(f, how, base, list, 1 .. k)}
             next(h, s) == IF s = {} THEN base ELSE OneStep(how, h[s \ {Max(s)}], list[Max(s)])
  <1>1. 0 \in S
    <2> DEFINE f == [s \in SUBSET (1 .. 0) |-> base]
    <2>1. 1 .. 0 = {}
      OBVIOUS
    <2>2. f = [s \in SUBSET (1 .. 0) |-> next(f, s)]
      BY <2>1
    <2>3. IsFold(f, how, base, list, 1 .. 0)
      BY <2>2 DEF IsFold
    <2> QED BY <2>3
  <1>2. ASSUME NEW m \in 0 .. n - 1, m \in S PROVE m + 1 \in S
    <2> DEFINE k == m + 1
    <2>1. m \in Nat /\ k \in Nat
      OBVIOUS
    <2>2. PICK f : IsFold(f, how, base, list, 1 .. m)
      BY <1>2
    <2> DEFINE g == [s \in SUBSET (1 .. k) |-> next(f, s)]
    <2>3. f = [s \in SUBSET (1 .. m) |-> next(f, s)]
      BY <2>2 DEF IsFold
    <2>4. ASSUME NEW s \in SUBSET (1 .. k) PROVE next(f, s) = next(g, s)
      <3>1. CASE s = {}
        BY <3>1
      <3>2. CASE s # {}
        <4> DEFINE r == s \ {Max(s)}
                   last == Max(s)
        <4>1. last \in s /\ \A i \in s : i <= last
          BY <2>1, <3>2, MaxOfIndices
        <4>2. r = s \ {last}
          OBVIOUS
        <4> HIDE DEF r, last
        <4>3. r \in SUBSET (1 .. m)
          BY <2>1, <4>1, <4>2
        <4>4. r \in SUBSET (1 .. k)
          BY <4>2
        <4> HIDE DEF next
        <4>5. g[r] = next(f, r)
          BY <4>4
        <4>6. f[r] = next(f, r)
          BY <2>3, <4>3
        <4> HIDE DEF g
        <4>7. OneStep(how, f[r], list[last]) = OneStep(how, g[r], list[last])
          BY <4>5, <4>6
        <4> QED BY <3>2, <4>7 DEF next, r, last
      <3> QED BY <3>1, <3>2
    <2> HIDE DEF next
    <2>5. g = [s \in SUBSET (1 .. k) |-> next(g, s)]
      <3>1. \A s \in SUBSET (1 .. k) : next(f, s) = next(g, s)
        BY <2>4
      <3> DEFINE h == [s \in SUBSET (1 .. k) |-> next(g, s)]
      <3>2. g = h
        BY <3>1
      <3> QED BY <3>2
    <2>6. IsFold(g, how, base, list, 1 .. k)
      <3> HIDE DEF g
      <3> QED BY <2>5 DEF IsFold, next
    <2> HIDE DEF g
    <2> QED BY <2>1, <2>6
  <1>3. n \in 0 .. n
    OBVIOUS
  <1>4. \A k \in 0 .. n : k \in S
    <2> HIDE DEF S
    <2> QED BY <1>1, <1>2, IndexInduction
  <1>5. n \in S
    BY <1>3, <1>4
  <1> QED BY <1>5

\* A fold takes the elements in turn, the list's first ones first.
InTurn(f, how, base, list, n) ==
    /\ f[1 .. 0] = base
    /\ \A k \in 0 .. n - 1 : f[1 .. k + 1] = OneStep(how, f[1 .. k], list[k + 1])

LEMMA FoldInTurn ==
    ASSUME NEW how, NEW base, NEW list, NEW n \in Nat, DOMAIN list = 1 .. n
    PROVE  InTurn(FoldOf(how, base, list), how, base, list, n)
  <1> DEFINE f == FoldOf(how, base, list)
             next(s) == IF s = {} THEN base ELSE OneStep(how, f[s \ {Max(s)}], list[Max(s)])
  <1>1. IsFold(f, how, base, list, 1 .. n)
    <2>1. \E h : IsFold(h, how, base, list, DOMAIN list)
      BY FoldExists
    <2>2. IsFold(f, how, base, list, DOMAIN list)
      BY <2>1 DEF FoldOf
    <2> HIDE DEF f
    <2> QED BY <2>2
  <1> HIDE DEF f
  <1>2. f = [s \in SUBSET (1 .. n) |-> next(s)]
    BY <1>1 DEF IsFold
  <1>3. \A s \in SUBSET (1 .. n) : f[s] = next(s)
    <2> HIDE DEF next
    <2> QED BY <1>2
  <1>4. f[1 .. 0] = base
    <2>1. next({}) = base
      OBVIOUS
    <2>2. 1 .. 0 = {} /\ {} \in SUBSET (1 .. n)
      OBVIOUS
    <2> HIDE DEF next
    <2> QED BY <1>3, <2>1, <2>2
  <1>5. ASSUME NEW k \in 0 .. n - 1
        PROVE  f[1 .. k + 1] = OneStep(how, f[1 .. k], list[k + 1])
    <2>1. (1 .. k + 1) \in SUBSET (1 .. n) /\ (1 .. k + 1) # {} /\ k + 1 \in Nat
      <3>1. k \in Nat /\ k + 1 \in Nat /\ k + 1 <= n
        OBVIOUS
      <3>2. k + 1 \in 1 .. k + 1
        BY <3>1
      <3>3. \A i \in 1 .. k + 1 : i \in 1 .. n
        BY <3>1
      <3> QED BY <3>1, <3>2, <3>3, Zenon
    <2>2. Max(1 .. k + 1) = k + 1
      <3> DEFINE m == Max(1 .. k + 1)
      <3>1. m \in 1 .. k + 1 /\ \A i \in 1 .. k + 1 : i <= m
        BY <2>1, MaxOfIndices
      <3> HIDE DEF m
      <3>2. m = k + 1
        BY <3>1
      <3> QED BY <3>2 DEF m
    <2>3. (1 .. k + 1) \ {k + 1} = 1 .. k
      OBVIOUS
    <2>4. f[1 .. k + 1] = next(1 .. k + 1)
      <3> HIDE DEF next
      <3> QED BY <1>3, <2>1
    <2>5. next(1 .. k + 1) = OneStep(how, f[(1 .. k + 1) \ {k + 1}], list[k + 1])
      BY <2>1, <2>2
    <2> HIDE DEF next
    <2> QED BY <2>3, <2>4, <2>5
  <1> QED BY <1>4, <1>5 DEF InTurn, f
-----------------------------------------------------------------------------
(* The VMIDs of a batch.                                                   *)

\* The window: the VMIDs from the first scanned on.
LEMMA WindowScanned ==
    ASSUME NEW start \in Nat, NEW count \in Nat
    PROVE  LET list == Scanned(start, count)
               first == FirstScanned(start)
               last == LastScanned(start, count)
           IN /\ first \in Nat /\ last \in Nat /\ first <= last
              /\ DOMAIN list = 1 .. last - first + 1
              /\ \A i \in 1 .. last - first + 1 : list[i] = first + i - 1
  <1>1. LowestVmid \in Nat /\ ScanWindow \in Nat /\ ScanPerGuest \in Nat
    BY PlacementAssumption
  <1>2. FirstScanned(start) \in Nat
    BY <1>1 DEF FirstScanned, Larger
  <1>3. Larger(ScanWindow, count * ScanPerGuest) \in Nat
    <2>1. count * ScanPerGuest \in Nat
      BY <1>1
    <2> QED BY <1>1, <2>1 DEF Larger
  <1>4. LastScanned(start, count) \in Nat /\ FirstScanned(start) <= LastScanned(start, count)
    BY <1>2, <1>3 DEF LastScanned
  <1> QED BY <1>2, <1>4 DEF Scanned

\* What has been taken when the VMIDs below bound have been scanned.
Taken(out, free, count, bound) ==
    /\ out \in Seq(Nat) /\ Len(out) <= count
    /\ \A i \in DOMAIN out : out[i] \in free /\ out[i] < bound
    /\ \A i, k \in DOMAIN out : i < k => out[i] < out[k]
    /\ \A u \in free : u < bound =>
         (\E i \in DOMAIN out : out[i] = u) \/ (Len(out) = count /\ \A i \in DOMAIN out : out[i] < u)

\* A free VMID is appended to the lower ones, until there are enough.
LEMMA TakenGrows ==
    ASSUME NEW free \in SUBSET Nat, NEW count \in Nat, NEW v \in Nat, NEW inUse,
           NEW out, Taken(out, free, count, v), v \in free <=> v \notin inUse
    PROVE  Taken(TakeFree(inUse, count, out, v), free, count, v + 1)
  <1>0. out \in Seq(Nat) /\ Len(out) \in Nat /\ DOMAIN out = 1 .. Len(out)
    BY DEF Taken
  <1>1. CASE Len(out) < count /\ v \notin inUse
    <2> DEFINE more == Append(out, v)
    <2>1. TakeFree(inUse, count, out, v) = more
      BY <1>1 DEF TakeFree
    <2>2. more \in Seq(Nat) /\ Len(more) = Len(out) + 1 /\ more[Len(out) + 1] = v
          /\ \A i \in 1 .. Len(out) : more[i] = out[i]
      BY <1>0
    <2>3. DOMAIN more = 1 .. Len(out) + 1
      BY <2>2
    <2> HIDE DEF more
    <2>4. Len(more) <= count
      BY <1>0, <1>1, <2>2
    <2>5. \A i \in 1 .. Len(out) : out[i] \in free /\ out[i] \in Nat /\ out[i] < v
      BY <1>0 DEF Taken
    <2>6. \A i \in DOMAIN more : more[i] \in free /\ more[i] < v + 1
      <3>1. \A i \in 1 .. Len(out) : more[i] \in free /\ more[i] < v + 1
        BY <2>2, <2>5
      <3>2. more[Len(out) + 1] \in free /\ more[Len(out) + 1] < v + 1
        BY <1>1, <2>2
      <3> QED BY <1>0, <2>3, <3>1, <3>2
    <2>7. ASSUME NEW i \in DOMAIN more, NEW k \in DOMAIN more, i < k PROVE more[i] < more[k]
      <3>1. i \in 1 .. Len(out)
        BY <1>0, <2>3, <2>7
      <3>2. CASE k = Len(out) + 1
        BY <2>2, <2>5, <3>1, <3>2
      <3>3. CASE k \in 1 .. Len(out)
        <4>1. out[i] < out[k]
          BY <1>0, <2>7, <3>1, <3>3 DEF Taken
        <4> QED BY <2>2, <3>1, <3>3, <4>1
      <3> QED BY <1>0, <2>3, <3>2, <3>3
    <2>8. ASSUME NEW u \in free, u < v + 1 PROVE \E i \in DOMAIN more : more[i] = u
      <3>1. CASE u = v
        <4>1. Len(out) + 1 \in DOMAIN more
          BY <1>0, <2>3
        <4> QED BY <2>2, <3>1, <4>1
      <3>2. CASE u < v
        <4>1. Len(out) # count
          <5> DEFINE len == Len(out)
          <5>1. len \in Nat /\ len < count
            BY <1>0, <1>1
          <5> HIDE DEF len
          <5>2. len # count
            BY <5>1
          <5> QED BY <5>2 DEF len
        <4>2. PICK i \in DOMAIN out : out[i] = u
          BY <3>2, <4>1 DEF Taken
        <4>3. i \in DOMAIN more /\ more[i] = u
          BY <1>0, <2>2, <2>3, <4>2
        <4> QED BY <4>3
      <3> QED BY <2>8, <3>1, <3>2
    <2> QED BY <2>1, <2>2, <2>4, <2>6, <2>7, <2>8 DEF Taken
  <1>2. CASE ~ (Len(out) < count /\ v \notin inUse)
    <2>1. TakeFree(inUse, count, out, v) = out
      BY <1>2 DEF TakeFree
    <2>2. \A i \in DOMAIN out : out[i] \in Nat /\ out[i] < v
      BY <1>0 DEF Taken
    <2>3. \A i \in DOMAIN out : out[i] < v + 1
      BY <2>2
    <2>4. ASSUME NEW u \in free, u < v + 1
          PROVE  (\E i \in DOMAIN out : out[i] = u)
                 \/ (Len(out) = count /\ \A i \in DOMAIN out : out[i] < u)
      <3>1. CASE u < v
        BY <3>1 DEF Taken
      <3>2. CASE u = v
        <4>1. Len(out) = count
          <5> DEFINE len == Len(out)
          <5>1. len \in Nat /\ len <= count
            BY <1>0 DEF Taken
          <5>2. ~ (len < count)
            BY <1>2, <3>2
          <5> HIDE DEF len
          <5>3. len = count
            BY <5>1, <5>2
          <5> QED BY <5>3 DEF len
        <4> QED BY <2>2, <3>2, <4>1
      <3> QED BY <2>4, <3>1, <3>2
    <2> QED BY <2>1, <2>3, <2>4 DEF Taken
  <1> QED BY <1>1, <1>2

\* A list of VMIDs from first on is scanned to its end.
LEMMA ListTakes ==
    ASSUME NEW inUse, NEW count \in Nat, NEW first \in Nat, NEW n \in Nat, NEW list,
           \A i \in 1 .. n : list[i] = first + i - 1,
           NEW free \in SUBSET Nat,
           \A v \in Nat : v \in free <=> first <= v /\ v < first + n /\ v \notin inUse,
           NEW f, InTurn(f, [of |-> "free", inUse |-> inUse, count |-> count], <<>>, list, n)
    PROVE  Taken(f[1 .. n], free, count, first + n)
  <1> DEFINE how == [of |-> "free", inUse |-> inUse, count |-> count]
             S == {k \in 0 .. n : Taken(f[1 .. k], free, count, first + k)}
  <1>1. f[1 .. 0] = <<>> /\ \A k \in 0 .. n - 1 : f[1 .. k + 1] = OneStep(how, f[1 .. k], list[k + 1])
    BY DEF InTurn
  <1>2. 0 \in S
    <2>1. \A u \in free : ~ (u < first + 0)
      OBVIOUS
    <2>2. Taken(<<>>, free, count, first + 0)
      BY <2>1 DEF Taken
    <2> QED BY <1>1, <2>2
  <1>3. ASSUME NEW k \in 0 .. n - 1, k \in S PROVE k + 1 \in S
    <2> DEFINE v == first + k
    <2>1. /\ k \in Nat /\ k + 1 \in 1 .. n /\ k + 1 \in 0 .. n /\ first + (k + 1) - 1 = v
          /\ v \in Nat /\ first <= v /\ v < first + n /\ v + 1 = first + (k + 1)
      OBVIOUS
    <2>2. list[k + 1] = v
      BY <2>1
    <2>3. Taken(f[1 .. k], free, count, v)
      BY <1>3
    <2> HIDE DEF v
    <2>4. f[1 .. k + 1] = TakeFree(inUse, count, f[1 .. k], v)
      BY <1>1, <2>2 DEF OneStep
    <2>5. v \in free <=> v \notin inUse
      BY <2>1
    <2>6. Taken(TakeFree(inUse, count, f[1 .. k], v), free, count, v + 1)
      BY <2>1, <2>3, <2>5, TakenGrows
    <2> QED BY <2>1, <2>4, <2>6
  <1>4. \A k \in 0 .. n : k \in S
    <2> HIDE DEF S
    <2> QED BY <1>2, <1>3, IndexInduction
  <1>5. n \in 0 .. n
    OBVIOUS
  <1> QED BY <1>4, <1>5

\* allocate_sequential_free_vmids scans its whole window.
LEMMA AllocateTakes ==
    ASSUME NEW inUse, NEW start \in Nat, NEW count \in Nat
    PROVE  Taken(Allocate(inUse, start, count),
                 (FirstScanned(start) .. LastScanned(start, count)) \ inUse, count,
                 LastScanned(start, count) + 1)
  <1> DEFINE list == Scanned(start, count)
             first == FirstScanned(start)
             last == LastScanned(start, count)
             n == last - first + 1
             free == (first .. last) \ inUse
             how == [of |-> "free", inUse |-> inUse, count |-> count]
             f == FoldOf(how, <<>>, list)
  <1>1. /\ first \in Nat /\ last \in Nat /\ first <= last /\ DOMAIN list = 1 .. n
        /\ \A i \in 1 .. n : list[i] = first + i - 1
    BY WindowScanned
  <1>2. Allocate(inUse, start, count) = f[DOMAIN list]
    BY AllocateIsFold
  <1> HIDE DEF list, first, last
  <1>3. n \in Nat /\ first + n = last + 1
    BY <1>1
  <1>4. /\ free \in SUBSET Nat
        /\ \A v \in Nat : v \in free <=> first <= v /\ v < first + n /\ v \notin inUse
    BY <1>1, <1>3
  <1> HIDE DEF n, free
  <1>5. InTurn(f, how, <<>>, list, n)
    <2> HIDE DEF how
    <2> QED BY <1>1, <1>3, FoldInTurn
  <1> HIDE DEF f
  <1>6. Taken(f[1 .. n], free, count, first + n)
    BY <1>1, <1>3, <1>4, <1>5, ListTakes
  <1> QED BY <1>1, <1>2, <1>3, <1>6 DEF last, first, free

\* A list without repetitions has as many elements as places.
LEMMA DistinctCount ==
    ASSUME NEW T, NEW out \in Seq(T), \A i, k \in DOMAIN out : out[i] = out[k] => i = k
    PROVE  IsFiniteSet(ToSet(out)) /\ Cardinality(ToSet(out)) = Len(out)
  <1>1. DOMAIN out = 1 .. Len(out) /\ Len(out) \in Nat
    OBVIOUS
  <1>2. IsFiniteSet(1 .. Len(out)) /\ Cardinality(1 .. Len(out)) = Len(out)
    <2> DEFINE len == Len(out)
    <2>1. len \in Int /\ len >= 0
      BY <1>1
    <2> HIDE DEF len
    <2>2. IsFiniteSet(1 .. len) /\ Cardinality(1 .. len) = IF 1 > len THEN 0 ELSE len - 1 + 1
      BY <2>1, FS_Interval
    <2>3. Cardinality(1 .. len) = len
      BY <2>1, <2>2
    <2> QED BY <2>2, <2>3 DEF len
  <1> DEFINE f == [i \in 1 .. Len(out) |-> out[i]]
  <1>3. f \in Surjection(1 .. Len(out), ToSet(out))
    BY <1>1 DEF Surjection, ToSet
  <1>4. f \in Injection(1 .. Len(out), ToSet(out))
    BY <1>1, <1>3 DEF Injection, Surjection, IsInjective
  <1> HIDE DEF f
  <1> QED BY <1>2, <1>3, <1>4, FS_Surjection

\* A list in order has as many elements as places.
LEMMA AscendingCount ==
    ASSUME NEW out \in Seq(Nat), \A i, k \in DOMAIN out : i < k => out[i] < out[k]
    PROVE  IsFiniteSet(ToSet(out)) /\ Cardinality(ToSet(out)) = Len(out)
  <1>1. \A i \in DOMAIN out : i \in Nat /\ out[i] \in Nat
    OBVIOUS
  <1>2. \A i, k \in DOMAIN out : out[i] = out[k] => i = k
    BY <1>1
  <1> QED BY <1>2, DistinctCount

\* What is taken of a window is the count lowest free VMIDs.
LEMMA TakenIsLowest ==
    ASSUME NEW free \in SUBSET Nat, IsFiniteSet(free), NEW count \in Nat, NEW bound \in Nat,
           \A u \in free : u < bound, NEW out, Taken(out, free, count, bound)
    PROVE  ToSet(out) = {v \in free : Cardinality({u \in free : u < v}) < count}
  <1> DEFINE T == ToSet(out)
             below(v) == {u \in free : u < v}
  <1>1. T = {out[i] : i \in DOMAIN out}
    BY DEF ToSet
  <1>2. IsFiniteSet(T) /\ Cardinality(T) = Len(out) /\ Len(out) \in Nat /\ Len(out) <= count
    BY AscendingCount DEF Taken
  <1>3. \A v \in T : v \in free /\ v \in Nat
    BY <1>1 DEF Taken
  <1>4. \A u \in free : u \in T \/ (Len(out) = count /\ \A v \in T : v < u)
    BY <1>1 DEF Taken
  <1> HIDE DEF T
  <1>5. \A v : IsFiniteSet(below(v)) /\ Cardinality(below(v)) \in Nat
    BY FS_Subset, FS_CardinalityType
  <1>6. ASSUME NEW v \in T PROVE v \in free /\ Cardinality(below(v)) < count
    <2>1. v \in free /\ v \in Nat
      BY <1>3
    <2>2. below(v) \in SUBSET (T \ {v})
      <3> SUFFICES ASSUME NEW u \in free, u < v PROVE u \in T /\ u # v
        OBVIOUS
      <3>1. u \in Nat /\ ~ (v < u) /\ u # v
        BY <2>1
      <3> QED BY <1>4, <3>1
    <2>3. IsFiniteSet(T \ {v}) /\ Cardinality(T \ {v}) = Len(out) - 1
      BY <1>2, FS_RemoveElement
    <2> HIDE DEF below
    <2>4. Cardinality(below(v)) <= Len(out) - 1
      BY <2>2, <2>3, FS_Subset
    <2> QED BY <1>2, <1>5, <2>1, <2>4
  <1>7. ASSUME NEW v \in free, v \notin T PROVE ~ (Cardinality(below(v)) < count)
    <2>1. Len(out) = count /\ T \in SUBSET below(v)
      BY <1>3, <1>4, <1>7
    <2> HIDE DEF below
    <2>2. Cardinality(T) <= Cardinality(below(v))
      BY <1>5, <2>1, FS_Subset
    <2> QED BY <1>2, <1>5, <2>1, <2>2
  <1> HIDE DEF below
  <1>8. T = {v \in free : Cardinality(below(v)) < count}
    BY <1>6, <1>7
  <1> QED BY <1>8 DEF T, below

LEMMA AllocationLowest ==
    ASSUME NEW inUse, NEW start \in Nat, NEW count \in Nat
    PROVE  LET vmids == Allocate(inUse, start, count) IN
           /\ ToSet(vmids) = LowestFree(inUse, start, count)
           /\ \A i, k \in DOMAIN vmids : i < k => vmids[i] < vmids[k]
  <1> DEFINE vmids == Allocate(inUse, start, count)
             first == FirstScanned(start)
             last == LastScanned(start, count)
             free == (first .. last) \ inUse
  <1>1. Taken(vmids, free, count, last + 1)
    BY AllocateTakes
  <1>2. first \in Nat /\ last \in Nat /\ first <= last
    BY WindowScanned
  <1> HIDE DEF first, last, vmids
  <1>3. free \in SUBSET Nat /\ IsFiniteSet(free) /\ \A u \in free : u < last + 1
    <2>1. IsFiniteSet(first .. last)
      BY <1>2, FS_Interval
    <2>2. IsFiniteSet(free)
      BY <2>1, FS_Subset
    <2> QED BY <1>2, <2>2
  <1> HIDE DEF free
  <1>4. ToSet(vmids) = {v \in free : Cardinality({u \in free : u < v}) < count}
    BY <1>1, <1>2, <1>3, TakenIsLowest
  <1>5. ToSet(vmids) = LowestFree(inUse, start, count)
    BY <1>4 DEF LowestFree, free, first, last
  <1> QED BY <1>1, <1>5 DEF Taken, vmids

\* AllocationIsLowest holds in every decision: what the loop of
\* allocate_sequential_free_vmids has taken when it stops or has come to its
\* upper bound are the lowest free VMIDs, in order (Taken, for every length of
\* the scan).
THEOREM AllocationProven == Spec => []AllocationIsLowest
  <1>1. Founded => AllocationIsLowest
    <2> SUFFICES ASSUME Founded, Of("vmids") PROVE AllocationIsLowest
      BY DEF AllocationIsLowest
    <2>1. decision.start \in Nat /\ decision.count \in Nat
      BY DEF Founded
    <2> QED BY <2>1, AllocationLowest DEF AllocationIsLowest
  <1> QED BY <1>1, DecisionsFounded, PTL
-----------------------------------------------------------------------------
(* The nodes of a batch.                                                   *)

\* The nodes of a location so far: each once, the primary one first.
Listed(out, node) ==
    /\ out \in Seq(Nodes)
    /\ \A i, k \in DOMAIN out : out[i] = out[k] => i = k
    /\ node # NoName => 1 \in DOMAIN out /\ out[1] = node

LEMMA NameIsAdded ==
    ASSUME NEW node, NEW out, Listed(out, node), NEW n \in Nodes \cup {NoName}
    PROVE  Listed(AddName(out, n), node)
  <1>0. out \in Seq(Nodes) /\ Len(out) \in Nat /\ DOMAIN out = 1 .. Len(out)
    BY DEF Listed
  <1>1. CASE n = NoName \/ Contains(out, n)
    <2>1. AddName(out, n) = out
      BY <1>1 DEF AddName
    <2> QED BY <2>1
  <1>2. CASE ~ (n = NoName \/ Contains(out, n))
    <2> DEFINE more == Append(out, n)
    <2>1. AddName(out, n) = more
      BY <1>2 DEF AddName
    <2>2. n \in Nodes
      BY <1>2
    <2>3. \A i \in 1 .. Len(out) : out[i] # n
      BY <1>2 DEF Contains
    <2>4. /\ more \in Seq(Nodes) /\ DOMAIN more = 1 .. Len(out) + 1 /\ more[Len(out) + 1] = n
          /\ \A i \in 1 .. Len(out) : more[i] = out[i]
      BY <1>0, <2>2
    <2> HIDE DEF more
    <2>5. ASSUME NEW i \in DOMAIN more, NEW k \in DOMAIN more, more[i] = more[k] PROVE i = k
      <3>1. (i \in 1 .. Len(out) \/ i = Len(out) + 1) /\ (k \in 1 .. Len(out) \/ k = Len(out) + 1)
        BY <1>0, <2>4
      <3>2. CASE i \in 1 .. Len(out) /\ k \in 1 .. Len(out)
        BY <1>0, <2>4, <2>5, <3>2 DEF Listed
      <3>3. CASE i = Len(out) + 1 /\ k \in 1 .. Len(out)
        BY <2>3, <2>4, <2>5, <3>3
      <3>4. CASE i \in 1 .. Len(out) /\ k = Len(out) + 1
        BY <2>3, <2>4, <2>5, <3>4
      <3> QED BY <3>1, <3>2, <3>3, <3>4
    <2>6. node # NoName => 1 \in DOMAIN more /\ more[1] = node
      BY <1>0, <2>4 DEF Listed
    <2> QED BY <2>1, <2>4, <2>5, <2>6 DEF Listed
  <1> QED BY <1>1, <1>2

\* normalize_location keeps every node once, and the primary one first.
LEMMA NodesAreListed ==
    ASSUME NEW node \in Nodes \cup {NoName}, NEW n \in Nat, NEW nodes \in [1 .. n -> Nodes \cup {NoName}]
    PROVE  Listed(NodesOf(node, nodes), node)
  <1> DEFINE base == IF node = NoName THEN <<>> ELSE <<node>>
             how == [of |-> "names"]
             f == FoldOf(how, base, nodes)
             S == {k \in 0 .. n : Listed(f[1 .. k], node)}
  <1>0. DOMAIN nodes = 1 .. n /\ NodesOf(node, nodes) = f[DOMAIN nodes]
    BY NodesOfIsFold
  <1>1. InTurn(f, how, base, nodes, n)
    <2> HIDE DEF how, base
    <2> QED BY FoldInTurn
  <1> HIDE DEF f
  <1>2. /\ f[1 .. 0] = base
        /\ \A k \in 0 .. n - 1 : f[1 .. k + 1] = AddName(f[1 .. k], nodes[k + 1])
    BY <1>1 DEF InTurn, OneStep
  <1>3. 0 \in S
    <2>1. CASE node = NoName
      <3>1. base = <<>>
        BY <2>1
      <3>2. <<>> \in Seq(Nodes) /\ DOMAIN <<>> = {}
        OBVIOUS
      <3> HIDE DEF base
      <3>3. Listed(<<>>, node)
        BY <2>1, <3>2 DEF Listed
      <3> QED BY <1>2, <3>1, <3>3
    <2>2. CASE node # NoName
      <3>1. base = <<node>> /\ node \in Nodes
        BY <2>2
      <3> HIDE DEF base
      <3>2. base \in Seq(Nodes) /\ DOMAIN base = {1} /\ base[1] = node
        BY <3>1
      <3>3. Listed(base, node)
        BY <3>2 DEF Listed
      <3> QED BY <1>2, <3>3
    <2> QED BY <2>1, <2>2
  <1>4. ASSUME NEW k \in 0 .. n - 1, k \in S PROVE k + 1 \in S
    <2>1. k + 1 \in 1 .. n /\ k + 1 \in 0 .. n
      OBVIOUS
    <2>2. nodes[k + 1] \in Nodes \cup {NoName}
      BY <2>1
    <2>3. Listed(f[1 .. k], node)
      BY <1>4
    <2>4. Listed(f[1 .. k + 1], node)
      BY <1>2, <2>2, <2>3, NameIsAdded
    <2> QED BY <2>1, <2>4
  <1>5. \A k \in 0 .. n : k \in S
    <2> HIDE DEF S
    <2> QED BY <1>3, <1>4, IndexInduction
  <1>6. n \in 0 .. n
    OBVIOUS
  <1> QED BY <1>0, <1>5, <1>6

\* There is a least loaded node to take.
LEMMA LeastLoadedIsLeast ==
    ASSUME NEW nodes \in Seq(Nodes), nodes # <<>>, NEW load \in [Nodes -> Nat]
    PROVE  /\ LeastLoaded(nodes, load) \in DOMAIN nodes
           /\ \A k \in DOMAIN nodes : load[nodes[LeastLoaded(nodes, load)]] <= load[nodes[k]]
  <1> DEFINE loads == {load[nodes[i]] : i \in DOMAIN nodes}
             first(i) == \A k \in DOMAIN nodes :
                            \/ load[nodes[i]] < load[nodes[k]]
                            \/ load[nodes[i]] = load[nodes[k]] /\ i <= k
             l == LeastLoaded(nodes, load)
  <1>0. DOMAIN nodes = 1 .. Len(nodes) /\ Len(nodes) \in Nat /\ 1 \in DOMAIN nodes
        /\ \A i \in DOMAIN nodes : i \in Nat /\ load[nodes[i]] \in Nat
    <2>1. Len(nodes) # 0
      OBVIOUS
    <2> QED BY <2>1
  <1>1. loads \in SUBSET Nat /\ loads # {}
    BY <1>0
  <1>2. PICK low \in loads : \A m \in loads : low <= m
    BY <1>1, LeastOf
  <1> DEFINE lowest == {i \in DOMAIN nodes : load[nodes[i]] = low}
  <1>3. lowest \in SUBSET Nat /\ lowest # {}
    BY <1>0
  <1>4. PICK i \in lowest : \A k \in lowest : i <= k
    <2> HIDE DEF lowest
    <2> QED BY <1>3, LeastOf
  <1>5. first(i)
    <2> SUFFICES ASSUME NEW k \in DOMAIN nodes
                 PROVE  \/ load[nodes[i]] < load[nodes[k]]
                        \/ load[nodes[i]] = load[nodes[k]] /\ i <= k
      OBVIOUS
    <2>1. load[nodes[i]] = low /\ low \in Nat /\ load[nodes[k]] \in Nat /\ low <= load[nodes[k]]
      BY <1>0, <1>1, <1>2, <1>4
    <2>2. load[nodes[k]] = low => i <= k
      BY <1>4
    <2> QED BY <2>1, <2>2
  <1>6. i \in DOMAIN nodes
    BY <1>4
  <1>7. l \in DOMAIN nodes /\ first(l)
    <2> HIDE DEF first
    <2>1. \E x \in DOMAIN nodes : first(x)
      BY <1>5, <1>6
    <2>2. l = CHOOSE x \in DOMAIN nodes : first(x)
      BY DEF LeastLoaded, first
    <2> HIDE DEF l
    <2> QED BY <2>1, <2>2
  <1> HIDE DEF l
  <1>8. \A k \in DOMAIN nodes : load[nodes[l]] <= load[nodes[k]]
    BY <1>0, <1>7
  <1> QED BY <1>7, <1>8 DEF l

\* The jobs placed so far, k of them: what is counted, and how level they are.
Placed(out, n) == {i \in DOMAIN out : out[i] = n}
Level(acc, nodes, active, k) ==
    /\ acc.load \in [Nodes -> Nat] /\ acc.out \in Seq(ToSet(nodes)) /\ Len(acc.out) = k
    /\ \A n \in Nodes : acc.load[n] = active[n] + Cardinality(Placed(acc.out, n))
    /\ \A n \in ToSet(acc.out), m \in ToSet(nodes) : acc.load[n] <= acc.load[m] + 1

LEMMA PlacedGrows ==
    ASSUME NEW T, NEW out \in Seq(T), NEW n \in T, NEW m
    PROVE  /\ IsFiniteSet(Placed(out, m)) /\ Cardinality(Placed(out, m)) \in Nat
           /\ Cardinality(Placed(Append(out, n), m))
              = Cardinality(Placed(out, m)) + (IF m = n THEN 1 ELSE 0)
  <1> DEFINE len == Len(out)
             more == Append(out, n)
  <1>1. /\ len \in Nat /\ DOMAIN out = 1 .. len /\ DOMAIN more = 1 .. len + 1
        /\ more[len + 1] = n /\ \A i \in 1 .. len : more[i] = out[i]
    OBVIOUS
  <1> HIDE DEF len, more
  <1>2. IsFiniteSet(1 .. len)
    BY <1>1, FS_Interval
  <1>3. Placed(out, m) \in SUBSET (1 .. len)
    BY <1>1 DEF Placed
  <1>4. IsFiniteSet(Placed(out, m)) /\ Cardinality(Placed(out, m)) \in Nat
    BY <1>2, <1>3, FS_Subset, FS_CardinalityType
  <1>5. CASE m = n
    <2>1. len + 1 \notin Placed(out, m)
      BY <1>1, <1>3
    <2>2. Placed(more, m) = Placed(out, m) \cup {len + 1}
      BY <1>1, <1>5 DEF Placed
    <2>3. Cardinality(Placed(out, m) \cup {len + 1}) = Cardinality(Placed(out, m)) + 1
      BY <1>4, <2>1, FS_AddElement
    <2> QED BY <1>4, <1>5, <2>2, <2>3 DEF more
  <1>6. CASE m # n
    <2>1. Placed(more, m) = Placed(out, m)
      BY <1>1, <1>6 DEF Placed
    <2> QED BY <1>4, <1>6, <2>1 DEF more
  <1> QED BY <1>5, <1>6

\* The job goes to the node with the fewest, which has at most one more than
\* any other afterwards.
LEMMA JobKeepsLevel ==
    ASSUME NEW nodes \in Seq(Nodes), nodes # <<>>, NEW active \in [Nodes -> Nat], NEW k \in Nat,
           NEW acc, Level(acc, nodes, active, k)
    PROVE  Level(PlaceJob(nodes, acc), nodes, active, k + 1)
  <1> DEFINE l == LeastLoaded(nodes, acc.load)
             n == nodes[l]
             load == [acc.load EXCEPT ![n] = @ + 1]
             out == Append(acc.out, n)
  <1>1. acc.load \in [Nodes -> Nat] /\ acc.out \in Seq(ToSet(nodes)) /\ Len(acc.out) = k
    BY DEF Level
  <1>2. l \in DOMAIN nodes /\ \A i \in DOMAIN nodes : acc.load[n] <= acc.load[nodes[i]]
    BY <1>1, LeastLoadedIsLeast
  <1>3. PlaceJob(nodes, acc).load = load /\ PlaceJob(nodes, acc).out = out
    BY DEF PlaceJob
  <1> HIDE DEF l
  <1>4. ToSet(nodes) = {nodes[i] : i \in DOMAIN nodes} /\ ToSet(nodes) \in SUBSET Nodes
    BY DEF ToSet
  <1>5. n \in ToSet(nodes) /\ n \in Nodes /\ \A m \in ToSet(nodes) : acc.load[n] <= acc.load[m]
    BY <1>2, <1>4
  <1> HIDE DEF n
  <1>6. /\ load \in [Nodes -> Nat] /\ load[n] = acc.load[n] + 1
        /\ \A m \in Nodes : m # n => load[m] = acc.load[m]
    BY <1>1, <1>5
  <1>7. out \in Seq(ToSet(nodes)) /\ Len(out) = k + 1
    BY <1>1, <1>5
  <1>8. ToSet(out) = ToSet(acc.out) \cup {n}
    <2> DEFINE len == Len(acc.out)
    <2>1. /\ len \in Nat /\ DOMAIN acc.out = 1 .. len /\ DOMAIN out = 1 .. len + 1
          /\ out[len + 1] = n /\ \A i \in 1 .. len : out[i] = acc.out[i]
      BY <1>1, <1>5
    <2> HIDE DEF len, out
    <2>2. ToSet(out) = {out[i] : i \in 1 .. len + 1}
      BY <2>1 DEF ToSet
    <2>3. ToSet(acc.out) = {acc.out[i] : i \in 1 .. len}
      BY <2>1 DEF ToSet
    <2>4. \A i : i \in 1 .. len + 1 <=> i \in 1 .. len \/ i = len + 1
      BY <2>1
    <2> QED BY <2>1, <2>2, <2>3, <2>4, Zenon
  <1> HIDE DEF load
  <1>9. ASSUME NEW m \in Nodes PROVE load[m] = active[m] + Cardinality(Placed(out, m))
    <2>1. /\ Cardinality(Placed(acc.out, m)) \in Nat
          /\ Cardinality(Placed(out, m))
             = Cardinality(Placed(acc.out, m)) + (IF m = n THEN 1 ELSE 0)
      BY <1>1, <1>5, PlacedGrows
    <2> HIDE DEF out
    <2>2. acc.load[m] = active[m] + Cardinality(Placed(acc.out, m)) /\ active[m] \in Nat
      BY DEF Level
    <2>3. CASE m = n
      BY <1>6, <2>1, <2>2, <2>3
    <2>4. CASE m # n
      BY <1>6, <2>1, <2>2, <2>4
    <2> QED BY <2>3, <2>4
  <1> HIDE DEF out
  <1>10. ASSUME NEW m \in ToSet(out), NEW j \in ToSet(nodes) PROVE load[m] <= load[j] + 1
    <2>0. \A i \in Nodes : acc.load[i] \in Nat /\ load[i] \in Nat /\ acc.load[i] <= load[i]
      <3> SUFFICES ASSUME NEW i \in Nodes
                   PROVE  acc.load[i] \in Nat /\ load[i] \in Nat /\ acc.load[i] <= load[i]
        OBVIOUS
      <3>1. acc.load[i] \in Nat /\ acc.load[n] \in Nat
        BY <1>1, <1>5
      <3>2. CASE i = n
        <4>1. load[i] = acc.load[i] + 1
          BY <1>6, <3>2
        <4> QED BY <3>1, <4>1
      <3>3. CASE i # n
        <4>1. load[i] = acc.load[i]
          BY <1>6, <3>3
        <4> QED BY <3>1, <4>1
      <3> QED BY <3>2, <3>3
    <2>1. j \in Nodes
      BY <1>4
    <2>2. CASE m = n
      <3>1. acc.load[n] <= acc.load[j]
        BY <1>5
      <3>2. load[m] = acc.load[n] + 1
        BY <1>6, <2>2
      <3>3. acc.load[n] \in Nat /\ acc.load[j] \in Nat /\ load[j] \in Nat /\ acc.load[j] <= load[j]
        BY <1>5, <2>0, <2>1
      <3> QED BY <3>1, <3>2, <3>3
    <2>3. CASE m # n
      <3>1. m \in ToSet(acc.out)
        BY <1>8, <2>3
      <3>2. m \in Nodes
        <4>1. PICK i \in DOMAIN acc.out : m = acc.out[i]
          BY <3>1 DEF ToSet
        <4>2. acc.out[i] \in ToSet(nodes)
          BY <1>1, <4>1
        <4> QED BY <1>4, <4>1, <4>2
      <3>3. acc.load[m] <= acc.load[j] + 1
        BY <3>1 DEF Level
      <3>4. load[m] = acc.load[m]
        BY <1>6, <2>3, <3>2
      <3> QED BY <2>0, <2>1, <3>2, <3>3, <3>4
    <2> QED BY <2>2, <2>3
  <1> QED BY <1>3, <1>6, <1>7, <1>9, <1>10 DEF Level

\* assign_nodes_least_loaded places a batch of any size level.
LEMMA BatchIsLevel ==
    ASSUME NEW nodes \in Seq(Nodes), nodes # <<>>, NEW active \in [Nodes -> Nat], NEW count \in Nat
    PROVE  \E acc : Assign(nodes, count, active) = acc.out /\ Level(acc, nodes, active, count)
  <1> DEFINE list == [k \in 1 .. count |-> k]
             how == [of |-> "jobs", nodes |-> nodes]
             base == [load |-> active, out |-> <<>>]
             f == FoldOf(how, base, list)
             S == {k \in 0 .. count : Level(f[1 .. k], nodes, active, k)}
  <1>1. DOMAIN list = 1 .. count
    OBVIOUS
  <1>2. Assign(nodes, count, active) = f[1 .. count].out
    BY <1>1, AssignIsFold
  <1>3. InTurn(f, how, base, list, count)
    <2> HIDE DEF how, base, list
    <2> QED BY <1>1, FoldInTurn
  <1> HIDE DEF f, list
  <1>4. f[1 .. 0] = base /\ \A k \in 0 .. count - 1 : f[1 .. k + 1] = PlaceJob(nodes, f[1 .. k])
    BY <1>3 DEF InTurn, OneStep
  <1>5. 0 \in S
    <2>1. base.load = active /\ base.out = <<>>
      OBVIOUS
    <2> HIDE DEF base
    <2>2. \A n : Placed(<<>>, n) = {}
      BY DEF Placed
    <2>3. \A n \in Nodes : active[n] = active[n] + Cardinality(Placed(<<>>, n))
      <3>1. Cardinality({}) = 0
        BY FS_EmptySet
      <3>2. \A n \in Nodes : active[n] \in Nat
        OBVIOUS
      <3>3. \A n : Cardinality(Placed(<<>>, n)) = 0
        BY <2>2, <3>1
      <3> QED BY <3>2, <3>3
    <2>4. ToSet(<<>>) = {}
      BY DEF ToSet
    <2>5. Level(base, nodes, active, 0)
      BY <2>1, <2>3, <2>4 DEF Level
    <2> QED BY <1>4, <2>5
  <1>6. ASSUME NEW k \in 0 .. count - 1, k \in S PROVE k + 1 \in S
    <2>1. k \in Nat /\ k + 1 \in 0 .. count
      OBVIOUS
    <2>2. Level(f[1 .. k], nodes, active, k)
      BY <1>6
    <2>3. Level(f[1 .. k + 1], nodes, active, k + 1)
      BY <1>4, <2>1, <2>2, JobKeepsLevel
    <2> QED BY <2>1, <2>3
  <1>7. \A k \in 0 .. count : k \in S
    <2> HIDE DEF S
    <2> QED BY <1>5, <1>6, IndexInduction
  <1>8. count \in 0 .. count
    OBVIOUS
  <1>9. Level(f[1 .. count], nodes, active, count)
    BY <1>7, <1>8
  <1> QED BY <1>2, <1>9

\* What active_restore_counts_by_node counts has not ended.
LEMMA ActiveAreUnfinished ==
    ASSUME NEW k \in Nat,
           NEW jobs \in [1 .. k -> [node : Nodes \cup {NoName},
                                    state : {"PENDING", "RESTORING", "COMPLETED"}]]
    PROVE  /\ ActiveByNode(jobs, Nodes) \in [Nodes -> Nat]
           /\ \A n \in Nodes : ActiveByNode(jobs, Nodes)[n]
                = Cardinality({i \in DOMAIN jobs : jobs[i].node = n /\ jobs[i].state # "COMPLETED"})
  <1> DEFINE count(n) == {i \in DOMAIN jobs : jobs[i].node = n /\ jobs[i].state \in {"PENDING", "RESTORING"}}
  <1>1. ASSUME NEW n \in Nodes
        PROVE  /\ Cardinality(count(n)) \in Nat
               /\ count(n) = {i \in DOMAIN jobs : jobs[i].node = n /\ jobs[i].state # "COMPLETED"}
    <2>1. IsFiniteSet(1 .. k) /\ count(n) \in SUBSET (1 .. k)
      BY FS_Interval
    <2>2. Cardinality(count(n)) \in Nat
      <3> HIDE DEF count
      <3> QED BY <2>1, FS_Subset, FS_CardinalityType
    <2>3. \A i \in DOMAIN jobs : jobs[i].state \in {"PENDING", "RESTORING", "COMPLETED"}
      OBVIOUS
    <2> QED BY <2>2, <2>3
  <1>2. ActiveByNode(jobs, Nodes) = [n \in Nodes |-> Cardinality(count(n))]
    BY DEF ActiveByNode
  <1> HIDE DEF count
  <1> QED BY <1>1, <1>2

\* What a decision on nodes stands for is level.
LEMMA LevelDecision == NodesFounded => PlacementIsLevel
  <1> SUFFICES ASSUME NodesFounded, Of("nodes") PROVE PlacementIsLevel
    BY DEF PlacementIsLevel
  <1> DEFINE nodes == decision.nodes
             active == ActiveByNode(decision.jobs, Nodes)
             jobs == Assign(nodes, MaxGuests, active)
             unfinished(n) == Cardinality({i \in DOMAIN decision.jobs :
                           decision.jobs[i].node = n /\ decision.jobs[i].state # "COMPLETED"})
             ends(n) == unfinished(n) + Cardinality({k \in DOMAIN jobs : jobs[k] = n})
  <1>1. PICK list \in NodeLists, byNode \in StorageChoices, default \in Storages \cup {NoName} :
            /\ decision.node \in Nodes \cup {NoName} /\ decision.jobs \in JobLists
            /\ nodes = NodesOf(decision.node, list)
            /\ LocationOk(nodes, byNode, default)
            /\ decision.storage = StorageMap(nodes, byNode, default)
    BY DEF NodesFounded
  <1>2. Listed(nodes, decision.node)
    <2>1. PICK n \in 0 .. 2 : list \in [1 .. n -> Nodes \cup {NoName}]
      BY DEF NodeLists
    <2>2. n \in Nat /\ decision.node \in Nodes \cup {NoName}
      BY <1>1
    <2>3. Listed(NodesOf(decision.node, list), decision.node)
      BY <2>1, <2>2, NodesAreListed
    <2> QED BY <1>1, <2>3
  <1>3. nodes \in Seq(Nodes) /\ nodes # <<>> /\ ToSet(nodes) \in SUBSET Nodes
    <2>1. nodes \in Seq(Nodes)
      BY <1>2 DEF Listed
    <2>2. nodes # <<>>
      BY <1>1 DEF LocationOk
    <2> HIDE DEF nodes
    <2>3. ToSet(nodes) \in SUBSET Nodes
      BY <2>1 DEF ToSet
    <2> QED BY <2>1, <2>2, <2>3
  <1>4. MaxGuests \in Nat /\ MaxJobs \in Nat
    BY DecisionsAssumption
  <1>5. active \in [Nodes -> Nat] /\ \A n \in Nodes : active[n] = unfinished(n)
    <2>1. PICK k \in 0 .. MaxJobs :
              decision.jobs \in [1 .. k -> [node : Nodes \cup {NoName},
                                            state : {"PENDING", "RESTORING", "COMPLETED"}]]
      BY <1>1 DEF JobLists
    <2>2. k \in Nat
      BY <1>4
    <2> QED BY <2>1, <2>2, ActiveAreUnfinished
  <1> HIDE DEF nodes, active
  <1>6. PICK acc : jobs = acc.out /\ Level(acc, nodes, active, MaxGuests)
    BY <1>3, <1>4, <1>5, BatchIsLevel
  <1> HIDE DEF jobs
  <1>7. decision.node # NoName => nodes[1] = decision.node
    BY <1>2 DEF Listed
  <1>8. Cardinality(ToSet(nodes)) = Len(nodes)
    BY <1>2, DistinctCount DEF Listed
  <1>9. jobs \in Seq(ToSet(nodes)) /\ Len(jobs) = MaxGuests
    BY <1>6 DEF Level
  <1>10. ASSUME NEW k \in DOMAIN jobs PROVE decision.storage[jobs[k]] \in Storages
    <2>1. jobs[k] \in ToSet(nodes) /\ jobs[k] \in Nodes
      BY <1>3, <1>9
    <2> DEFINE n == jobs[k]
    <2>2. decision.storage[n] = StorageFor(n, byNode, default)
      BY <1>1, <2>1 DEF StorageMap
    <2>3. StorageFor(n, byNode, default) # NoName
      BY <1>1, <2>1 DEF LocationOk
    <2>4. byNode[n] \in Storages \cup {NoName}
      BY <2>1 DEF StorageChoices
    <2> QED BY <2>2, <2>3, <2>4 DEF StorageFor
  <1>11. \A n \in Nodes : acc.load[n] = ends(n)
    <2> HIDE DEF unfinished
    <2> QED BY <1>5, <1>6 DEF Level, Placed
  <1>12. ASSUME NEW n \in ToSet(jobs), NEW k \in ToSet(nodes) PROVE ends(n) <= ends(k) + 1
    <2>1. n \in Nodes /\ k \in Nodes
      BY <1>3, <1>9 DEF ToSet
    <2>2. acc.load[n] <= acc.load[k] + 1
      BY <1>6 DEF Level
    <2>3. acc.load[n] = ends(n) /\ acc.load[k] = ends(k)
      BY <1>11, <2>1
    <2> HIDE DEF ends
    <2> QED BY <2>2, <2>3
  <1> QED BY <1>7, <1>8, <1>9, <1>10, <1>12 DEF PlacementIsLevel, nodes, active, jobs

\* PlacementIsLevel holds in every decision: assign_nodes_least_loaded puts
\* each job on a node with the fewest, so that after every job a node that has
\* got one is at most one above any other (Level, for every length of a batch),
\* whatever active_restore_counts_by_node found there; normalize_location puts
\* the primary node first and every node once.
THEOREM PlacementProven == Spec => []PlacementIsLevel
  <1>1. Founded => PlacementIsLevel
    BY LevelDecision DEF Founded
  <1> QED BY <1>1, DecisionsFounded, PTL
-----------------------------------------------------------------------------
(* Readiness and the run of a plan.                                        *)

\* The number of guests of the first groups.
CountOf(members) == FoldOf([of |-> "guests"], 0, members)
Finite(members) == \A g \in DOMAIN members : members[g] \in SUBSET Nat /\ IsFiniteSet(members[g])

LEMMA CountsInTurn ==
    ASSUME NEW members \in Seq(SUBSET Nat), Finite(members)
    PROVE  LET n == Len(members)
               count(k) == CountOf(members)[1 .. k]
           IN /\ MemberCount(members) = count(n) /\ count(0) = 0
              /\ \A k \in 0 .. n : count(k) \in Nat /\ count(k) <= count(n)
              /\ \A k \in 0 .. n - 1 : count(k + 1) = count(k) + Cardinality(members[k + 1])
  <1> DEFINE n == Len(members)
             f == CountOf(members)
             how == [of |-> "guests"]
             S == {k \in 0 .. n : f[1 .. k] \in Nat}
             R == {k \in 0 .. n : f[1 .. n - k] <= f[1 .. n]}
  <1>0. DOMAIN members = 1 .. n /\ n \in Nat
    OBVIOUS
  <1>1. InTurn(f, how, 0, members, n)
    <2> HIDE DEF n, how
    <2> QED BY <1>0, FoldInTurn DEF CountOf, how
  <1>2. MemberCount(members) = f[1 .. n]
    BY <1>0, MemberCountIsFold DEF CountOf
  <1>3. \A k \in 1 .. n : Cardinality(members[k]) \in Nat
    BY <1>0, FS_CardinalityType DEF Finite
  <1> HIDE DEF n, f
  <1>4. f[1 .. 0] = 0 /\ \A k \in 0 .. n - 1 : f[1 .. k + 1] = f[1 .. k] + Cardinality(members[k + 1])
    BY <1>1 DEF InTurn, OneStep
  <1>5. ASSUME NEW k \in 0 .. n PROVE f[1 .. k] \in Nat
    <2>1. 0 \in S
      BY <1>0, <1>4
    <2>2. ASSUME NEW m \in 0 .. n - 1, m \in S PROVE m + 1 \in S
      <3>1. m + 1 \in 1 .. n /\ m + 1 \in 0 .. n
        BY <1>0
      <3>2. Cardinality(members[m + 1]) \in Nat /\ f[1 .. m] \in Nat
        BY <1>3, <2>2, <3>1
      <3> QED BY <1>4, <3>1, <3>2
    <2>3. \A m \in 0 .. n : m \in S
      <3> HIDE DEF S
      <3> QED BY <1>0, <2>1, <2>2, IndexInduction
    <2> QED BY <2>3
  <1>6. ASSUME NEW k \in 0 .. n PROVE f[1 .. k] <= f[1 .. n]
    <2>1. 0 \in R
      <3>1. n - 0 = n /\ n \in 0 .. n
        BY <1>0
      <3> QED BY <1>0, <1>5, <3>1
    <2>2. ASSUME NEW m \in 0 .. n - 1, m \in R PROVE m + 1 \in R
      <3> DEFINE i == n - (m + 1)
      <3>1. m + 1 \in 0 .. n /\ i \in 0 .. n - 1 /\ i \in 0 .. n /\ i + 1 = n - m /\ i + 1 \in 1 .. n
            /\ n \in 0 .. n
        BY <1>0
      <3> HIDE DEF i
      <3>2. f[1 .. i + 1] = f[1 .. i] + Cardinality(members[i + 1])
        BY <1>4, <3>1
      <3>3. Cardinality(members[i + 1]) \in Nat /\ f[1 .. i] \in Nat /\ f[1 .. n] \in Nat
        BY <1>3, <1>5, <3>1
      <3>4. f[1 .. i + 1] <= f[1 .. n]
        BY <2>2, <3>1
      <3>5. f[1 .. i] <= f[1 .. n]
        BY <3>2, <3>3, <3>4
      <3> QED BY <3>1, <3>5 DEF i
    <2>3. \A m \in 0 .. n : m \in R
      <3> HIDE DEF R
      <3> QED BY <1>0, <2>1, <2>2, IndexInduction
    <2> DEFINE m == n - k
    <2>4. m \in 0 .. n /\ n - m = k
      BY <1>0
    <2> HIDE DEF m
    <2>5. f[1 .. n - m] <= f[1 .. n]
      BY <2>3, <2>4
    <2> QED BY <2>4, <2>5
  <1> QED BY <1>2, <1>4, <1>5, <1>6 DEF n, f

\* The groups of a run so far at a location of normal restores: what they have
\* got are the lowest free VMIDs of the window the check has looked at.
RunOn(acc, free, counted) ==
    /\ acc.ok = TRUE /\ acc.assigned \in SUBSET free
    /\ Cardinality(acc.assigned) = counted
    /\ \A u \in free \ acc.assigned : \A v \in acc.assigned : v < u

\* The window after what has been assigned.
LEMMA NextWindow ==
    ASSUME NEW start \in Nat, NEW bound \in Nat, NEW c \in Nat,
           NEW assigned \in SUBSET (FirstScanned(start) .. bound),
           bound <= FirstScanned(start) + ScanWindow
    PROVE  LET next == NextVmid(start, assigned) IN
           /\ next \in Nat /\ bound <= LastScanned(next, c)
           /\ FirstScanned(start) <= FirstScanned(next)
           /\ assigned # {} => FirstScanned(next) = next /\ next - 1 \in assigned
           /\ assigned = {} => next = start
  <1> DEFINE first == FirstScanned(start)
             next == NextVmid(start, assigned)
  <1>1. LowestVmid \in Nat /\ ScanWindow \in Nat /\ ScanPerGuest \in Nat
    BY PlacementAssumption
  <1>2. first \in Nat /\ LowestVmid <= first
    BY <1>1 DEF FirstScanned, Larger
  <1>3. /\ next \in Nat /\ first <= FirstScanned(next) /\ FirstScanned(next) \in Nat
        /\ assigned # {} => FirstScanned(next) = next /\ next - 1 \in assigned
        /\ assigned = {} => next = start
    <2>1. CASE assigned = {}
      <3>1. next = start
        BY <2>1 DEF NextVmid
      <3> QED BY <1>2, <2>1, <3>1
    <2>2. CASE assigned # {}
      <3> DEFINE max == CHOOSE v \in assigned : \A u \in assigned : u <= v
      <3>2. \E v \in assigned : \A u \in assigned : u <= v
        <4> DEFINE s == {v + 1 : v \in assigned}
        <4>1. s \in SUBSET (1 .. bound + 1) /\ s # {}
          <5>1. \A v \in assigned : v \in first .. bound
            OBVIOUS
          <5> HIDE DEF first
          <5>2. \A v \in assigned : v + 1 \in 1 .. bound + 1
            BY <1>2, <5>1
          <5>3. s \in SUBSET (1 .. bound + 1)
            BY <5>2
          <5> QED BY <2>2, <5>3
        <4>2. bound + 1 \in Nat
          OBVIOUS
        <4> DEFINE m == Max(s)
        <4> HIDE DEF s
        <4>3. m \in s /\ \A i \in s : i <= m
          BY <4>1, <4>2, MaxOfIndices
        <4> HIDE DEF m
        <4>4. PICK v \in assigned : m = v + 1
          BY <4>3 DEF s
        <4>5. ASSUME NEW u \in assigned PROVE u <= v
          <5>1. u + 1 <= m
            BY <4>3 DEF s
          <5>2. u \in Nat /\ v \in Nat
            BY <1>2
          <5> QED BY <4>4, <5>1, <5>2
        <4> QED BY <4>5
      <3>3. max \in assigned /\ \A u \in assigned : u <= max
        BY <3>2
      <3>4. next = 1 + max
        BY <2>2 DEF NextVmid
      <3> HIDE DEF max
      <3>5. max \in Nat /\ first <= max
        BY <1>2, <3>3
      <3>6. next \in Nat /\ LowestVmid <= next /\ first <= next /\ next - 1 = max
        BY <1>1, <1>2, <3>4, <3>5
      <3>7. FirstScanned(next) = next
        BY <1>1, <3>6 DEF FirstScanned, Larger
      <3> HIDE DEF first, next
      <3> QED BY <2>2, <3>3, <3>6, <3>7
    <2> QED BY <2>1, <2>2
  <1>4. bound <= LastScanned(next, c)
    <2>1. c * ScanPerGuest \in Nat
      BY <1>1
    <2>2. Larger(ScanWindow, c * ScanPerGuest) \in Nat
          /\ ScanWindow <= Larger(ScanWindow, c * ScanPerGuest)
      BY <1>1, <2>1 DEF Larger
    <2> HIDE DEF next, first
    <2>3. bound <= first + ScanWindow
      BY DEF first
    <2> QED BY <1>1, <1>2, <1>3, <2>2, <2>3 DEF LastScanned
  <1> QED BY <1>3, <1>4

\* A group gets as many VMIDs as it has guests, the lowest that are left, if
\* the window the check has looked at had enough for all.
LEMMA GroupFits ==
    ASSUME NEW loc, loc.dr = FALSE, loc.start \in Nat,
           LocationOk(loc.nodes, loc.byNode, loc.default),
           NEW inUse, NEW bound \in Nat, bound <= FirstScanned(loc.start) + ScanWindow,
           NEW free, free = (FirstScanned(loc.start) .. bound) \ inUse,
           NEW counted \in Nat, NEW acc, RunOn(acc, free, counted),
           NEW guests, Cardinality(guests) \in Nat,
           counted + Cardinality(guests) <= Cardinality(free)
    PROVE  RunOn(EnqueueNext(loc, inUse, acc, guests), free, counted + Cardinality(guests))
  <1> DEFINE c == Cardinality(guests)
             assigned == acc.assigned
             next == NextVmid(loc.start, assigned)
             first == FirstScanned(loc.start)
             here == FirstScanned(next)
             last == LastScanned(next, c)
             out == Allocate(inUse \cup assigned, next, c)
             T == ToSet(out)
             left == (here .. last) \ (inUse \cup assigned)
             rest == free \ assigned
  <1>1. first \in Nat
    <2>1. LowestVmid \in Nat
      BY PlacementAssumption
    <2> QED BY <2>1 DEF FirstScanned, Larger
  <1>2. free \in SUBSET Nat /\ IsFiniteSet(free) /\ Cardinality(free) \in Nat
    <2>1. IsFiniteSet(first .. bound)
      BY <1>1, FS_Interval
    <2>2. free \in SUBSET (first .. bound)
      OBVIOUS
    <2> HIDE DEF first
    <2> QED BY <1>1, <2>1, <2>2, FS_Subset, FS_CardinalityType
  <1>3. /\ assigned \in SUBSET free /\ Cardinality(assigned) = counted
        /\ \A u \in free \ assigned : \A v \in assigned : v < u
    BY DEF RunOn
  <1>4. /\ next \in Nat /\ bound <= last /\ first <= here
        /\ assigned # {} => here = next /\ next - 1 \in assigned
        /\ assigned = {} => here = first
    <2>1. assigned \in SUBSET (first .. bound)
      BY <1>3
    <2> QED BY <2>1, NextWindow
  <1>5. here \in Nat /\ last \in Nat
    BY <1>4, WindowScanned
  <1>6. Taken(out, left, c, last + 1)
    BY <1>4, AllocateTakes
  <1> HIDE DEF assigned, next, first, here, last
  <1>7. /\ out \in Seq(Nat) /\ Len(out) \in Nat /\ Len(out) <= c
        /\ IsFiniteSet(T) /\ Cardinality(T) = Len(out)
        /\ \A v \in T : v \in left
        /\ \A u \in left : u \in T \/ (Len(out) = c /\ \A v \in T : v < u)
    <2>1. out \in Seq(Nat) /\ Len(out) <= c /\ Len(out) \in Nat
      BY <1>6 DEF Taken
    <2>2. IsFiniteSet(T) /\ Cardinality(T) = Len(out)
      BY <1>6, AscendingCount DEF Taken
    <2>3. T = {out[i] : i \in DOMAIN out}
      BY DEF ToSet
    <2>4. \A u \in left : u < last + 1
      BY <1>5
    <2> HIDE DEF T, left, out
    <2>5. \A v \in T : v \in left
      BY <1>6, <2>3 DEF Taken
    <2>6. \A u \in left : u \in T \/ (Len(out) = c /\ \A v \in T : v < u)
      BY <1>6, <2>3, <2>4 DEF Taken
    <2> QED BY <2>1, <2>2, <2>5, <2>6
  <1> HIDE DEF out, T
  <1>8. rest \in SUBSET left
    <2> SUFFICES ASSUME NEW u \in free, u \notin assigned PROVE u \in here .. last /\ u \notin inUse
      OBVIOUS
    <2>1. u \in Nat /\ first <= u /\ u <= bound /\ u \notin inUse
      BY <1>1, <1>2 DEF first
    <2>2. here <= u
      <3>1. CASE assigned = {}
        BY <1>4, <2>1, <3>1
      <3>2. CASE assigned # {}
        <4>1. here = next /\ next - 1 \in assigned /\ next - 1 < u
          BY <1>3, <1>4, <3>2
        <4> QED BY <1>4, <2>1, <4>1
      <3> QED BY <3>1, <3>2
    <2> QED BY <1>4, <1>5, <2>1, <2>2
  <1>9. IsFiniteSet(rest) /\ Cardinality(rest) \in Nat /\ c <= Cardinality(rest)
    <2>1. IsFiniteSet(rest) /\ IsFiniteSet(assigned)
      BY <1>2, <1>3, FS_Subset
    <2>2. free = rest \cup assigned /\ rest \cap assigned = {}
      BY <1>3
    <2> HIDE DEF rest
    <2>3. Cardinality(rest) \in Nat /\ Cardinality(assigned) \in Nat
      BY <2>1, FS_CardinalityType
    <2>4. Cardinality(rest \cap assigned) = 0
      BY <2>2, FS_EmptySet
    <2>5. Cardinality(rest \cup assigned)
          = Cardinality(rest) + Cardinality(assigned) - Cardinality(rest \cap assigned)
      BY <2>1, FS_Union
    <2>6. Cardinality(free) = Cardinality(rest) + counted
      <3>1. Cardinality(rest \cup assigned) = Cardinality(rest) + counted
        BY <1>3, <2>3, <2>4, <2>5
      <3> QED BY <2>2, <3>1, Zenon
    <2> QED BY <1>2, <2>1, <2>3, <2>6
  <1> HIDE DEF rest
  <1>10. Len(out) = c
    <2> SUFFICES ASSUME Len(out) # c PROVE FALSE
      OBVIOUS
    <2>1. rest \in SUBSET T
      BY <1>7, <1>8
    <2>2. Cardinality(rest) <= Cardinality(T)
      BY <1>7, <2>1, FS_Subset
    <2> QED BY <1>7, <1>9, <2>2
  <1>11. T \in SUBSET rest
    <2> SUFFICES ASSUME NEW v \in T, v \notin rest PROVE FALSE
      OBVIOUS
    <2>1. v \in left /\ v \in Nat /\ v \notin inUse /\ v \notin assigned /\ here <= v
      BY <1>5, <1>7
    <2>2. bound < v
      <3>1. ~ (v \in first .. bound)
        BY <2>1 DEF rest, first
      <3> QED BY <1>1, <1>4, <1>5, <2>1, <3>1
    <2>3. rest \in SUBSET (T \ {v})
      <3> SUFFICES ASSUME NEW u \in rest PROVE u \in T /\ u # v
        OBVIOUS
      <3>1. u \in left /\ u \in Nat /\ u <= bound
        BY <1>1, <1>2, <1>8 DEF rest, first
      <3>2. u < v /\ ~ (v < u)
        BY <2>1, <2>2, <3>1
      <3> QED BY <1>7, <2>1, <3>1, <3>2
    <2>4. IsFiniteSet(T \ {v}) /\ Cardinality(T \ {v}) = Len(out) - 1
      BY <1>7, FS_RemoveElement
    <2>5. Cardinality(rest) <= Len(out) - 1
      BY <2>3, <2>4, FS_Subset
    <2> QED BY <1>7, <1>9, <1>10, <2>5
  <1> DEFINE more == assigned \cup T
  <1>12. more \in SUBSET free /\ Cardinality(more) = counted + c
    <2>1. IsFiniteSet(assigned) /\ assigned \cap T = {}
      BY <1>2, <1>3, <1>11, FS_Subset DEF rest
    <2>2. Cardinality(assigned \cap T) = 0
      BY <2>1, FS_EmptySet
    <2>3. Cardinality(more) = Cardinality(assigned) + Cardinality(T) - Cardinality(assigned \cap T)
      BY <1>7, <2>1, FS_Union
    <2>4. Cardinality(more) = counted + c
      BY <1>3, <1>7, <1>10, <2>2, <2>3
    <2> QED BY <1>3, <1>11, <2>4 DEF rest
  <1>13. \A u \in free \ more : \A v \in more : v < u
    <2> SUFFICES ASSUME NEW u \in free, u \notin more, NEW v \in more PROVE v < u
      OBVIOUS
    <2>1. CASE v \in assigned
      BY <1>3, <2>1
    <2>2. CASE v \in T
      <3>1. u \in left /\ u \notin T
        BY <1>8 DEF rest
      <3> QED BY <1>7, <2>2, <3>1
    <2> QED BY <2>1, <2>2
  <1>14. /\ EnqueueNext(loc, inUse, acc, guests).assigned = more
         /\ EnqueueNext(loc, inUse, acc, guests).ok = TRUE
    <2>1. Targets(loc, guests, inUse \cup acc.assigned, NextVmid(loc.start, acc.assigned)) = T
      BY DEF Targets, T, out, next, assigned
    <2>2. EnqueueAccepted(loc, guests, T)
      BY <1>7, <1>10 DEF EnqueueAccepted
    <2>3. acc.ok = TRUE
      BY DEF RunOn
    <2> HIDE DEF c
    <2> QED BY <2>1, <2>2, <2>3 DEF EnqueueNext, assigned
  <1> HIDE DEF more
  <1> QED BY <1>12, <1>13, <1>14 DEF RunOn

\* The window of a batch that is not larger than the code scans anyway.
LEMMA WindowIsEnough ==
    ASSUME NEW start \in Nat, NEW total \in Nat, total * ScanPerGuest <= ScanWindow, NEW inUse,
           ~ (Len(Allocate(inUse, start, total)) < total)
    PROVE  /\ FirstScanned(start) + ScanWindow \in Nat
           /\ total <= Cardinality((FirstScanned(start) .. FirstScanned(start) + ScanWindow) \ inUse)
  <1> DEFINE first == FirstScanned(start)
             last == LastScanned(start, total)
             free == (first .. last) \ inUse
             out == Allocate(inUse, start, total)
  <1>1. first \in Nat /\ last \in Nat
    BY WindowScanned
  <1>2. last = first + ScanWindow
    <2>1. ScanPerGuest \in Nat /\ ScanWindow \in Nat
      BY PlacementAssumption
    <2>2. total * ScanPerGuest \in Nat
      BY <2>1
    <2>3. Larger(ScanWindow, total * ScanPerGuest) = ScanWindow
      BY <2>1, <2>2 DEF Larger
    <2> QED BY <2>3 DEF LastScanned
  <1>3. Taken(out, free, total, last + 1)
    BY AllocateTakes
  <1> HIDE DEF first, last
  <1>4. IsFiniteSet(free) /\ Cardinality(free) \in Nat
    <2>1. IsFiniteSet(first .. last) /\ free \in SUBSET (first .. last)
      BY <1>1, FS_Interval
    <2> HIDE DEF free
    <2> QED BY <2>1, FS_Subset, FS_CardinalityType
  <1> HIDE DEF free, out
  <1>5. out \in Seq(Nat) /\ Len(out) \in Nat /\ Cardinality(ToSet(out)) = Len(out)
    BY <1>3, AscendingCount DEF Taken
  <1>6. ToSet(out) \in SUBSET free
    BY <1>3 DEF Taken, ToSet
  <1>7. Cardinality(ToSet(out)) <= Cardinality(free)
    BY <1>4, <1>6, FS_Subset
  <1>8. ~ (Len(out) < total)
    BY DEF out
  <1>9. total <= Cardinality(free)
    BY <1>4, <1>5, <1>7, <1>8
  <1> QED BY <1>1, <1>2, <1>9 DEF first, free

\* Group after group, at a location of normal restores.
LEMMA RunFits ==
    ASSUME NEW loc, loc.dr = FALSE, loc.start \in Nat,
           LocationOk(loc.nodes, loc.byNode, loc.default),
           NEW members \in Seq(SUBSET Nat), Finite(members), NEW inUse,
           MemberCount(members) * ScanPerGuest <= ScanWindow,
           ~ (Len(Allocate(inUse, loc.start, MemberCount(members))) < MemberCount(members))
    PROVE  RunGoesThrough(loc, members, inUse)
  <1> DEFINE n == Len(members)
             count(k) == CountOf(members)[1 .. k]
             how == [of |-> "run", loc |-> loc, inUse |-> inUse]
             base == [assigned |-> {}, ok |-> TRUE]
             f == FoldOf(how, base, members)
             bound == FirstScanned(loc.start) + ScanWindow
             free == (FirstScanned(loc.start) .. bound) \ inUse
             S == {k \in 0 .. n : RunOn(f[1 .. k], free, count(k))}
  <1>0. DOMAIN members = 1 .. n /\ n \in Nat
    OBVIOUS
  <1>1. /\ MemberCount(members) = count(n) /\ count(0) = 0
        /\ \A k \in 0 .. n : count(k) \in Nat /\ count(k) <= count(n)
        /\ \A k \in 0 .. n - 1 : count(k + 1) = count(k) + Cardinality(members[k + 1])
    BY CountsInTurn
  <1> HIDE DEF n, count
  <1>2. n \in 0 .. n /\ count(n) \in Nat
    BY <1>0, <1>1
  <1>3. bound \in Nat /\ count(n) <= Cardinality(free)
    BY <1>1, <1>2, WindowIsEnough
  <1>4. Cardinality(free) \in Nat
    <2>1. FirstScanned(loc.start) \in Int
      BY PlacementAssumption DEF FirstScanned, Larger
    <2>2. IsFiniteSet(FirstScanned(loc.start) .. bound)
      BY <1>3, <2>1, FS_Interval
    <2>3. free \in SUBSET (FirstScanned(loc.start) .. bound)
      OBVIOUS
    <2> HIDE DEF free, bound
    <2> QED BY <2>2, <2>3, FS_Subset, FS_CardinalityType
  <1>5. bound <= FirstScanned(loc.start) + ScanWindow
    BY <1>3
  <1>6. InTurn(f, how, base, members, n)
    <2> HIDE DEF how, base
    <2> QED BY <1>0, FoldInTurn
  <1>7. RunGoesThrough(loc, members, inUse) = f[1 .. n].ok
    BY <1>0, RunIsFold
  <1> HIDE DEF f
  <1>8. /\ f[1 .. 0] = base
        /\ \A k \in 0 .. n - 1 : f[1 .. k + 1] = EnqueueNext(loc, inUse, f[1 .. k], members[k + 1])
    BY <1>6 DEF InTurn, OneStep
  <1>9. free = (FirstScanned(loc.start) .. bound) \ inUse
    OBVIOUS
  <1> HIDE DEF free, bound
  <1>10. 0 \in S
    <2>1. base.assigned = {} /\ base.ok = TRUE
      OBVIOUS
    <2> HIDE DEF base
    <2>2. RunOn(base, free, 0)
      BY <2>1, FS_EmptySet DEF RunOn
    <2> QED BY <1>0, <1>1, <1>8, <2>2
  <1>11. ASSUME NEW k \in 0 .. n - 1, k \in S PROVE k + 1 \in S
    <2>1. k + 1 \in 0 .. n /\ k \in 0 .. n /\ k + 1 \in DOMAIN members
      BY <1>0
    <2> DEFINE guests == members[k + 1]
    <2>2. Cardinality(guests) \in Nat
      BY <2>1, FS_CardinalityType DEF Finite
    <2>3. count(k) \in Nat /\ count(k + 1) = count(k) + Cardinality(guests)
          /\ count(k + 1) \in Nat /\ count(k + 1) <= count(n)
      BY <1>1, <2>1
    <2>4. RunOn(f[1 .. k], free, count(k))
      BY <1>11
    <2>5. f[1 .. k + 1] = EnqueueNext(loc, inUse, f[1 .. k], guests)
      BY <1>8
    <2> HIDE DEF guests
    <2>6. count(k) + Cardinality(guests) <= Cardinality(free)
      BY <1>2, <1>3, <1>4, <2>2, <2>3
    <2>7. RunOn(EnqueueNext(loc, inUse, f[1 .. k], guests), free, count(k) + Cardinality(guests))
      BY <1>3, <1>5, <1>9, <2>2, <2>3, <2>4, <2>6, GroupFits
    <2> QED BY <2>1, <2>3, <2>5, <2>7
  <1>12. \A k \in 0 .. n : k \in S
    <2> HIDE DEF S
    <2> QED BY <1>0, <1>10, <1>11, IndexInduction
  <1>13. RunOn(f[1 .. n], free, count(n))
    BY <1>2, <1>12
  <1> QED BY <1>7, <1>13 DEF RunOn

\* Group after group, at a location of DR restores: no VMID is wanted twice.
LEMMA RunFitsDr ==
    ASSUME NEW loc, loc.dr = TRUE, LocationOk(loc.nodes, loc.byNode, loc.default),
           NEW members \in Seq(SUBSET Nat), NEW inUse, Duplicates(members) = {},
           (UNION ToSet(members)) \cap inUse = {}
    PROVE  RunGoesThrough(loc, members, inUse)
  <1> DEFINE n == Len(members)
             how == [of |-> "run", loc |-> loc, inUse |-> inUse]
             base == [assigned |-> {}, ok |-> TRUE]
             f == FoldOf(how, base, members)
             wanted(k) == {v \in Nat : \E i \in 1 .. k : v \in members[i]}
             S == {k \in 0 .. n : f[1 .. k].ok = TRUE /\ f[1 .. k].assigned \subseteq wanted(k)}
  <1>0. DOMAIN members = 1 .. n /\ n \in Nat
    OBVIOUS
  <1>1. InTurn(f, how, base, members, n)
    <2> HIDE DEF how, base, n
    <2> QED BY <1>0, FoldInTurn
  <1>2. RunGoesThrough(loc, members, inUse) = f[1 .. n].ok
    BY <1>0, RunIsFold
  <1> HIDE DEF f, n
  <1>3. /\ f[1 .. 0] = base
        /\ \A k \in 0 .. n - 1 : f[1 .. k + 1] = EnqueueNext(loc, inUse, f[1 .. k], members[k + 1])
    BY <1>1 DEF InTurn, OneStep
  <1>4. 0 \in S
    BY <1>0, <1>3
  <1>5. ASSUME NEW k \in 0 .. n - 1, k \in S PROVE k + 1 \in S
    <2> DEFINE guests == members[k + 1]
    <2>1. k \in Nat /\ k + 1 \in 0 .. n /\ k + 1 \in DOMAIN members
      BY <1>0
    <2>2. f[1 .. k].ok = TRUE /\ f[1 .. k].assigned \subseteq wanted(k)
      BY <1>5
    <2>3. guests \in SUBSET Nat /\ guests \in ToSet(members)
      BY <2>1 DEF ToSet
    <2>4. ASSUME NEW v \in guests PROVE v \notin inUse /\ v \notin f[1 .. k].assigned
      <3>1. v \notin inUse
        <4>1. v \in UNION ToSet(members)
          BY <2>3
        <4> QED BY <4>1
      <3>2. v \notin wanted(k)
        <4> SUFFICES ASSUME NEW i \in 1 .. k, v \in members[i] PROVE FALSE
          OBVIOUS
        <4>1. i \in DOMAIN members /\ i < k + 1
          BY <1>0, <2>1
        <4>2. members[i] \in ToSet(members)
          BY <4>1 DEF ToSet
        <4>3. v \in UNION ToSet(members)
          BY <4>2
        <4>4. v \in Duplicates(members)
          BY <2>1, <4>1, <4>3 DEF Duplicates
        <4> QED BY <4>4
      <3> QED BY <2>2, <3>1, <3>2
    <2>5. wanted(k) \cup guests \subseteq wanted(k + 1)
      <3>1. ASSUME NEW v \in wanted(k) PROVE v \in wanted(k + 1)
        <4>1. PICK i \in 1 .. k : v \in members[i]
          OBVIOUS
        <4>2. i \in 1 .. k + 1
          BY <2>1
        <4> QED BY <4>1, <4>2
      <3>2. ASSUME NEW v \in guests PROVE v \in wanted(k + 1)
        <4>1. k + 1 \in 1 .. k + 1 /\ v \in Nat
          BY <2>1, <2>3
        <4> QED BY <4>1
      <3> QED BY <3>1, <3>2
    <2> HIDE DEF wanted, guests
    <2>6. /\ EnqueueNext(loc, inUse, f[1 .. k], guests).ok = TRUE
          /\ EnqueueNext(loc, inUse, f[1 .. k], guests).assigned = f[1 .. k].assigned \cup guests
      <3> DEFINE acc == f[1 .. k]
      <3>1. acc.ok = TRUE /\ guests \cap (inUse \cup acc.assigned) = {}
        BY <2>2, <2>4
      <3> HIDE DEF acc
      <3>2. Targets(loc, guests, inUse \cup acc.assigned, NextVmid(loc.start, acc.assigned)) = guests
        BY <3>1 DEF Targets
      <3>3. EnqueueAccepted(loc, guests, guests)
        BY DEF EnqueueAccepted
      <3>4. /\ EnqueueNext(loc, inUse, acc, guests).ok = TRUE
            /\ EnqueueNext(loc, inUse, acc, guests).assigned = acc.assigned \cup guests
        BY <3>1, <3>2, <3>3 DEF EnqueueNext
      <3> QED BY <3>4 DEF acc
    <2>7. f[1 .. k + 1] = EnqueueNext(loc, inUse, f[1 .. k], guests)
      BY <1>3 DEF guests
    <2> QED BY <2>1, <2>2, <2>5, <2>6, <2>7
  <1>6. \A k \in 0 .. n : k \in S
    <2> HIDE DEF S
    <2> QED BY <1>0, <1>4, <1>5, IndexInduction
  <1>7. n \in 0 .. n
    BY <1>0
  <1> QED BY <1>2, <1>6, <1>7

\* A check without errors has looked at everything.
LEMMA CheckLooked ==
    ASSUME NEW plan, NEW loc, NEW site, NEW members,
           loc.found = TRUE, site.pve \in {"up", "down", "no session"},
           Errors(plan, loc, site, members) = {}
    PROVE  /\ NodeErrors(loc, site) = {} /\ Seen(site, members) = members
           /\ VmidErrors(loc, members, site.inUse) = {} /\ MemberCount(members) # 0
  <1> DEFINE connect == ConnectErrors(plan, loc, site)
             looked == IF ~loc.found \/ site.pve # "up" THEN {}
                       ELSE NodeErrors(loc, site) \cup MemberErrors(site, members)
                            \cup VmidErrors(loc, Seen(site, members), site.inUse)
  <1>1. connect = {} /\ looked = {}
        /\ Has(connect \cup looked = {} /\ MemberCount(members) = 0, "plan.empty") = {}
    BY DEF Errors
  <1>2. MemberCount(members) # 0
    <2> HIDE DEF connect, looked
    <2> QED BY <1>1 DEF Has
  <1>3. site.pve = "up"
    BY <1>1 DEF ConnectErrors, Has
  <1>4. /\ NodeErrors(loc, site) = {} /\ MemberErrors(site, members) = {}
        /\ VmidErrors(loc, Seen(site, members), site.inUse) = {}
    BY <1>1, <1>3
  <1>5. ~ ~ site.backups
    BY <1>4 DEF MemberErrors, Has
  <1>6. Seen(site, members) = members
    BY <1>5 DEF Seen
  <1> QED BY <1>2, <1>4, <1>6

\* What a check without errors stands for goes through.
LEMMA ReadyDecision == ReadyFounded => ReadyRunsGoThrough
  <1> DEFINE members == decision.members
             loc == decision.loc
             site == decision.site
             total == MemberCount(members)
  <1> SUFFICES ASSUME ReadyFounded, Of("readiness"), total * ScanPerGuest <= ScanWindow,
                      Errors(decision.plan, loc, site, members) = {}
               PROVE  /\ RunGoesThrough(loc, members, site.inUse)
                      /\ \A n \in ToSet(loc.nodes) :
                           site.storages[n][StorageFor(n, loc.byNode, loc.default)] = "ok"
    BY DEF ReadyRunsGoThrough
  <1>1. /\ site \in Sites /\ members \in PlanMembers
        /\ loc.found = TRUE /\ loc.dr \in BOOLEAN /\ loc.start \in Nat
        /\ LocationOk(loc.nodes, loc.byNode, loc.default)
    BY DEF ReadyFounded
  <1> HIDE DEF loc, site, members
  <1>2. /\ site.pve \in {"up", "down", "no session"}
        /\ members \in Seq(SUBSET Nat) /\ Finite(members)
    <2>1. /\ PlanMembers \subseteq Seq(SUBSET Nat)
          /\ \A m \in PlanMembers : \A g \in DOMAIN m : IsFiniteSet(m[g])
          /\ \A s \in Sites : s.pve \in {"up", "down", "no session"}
      BY DecisionsAssumption
    <2>2. members \in Seq(SUBSET Nat)
      BY <1>1, <2>1
    <2>3. \A g \in DOMAIN members : members[g] \in SUBSET Nat
      BY <2>2
    <2> QED BY <1>1, <2>1, <2>2, <2>3 DEF Finite
  <1>3. /\ NodeErrors(loc, site) = {} /\ VmidErrors(loc, members, site.inUse) = {} /\ total # 0
    BY <1>1, <1>2, CheckLooked
  <1>6. ASSUME NEW n \in ToSet(loc.nodes)
        PROVE  site.storages[n][StorageFor(n, loc.byNode, loc.default)] = "ok"
    <2>1. NodeError(n, loc, site) = {}
      BY <1>3 DEF NodeErrors
    <2> QED BY <2>1 DEF NodeError
  <1>4. CASE loc.dr = TRUE
    <2>1. Duplicates(members) = {} /\ (UNION ToSet(members)) \cap site.inUse = {}
      BY <1>3, <1>4 DEF VmidErrors, Has
    <2>2. RunGoesThrough(loc, members, site.inUse)
      BY <1>1, <1>2, <1>4, <2>1, RunFitsDr
    <2> QED BY <1>6, <2>2
  <1>5. CASE loc.dr = FALSE
    <2>1. ~ (Len(Allocate(site.inUse, loc.start, total)) < total)
      BY <1>3, <1>5 DEF VmidErrors, Has
    <2>2. RunGoesThrough(loc, members, site.inUse)
      BY <1>1, <1>2, <1>5, <2>1, RunFits
    <2> QED BY <1>6, <2>2
  <1> QED BY <1>1, <1>4, <1>5, <1>6

\* ReadyRunsGoThrough holds in every decision: as many free VMIDs as
\* run_plan_readiness counts in one window for all guests are enough for
\* advance_plan_runs, which takes them group by group, each from a window that
\* begins after the last VMID taken (RunOn, for every number of groups).
THEOREM ReadyProven == Spec => []ReadyRunsGoThrough
  <1>1. Founded => ReadyRunsGoThrough
    BY ReadyDecision DEF Founded
  <1> QED BY <1>1, DecisionsFounded, PTL
=============================================================================
