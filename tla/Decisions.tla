------------------------------ MODULE Decisions ------------------------------
(***************************************************************************)
(* The decisions of the application that are functions of what it has      *)
(* read: where restores go, which backups a group stands for, whether a    *)
(* plan is ready, whether a request may run and what its restores do.      *)
(* Each behaviour takes one decision, on inputs from the constants; the    *)
(* properties relate decisions that are taken in different places of the   *)
(* code on the same inputs.                                                *)
(***************************************************************************)
EXTENDS Readiness, GroupResolution, RunOptions

CONSTANTS
    Vmids,      \* the VMIDs that occur
    MaxGuests,  \* bound: guests of a batch
    Nodes, Storages,
    MaxJobs,    \* bound: jobs there are already
    Inventories,\* lists of backups
    Groups, Cutoffs,
    TagsIn,     \* the tags inside each backup, by id
    Sites,      \* what the servers answer to a readiness check
    PlanMembers,\* the groups of a plan, as sets of VMIDs
    Locations,
    Asks,       \* requests to run a plan
    Policies    \* plans, by what matters to their runs

ASSUME DecisionsAssumption ==
    /\ Vmids \subseteq Nat /\ MaxGuests \in Nat /\ MaxJobs \in Nat
    /\ NoName \notin Nodes /\ NoName \notin Storages
    /\ Inventories \subseteq Seq(Backup)
    /\ \A site \in Sites : site.pve \in {"up", "down", "no session"}
    /\ PlanMembers \subseteq Seq(SUBSET Nat)
    /\ \A members \in PlanMembers : \A g \in DOMAIN members : IsFiniteSet(members[g])
    /\ Locations \subseteq Location /\ Asks \subseteq PlanRunRequest /\ Policies \subseteq Policy

VARIABLE decision

\* A node list as an operator sends it: with repetitions and empty names.
NodeLists == UNION {[1 .. n -> Nodes \cup {NoName}] : n \in 0 .. 2}
JobLists ==
    UNION {[1 .. n -> [node : Nodes \cup {NoName}, state : {"PENDING", "RESTORING", "COMPLETED"}]] :
           n \in 0 .. MaxJobs}
StorageChoices == [Nodes -> Storages \cup {NoName}]
\* The nodes of a saved location, one or two.
SavedNodes ==
    {nodes \in {<<n>> : n \in Nodes} \cup {<<n, k>> : n, k \in Nodes} : nodes = NodesOf(NoName, nodes)}

Undecided == [of |-> "nothing"]
Init == decision = Undecided

Decide(d) == decision' = d

DecideVmids ==
    /\ decision = Undecided
    /\ \E inUse \in SUBSET Vmids, start \in Vmids, count \in 0 .. MaxGuests :
           Decide([of |-> "vmids", inUse |-> inUse, start |-> start, count |-> count])

\* A location is saved, and jobs are placed there beside those there are.
DecideNodes ==
    /\ decision = Undecided
    /\ \E node \in Nodes \cup {NoName}, list \in NodeLists, byNode \in StorageChoices,
          default \in Storages \cup {NoName}, jobs \in JobLists :
           /\ LocationOk(NodesOf(node, list), byNode, default)
           /\ Decide([of |-> "nodes", node |-> node, nodes |-> NodesOf(node, list), jobs |-> jobs,
                      storage |-> StorageMap(NodesOf(node, list), byNode, default)])

DecideMembers ==
    /\ decision = Undecided
    /\ \E rows \in Inventories, group \in Groups, cutoff \in Cutoffs :
           Decide([of |-> "members", rows |-> rows, group |-> group, cutoff |-> cutoff])

DecideReadiness ==
    /\ decision = Undecided
    /\ \E site \in Sites, members \in PlanMembers, dr \in BOOLEAN, start \in Vmids,
          byNode \in [Nodes -> Storages], missing \in BOOLEAN, nodes \in SavedNodes :
           /\ LocationOk(nodes, byNode, NoName)
           /\ Decide([of |-> "readiness", site |-> site, members |-> members,
                      plan |-> [groups |-> Len(members), missing |-> missing],
                      loc |-> [found |-> TRUE, dr |-> dr, nodes |-> nodes, byNode |-> byNode,
                               default |-> NoName, start |-> start]])

\* api_run_plan, and start_plan_run once it is accepted.
DecideRun ==
    /\ decision = Undecided
    /\ \E loc \in Locations, ask \in Asks, plan \in Policies :
           /\ RunAccepted(plan, loc, ask, TRUE)
           /\ Decide([of |-> "run", loc |-> loc, ask |-> ask, plan |-> plan])

\* api_assure_plan, and start_plan_run.
DecideAssurance ==
    /\ decision = Undecided
    /\ \E loc \in Locations, ask \in Asks, plan \in Policies :
           /\ AssureAccepted(plan, loc, ask, TRUE)
           /\ Decide([of |-> "assurance", loc |-> loc, ask |-> AssureAsk(plan, loc, ask), plan |-> plan])

\* _start_scheduled: no gate.
DecideScheduled ==
    /\ decision = Undecided
    /\ \E loc \in Locations, plan \in Policies :
           Decide([of |-> "schedule", loc |-> loc, ask |-> ScheduledAsk(plan), plan |-> plan])

Next ==
    \/ DecideVmids \/ DecideNodes \/ DecideMembers
    \/ DecideReadiness \/ DecideRun \/ DecideAssurance \/ DecideScheduled

Spec == Init /\ [][Next]_decision
-----------------------------------------------------------------------------
(* Properties.                                                             *)

Of(kind) == decision.of = kind

\* The VMIDs of a batch are the lowest free ones of the window, in order, and
\* there are as many as guests exactly when the window has that many free
\* (allocate_sequential_free_vmids, whose loop stops at an upper bound).
AllocationIsLowest ==
    Of("vmids") =>
        LET free == LowestFree(decision.inUse, decision.start, decision.count)
            vmids == Allocate(decision.inUse, decision.start, decision.count)
        IN ToSet(vmids) = free /\ \A i, k \in DOMAIN vmids : i < k => vmids[i] < vmids[k]

\* A location that could be saved takes every batch: its primary node comes
\* first and no node twice, each job gets a storage of its node, and jobs are
\* spread level: a node that gets one ends with at most one job more than any
\* other, the jobs of other batches that have not ended included
\* (normalize_location, active_restore_counts_by_node, assign_nodes_least_loaded).
PlacementIsLevel ==
    Of("nodes") =>
        LET nodes == decision.nodes
            jobs == Assign(nodes, MaxGuests, ActiveByNode(decision.jobs, Nodes))
            ends(n) == Cardinality({i \in DOMAIN decision.jobs :
                           decision.jobs[i].node = n /\ decision.jobs[i].state # "COMPLETED"})
                       + Cardinality({k \in DOMAIN jobs : jobs[k] = n})
        IN /\ decision.node # NoName => nodes[1] = decision.node
           /\ Cardinality(ToSet(nodes)) = Len(nodes)
           /\ Len(jobs) = MaxGuests /\ \A k \in DOMAIN jobs : decision.storage[jobs[k]] \in Storages
           /\ \A n \in ToSet(jobs), k \in ToSet(nodes) : ends(n) <= ends(k) + 1

\* A group stands for the guests whose newest backup its selectors take, and
\* for one backup of each: what is read of tags beforehand is enough.  Except
\* for a group that names sources and tags (_latest_per_vmid looks for the
\* newest backup in all sources, resolve_group_rows in those of the group).
TagsReachMembers ==
    Of("members") /\ (decision.group.sources = {} \/ decision.group.tags = {}) =>
        LET members == Members(decision.group, decision.rows, decision.cutoff, TagsIn)
        IN /\ {b.vmid : b \in members} =
                GuestsMeant(decision.group, decision.rows, decision.cutoff, TagsIn)
           /\ \A b, c \in members : b.vmid = c.vmid => b = c

\* A plan whose check found no error can be run on the cluster it was checked
\* on: every group is enqueued in its turn, beside the guests of those before
\* it, and every node of the location has the storage its jobs restore to.
\* (run_plan_readiness against start_plan_run and advance_plan_runs; for plans
\* of so few guests that the window does not grow with them.)
ReadyRunsGoThrough ==
    /\ Of("readiness") /\ MemberCount(decision.members) * ScanPerGuest <= ScanWindow
    /\ Errors(decision.plan, decision.loc, decision.site, decision.members) = {}
    => /\ RunGoesThrough(decision.loc, decision.members, decision.site.inUse)
       /\ \A n \in ToSet(decision.loc.nodes) :
            decision.site.storages[n][StorageFor(n, decision.loc.byNode, decision.loc.default)] = "ok"

\* What the options of a decision make of it.
Booting == Boots(Options(decision.loc, decision.ask))
Fenced == IsolatedLocation(decision.loc.isolated, decision.loc.network)

\* A request a user has not allowed to do so restores no guest that runs
\* beside production (README: "Power-on, live-restore, and QGA require
\* network isolation"): the gates of the API against the options of
\* start_plan_run.
BootsNeedIsolation ==
    Of("run") \/ Of("assurance") => (Booting => Fenced \/ decision.ask.allow_non_isolated)

\* The same, except for the one request the gate takes for powered off: a
\* drill asked not to be, at a location of live restores.  The schedule has no
\* gate; its drills boot nothing, whatever the location's defaults are.
BootsAreGated ==
    /\ Of("run") \/ Of("assurance") =>
        \/ Booting => Fenced \/ decision.ask.allow_non_isolated
        \/ /\ Of("run") /\ decision.ask.drill /\ decision.loc.live_restore
           /\ decision.ask.powered_off = "no" /\ ~decision.ask.power_on /\ decision.ask.qga = 0
    /\ Of("schedule") /\ decision.ask.drill => ~Booting

\* A drill the API starts for a plan's assurance is ASSURED when every job
\* completes, every check its options ask for passes, in time, and its guests
\* are destroyed: no plan asks for what its drills do not check.  Except for
\* plans that require HTTP: aggregate_plan_run does not pass the answer on.
AssuranceIsAttainable ==
    Of("assurance") /\ ~decision.plan.require_http =>
        LET options == Options(decision.loc, decision.ask)
            run == [status |-> "COMPLETED", drill |-> decision.ask.drill, rto |-> 1,
                    auto_teardown |-> options.auto_teardown, teardown |-> "completed"]
        IN AssuranceVerdict(decision.plan, run, {JobSummary(JobResult(options))}) = "ASSURED"
=============================================================================
