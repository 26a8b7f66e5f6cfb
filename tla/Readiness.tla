------------------------------ MODULE Readiness ------------------------------
(***************************************************************************)
(* The readiness check of a plan, as the set of the errors it reports, and *)
(* what a run of the plan asks for later, group after group.  The check    *)
(* never restores anything: what it looks at is meant to be what makes the *)
(* enqueueing of a run fail.                                               *)
(*                                                                         *)
(* plan: [groups: their number, missing: some have been deleted]           *)
(* loc:  [found, dr, nodes: list, byNode, default: storages, start]        *)
(* site: what the calls to the backup servers and to Proxmox answer;       *)
(*       a cluster whose listing fails shows no nodes, a node whose        *)
(*       listing fails is not in the domain of storages                    *)
(* members: for each group, the VMIDs of the guests it resolves to         *)
(***************************************************************************)
EXTENDS Placement

Has(condition, code) == IF condition THEN {code} ELSE {}

ConnectErrors(plan, loc, site) ==
    Has(plan.groups = 0, "plan.groups") \cup Has(~loc.found, "plan.location")
    \cup Has(plan.missing, "plan.group_missing") \cup Has(~site.pbs, "pbs.connectivity")
    \cup Has(site.pve = "down", "pve.connectivity") \cup Has(site.pve = "no session", "pve.connect")

\* storages[n]: the state of each storage of the node: "ok" or its error.
NodeError(n, loc, site) ==
    LET sid == StorageFor(n, loc.byNode, loc.default)
    IN IF site.nodes # {} /\ n \notin site.nodes THEN {"pve.node_missing"}
       ELSE IF n \notin DOMAIN site.storages THEN {"pve.storage_list"}
       ELSE IF sid = NoName THEN {"pve.storage_map"}
       ELSE IF sid \notin DOMAIN site.storages[n] THEN {"pve.storage_missing"}
       ELSE {site.storages[n][sid]} \ {"ok"}

NodeErrors(loc, site) ==
    Has(~site.listed, "pve.nodes") \cup UNION {NodeError(n, loc, site) : n \in ToSet(loc.nodes)}

Seen(site, members) == IF site.backups THEN members ELSE [g \in DOMAIN members |-> {}]

MemberErrors(site, members) ==
    Has(~site.backups, "pbs.backups") \cup Has(site.tags = "raised", "tags.resolve")
    \cup Has({} \in ToSet(Seen(site, members)), "group.empty")

MemberCount(members) == FoldLeft(LAMBDA n, guests : n + Cardinality(guests), 0, members)

\* Mutant of Duplicates: groups are not compared with each other.
DuplicatesUnseen(members) == {}

\* seen_src: the VMIDs of two groups at once.
Duplicates(members) ==
    {v \in UNION ToSet(members) : \E i, k \in DOMAIN members : i < k /\ v \in members[i] \cap members[k]}

\* Whether the guests' VMIDs are free, or enough others are.
VmidErrors(loc, members, inUse) ==
    IF MemberCount(members) = 0 THEN {}
    ELSE IF loc.dr
    THEN Has(Duplicates(members) # {}, "vmid.dr_duplicate")
         \cup Has((UNION ToSet(members)) \cap inUse # {}, "vmid.dr_in_use")
    ELSE Has(Len(Allocate(inUse, loc.start, MemberCount(members))) < MemberCount(members),
             "vmid.normal")

\* run_plan_readiness: the plan is VERIFIED if there are no errors.
Errors(plan, loc, site, members) ==
    LET connect == ConnectErrors(plan, loc, site)
        looked == IF ~loc.found \/ site.pve # "up" THEN {}
                  ELSE NodeErrors(loc, site) \cup MemberErrors(site, members)
                       \cup VmidErrors(loc, Seen(site, members), site.inUse)
    IN connect \cup looked \cup
       Has(connect \cup looked = {} /\ MemberCount(members) = 0, "plan.empty")
-----------------------------------------------------------------------------
(* The enqueueing of a run's groups (enqueue_restores, without overwrite). *)

\* The VMIDs a batch gets; it is refused when there are not as many as guests.
Targets(loc, guests, inUse, start) ==
    IF loc.dr THEN guests \ inUse ELSE ToSet(Allocate(inUse, start, Cardinality(guests)))

\* _record_assigned_targets: the next group starts after all there are.
NextVmid(start, assigned) ==
    IF assigned = {} THEN start ELSE 1 + CHOOSE v \in assigned : \A u \in assigned : u <= v

EnqueueAccepted(loc, guests, targets) ==
    LocationOk(loc.nodes, loc.byNode, loc.default) /\ Cardinality(targets) = Cardinality(guests)

\* Every group in turn, the guests of those before it restored.
RunGoesThrough(loc, members, inUse) ==
    FoldLeft(LAMBDA acc, guests :
                 LET targets == Targets(loc, guests, inUse \cup acc.assigned,
                                        NextVmid(loc.start, acc.assigned))
                 IN [assigned |-> acc.assigned \cup targets,
                     ok |-> acc.ok /\ EnqueueAccepted(loc, guests, targets)],
             [assigned |-> {}, ok |-> TRUE], members).ok
=============================================================================
