----------------------------- MODULE MCDecisions -----------------------------
(* Inputs of Decisions for TLC.                                            *)
EXTENDS Decisions, TLC

Row(id, vmid, name, time, source) ==
    [id |-> id, vmid |-> vmid, name |-> name, time |-> time, source |-> source]

\* A guest with an old and two new backups, in two sources; another that was
\* renamed between its two.
Backups == {Row("b1", 1, "a", 1, "s1"), Row("b2", 1, "a", 2, "s2"),
            Row("b3", 1, "a", 2, "s1"), Row("b4", 2, "a", 1, "s1"),
            Row("b5", 2, "b", 2, "s2")}
SmallInventories ==
    UNION {{s \in [1 .. n -> Backups] : \A i, k \in 1 .. n : i # k => s[i] # s[k]} : n \in 0 .. 3}
Tagged == [id \in {"b1", "b3", "b4", "b5"} |-> IF id \in {"b1", "b3"} THEN {"t"} ELSE {}]
AllGroups ==
    [vmids : {{}, {2}}, ranges : {{}, {<<2, 1>>}}, names : {{}, {"b"}}, tags : {{}, {"t"}},
     exclude_vmids : {{}, {1}}, exclude_names : {{}, {"a"}}, sources : {{}, {"s1"}}]

\* Everything answers, and one thing at a time does not.
Good(inUse) ==
    [pbs |-> TRUE, pve |-> "up", listed |-> TRUE, nodes |-> Nodes, backups |-> TRUE, tags |-> "read",
     storages |-> [n \in Nodes |-> [s \in Storages |-> "ok"]], inUse |-> inUse]
Faulty(site) ==
    {[site EXCEPT !.pbs = FALSE], [site EXCEPT !.pve = "down"], [site EXCEPT !.pve = "no session"],
     [site EXCEPT !.listed = FALSE, !.nodes = {}], [site EXCEPT !.nodes = {"n1"}],
     [site EXCEPT !.backups = FALSE], [site EXCEPT !.tags = "raised"],
     [site EXCEPT !.storages = [n \in {"n1"} |-> @[n]]],
     [site EXCEPT !.storages["n1"] = [s \in {} |-> "ok"]],
     [site EXCEPT !.storages["n1"]["s1"] = "pve.storage_unusable"],
     [site EXCEPT !.storages["n2"]["s1"] = "pve.storage_disabled"]}
AllSites == {Good(u) : u \in SUBSET Vmids} \cup Faulty(Good({}))

SmallMembers == UNION {[1 .. n -> SUBSET {1, 2}] : n \in 0 .. 2}

AllLocations ==
    [isolated : BOOLEAN, network : {"none", "unlink"}, dr : BOOLEAN, power_on : BOOLEAN,
     live_restore : BOOLEAN, qga : {0, 1}, http_check : BOOLEAN]
\* An overwrite is confirmed, or nothing is.
AllAsks ==
    {[drill |-> q.drill, auto_teardown |-> TRUE, power_on |-> q.power_on, qga |-> q.qga,
      powered_off |-> q.powered_off, overwrite |-> q.overwrite, confirm_overwrite |-> q.overwrite,
      confirm_dr |-> q.overwrite, allow_non_isolated |-> q.allow, allow_unverified |-> q.allow] :
     q \in [drill : BOOLEAN, power_on : BOOLEAN, qga : {0, 1}, powered_off : {"yes", "no", "default"},
            overwrite : BOOLEAN, allow : BOOLEAN]}
Plan(verified, drill, qga, http, rto) ==
    [enabled |-> TRUE, verified |-> verified, schedule_drill |-> drill, assurance_enabled |-> TRUE,
     require_qga |-> qga, require_http |-> http, max_rto |-> rto]
\* A plan that was never checked, and plans with every policy.
SmallPolicies == {Plan(FALSE, TRUE, FALSE, FALSE, 0)} \cup
    {Plan(TRUE, ~qga, qga, http, 1) : qga, http \in BOOLEAN}
=============================================================================
