------------------------------- MODULE Placement -------------------------------
(***************************************************************************)
(* Where a restore goes: the VMIDs of a batch, its nodes and its storages. *)
(* The functions are pure; enqueue_restores calls them one after another.  *)
(* Sequences stand for Python's lists.                                     *)
(***************************************************************************)
EXTENDS Integers, Sequences, FiniteSets, SequencesExt

CONSTANTS
    LowestVmid,  \* the lowest VMID Proxmox has (100)
    ScanWindow,  \* VMIDs scanned at least (5000)
    ScanPerGuest \* VMIDs scanned for each guest (250)

ASSUME PlacementAssumption == {LowestVmid, ScanWindow, ScanPerGuest} \subseteq Nat

\* What is left of a name that is absent or blank.
NoName == ""

Larger(a, b) == IF a > b THEN a ELSE b

FirstScanned(start) == Larger(LowestVmid, start)
LastScanned(start, count) ==
    FirstScanned(start) + Larger(ScanWindow, count * ScanPerGuest)

\* Mutant of Scanned: the last VMID of the window is left out.
ScannedShort(start, count) ==
    [i \in 1 .. LastScanned(start, count) - FirstScanned(start) |->
        FirstScanned(start) + i - 1]

Scanned(start, count) ==
    [i \in 1 .. LastScanned(start, count) - FirstScanned(start) + 1 |->
        FirstScanned(start) + i - 1]

\* allocate_sequential_free_vmids: the VMIDs it returns, fewer than count
\* when it raises.
Allocate(inUse, start, count) ==
    FoldLeft(LAMBDA out, v : IF Len(out) < count /\ v \notin inUse
                             THEN Append(out, v) ELSE out,
             <<>>, Scanned(start, count))

\* What it is to return: the count lowest free VMIDs of the window.
LowestFree(inUse, start, count) ==
    LET free == (FirstScanned(start) .. LastScanned(start, count)) \ inUse
    IN {v \in free : Cardinality({u \in free : u < v}) < count}

\* The first of the least loaded nodes of the list.
LeastLoaded(nodes, load) ==
    CHOOSE i \in DOMAIN nodes : \A k \in DOMAIN nodes :
        \/ load[nodes[i]] < load[nodes[k]]
        \/ load[nodes[i]] = load[nodes[k]] /\ i <= k

\* Mutant of Assign: the jobs of the batch itself are not counted.
AssignStale(nodes, count, active) ==
    [k \in 1 .. count |-> nodes[LeastLoaded(nodes, active)]]

\* assign_nodes_least_loaded: a node for each of count jobs, given the number
\* of jobs each node has.
Assign(nodes, count, active) ==
    FoldLeft(LAMBDA acc, k :
                 LET n == nodes[LeastLoaded(nodes, acc.load)]
                 IN [load |-> [acc.load EXCEPT ![n] = @ + 1],
                     out |-> Append(acc.out, n)],
             [load |-> active, out |-> <<>>], [k \in 1 .. count |-> k]).out

\* active_restore_counts_by_node: the jobs that count, by node.
ActiveByNode(jobs, nodes) ==
    [n \in nodes |-> Cardinality({i \in DOMAIN jobs :
        jobs[i].node = n /\ jobs[i].state \in {"PENDING", "RESTORING"}})]

\* resolve_storage_for_node: the node's own storage, else the default; NoName is
\* the error "No target storage selected".
StorageFor(node, byNode, default) ==
    IF byNode[node] # NoName THEN byNode[node] ELSE default
-----------------------------------------------------------------------------
\* normalize_location: the node comes first, the others after it, each once.
NodesOf(node, nodes) ==
    FoldLeft(LAMBDA out, n : IF n = NoName \/ Contains(out, n) THEN out ELSE Append(out, n),
             IF node = NoName THEN <<>> ELSE <<node>>, nodes)

\* The storage of every node; the default is for those that name none.
StorageMap(nodes, byNode, default) ==
    [n \in ToSet(nodes) |-> StorageFor(n, byNode, default)]

LocationOk(nodes, byNode, default) ==
    nodes # <<>> /\ \A n \in ToSet(nodes) : StorageFor(n, byNode, default) # NoName
=============================================================================
