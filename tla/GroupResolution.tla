---------------------------- MODULE GroupResolution ----------------------------
(***************************************************************************)
(* Which backups a group of the inventory stands for.  A group has         *)
(* selectors (VMIDs, ranges, names, tags), exclusions, and perhaps a list  *)
(* of sources; each guest is restored from its newest backup up to a       *)
(* cutoff.  Tags are not in the inventory: they are read from the          *)
(* configuration inside a backup, and only of one backup for each VMID.    *)
(*                                                                         *)
(* A backup is [id, vmid, name, time, source].  A list of name patterns is *)
(* the set of the names it matches, a range is a pair of its ends.         *)
(***************************************************************************)
EXTENDS Integers, Sequences

Backup == [id : STRING, vmid : Nat, name : STRING, time : Nat, source : STRING]

\* Up to the cutoff, and of the sources of the group if it names some.
Eligible(b, cutoff, sources) == b.time <= cutoff /\ (sources = {} \/ b.source \in sources)

\* best: the newest of them for every VMID, the first of the list among equals.
IsNewest(rows, i, cutoff, sources) ==
    /\ Eligible(rows[i], cutoff, sources)
    /\ \A k \in DOMAIN rows :
        Eligible(rows[k], cutoff, sources) /\ rows[k].vmid = rows[i].vmid =>
            rows[k].time < rows[i].time \/ (rows[k].time = rows[i].time /\ i <= k)
Newest(rows, cutoff, sources) ==
    {rows[i] : i \in {k \in DOMAIN rows : IsNewest(rows, k, cutoff, sources)}}

\* vmid_in_ranges, of ranges whose ends normalize_vmid_ranges has put in order.
InRanges(vmid, ranges) ==
    \E r \in ranges : \/ r[1] <= vmid /\ vmid <= r[2]
                      \/ r[2] <= vmid /\ vmid <= r[1]

Excluded(group, b) ==
    b.vmid \in group.exclude_vmids \/ b.name \in group.exclude_names

\* One of the selectors takes the guest of a backup with these tags.
SelectedBy(group, b, tags) ==
    \/ b.vmid \in group.vmids
    \/ InRanges(b.vmid, group.ranges)
    \/ b.name \in group.names
    \/ group.tags # {} /\ group.tags \subseteq tags

TagsOf(b, tags) == IF b.id \in DOMAIN tags THEN tags[b.id] ELSE {}

\* resolve_group_rows: knownTags has the tags of some backups, by id.
Resolve(group, rows, cutoff, knownTags) ==
    {b \in Newest(rows, cutoff, group.sources) :
        SelectedBy(group, b, TagsOf(b, knownTags)) /\ ~ Excluded(group, b)}

\* Mutant of TagCandidates: the cutoff is not looked at.
NewestOfAll(rows, cutoff) == {rows[i] : i \in {k \in DOMAIN rows : \A n \in DOMAIN rows :
    rows[n].vmid = rows[k].vmid => rows[n].time <= rows[k].time}}

\* _latest_per_vmid: the backups whose tags are read, for all groups at once.
TagCandidates(rows, cutoff) == Newest(rows, cutoff, {})

\* The tags of the candidates; tagsIn: those inside every backup that can be
\* read.
KnownTags(rows, cutoff, tagsIn) ==
    [id \in DOMAIN tagsIn \cap {b.id : b \in TagCandidates(rows, cutoff)} |-> tagsIn[id]]

\* What readiness checks, runs and the schedule take the group for.
Members(group, rows, cutoff, tagsIn) ==
    Resolve(group, rows, cutoff, KnownTags(rows, cutoff, tagsIn))

\* The guests the group stands for, by what their newest backup holds.
GuestsMeant(group, rows, cutoff, tagsIn) ==
    {b.vmid : b \in {c \in Newest(rows, cutoff, group.sources) :
                        SelectedBy(group, c, TagsOf(c, tagsIn)) /\ ~ Excluded(group, c)}}
=============================================================================
