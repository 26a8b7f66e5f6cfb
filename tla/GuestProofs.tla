------------------------------- MODULE GuestProofs -------------------------------
(***************************************************************************)
(* Proofs about GuestOwnership, for any number of batches, VMIDs, requests *)
(* and mishaps: what a batch found in the cluster is kept, a plain DR      *)
(* restore replaces nothing, the guests of COMPLETED jobs are marked, and  *)
(* a complete teardown leaves no guest of its batch.                       *)
(***************************************************************************)
EXTENDS GuestOwnership, TLAPS

Typed == TypeOK /\ ask = [b \in Batches |-> ask[b]]

\* The VMIDs of a batch occur.
LEMMA VmidsForOccur ==
    ASSUME NEW b \in Batches, NEW q \in Requests[b], NEW inUse
    PROVE  VmidsFor(q, inUse) \subseteq Vmids
  <1>1. Sources(q) \subseteq Vmids
    BY OwnershipAssumption DEF Sources
  <1>2. LowestFree(inUse, VmidStart, Len(q.rows)) \subseteq Vmids
    BY OwnershipAssumption DEF LowestFree
  <1> QED BY <1>1, <1>2 DEF VmidsFor

LEMMA ListTyped ==
    ASSUME Typed, NEW b \in Batches, NEW q \in Requests[b], NEW inUse, ListAs(b, q, inUse),
           blind' \subseteq Batches, mishaps' \in Nat
    PROVE  Typed'
  <1>1. VmidsFor(q, inUse) \subseteq Vmids
    BY VmidsForOccur
  <1>2. /\ at' \in [Batches -> BatchLabel] /\ targets' \in [Batches -> SUBSET Vmids]
        /\ left' \in [Batches -> SUBSET Vmids] /\ listed' \subseteq Batches
    BY <1>1 DEF ListAs, Typed, TypeOK, Goes, BatchLabel
  <1>3. (\A c \in Batches : ask'[c] \subseteq Requests[c]) /\ ask' = [c \in Batches |-> ask'[c]]
    BY DEF ListAs, Typed, TypeOK
  <1>4. UNCHANGED <<guest, now, failed, torn, job, task, upid>>
    BY DEF ListAs, jobVars
  <1> QED BY <1>2, <1>3, <1>4 DEF Typed, TypeOK

LEMMA NewGuestTyped ==
    ASSUME Typed, NEW type \in {"qemu", "lxc"}, NEW of \in SUBSET Job, NEW locked \in BOOLEAN
    PROVE  NewGuest(type, of, locked) \in Guest
  BY DEF Typed, TypeOK, NewGuest, Guest

LEMMA MishapCounts ==
    ASSUME Typed, Mishap PROVE mishaps' \in Nat
  <1>1. mishaps \in Nat
    BY DEF Typed, TypeOK
  <1> QED BY <1>1 DEF Mishap

\* What is at a VMID that is not free is a guest.
LEMMA IsGuest ==
    ASSUME Typed, NEW v \in Vmids, guest[v].type # "none" \/ guest[v].of # {}
    PROVE  guest[v] \in Guest
  <1>1. guest[v] \in Guest \cup {NoGuest}
    BY DEF Typed, TypeOK
  <1> QED BY <1>1 DEF NoGuest

LEMMA DeleteTyped ==
    ASSUME Typed, NEW v \in Vmids, Delete(v)
    PROVE  guest' \in [Vmids -> Guest \cup {NoGuest}]
  BY DEF Typed, TypeOK, Delete

LEMMA GoesTyped ==
    ASSUME Typed, NEW b \in Batches, NEW label \in BatchLabel, Goes(b, label)
    PROVE  at' \in [Batches -> BatchLabel]
  BY DEF Typed, TypeOK, Goes

LEMMA BatchTyped ==
    ASSUME Typed, NEW b \in Batches, BatchWorks(b)
    PROVE  Typed'
  <1>1. ASSUME NEW q \in Requests[b], List(b, q) PROVE Typed'
    <2>1. blind' \subseteq Batches /\ mishaps' \in Nat /\ ListAs(b, q, Occupied)
      BY <1>1 DEF List, Typed, TypeOK
    <2> QED BY <2>1, ListTyped
  <1>2. ASSUME NEW q \in Requests[b], ListBlind(b, q) PROVE Typed'
    <2>1. blind' \subseteq Batches /\ mishaps' \in Nat /\ ListAs(b, q, {})
      BY <1>2, MishapCounts DEF ListBlind, Typed, TypeOK
    <2> QED BY <2>1, ListTyped
  <1>3. CASE Reclaimed(b)
    BY <1>3 DEF Reclaimed, Goes, BatchLabel, Typed, TypeOK, jobVars, seenVars
  <1>4. CASE Enqueue(b)
    BY <1>4 DEF Enqueue, Goes, BatchLabel, JobLabel, Typed, TypeOK, seenVars
  <1>5. CASE TeardownStart(b)
    BY <1>5 DEF TeardownStart, Goes, BatchLabel, Typed, TypeOK, jobVars, seenVars
  <1>6. CASE TeardownEnd(b)
    BY <1>6 DEF TeardownEnd, Goes, BatchLabel, Typed, TypeOK, jobVars, seenVars
  <1>7. ASSUME NEW v \in Vmids, Reclaim(b, v) PROVE Typed'
    <2>1. at' \in [Batches -> BatchLabel]
      BY <1>7, GoesTyped DEF Reclaim, BatchLabel
    <2>2. left' \in [Batches -> SUBSET Vmids] /\ now' \in [Batches -> SUBSET Vmids]
      <3>1. CASE Reclaimable(guest[v])
        <4>1. left' = [left EXCEPT ![b] = left[b] \ {v}] /\ now' = [now EXCEPT ![b] = {v}]
          BY <1>7, <3>1 DEF Reclaim
        <4> QED BY <4>1 DEF Typed, TypeOK
      <3>2. CASE ~Reclaimable(guest[v])
        <4>1. left' = [left EXCEPT ![b] = {}] /\ now' = now
          BY <1>7, <3>2 DEF Reclaim
        <4> QED BY <4>1 DEF Typed, TypeOK
      <3> QED BY <3>1, <3>2
    <2>3. UNCHANGED <<guest, ask, targets, failed, torn, job, task, upid, listed, blind, mishaps>>
      BY <1>7 DEF Reclaim, jobVars, seenVars
    <2> QED BY <2>1, <2>2, <2>3 DEF Typed, TypeOK
  <1>8. ASSUME NEW v \in Vmids, RemoveGuest(b, v) PROVE Typed'
    BY <1>8 DEF RemoveGuest, Delete, Goes, BatchLabel, Typed, TypeOK, jobVars, seenVars
  <1>9. ASSUME NEW v \in Vmids, TeardownLook(b, v) PROVE Typed'
    <2>1. at' \in [Batches -> BatchLabel]
      <3>1. CASE Goes(b, "destroy")
        BY <3>1, GoesTyped DEF BatchLabel
      <3>2. CASE UNCHANGED at
        BY <3>2 DEF Typed, TypeOK
      <3> QED BY <1>9, <3>1, <3>2 DEF TeardownLook
    <2>2. left' \in [Batches -> SUBSET Vmids] /\ now' \in [Batches -> SUBSET Vmids]
      <3>1. CASE now' = [now EXCEPT ![b] = {v}]
        BY <1>9, <3>1 DEF TeardownLook, Typed, TypeOK
      <3>2. CASE UNCHANGED now
        BY <1>9, <3>2 DEF TeardownLook, Typed, TypeOK
      <3> QED BY <1>9, <3>1, <3>2 DEF TeardownLook
    <2>3. failed' \in [Batches -> SUBSET Vmids]
      <3>1. CASE guest[v].type = "none" \/ Owned(b, v)
        <4>1. failed' = [failed EXCEPT ![b] = failed[b]]
          BY <1>9, <3>1 DEF TeardownLook
        <4> QED BY <4>1 DEF Typed, TypeOK
      <3>2. CASE ~(guest[v].type = "none" \/ Owned(b, v))
        <4>1. failed' = [failed EXCEPT ![b] = failed[b] \cup {v}]
          BY <1>9, <3>2 DEF TeardownLook
        <4> QED BY <4>1 DEF Typed, TypeOK
      <3> QED BY <3>1, <3>2
    <2>4. UNCHANGED <<guest, ask, targets, torn, job, task, upid, listed, blind, mishaps>>
      BY <1>9 DEF TeardownLook, jobVars, seenVars
    <2> QED BY <2>1, <2>2, <2>3, <2>4 DEF Typed, TypeOK
  <1>10. ASSUME NEW v \in Vmids, TeardownDestroy(b, v) PROVE Typed'
    <2>1. at' \in [Batches -> BatchLabel]
      BY <1>10, GoesTyped DEF TeardownDestroy, BatchLabel
    <2>2. now' \in [Batches -> SUBSET Vmids] /\ failed' \in [Batches -> SUBSET Vmids]
      <3>1. now' \in [Batches -> SUBSET Vmids]
        BY <1>10 DEF TeardownDestroy, Typed, TypeOK
      <3>2. CASE UNCHANGED failed
        BY <3>1, <3>2 DEF Typed, TypeOK
      <3>3. CASE guest[v].type = "none" /\ ~UNCHANGED failed
        <4>1. failed' = [failed EXCEPT ![b] = failed[b]]
          BY <1>10, <3>3 DEF TeardownDestroy
        <4> QED BY <3>1, <4>1 DEF Typed, TypeOK
      <3>4. CASE guest[v].type # "none" /\ ~UNCHANGED failed
        <4>1. failed' = [failed EXCEPT ![b] = failed[b] \cup {v}]
          BY <1>10, <3>4 DEF TeardownDestroy
        <4> QED BY <3>1, <4>1 DEF Typed, TypeOK
      <3> QED BY <3>2, <3>3, <3>4
    <2>3. guest' \in [Vmids -> Guest \cup {NoGuest}]
      BY <1>10, DeleteTyped DEF TeardownDestroy, Typed, TypeOK
    <2>4. UNCHANGED <<ask, targets, left, torn, job, task, upid, listed, blind, mishaps>>
      BY <1>10 DEF TeardownDestroy, jobVars, seenVars
    <2> QED BY <2>1, <2>2, <2>3, <2>4 DEF Typed, TypeOK
  <1> QED BY <1>1, <1>2, <1>3, <1>4, <1>5, <1>6, <1>7, <1>8, <1>9, <1>10 DEF BatchWorks

LEMMA JobTyped ==
    ASSUME Typed, NEW j \in Job, JobWorks(j)
    PROVE  Typed'
  <1> USE DEF Typed, TypeOK, batchVars, seenVars, JobLabel, Ended
  <1>0. j[2] \in Vmids
    BY DEF Job
  <1>1. CASE Submit(j)
    <2>1. NewGuest("qemu", {j}, TRUE) \in Guest
      BY NewGuestTyped
    <2> QED BY <1>0, <1>1, <2>1 DEF Submit
  <1>2. CASE SubmitFails(j)
    BY <1>2 DEF SubmitFails
  <1>3. CASE RecordUpid(j)
    BY <1>3 DEF RecordUpid
  <1>4. ASSUME NEW result \in {"ok", "bad"}, TaskEnds(j, result) PROVE Typed'
    <2>1. \A v \in Restored(j) : guest[v] \in Guest
      BY IsGuest DEF Restored
    <2>2. \A v \in Restored(j) : [guest[v] EXCEPT !.locked = FALSE] \in Guest
      BY <2>1 DEF Guest
    <2>3. guest' \in [Vmids -> Guest \cup {NoGuest}]
      BY <1>4, <2>2 DEF TaskEnds
    <2> QED BY <1>4, <2>3 DEF TaskEnds
  <1>5. CASE WaitEnds(j)
    BY <1>5 DEF WaitEnds
  <1>6. CASE Stamp(j)
    <2>1. guest[j[2]] \in Guest
      BY <1>0, <1>6, IsGuest DEF Stamp, Deletable
    <2>2. [guest[j[2]] EXCEPT !.marked = TRUE] \in Guest
      BY <2>1 DEF Guest
    <2>3. guest' \in [Vmids -> Guest \cup {NoGuest}]
      BY <1>0, <1>6, <2>2 DEF Stamp
    <2> QED BY <1>6, <2>3 DEF Stamp
  <1>7. CASE StampFails(j)
    BY <1>7 DEF StampFails
  <1>8. CASE Kill(j)
    BY <1>8, MishapCounts DEF Kill
  <1> QED BY <1>1, <1>2, <1>3, <1>4, <1>5, <1>6, <1>7, <1>8 DEF JobWorks

LEMMA TypedInitially == Init => Typed
  <1> SUFFICES ASSUME Init PROVE Typed
    OBVIOUS
  <1>1. PICK type \in Installed : guest = [v \in Vmids |-> [NoGuest EXCEPT !.type = type[v]]]
    BY DEF Init
  <1>2. \A v \in Vmids : type[v] \in {"none", "qemu", "lxc"}
    BY OwnershipAssumption
  <1>3. \A v \in Vmids : [NoGuest EXCEPT !.type = type[v]] \in Guest \cup {NoGuest}
    <2> SUFFICES ASSUME NEW v \in Vmids
                 PROVE  [NoGuest EXCEPT !.type = type[v]] \in Guest \cup {NoGuest}
      OBVIOUS
    <2>1. CASE type[v] = "none"
      BY <2>1 DEF NoGuest
    <2>2. CASE type[v] # "none"
      BY <1>2, <2>2 DEF NoGuest, Guest
    <2> QED BY <2>1, <2>2
  <1> QED BY <1>1, <1>3 DEF Init, Typed, TypeOK, BatchLabel, JobLabel

LEMMA TypedKept == Typed /\ [Next]_vars => Typed'
  <1> SUFFICES ASSUME Typed, [Next]_vars PROVE Typed'
    OBVIOUS
  <1>1. ASSUME NEW v \in Vmids, AdminRemove(v) PROVE Typed'
    BY <1>1, MishapCounts DEF AdminRemove, Typed, TypeOK, batchVars, jobVars, seenVars
  <1>2. ASSUME NEW v \in Vmids, NEW type \in {"qemu", "lxc"}, AdminCreate(v, type) PROVE Typed'
    <2>1. NewGuest(type, {}, FALSE) \in Guest
      BY NewGuestTyped
    <2> QED BY <1>2, <2>1, MishapCounts DEF AdminCreate, Typed, TypeOK, batchVars, jobVars, seenVars
  <1>3. CASE UNCHANGED vars
    BY <1>3 DEF vars, Typed, TypeOK, batchVars, jobVars, seenVars
  <1> QED BY <1>1, <1>2, <1>3, BatchTyped, JobTyped DEF Next

LEMMA AlwaysTyped == Spec => []Typed
  BY TypedInitially, TypedKept, PTL DEF Spec

\* TypeOK: every variable keeps its type.
THEOREM OwnershipTyped == Spec => []TypeOK
  <1>1. Typed => TypeOK
    BY DEF Typed
  <1> QED BY <1>1, AlwaysTyped, PTL
-----------------------------------------------------------------------------
(* The inductive invariant: its parts.                                     *)

\* Where a batch is, and what it and its jobs may be at there.
Ordered(b) ==
    /\ at[b] # "new" => b \in listed
    /\ at[b] \in {"reclaim", "remove"} => \E q \in ask[b] : q.dr /\ q.overwrite
    /\ left[b] \subseteq targets[b] /\ now[b] \subseteq targets[b]
    /\ left[b] \cap now[b] = {} /\ \A u, v \in now[b] : u = v
    /\ now[b] # {} => at[b] \in {"remove", "destroy"}
    /\ \A v \in Vmids : job[<<b, v>>] # "none" =>
         at[b] \in {"queued", "look", "destroy"} /\ v \in targets[b]
    /\ at[b] \in {"look", "destroy"} => \A v \in targets[b] : job[<<b, v>>] \in Ended

\* What the batch found at its VMIDs has gone, or its reclaim has yet to look
\* at it or has seen its mark.
FoundGone(b) ==
    at[b] \notin {"new", "refused"} /\ b \notin blind =>
      \A v \in targets[b] :
         \/ guest[v].type = "none" \/ b \in guest[v].after
         \/ /\ at[b] \in {"reclaim", "remove"}
            /\ v \in left[b] \/ (v \in now[b] /\ guest[v].marked)

\* What a teardown has come past without a failure holds no guest of the batch.
PassedGone(b) ==
    at[b] \in {"look", "destroy"} =>
      \A v \in targets[b] : v \notin left[b] /\ v \notin now[b] /\ v \notin failed[b] =>
         \A j \in guest[v].of : j[1] # b

BatchInv(b) == Ordered(b) /\ FoundGone(b) /\ PassedGone(b)

\* A guest is at the VMID of its job.
GuestInv ==
    \A v \in Vmids : \A j \in guest[v].of :
        j[2] = v /\ job[j] # "none" /\ (job[j] = "COMPLETED" => guest[v].marked)

OwnershipInv == Typed /\ GuestInv /\ \A b \in Batches : BatchInv(b)

\* What a step may make of the guest at v: it keeps its mark, goes, or gives
\* way to one that comes after every batch that has listed the cluster.
Evolves(v) ==
    /\ \A j \in guest'[v].of :
         \/ j[2] = v /\ job[j] = "PENDING" /\ job'[j] = "submitted"
         \/ j \in guest[v].of /\ (guest[v].marked => guest'[v].marked)
    /\ \/ guest'[v].type = "none"
       \/ guest'[v].after = listed
       \/ /\ guest'[v].after = guest[v].after /\ guest[v].type # "none"
          /\ guest[v].marked => guest'[v].marked

\* What a step of another makes of batch c.
Quiet(c) ==
    /\ at'[c] = at[c] /\ ask'[c] = ask[c] /\ targets'[c] = targets[c]
    /\ left'[c] = left[c] /\ now'[c] = now[c] /\ failed'[c] = failed[c] /\ torn'[c] = torn[c]
    /\ c \in blind' <=> c \in blind
    /\ c \in listed => c \in listed'
    /\ \A v \in Vmids :
         \/ job'[<<c, v>>] = job[<<c, v>>]
         \/ job[<<c, v>>] \notin Ended \cup {"none"} /\ job'[<<c, v>>] # "none"

LEMMA JobParts ==
    ASSUME NEW j \in Job
    PROVE  j[1] \in Batches /\ j[2] \in Vmids /\ j = <<j[1], j[2]>>
  BY DEF Job

LEMMA OfAreJobs ==
    ASSUME Typed, NEW v \in Vmids, NEW j \in guest[v].of
    PROVE  j \in Job
  <1>1. guest[v] \in Guest
    BY IsGuest
  <1> QED BY <1>1 DEF Guest

LEMMA SameOrGoneEvolves ==
    ASSUME NEW v \in Vmids, guest'[v] = guest[v] \/ guest'[v] = NoGuest
    PROVE  Evolves(v)
  BY DEF Evolves, NoGuest

LEMMA NewGuestIs ==
    ASSUME NEW type, NEW of, NEW locked
    PROVE  NewGuest(type, of, locked).of = of /\ NewGuest(type, of, locked).after = listed
  BY DEF NewGuest

\* A batch only removes guests.
LEMMA BatchGuests ==
    ASSUME Typed, NEW b \in Batches, BatchWorks(b), NEW v \in Vmids
    PROVE  guest'[v] = guest[v] \/ guest'[v] = NoGuest
  <1>1. guest' = guest \/ \E u \in Vmids : Delete(u)
    BY DEF BatchWorks, List, ListBlind, ListAs, Reclaimed, Enqueue, TeardownStart, TeardownEnd,
       Reclaim, RemoveGuest, TeardownLook, TeardownDestroy
  <1> QED BY <1>1 DEF Delete, Typed, TypeOK

LEMMA JobGuests ==
    ASSUME Typed, NEW j \in Job, JobWorks(j), NEW v \in Vmids
    PROVE  Evolves(v)
  <1>0. j[2] \in Vmids
    BY JobParts
  <1>1. CASE Submit(j)
    <2>1. CASE v = j[2]
      <3>1. guest'[v] = NewGuest("qemu", {j}, TRUE)
        BY <1>0, <1>1, <2>1 DEF Submit, Typed, TypeOK
      <3>2. /\ NewGuest("qemu", {j}, TRUE).of = {j}
            /\ NewGuest("qemu", {j}, TRUE).after = listed
        BY NewGuestIs
      <3>3. guest'[v].of = {j} /\ guest'[v].after = listed
        BY <3>1, <3>2
      <3>4. job[j] = "PENDING" /\ job'[j] = "submitted"
        BY <1>1 DEF Submit, Typed, TypeOK
      <3> QED BY <2>1, <3>3, <3>4 DEF Evolves
    <2>2. CASE v # j[2]
      BY <1>0, <1>1, <2>2, SameOrGoneEvolves DEF Submit, Typed, TypeOK
    <2> QED BY <2>1, <2>2
  <1>2. ASSUME NEW result \in {"ok", "bad"}, TaskEnds(j, result) PROVE Evolves(v)
    <2>1. CASE guest'[v] = [guest[v] EXCEPT !.locked = FALSE] /\ v \in Restored(j)
      <3>1. guest[v] \in Guest
        BY <2>1, IsGuest DEF Restored
      <3>2. /\ guest'[v].of = guest[v].of /\ guest'[v].after = guest[v].after
            /\ guest'[v].marked = guest[v].marked /\ guest[v].type # "none"
        BY <2>1, <3>1 DEF Guest
      <3> QED BY <3>2 DEF Evolves
    <2>2. CASE guest'[v] = guest[v] \/ guest'[v] = NoGuest
      BY <2>2, SameOrGoneEvolves
    <2> QED BY <1>2, <2>1, <2>2 DEF TaskEnds, Typed, TypeOK
  <1>3. CASE Stamp(j)
    <2>1. CASE v = j[2]
      <3>1. guest[v] \in Guest
        BY <1>3, <2>1, IsGuest DEF Stamp, Deletable
      <3>2. guest'[v] = [guest[v] EXCEPT !.marked = TRUE]
        BY <1>3, <2>1, <1>0 DEF Stamp, Typed, TypeOK
      <3>3. /\ guest'[v].of = guest[v].of /\ guest'[v].after = guest[v].after
            /\ guest'[v].marked /\ guest[v].type # "none"
        BY <3>1, <3>2 DEF Guest
      <3> QED BY <3>3 DEF Evolves
    <2>2. CASE v # j[2]
      BY <1>0, <1>3, <2>2, SameOrGoneEvolves DEF Stamp, Typed, TypeOK
    <2> QED BY <2>1, <2>2
  <1>4. CASE guest' = guest
    BY <1>4, SameOrGoneEvolves
  <1> QED BY <1>1, <1>2, <1>3, <1>4
        DEF JobWorks, SubmitFails, RecordUpid, WaitEnds, StampFails, Kill

LEMMA GuestsEvolve ==
    ASSUME Typed, [Next]_vars, NEW v \in Vmids
    PROVE  Evolves(v)
  <1>1. ASSUME NEW u \in Vmids, AdminRemove(u) PROVE Evolves(v)
    BY <1>1, SameOrGoneEvolves DEF AdminRemove, Typed, TypeOK
  <1>2. ASSUME NEW u \in Vmids, NEW type \in {"qemu", "lxc"}, AdminCreate(u, type)
        PROVE  Evolves(v)
    <2>1. CASE v = u
      <3>1. guest'[v] = NewGuest(type, {}, FALSE)
        BY <1>2, <2>1 DEF AdminCreate, Typed, TypeOK
      <3> QED BY <3>1 DEF NewGuest, Evolves
    <2>2. CASE v # u
      BY <1>2, <2>2, SameOrGoneEvolves DEF AdminCreate, Typed, TypeOK
    <2> QED BY <2>1, <2>2
  <1>3. CASE UNCHANGED vars
    BY <1>3, SameOrGoneEvolves DEF vars
  <1> QED BY <1>1, <1>2, <1>3, BatchGuests, JobGuests, SameOrGoneEvolves DEF Next

\* No job is taken back, and one completes only with its mark.
LEMMA JobsMove ==
    ASSUME OwnershipInv, [Next]_vars, NEW j \in Job
    PROVE  /\ job[j] # "none" => job'[j] # "none"
           /\ job'[j] = "COMPLETED" /\ job[j] # "COMPLETED" => Stamp(j)
  <1>0. job \in [Job -> JobLabel]
    BY DEF OwnershipInv, Typed, TypeOK
  <1>1. ASSUME NEW i \in Job, JobWorks(i)
        PROVE  /\ job[j] # "none" => job'[j] # "none"
               /\ job'[j] = "COMPLETED" /\ job[j] # "COMPLETED" => Stamp(j)
    BY <1>0, <1>1 DEF JobWorks, Submit, SubmitFails, RecordUpid, TaskEnds, WaitEnds, Stamp,
       StampFails, Kill
  <1>2. ASSUME NEW b \in Batches, BatchWorks(b)
        PROVE  job'[j] = job[j] \/ job'[j] = "PENDING"
    <2>1. CASE Enqueue(b)
      BY <1>0, <2>1 DEF Enqueue
    <2>2. CASE UNCHANGED job
      BY <2>2
    <2> QED BY <1>2, <2>1, <2>2
          DEF BatchWorks, List, ListBlind, ListAs, Reclaimed, TeardownStart, TeardownEnd,
          Reclaim, RemoveGuest, TeardownLook, TeardownDestroy, jobVars
  <1>3. ASSUME NEW v \in Vmids, AdminRemove(v) \/ \E type \in {"qemu", "lxc"} : AdminCreate(v, type)
        PROVE  job' = job
    BY <1>3 DEF AdminRemove, AdminCreate, jobVars
  <1>4. CASE UNCHANGED vars
    BY <1>4 DEF vars, jobVars
  <1> QED BY <1>1, <1>2, <1>3, <1>4 DEF Next

LEMMA GuestInvKept ==
    ASSUME OwnershipInv, Typed', [Next]_vars
    PROVE  GuestInv'
  <1> SUFFICES ASSUME NEW v \in Vmids, NEW j \in guest'[v].of
               PROVE  /\ j[2] = v /\ job'[j] # "none"
                      /\ job'[j] = "COMPLETED" => guest'[v].marked
    BY DEF GuestInv
  <1>1. Evolves(v)
    BY GuestsEvolve DEF OwnershipInv
  <1>2. CASE j[2] = v /\ job[j] = "PENDING" /\ job'[j] = "submitted"
    BY <1>2
  <1>3. CASE j \in guest[v].of /\ (guest[v].marked => guest'[v].marked)
    <2>1. j \in Job
      BY <1>3, OfAreJobs DEF OwnershipInv
    <2>2. j[2] = v /\ job[j] # "none" /\ (job[j] = "COMPLETED" => guest[v].marked)
      BY <1>3 DEF OwnershipInv, GuestInv
    <2>3. job'[j] # "none" /\ (job'[j] = "COMPLETED" /\ job[j] # "COMPLETED" => Stamp(j))
      BY <2>1, <2>2, JobsMove
    <2>4. ASSUME Stamp(j) PROVE guest'[v].marked
      <3>1. guest[v] \in Guest
        BY <2>2, <2>4, IsGuest DEF OwnershipInv, Stamp, Deletable
      <3>2. guest'[v] = [guest[v] EXCEPT !.marked = TRUE]
        BY <2>2, <2>4 DEF Stamp, OwnershipInv, Typed, TypeOK
      <3> QED BY <3>1, <3>2 DEF Guest
    <2> QED BY <1>3, <2>2, <2>3, <2>4
  <1> QED BY <1>1, <1>2, <1>3 DEF Evolves

\* A batch keeps its invariant while others work.
LEMMA QuietKeeps ==
    ASSUME OwnershipInv, Typed', [Next]_vars, NEW c \in Batches, Quiet(c)
    PROVE  BatchInv(c)'
  <1>0. Typed /\ Ordered(c) /\ FoundGone(c) /\ PassedGone(c)
    BY DEF OwnershipInv, BatchInv
  <1>1. \A v \in Vmids : Evolves(v)
    BY <1>0, GuestsEvolve
  <1>2. targets[c] \subseteq Vmids
    BY <1>0 DEF Typed, TypeOK
  <1>3. Ordered(c)'
    BY <1>0, <1>2 DEF Ordered, Quiet
  <1>4. FoundGone(c)'
    <2> SUFFICES ASSUME at[c] \notin {"new", "refused"}, c \notin blind, NEW v \in targets[c]
                 PROVE  \/ guest'[v].type = "none" \/ c \in guest'[v].after
                        \/ /\ at[c] \in {"reclaim", "remove"}
                           /\ v \in left[c] \/ (v \in now[c] /\ guest'[v].marked)
      BY DEF FoundGone, Quiet
    <2>1. c \in listed
      BY <1>0 DEF Ordered
    <2> QED BY <1>0, <1>1, <1>2, <2>1 DEF FoundGone, Evolves
  <1>5. PassedGone(c)'
    <2> SUFFICES ASSUME at[c] \in {"look", "destroy"}, NEW v \in targets[c],
                        v \notin left[c] /\ v \notin now[c] /\ v \notin failed[c],
                        NEW j \in guest'[v].of, j[1] = c
                 PROVE  FALSE
      BY DEF PassedGone, Quiet
    <2>1. j \notin guest[v].of
      BY <1>0 DEF PassedGone
    <2>2. j[2] = v /\ job[j] = "PENDING" /\ job'[j] = "submitted"
      BY <1>1, <1>2, <2>1 DEF Evolves
    <2>3. j \in Job
      <3>1. guest'[v] \in Guest \cup {NoGuest}
        BY <1>2 DEF Typed, TypeOK
      <3>2. CASE guest'[v] = NoGuest
        <4>1. NoGuest.of = {}
          BY DEF NoGuest
        <4> QED BY <3>2, <4>1
      <3>3. CASE guest'[v] \in Guest
        BY <3>3 DEF Guest
      <3> QED BY <3>1, <3>2, <3>3
    <2>4. j = <<c, v>>
      BY <2>2, <2>3, JobParts
    <2>5. job[<<c, v>>] \in Ended
      BY <1>0 DEF Ordered
    <2> QED BY <2>2, <2>4, <2>5 DEF Ended
  <1> QED BY <1>3, <1>4, <1>5 DEF BatchInv

\* Whoever works leaves the other batches alone.
LEMMA OthersQuiet ==
    ASSUME Typed, NEW b \in Batches, BatchWorks(b), NEW c \in Batches, c # b
    PROVE  Quiet(c)
  <1>1. /\ at'[c] = at[c] /\ ask'[c] = ask[c] /\ targets'[c] = targets[c]
        /\ left'[c] = left[c] /\ now'[c] = now[c]
    <2>1. ASSUME NEW q \in Requests[b], List(b, q) \/ ListBlind(b, q)
          PROVE  /\ at'[c] = at[c] /\ ask'[c] = ask[c] /\ targets'[c] = targets[c]
                 /\ left'[c] = left[c] /\ now'[c] = now[c]
      <3>1. PICK inUse : ListAs(b, q, inUse)
        BY <2>1 DEF List, ListBlind
      <3> QED BY <3>1 DEF ListAs, Goes, Typed, TypeOK
    <2>2. CASE Reclaimed(b) \/ Enqueue(b) \/ TeardownStart(b) \/ TeardownEnd(b)
      BY <2>2 DEF Reclaimed, Enqueue, TeardownStart, TeardownEnd, Goes, Typed, TypeOK
    <2>3. ASSUME NEW v \in Vmids, Reclaim(b, v) \/ RemoveGuest(b, v)
          PROVE  /\ at'[c] = at[c] /\ ask'[c] = ask[c] /\ targets'[c] = targets[c]
                 /\ left'[c] = left[c] /\ now'[c] = now[c]
      BY <2>3 DEF Reclaim, RemoveGuest, Goes, Typed, TypeOK
    <2>4. ASSUME NEW v \in Vmids, TeardownLook(b, v) \/ TeardownDestroy(b, v)
          PROVE  /\ at'[c] = at[c] /\ ask'[c] = ask[c] /\ targets'[c] = targets[c]
                 /\ left'[c] = left[c] /\ now'[c] = now[c]
      BY <2>4 DEF TeardownLook, TeardownDestroy, Goes, Typed, TypeOK
    <2> QED BY <2>1, <2>2, <2>3, <2>4 DEF BatchWorks
  <1>2. failed'[c] = failed[c] /\ torn'[c] = torn[c]
    BY DEF BatchWorks, List, ListBlind, ListAs, Reclaimed, Enqueue, TeardownStart, TeardownEnd,
       Reclaim, RemoveGuest, TeardownLook, TeardownDestroy, Typed, TypeOK
  <1>3. (c \in blind' <=> c \in blind) /\ (c \in listed => c \in listed')
    BY DEF BatchWorks, List, ListBlind, ListAs, Reclaimed, Enqueue, TeardownStart, TeardownEnd,
       Reclaim, RemoveGuest, TeardownLook, TeardownDestroy, seenVars
  <1>4. \A v \in Vmids : job'[<<c, v>>] = job[<<c, v>>]
    <2>1. CASE Enqueue(b)
      <3> SUFFICES ASSUME NEW v \in Vmids PROVE job'[<<c, v>>] = job[<<c, v>>]
        OBVIOUS
      <3>1. <<c, v>> \in Job /\ <<c, v>>[1] # b
        BY DEF Job
      <3> QED BY <2>1, <3>1 DEF Enqueue
    <2>2. CASE UNCHANGED job
      BY <2>2
    <2> QED BY <2>1, <2>2
          DEF BatchWorks, List, ListBlind, ListAs, Reclaimed, TeardownStart, TeardownEnd,
          Reclaim, RemoveGuest, TeardownLook, TeardownDestroy, jobVars
  <1> QED BY <1>1, <1>2, <1>3, <1>4 DEF Quiet

LEMMA JobsQuiet ==
    ASSUME Typed, NEW j \in Job, JobWorks(j), NEW c \in Batches
    PROVE  Quiet(c)
  <1>1. UNCHANGED <<batchVars, seenVars>>
    BY DEF JobWorks, Submit, SubmitFails, RecordUpid, TaskEnds, WaitEnds, Stamp, StampFails, Kill
  <1>2. \A i \in Job : job'[i] = job[i] \/ (job[i] \notin Ended \cup {"none"} /\ job'[i] # "none")
    <2> DEFINE Moves == job[j] \notin Ended \cup {"none"}
                       /\ \E l \in JobLabel \ {"none"} : job' = [job EXCEPT ![j] = l]
    <2>1. CASE Submit(j) \/ SubmitFails(j) \/ RecordUpid(j)
      <3>1. Moves
        BY <2>1 DEF Submit, SubmitFails, RecordUpid, Ended, JobLabel
      <3> QED BY <3>1 DEF Typed, TypeOK
    <2>2. CASE WaitEnds(j) \/ Stamp(j) \/ StampFails(j) \/ Kill(j)
      <3>1. Moves
        BY <2>2 DEF WaitEnds, Stamp, StampFails, Kill, Ended, JobLabel
      <3> QED BY <3>1 DEF Typed, TypeOK
    <2>3. CASE UNCHANGED job
      BY <2>3
    <2> QED BY <2>1, <2>2, <2>3 DEF JobWorks, TaskEnds
  <1>3. \A v \in Vmids : <<c, v>> \in Job
    BY DEF Job
  <1> QED BY <1>1, <1>2, <1>3 DEF Quiet, batchVars, seenVars

\* VMIDs of a batch that are in use are those that a DR overwrite reclaims.
LEMMA FreeOrReclaimed ==
    ASSUME NEW q, NEW inUse, NEW v \in VmidsFor(q, inUse) \cap inUse
    PROVE  q.dr /\ q.overwrite
  BY DEF VmidsFor, LowestFree

LEMMA ListKeeps ==
    ASSUME OwnershipInv, NEW b \in Batches, NEW q \in Requests[b], NEW inUse,
           ListAs(b, q, inUse), inUse = Occupied \/ b \in blind'
    PROVE  BatchInv(b)'
  <1> DEFINE ids == VmidsFor(q, inUse)
  <1>0. Typed /\ Ordered(b)
    BY DEF OwnershipInv, BatchInv
  <1>1. /\ at[b] = "new" /\ ask'[b] = {q} /\ targets'[b] = ids
        /\ at'[b] = IF ids = {} THEN "refused"
                    ELSE IF q.dr /\ q.overwrite THEN "reclaim" ELSE "enqueue"
        /\ left'[b] = IF q.dr /\ q.overwrite THEN ids \cap inUse ELSE {}
        /\ b \in listed' /\ UNCHANGED <<guest, now, failed, job>>
    BY <1>0 DEF ListAs, Goes, Typed, TypeOK, jobVars
  <1>2. now[b] = {} /\ \A v \in Vmids : job[<<b, v>>] = "none"
    BY <1>0, <1>1 DEF Ordered
  <1>3. Ordered(b)'
    BY <1>1, <1>2 DEF Ordered
  <1>4. FoundGone(b)'
    <2> SUFFICES ASSUME b \notin blind', NEW v \in ids
                 PROVE  \/ guest[v].type = "none"
                        \/ at'[b] = "reclaim" /\ v \in left'[b]
      BY <1>1 DEF FoundGone
    <2>1. v \in Vmids
      BY VmidsForOccur
    <2>2. CASE guest[v].type # "none"
      <3>1. v \in inUse
        BY <2>1, <2>2 DEF Occupied
      <3> QED BY <1>1, <3>1, FreeOrReclaimed
    <2> QED BY <2>2
  <1>5. PassedGone(b)'
    BY <1>1 DEF PassedGone
  <1> QED BY <1>3, <1>4, <1>5 DEF BatchInv

LEMMA ReclaimKeeps ==
    ASSUME OwnershipInv, NEW b \in Batches, NEW v \in Vmids, Reclaim(b, v)
    PROVE  BatchInv(b)'
  <1>0. Typed /\ Ordered(b) /\ FoundGone(b)
    BY DEF OwnershipInv, BatchInv
  <1>1. /\ at[b] = "reclaim" /\ v \in left[b]
        /\ ask' = ask /\ targets' = targets /\ guest' = guest /\ job' = job
        /\ blind' = blind /\ listed' = listed
    BY DEF Reclaim, jobVars, seenVars
  <1>2. CASE Reclaimable(guest[v])
    <2>1. /\ at'[b] = "remove" /\ left'[b] = left[b] \ {v} /\ now'[b] = {v}
          /\ guest[v].marked
      BY <1>0, <1>2 DEF Reclaim, Goes, Reclaimable, Typed, TypeOK
    <2> QED BY <1>0, <1>1, <2>1 DEF BatchInv, Ordered, FoundGone, PassedGone
  <1>3. CASE ~Reclaimable(guest[v])
    <2>1. at'[b] = "refused" /\ left'[b] = {} /\ now' = now
      BY <1>0, <1>3 DEF Reclaim, Goes, Typed, TypeOK
    <2> QED BY <1>0, <1>1, <2>1 DEF BatchInv, Ordered, FoundGone, PassedGone
  <1> QED BY <1>2, <1>3

LEMMA RemoveKeeps ==
    ASSUME OwnershipInv, NEW b \in Batches, NEW v \in Vmids, RemoveGuest(b, v)
    PROVE  BatchInv(b)'
  <1>0. Typed /\ Ordered(b) /\ FoundGone(b)
    BY DEF OwnershipInv, BatchInv
  <1>1. /\ at[b] = "remove" /\ now'[b] = {} /\ now[b] # {}
        /\ ask' = ask /\ targets' = targets /\ left' = left /\ job' = job
        /\ blind' = blind /\ listed' = listed
    BY <1>0 DEF RemoveGuest, Typed, TypeOK, jobVars, seenVars
  <1>2. CASE Deletable(guest[v])
    <2>1. at'[b] = "reclaim" /\ guest' = [guest EXCEPT ![v] = NoGuest]
      BY <1>0, <1>2 DEF RemoveGuest, Goes, Delete, Typed, TypeOK
    <2>2. Ordered(b)'
      BY <1>0, <1>1, <2>1 DEF Ordered
    <2>3. FoundGone(b)'
      <3> SUFFICES ASSUME b \notin blind, NEW u \in targets[b]
                   PROVE  \/ guest'[u].type = "none" \/ b \in guest'[u].after
                          \/ u \in left[b]
        BY <1>1, <2>1 DEF FoundGone
      <3>1. CASE u = v
        <4>1. guest'[u] = NoGuest
          BY <1>0, <2>1, <3>1 DEF Typed, TypeOK
        <4> QED BY <4>1 DEF NoGuest
      <3>2. CASE u # v
        <4>1. guest'[u] = guest[u]
          BY <1>0, <2>1, <3>2 DEF Typed, TypeOK
        <4>2. u \notin now[b]
          BY <1>0, <3>2 DEF Ordered, RemoveGuest
        <4> QED BY <1>0, <1>1, <4>1, <4>2 DEF FoundGone
      <3> QED BY <3>1, <3>2
    <2> QED BY <2>1, <2>2, <2>3 DEF BatchInv, PassedGone
  <1>3. CASE ~Deletable(guest[v])
    <2>1. at'[b] = "refused"
      BY <1>0, <1>3 DEF RemoveGuest, Goes, Typed, TypeOK
    <2> QED BY <1>0, <1>1, <2>1 DEF BatchInv, Ordered, FoundGone, PassedGone
  <1> QED BY <1>2, <1>3

LEMMA WaitingKeeps ==
    ASSUME OwnershipInv, NEW b \in Batches, Reclaimed(b) \/ Enqueue(b) \/ TeardownStart(b)
    PROVE  BatchInv(b)'
  <1>0. Typed /\ Ordered(b) /\ FoundGone(b)
    BY DEF OwnershipInv, BatchInv
  <1>1. /\ ask' = ask /\ targets' = targets /\ now' = now /\ guest' = guest
        /\ blind' = blind /\ listed' = listed
    BY DEF Reclaimed, Enqueue, TeardownStart, seenVars
  <1>2. now[b] = {}
    BY <1>0 DEF Ordered, Reclaimed, Enqueue, TeardownStart
  <1>3. CASE Reclaimed(b)
    <2>1. at[b] = "reclaim" /\ at'[b] = "enqueue" /\ left[b] = {} /\ left' = left /\ job' = job
      BY <1>0, <1>3 DEF Reclaimed, Goes, Typed, TypeOK, jobVars
    <2> QED BY <1>0, <1>1, <1>2, <2>1 DEF BatchInv, Ordered, FoundGone, PassedGone
  <1>4. CASE Enqueue(b)
    <2>1. at[b] = "enqueue" /\ at'[b] = "queued" /\ left' = left
      BY <1>0, <1>4 DEF Enqueue, Goes, Typed, TypeOK
    <2>2. \A v \in Vmids : job'[<<b, v>>] # "none" => v \in targets[b]
      <3> SUFFICES ASSUME NEW v \in Vmids, v \notin targets[b] PROVE job'[<<b, v>>] = "none"
        OBVIOUS
      <3>1. <<b, v>> \in Job /\ <<b, v>>[2] = v
        BY DEF Job
      <3>2. job'[<<b, v>>] = job[<<b, v>>]
        BY <1>4, <3>1 DEF Enqueue
      <3> QED BY <1>0, <3>2 DEF Ordered
    <2> QED BY <1>0, <1>1, <1>2, <2>1, <2>2 DEF BatchInv, Ordered, FoundGone, PassedGone
  <1>5. CASE TeardownStart(b)
    <2>1. /\ at[b] = "queued" /\ at'[b] = "look" /\ left'[b] = targets[b] /\ job' = job
          /\ \A v \in targets[b] : job[<<b, v>>] \in Ended
      BY <1>0, <1>5 DEF TeardownStart, Goes, Typed, TypeOK, jobVars
    <2> QED BY <1>0, <1>1, <1>2, <2>1 DEF BatchInv, Ordered, FoundGone, PassedGone
  <1> QED BY <1>3, <1>4, <1>5

LEMMA LookKeeps ==
    ASSUME OwnershipInv, NEW b \in Batches, NEW v \in Vmids, TeardownLook(b, v)
    PROVE  BatchInv(b)'
  <1>0. Typed /\ Ordered(b) /\ FoundGone(b) /\ PassedGone(b) /\ GuestInv
    BY DEF OwnershipInv, BatchInv
  <1>1. /\ at[b] = "look" /\ left'[b] = left[b] \ {v} /\ v \in left[b]
        /\ ask' = ask /\ targets' = targets /\ guest' = guest /\ job' = job
        /\ blind' = blind /\ listed' = listed
    BY <1>0 DEF TeardownLook, Typed, TypeOK, jobVars, seenVars
  <1>2. now[b] = {}
    BY <1>0, <1>1 DEF Ordered
  <1>3. /\ (at'[b] = "look" /\ now'[b] = {}) \/ (at'[b] = "destroy" /\ now'[b] = {v})
        /\ failed[b] \subseteq failed'[b]
        /\ guest[v].type = "none" \/ v \in now'[b] \/ v \in failed'[b]
    <2>1. (at'[b] = "look" /\ now'[b] = {}) \/ (at'[b] = "destroy" /\ now'[b] = {v})
      <3>1. CASE Owned(b, v)
        <4>1. at' = [at EXCEPT ![b] = "destroy"] /\ now' = [now EXCEPT ![b] = {v}]
          BY <3>1 DEF TeardownLook, Goes
        <4> QED BY <1>0, <4>1 DEF Typed, TypeOK
      <3>2. CASE ~Owned(b, v)
        <4>1. at' = at /\ now' = now
          BY <3>2 DEF TeardownLook
        <4>2. at'[b] = "look" /\ now'[b] = {}
          BY <1>1, <1>2, <4>1
        <4> QED BY <4>2
      <3> QED BY <3>1, <3>2
    <2>2. Owned(b, v) => v \in now'[b]
      <3>1. now \in [Batches -> SUBSET Vmids]
        BY <1>0 DEF Typed, TypeOK
      <3> QED BY <3>1 DEF TeardownLook
    <2>3. failed'[b] = IF guest[v].type = "none" \/ Owned(b, v) THEN failed[b] ELSE failed[b] \cup {v}
      <3>1. failed \in [Batches -> SUBSET Vmids]
        BY <1>0 DEF Typed, TypeOK
      <3> QED BY <3>1 DEF TeardownLook
    <2> QED BY <2>1, <2>2, <2>3
  <1>4. Ordered(b)'
    BY <1>0, <1>1, <1>2, <1>3 DEF Ordered
  <1>5. FoundGone(b)'
    BY <1>0, <1>1, <1>3 DEF FoundGone
  <1>6. PassedGone(b)'
    <2>1. guest[v].type = "none" => guest[v].of = {}
      BY <1>0, IsGuest DEF Guest
    <2> QED BY <1>0, <1>1, <1>2, <1>3, <2>1 DEF PassedGone
  <1> QED BY <1>4, <1>5, <1>6 DEF BatchInv

LEMMA DestroyKeeps ==
    ASSUME OwnershipInv, NEW b \in Batches, NEW v \in Vmids, TeardownDestroy(b, v)
    PROVE  BatchInv(b)'
  <1>0. Typed /\ Ordered(b) /\ FoundGone(b) /\ PassedGone(b)
    BY DEF OwnershipInv, BatchInv
  <1>1. /\ at[b] = "destroy" /\ at'[b] = "look" /\ now'[b] = {} /\ v \in now[b]
        /\ ask' = ask /\ targets' = targets /\ left' = left /\ job' = job
        /\ blind' = blind /\ listed' = listed
    BY <1>0 DEF TeardownDestroy, Goes, Typed, TypeOK, jobVars, seenVars
  <1>2. now[b] = {v}
    BY <1>0, <1>1 DEF Ordered
  <1>3. \A u \in Vmids : guest'[u] = guest[u] \/ guest'[u] = NoGuest
    BY BatchGuests, <1>0 DEF BatchWorks
  <1>4. failed[b] \subseteq failed'[b] /\ (guest'[v].of = {} \/ v \in failed'[b])
    <2>1. CASE Deletable(guest[v])
      <3>1. guest'[v] = NoGuest /\ failed' = failed
        BY <1>0, <2>1 DEF TeardownDestroy, Delete, Typed, TypeOK
      <3> QED BY <3>1 DEF NoGuest
    <2>2. CASE ~Deletable(guest[v]) /\ guest[v].type = "none"
      <3>1. guest' = guest /\ failed' = [failed EXCEPT ![b] = failed[b]]
        BY <2>2 DEF TeardownDestroy
      <3>2. guest[v].of = {}
        BY <1>0, <2>2, IsGuest DEF Guest
      <3> QED BY <1>0, <3>1, <3>2 DEF Typed, TypeOK
    <2>3. CASE ~Deletable(guest[v]) /\ guest[v].type # "none"
      <3>1. failed' = [failed EXCEPT ![b] = failed[b] \cup {v}]
        BY <2>3 DEF TeardownDestroy
      <3> QED BY <1>0, <3>1 DEF Typed, TypeOK
    <2> QED BY <2>1, <2>2, <2>3
  <1>5. Ordered(b)'
    BY <1>0, <1>1 DEF Ordered
  <1>6. targets[b] \subseteq Vmids
    BY <1>0 DEF Typed, TypeOK
  <1>7. FoundGone(b)'
    BY <1>0, <1>1, <1>3, <1>6 DEF FoundGone, NoGuest
  <1>8. PassedGone(b)'
    BY <1>0, <1>1, <1>2, <1>3, <1>4, <1>6 DEF PassedGone, NoGuest
  <1> QED BY <1>5, <1>7, <1>8 DEF BatchInv

LEMMA EndKeeps ==
    ASSUME OwnershipInv, NEW b \in Batches, TeardownEnd(b)
    PROVE  BatchInv(b)'
  <1>0. Typed /\ Ordered(b) /\ FoundGone(b)
    BY DEF OwnershipInv, BatchInv
  <1>1. /\ at[b] = "look" /\ at'[b] = "queued" /\ ask' = ask /\ targets' = targets
        /\ left' = left /\ now' = now /\ guest' = guest /\ job' = job
        /\ blind' = blind /\ listed' = listed
    BY <1>0 DEF TeardownEnd, Goes, Typed, TypeOK, jobVars, seenVars
  <1> QED BY <1>0, <1>1 DEF BatchInv, Ordered, FoundGone, PassedGone

LEMMA OwnKeeps ==
    ASSUME OwnershipInv, NEW b \in Batches, BatchWorks(b)
    PROVE  BatchInv(b)'
  <1>1. ASSUME NEW q \in Requests[b], List(b, q) PROVE BatchInv(b)'
    <2>1. ListAs(b, q, Occupied)
      BY <1>1 DEF List
    <2> QED BY <2>1, ListKeeps
  <1>2. ASSUME NEW q \in Requests[b], ListBlind(b, q) PROVE BatchInv(b)'
    <2>1. ListAs(b, q, {}) /\ b \in blind'
      BY <1>2 DEF ListBlind
    <2> QED BY <2>1, ListKeeps
  <1> QED BY <1>1, <1>2, ReclaimKeeps, RemoveKeeps, WaitingKeeps, LookKeeps, DestroyKeeps, EndKeeps
          DEF BatchWorks

LEMMA InvInitially == Init => OwnershipInv
  <1> SUFFICES ASSUME Init PROVE OwnershipInv
    OBVIOUS
  <1>1. Typed
    BY TypedInitially
  <1>2. GuestInv
    <2>1. PICK type \in Installed : guest = [v \in Vmids |-> [NoGuest EXCEPT !.type = type[v]]]
      BY DEF Init
    <2>2. \A v \in Vmids : guest[v].of = {}
      BY <2>1 DEF NoGuest
    <2> QED BY <2>2 DEF GuestInv
  <1>3. ASSUME NEW b \in Batches PROVE BatchInv(b)
    <2>1. \A v \in Vmids : <<b, v>> \in Job
      BY DEF Job
    <2> QED BY <2>1 DEF Init, BatchInv, Ordered, FoundGone, PassedGone
  <1> QED BY <1>1, <1>2, <1>3 DEF OwnershipInv

LEMMA InvKept == OwnershipInv /\ [Next]_vars => OwnershipInv'
  <1> SUFFICES ASSUME OwnershipInv, [Next]_vars PROVE OwnershipInv'
    OBVIOUS
  <1>1. Typed'
    BY TypedKept DEF OwnershipInv
  <1>2. GuestInv'
    BY <1>1, GuestInvKept
  <1>3. ASSUME NEW c \in Batches PROVE BatchInv(c)'
    <2>1. ASSUME NEW b \in Batches, BatchWorks(b) PROVE BatchInv(c)'
      <3>1. CASE b = c
        BY <2>1, <3>1, OwnKeeps
      <3>2. CASE b # c
        BY <1>1, <2>1, <3>2, OthersQuiet, QuietKeeps DEF OwnershipInv
      <3> QED BY <3>1, <3>2
    <2>2. ASSUME NEW j \in Job, JobWorks(j) PROVE BatchInv(c)'
      BY <1>1, <2>2, JobsQuiet, QuietKeeps DEF OwnershipInv
    <2>3. CASE UNCHANGED <<batchVars, jobVars, seenVars>>
      <3>1. Quiet(c)
        BY <2>3 DEF Quiet, batchVars, jobVars, seenVars
      <3> QED BY <1>1, <3>1, QuietKeeps
    <2> QED BY <2>1, <2>2, <2>3 DEF Next, AdminRemove, AdminCreate, vars
  <1> QED BY <1>1, <1>2, <1>3 DEF OwnershipInv

\* The inductive invariant of batches that share a cluster.
THEOREM OwnershipHolds == Spec => []OwnershipInv
  BY InvInitially, InvKept, PTL DEF Spec
-----------------------------------------------------------------------------
(* What follows from it.                                                   *)

\* Who takes a guest: the loop of the overwrite, the teardown, or a restore.
LEMMA TakenHow ==
    ASSUME Typed, [Next]_vars, NEW b \in Batches, NEW v \in Vmids, Takes(b, v)
    PROVE  RemoveGuest(b, v) \/ TeardownDestroy(b, v) \/ Submit(<<b, v>>)
  <1>0. guest'[v] # guest[v] /\ guest' # guest
    BY DEF Takes
  <1>1. ASSUME NEW c \in Batches, BatchWorks(c)
        PROVE  RemoveGuest(b, v) \/ TeardownDestroy(b, v)
    <2>1. \E u \in Vmids : (RemoveGuest(c, u) \/ TeardownDestroy(c, u)) /\ Delete(u)
      BY <1>0, <1>1 DEF BatchWorks, List, ListBlind, ListAs, Reclaimed, Enqueue, TeardownStart,
         TeardownEnd, Reclaim, RemoveGuest, TeardownLook, TeardownDestroy
    <2>2. PICK u \in Vmids : (RemoveGuest(c, u) \/ TeardownDestroy(c, u)) /\ Delete(u)
      BY <2>1
    <2>3. u = v
      BY <1>0, <2>2 DEF Delete, Typed, TypeOK
    <2>4. job' = job /\ (b # c => now'[b] = now[b])
      BY <2>2 DEF RemoveGuest, TeardownDestroy, jobVars, Typed, TypeOK
    <2>5. b = c
      BY <2>4 DEF Takes, Acts
    <2> QED BY <2>2, <2>3, <2>5
  <1>2. ASSUME NEW j \in Job, JobWorks(j)
        PROVE  Submit(<<b, v>>)
    <2>1. now' = now
      BY <1>2 DEF JobWorks, Submit, SubmitFails, RecordUpid, TaskEnds, WaitEnds, Stamp,
         StampFails, Kill, batchVars
    <2>2. PICK u \in Vmids : job[<<b, u>>] = "PENDING" /\ job'[<<b, u>>] = "submitted"
      BY <2>1 DEF Takes, Acts
    <2>3. <<b, u>> \in Job /\ <<b, u>>[2] = u
      BY DEF Job
    <2>4. Submit(j) /\ j = <<b, u>>
      BY <1>2, <2>2, <2>3 DEF JobWorks, Submit, SubmitFails, RecordUpid, TaskEnds, WaitEnds, Stamp,
         StampFails, Kill, Typed, TypeOK
    <2>5. u = v
      BY <1>0, <2>3, <2>4 DEF Submit, Typed, TypeOK
    <2> QED BY <2>4, <2>5
  <1>3. ASSUME UNCHANGED <<batchVars, jobVars>> PROVE FALSE
    BY <1>3 DEF Takes, Acts, batchVars, jobVars
  <1> QED BY <1>1, <1>2, <1>3 DEF Next, AdminRemove, AdminCreate, vars

\* A restore that Proxmox accepts is of a batch that has enqueued it.
LEMMA SubmittedBy ==
    ASSUME OwnershipInv, NEW b \in Batches, NEW v \in Vmids, Submit(<<b, v>>)
    PROVE  /\ at[b] \in {"queued", "look", "destroy"} /\ v \in targets[b]
           /\ guest[v].type = "none" \/ Forced(b)
  <1>1. job[<<b, v>>] = "PENDING"
    BY DEF Submit
  <1> QED BY <1>1 DEF Submit, OwnershipInv, BatchInv, Ordered

LEMMA TakesFound ==
    ASSUME OwnershipInv, [Next]_vars, NEW b \in Batches, NEW v \in Vmids, Takes(b, v)
    PROVE  \/ b \in guest[v].after
           \/ b \in blind
           \/ guest[v].marked /\ \E q \in ask[b] : q.dr /\ q.overwrite
  <1>0. Typed /\ Ordered(b) /\ FoundGone(b) /\ guest[v].type # "none"
    BY DEF OwnershipInv, BatchInv, Takes
  <1>1. CASE RemoveGuest(b, v)
    <2>1. at[b] = "remove" /\ v \in now[b] /\ v \in targets[b] /\ v \notin left[b]
      BY <1>0, <1>1 DEF RemoveGuest, Ordered
    <2> QED BY <1>0, <2>1 DEF Ordered, FoundGone
  <1>2. CASE TeardownDestroy(b, v)
    <2>1. at[b] = "destroy" /\ v \in targets[b]
      BY <1>0, <1>2 DEF TeardownDestroy, Ordered
    <2> QED BY <1>0, <2>1 DEF FoundGone
  <1>3. CASE Submit(<<b, v>>)
    <2>1. at[b] \in {"queued", "look", "destroy"} /\ v \in targets[b]
      BY <1>3, SubmittedBy
    <2> QED BY <1>0, <2>1 DEF FoundGone
  <1> QED BY <1>0, <1>1, <1>2, <1>3, TakenHow

\* FoundIsKept: the tool destroys or overwrites nothing it has found in the
\* cluster, but for marked guests that a DR overwrite reclaims.
THEOREM NothingFoundIsTaken == Spec => FoundIsKept
  <1>1. OwnershipInv /\ [Next]_vars => [\A b \in Batches, v \in Vmids : Takes(b, v) =>
          \/ b \in guest[v].after
          \/ b \in blind
          \/ guest[v].marked /\ \E q \in ask[b] : q.dr /\ q.overwrite]_vars
    BY TakesFound
  <1> QED BY <1>1, OwnershipHolds, PTL DEF Spec, FoundIsKept

\* PlainDrReplacesNothing: a DR restore without overwrite never replaces a guest.
THEOREM PlainDrIsSafe == Spec => PlainDrReplacesNothing
  <1>1. ASSUME OwnershipInv, [Next]_vars, NEW b \in Batches, NEW v \in Vmids,
               Takes(b, v), at[b] # "destroy"
        PROVE  \E q \in ask[b] : q.dr => q.overwrite
    <2>0. Typed /\ Ordered(b) /\ guest[v].type # "none"
      BY <1>1 DEF OwnershipInv, BatchInv, Takes
    <2>1. CASE RemoveGuest(b, v)
      BY <2>0, <2>1 DEF RemoveGuest, Ordered
    <2>2. CASE Submit(<<b, v>>)
      BY <1>1, <2>0, <2>2, SubmittedBy DEF Forced
    <2>3. ~TeardownDestroy(b, v)
      BY <1>1 DEF TeardownDestroy
    <2> QED BY <1>1, <2>0, <2>1, <2>2, <2>3, TakenHow
  <1>2. OwnershipInv /\ [Next]_vars =>
          [\A b \in Batches, v \in Vmids : Takes(b, v) /\ at[b] # "destroy" =>
             \E q \in ask[b] : q.dr => q.overwrite]_vars
    BY <1>1
  <1> QED BY <1>2, OwnershipHolds, PTL DEF Spec, PlainDrReplacesNothing

\* CompletedIsMarked: a job completes only with the mark on its guest, and
\* the guest keeps it.
THEOREM CompletedStaysMarked == Spec => []CompletedIsMarked
  <1>1. OwnershipInv => CompletedIsMarked
    BY DEF OwnershipInv, GuestInv, CompletedIsMarked
  <1> QED BY <1>1, OwnershipHolds, PTL

LEMMA CompleteIsGone ==
    ASSUME OwnershipInv, [Next]_vars, NEW b \in Batches,
           torn[b] # "completed", torn'[b] = "completed",
           NEW v \in Vmids, NEW j \in guest[v].of
    PROVE  j[1] # b
  <1>0. Typed /\ Ordered(b) /\ PassedGone(b) /\ GuestInv
    BY DEF OwnershipInv, BatchInv
  <1>1. TeardownEnd(b)
    <2>1. ASSUME NEW c \in Batches, BatchWorks(c) PROVE TeardownEnd(b)
      <3>1. CASE TeardownEnd(c)
        <4>1. b = c
          BY <1>0, <3>1 DEF TeardownEnd, Typed, TypeOK
        <4> QED BY <3>1, <4>1
      <3>2. CASE UNCHANGED torn
        BY <3>2
      <3> QED BY <2>1, <3>1, <3>2
            DEF BatchWorks, List, ListBlind, ListAs, Reclaimed, Enqueue, TeardownStart,
            Reclaim, RemoveGuest, TeardownLook, TeardownDestroy
    <2>2. ASSUME NEW i \in Job, JobWorks(i) PROVE FALSE
      BY <2>2 DEF JobWorks, Submit, SubmitFails, RecordUpid, TaskEnds, WaitEnds, Stamp,
         StampFails, Kill, batchVars
    <2>3. CASE UNCHANGED batchVars
      BY <2>3 DEF batchVars
    <2> QED BY <2>1, <2>2, <2>3 DEF Next, AdminRemove, AdminCreate, vars
  <1>2. at[b] = "look" /\ left[b] = {} /\ now[b] = {} /\ failed[b] = {}
    BY <1>0, <1>1 DEF TeardownEnd, Ordered, Typed, TypeOK
  <1>3. CASE j[1] = b
    <2>1. j \in Job /\ j[2] = v /\ job[j] # "none"
      BY <1>0, OfAreJobs DEF GuestInv
    <2>2. j = <<b, v>>
      BY <1>3, <2>1, JobParts
    <2>3. v \in targets[b]
      BY <1>0, <2>1, <2>2 DEF Ordered
    <2> QED BY <1>0, <1>2, <2>3 DEF PassedGone
  <1> QED BY <1>3

\* TornDownIsGone: a teardown that counts as complete leaves no guest that a
\* job of its batch restored.
THEOREM CompleteTeardownIsComplete == Spec => TornDownIsGone
  <1>1. OwnershipInv /\ [Next]_vars =>
          [\A b \in Batches : torn[b] # "completed" /\ torn'[b] = "completed" =>
             \A v \in Vmids : \A j \in guest[v].of : j[1] # b]_vars
    BY CompleteIsGone
  <1> QED BY <1>1, OwnershipHolds, PTL DEF Spec, TornDownIsGone
================================================================================
