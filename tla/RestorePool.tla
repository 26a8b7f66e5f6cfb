----------------------------- MODULE RestorePool ------------------------------
(***************************************************************************)
(* What the restore queue promises to the operator: a FIFO of waiting jobs *)
(* and a bounded set of running ones.  A job is claimed in the order of    *)
(* the queue, when fewer jobs than the limit are running, at most once,    *)
(* and never after it was withdrawn.  RestoreQueue implements it when      *)
(* there is one worker process.                                            *)
(***************************************************************************)
EXTENDS Naturals, Sequences, FiniteSets

CONSTANTS
    Jobs,   \* job ids
    Limits  \* the concurrency limits the operator may set

VARIABLES
    waiting,  \* the jobs waiting, in the order they will be claimed
    running,  \* the jobs being restored
    started   \* the jobs that were ever claimed

poolVars == <<waiting, running, started>>

PoolInit == waiting = <<>> /\ running = {} /\ started = {}

Offer(j) ==
    /\ j \notin started
    /\ \A i \in DOMAIN waiting : waiting[i] # j
    /\ waiting' = Append(waiting, j)
    /\ UNCHANGED <<running, started>>

\* An operator stops the job at position k.
Withdraw(k) ==
    /\ waiting' = [i \in 1 .. Len(waiting) - 1 |->
                      IF i < k THEN waiting[i] ELSE waiting[i + 1]]
    /\ UNCHANGED <<running, started>>

\* A drain takes the first job.
Discard ==
    /\ waiting # <<>>
    /\ waiting' = Tail(waiting)
    /\ UNCHANGED <<running, started>>

Claim ==
    /\ waiting # <<>>
    /\ Head(waiting) \notin started
    /\ \E n \in Limits : Cardinality(running) < n
    /\ running' = running \cup {Head(waiting)}
    /\ started' = started \cup {Head(waiting)}
    /\ waiting' = Tail(waiting)

Finish(j) ==
    /\ running' = running \ {j}
    /\ UNCHANGED <<waiting, started>>

\* The worker process is killed.
Abandon ==
    /\ running' = {}
    /\ UNCHANGED <<waiting, started>>

PoolNext ==
    \/ Claim \/ Discard \/ Abandon
    \/ \E k \in DOMAIN waiting : Withdraw(k)
    \/ \E j \in Jobs : Offer(j) \/ Finish(j)

PoolSpec == PoolInit /\ [][PoolNext]_poolVars
=============================================================================
