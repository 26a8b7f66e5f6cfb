------------------------------ MODULE PlanOrder ------------------------------
(***************************************************************************)
(* What a plan run promises, without documents, copies and jobs: groups    *)
(* are opened in order, each when the ones before it are done, a failed    *)
(* group stops a plan that halts on errors, and the outcome is final.      *)
(***************************************************************************)
EXTENDS Integers

CONSTANTS
    Runs,    \* plan runs
    Groups,  \* number of groups of a plan
    Filled,  \* the groups that have something to restore
    Halt     \* whether a failed group ends the run

VARIABLES
    phase,   \* NONE, RUNNING or the outcome, per run
    opened,  \* the groups whose restores have been requested
    done,    \* the groups whose restores have all ended
    bad      \* those of them in which one failed
vars == <<phase, opened, done, bad>>

Init ==
    /\ phase = [r \in Runs |-> "NONE"]
    /\ opened = [r \in Runs |-> {}]
    /\ done = [r \in Runs |-> {}]
    /\ bad = [r \in Runs |-> {}]

Begin(r) ==
    /\ phase[r] = "NONE"
    /\ phase' = [phase EXCEPT ![r] = "RUNNING"]
    /\ UNCHANGED <<opened, done, bad>>

Open(r, g) ==
    /\ phase[r] = "RUNNING"
    /\ g \in Filled \ opened[r]
    /\ \A h \in Filled : h < g => h \in done[r] /\ (Halt => h \notin bad[r])
    /\ opened' = [opened EXCEPT ![r] = @ \cup {g}]
    /\ UNCHANGED <<phase, done, bad>>

Close(r, g) ==
    /\ g \in opened[r] \ done[r]
    /\ done' = [done EXCEPT ![r] = @ \cup {g}]
    /\ \E failed \in SUBSET {g} : bad' = [bad EXCEPT ![r] = @ \cup failed]
    /\ UNCHANGED <<phase, opened>>

End(r, outcome) ==
    /\ phase[r] = "RUNNING"
    /\ opened[r] = done[r]
    /\ outcome = "COMPLETED" => done[r] = Filled /\ (Halt => bad[r] = {})
    /\ outcome = "FAILED" => Halt /\ bad[r] # {}
    /\ phase' = [phase EXCEPT ![r] = outcome]
    /\ UNCHANGED <<opened, done, bad>>

Next ==
    \E r \in Runs :
        \/ Begin(r)
        \/ \E g \in Filled : Open(r, g) \/ Close(r, g)
        \/ \E outcome \in {"COMPLETED", "FAILED", "CANCELLED"} : End(r, outcome)

Spec == Init /\ [][Next]_vars
=============================================================================
