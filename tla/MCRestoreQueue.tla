---------------------------- MODULE MCRestoreQueue ----------------------------
(* Instances of RestoreQueue for TLC.                                      *)
EXTENDS RestoreQueue, TLC

Request(on, live, qga, isolate, http) ==
    [powerOn |-> on, live |-> live, qga |-> qga, isolate |-> isolate, http |-> http]

\* The powered-off restore of a drill.
PoweredOff == {Request(FALSE, FALSE, FALSE, FALSE, FALSE)}
PoweredOn == {Request(TRUE, FALSE, TRUE, FALSE, FALSE)}
\* Restores of every shape: off, on and isolated with both checks, live.
EachShape == {Request(FALSE, FALSE, FALSE, FALSE, FALSE), Request(TRUE, FALSE, TRUE, TRUE, TRUE),
              Request(TRUE, TRUE, FALSE, TRUE, FALSE),
              Request(FALSE, FALSE, TRUE, TRUE, FALSE), Request(TRUE, FALSE, FALSE, FALSE, FALSE)}

JobSymmetry == Permutations(Jobs)
Symmetry == Permutations(Jobs) \cup Permutations(Workers)
=============================================================================
