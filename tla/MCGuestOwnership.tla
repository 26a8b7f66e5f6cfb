--------------------------- MODULE MCGuestOwnership ---------------------------
(* Instances of GuestOwnership for TLC.                                    *)
EXTENDS GuestOwnership, TLC

Ask(dr, overwrite, rows) == [dr |-> dr, overwrite |-> overwrite, rows |-> rows]

CONSTANTS b1, b2

\* One batch of a backup as a new guest, or of two that overwrite their VMIDs.
\* Another of one backup, in every mode; or with the same source twice.
TwoBatches == [b \in {b1, b2} |->
    IF b = b1 THEN {Ask(FALSE, FALSE, <<1>>), Ask(TRUE, TRUE, <<1, 2>>)}
    ELSE {Ask(FALSE, FALSE, <<1>>), Ask(TRUE, FALSE, <<1>>), Ask(TRUE, TRUE, <<1>>),
          Ask(TRUE, TRUE, <<2, 2>>)}]

\* An empty cluster, one with a guest, one with a container.
Mixed == {<<"none", "none">>, <<"none", "qemu">>, <<"lxc", "none">>}
=============================================================================
