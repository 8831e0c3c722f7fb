--------------------------- MODULE MCBootManager ---------------------------
(* Instances of BootManager for TLC. *)
EXTENDS BootManager, TLC

CONSTANTS t1, t2

TwoTasks == {t1, t2}

\* The task handles are interchangeable (used where no liveness is checked).
TaskSymmetry == Permutations(TwoTasks)

GrubTargets == {"DEFAULT", "WINDOWS", "BIOS"}

\* Enough for every path: BIOS is a selection too, after reboot_os.
FewTargets == {"DEFAULT", "BIOS"}

OneTask == {t1}

NoTarget == {"DEFAULT"}

OffOnly == {"unmounted"}

OnOff == {"unmounted", "active"}

AnyLink == {"unmounted", "active", "suspended"}

GrubKit == {"selector"}

WindowsKit == {"keyboard"}

\* What a mere keyboard does, a selector does for the DEFAULT target.
BareOrGrubKit == {"no keyboard", "selector"}
=============================================================================
