---------------------------- MODULE MCLogBuffer ----------------------------
(* An instance of LogBuffer for TLC. *)
EXTENDS LogBuffer, TLC

\* Before the ring, its oldest line, a later one, beyond its end.
FewStarts == {-1, 0, 1, Capacity + 1}

\* No line, some, more than there are.
FewCounts == {0, 2, Capacity + 2}

\* No task that logs is different from another.
Symmetry == Permutations(Writers)
=============================================================================
