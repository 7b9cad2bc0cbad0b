--------------------------------- MODULE Tables -------------------------------
(***************************************************************************)
(* Tables, as functions from the keys on file to their rows, and what a    *)
(* call to a store gives.                                                  *)
(***************************************************************************)
EXTENDS FiniteSets, FiniteSetsExt, SequencesExt

CONSTANT Absent    \* undefined, or NULL

Row(table, key) == IF key \in DOMAIN table THEN table[key] ELSE Absent

With(table, key, row) ==
    [k \in DOMAIN table \cup {key} |-> IF k = key THEN row ELSE table[k]]

Without(table, keys) == [k \in DOMAIN table \ keys |-> table[k]]

\* The position of the first element of seq that Test holds of, 0 without one.
FirstWhere(seq, Test(_)) ==
    LET found == {i \in DOMAIN seq : Test(seq[i])}
    IN  IF found = {} THEN 0 ELSE Min(found)

Wrote(db, answer) == [db |-> db, answer |-> answer]

=============================================================================
