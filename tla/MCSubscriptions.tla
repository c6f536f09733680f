-------------------------- MODULE MCSubscriptions --------------------------
(***************************************************************************)
(* An instance: three records of one object, two of them with the same     *)
(* key; one record, yet to be made, of a second object, which need not be  *)
(* local at first; queries on either or both, and a window of two rows or  *)
(* none.                                                                   *)
(***************************************************************************)
EXTENDS Subscriptions

CONSTANTS r1, r2, r3, r4, o1, o2

Owners == [i \in {r1, r2, r3, r4} |-> IF i = r4 THEN o2 ELSE o1]
Rows   == {[i \in {r1, r2, r3, r4} |-> CASE i = r1 -> 1 [] i \in {r2, r3} -> 2 [] OTHER -> Gone]}

\* What is written before the first query is covered by FirstRows and by what
\* is written while the query waits for the lock.
QueryFirst == subs = 0 => writes = 0

\* A failed read takes the place of a write.
FewFaults == writes + misreads <= MaxWrites
=============================================================================
