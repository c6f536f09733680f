--------------------------- MODULE MCRecordMerge ---------------------------
\* Instances of RecordMerge over the trees of MergeTrees.
EXTENDS RecordMerge

CONSTANTS f, k1, k2, a, b, r1, r2

Trees == INSTANCE MergeTrees

MCField == {f}
MCKey == {k1, k2}
MCAtom == {a, b}
MCReplica == {r1, r2}
MCChangeId == Trees!ChangeIds

\* Concurrent $set and $unset of the field and of its keys.
UnsetUniverse == Trees!Trees(Trees!UnsetPlans)
\* The same, more of $set, and concurrent upserts, deletes and modifies.
EveryUniverse == Trees!Trees(Trees!SetPlans \cup Trees!UnsetPlans \cup Trees!LifePlans)
============================================================================
