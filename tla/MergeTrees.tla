----------------------------- MODULE MergeTrees -----------------------------
(***************************************************************************)
(* Small trees of changes for LeafMerge and RecordMerge: one field with    *)
(* two keys, a creating upsert and up to three more changes.  Version i    *)
(* belongs to change i; any other assignment is a renaming.  Only the      *)
(* causal order every tree must have is imposed, so every delivery order a *)
(* DAG allows is explored.                                                 *)
(***************************************************************************)
EXTENDS Naturals

CONSTANTS Field, Key, None, Whole, k1, k2, a, b

ChangeIds == 1..4
NoLeafs == [k \in Key |-> None]
Nothing == [shape |-> "absent", atom |-> None, leaf |-> NoLeafs]

Scalar(x) == [shape |-> "scalar", atom |-> x, leaf |-> NoLeafs]
Object(x, y) == [shape |-> "object", atom |-> None,
                 leaf |-> [k \in Key |-> IF k = k1 THEN x ELSE y]]

Set(k, v) == [op |-> "set", key |-> k, value |-> v]
Unset(k) == [op |-> "unset", key |-> k, value |-> Nothing]
Keep == [op |-> "none", key |-> Whole, value |-> Nothing]

Broad == {Set(Whole, Scalar(a)), Set(Whole, Object(a, b)), Set(Whole, Object(None, a)),
          Set(Whole, Object(None, None))}
Fine == {Set(k1, Scalar(b)), Set(k2, Scalar(b))}
Clear == {Unset(Whole)}
FineClear == {Unset(k1)}

\* What a change does, and what it writes.
Plan(act, w) == [act |-> act, write |-> w]
Planned(i, p) == [version |-> i,
                  upsert  |-> i = 1 \/ p.act = "upsert",
                  delete  |-> p.act = "delete",
                  past    |-> IF i # 1 /\ p.act = "modify" THEN {1} ELSE {},
                  write   |-> [g \in Field |-> p.write]]

\* The trees of changes planned: the first is the creating upsert, which is
\* in the past of every modify; upserts and deletes are concurrent to all.
Trees(plans) == {[i \in ChangeIds |-> Planned(i, p[i])] : p \in plans}

Modifies(writes) == {Plan("modify", w) : w \in writes}
Lives == {Plan("modify", Set(k1, Scalar(a))), Plan("upsert", Set(k1, Scalar(a))),
          Plan("upsert", Set(Whole, Object(None, b))), Plan("delete", Keep)}

\* Concurrent broad and fine $set.
SetPlans == [ChangeIds -> Modifies(Broad \cup Fine)]

\* The same with $unset, of the field and of a key below it.
UnsetPlans == [ChangeIds -> Modifies({Set(Whole, Scalar(a)), Set(Whole, Object(a, b))}
                                        \cup Fine \cup Clear \cup FineClear)]

\* Concurrent upserts, deletes and modifies.
LifePlans == {p \in [ChangeIds -> Lives] : p[1] = Plan("upsert", Set(Whole, Object(None, b)))}
============================================================================
