---------------------------- MODULE RecordMerge ----------------------------
(***************************************************************************)
(* How the CRDT controller merges changes into one record                  *)
(* (src/internal/crdt: apply.go, versions.go, recordModifier.Modify).      *)
(*                                                                         *)
(* A record carries a tree of versions, `_ver`, beside its content.  An    *)
(* entry of the tree is a version string, which speaks for everything at   *)
(* and below its position, or an object with entries of its own and        *)
(* perhaps a default `*` for the keys it does not list.  The model keeps   *)
(* two levels, fields and the keys below them, which is where every branch *)
(* of the merge already occurs; the root of a live record has no default.  *)
(*                                                                         *)
(* Each replica applies the changes of the object's tree, again if they    *)
(* are replayed, in any order that respects their causal past.  Handlers   *)
(* admit every change here.                                                *)
(***************************************************************************)
EXTENDS Naturals, FiniteSets

CONSTANTS Replica, ChangeId, Field, Key, Atom, None, Whole, Universe

VARIABLES
    change,     \* the tree's changes, fixed from the start
    seen,       \* seen[r]: the changes replica r has applied
    rec         \* rec[r]: the record as r stores it

mergeVars == <<change, seen, rec>>

\* The one version that gates a write at leaf k of a version entry n: the
\* listed one, or the version that covers it.
Gate(n, k) == IF n.kind = "tree" /\ n.leaf[k] # 0 THEN n.leaf[k] ELSE n.at

\* The names of values and changes are those of the abstract module.
Leaves == INSTANCE LeafMerge WITH
    dead <- [r \in Replica |-> rec[r].life = "dead"],
    leaf <- [r \in Replica |-> [f \in Field |-> [k \in Key |->
               [ver |-> Gate(rec[r].ver[f], k), val |-> rec[r].val[f].leaf[k]]]]]

ASSUME UniverseAssumption ==
    /\ None \notin Atom /\ Whole \notin Key
    /\ \A chs \in Universe : Leaves!Tree(chs)

(***************************************************************************)
(* An entry of `_ver` at a field.  `at` is the version of a string entry,  *)
(* or the `*` default of an object entry; 0 stands for the empty version.  *)
(* In an object entry leaf[k] = 0 means that k is not listed.              *)
(***************************************************************************)
NoVersions == [k \in Key |-> 0]

Node == [kind : {"none", "version", "tree"}, at : Nat, leaf : [Key -> Nat]]

NoNode == [kind |-> "none", at |-> 0, leaf |-> NoVersions]
VersionNode(v) == [kind |-> "version", at |-> v, leaf |-> NoVersions]
TreeNode(star, versions) == [kind |-> "tree", at |-> star, leaf |-> versions]

\* The row is absent, live, or a tombstone.  `marker` is `_ver.id`, the
\* creation marker; `stone` is the root default `_ver.*` of a tombstone.
Record == [life   : {"absent", "live", "dead"},
           marker : Nat,
           stone  : Nat,
           val    : [Field -> Leaves!Value],
           ver    : [Field -> Node]]

NoValues == [f \in Field |-> Leaves!Absent]
NoNodes  == [f \in Field |-> NoNode]

NoRecord == [life |-> "absent", marker |-> 0, stone |-> 0,
             val |-> NoValues, ver |-> NoNodes]

\* A value has content only where its shape has room for it, and only an
\* object entry lists versions.
Storable(x, n) ==
    /\ x.shape # "object" => x.leaf = Leaves!NoLeaf
    /\ x.shape # "scalar" => x.atom = None
    /\ n.kind # "tree" => n.leaf = NoVersions

RecordTypeOK ==
    /\ Leaves!Tree(change)
    /\ seen \in [Replica -> SUBSET ChangeId]
    /\ rec \in [Replica -> Record]
    /\ \A r \in Replica, f \in Field : Storable(rec[r].val[f], rec[r].ver[f])

----------------------------------------------------------------------------
(* A field of a record: its value x and its version entry n.               *)

Cell(x, n) == [val |-> x, ver |-> n]

\* Mutant: a scalar stays behind when a key is stored below it.
SetNestedBesideScalar(x, k, a) == [x EXCEPT !.shape = "object", !.leaf[k] = a]

\* Storing below a field makes the field an object first ...
AsObject(x) == IF x.shape = "object" THEN x.leaf ELSE Leaves!NoLeaf

\* ... while clearing below a field that is no object does nothing.
SetNested(x, k, a) ==
    [shape |-> "object", atom |-> None, leaf |-> [AsObject(x) EXCEPT ![k] = a]]
UnsetNested(x, k) ==
    IF x.shape = "object" THEN [x EXCEPT !.leaf[k] = None] ELSE x

\* Mutant: the split forgets the covering version.
SetVersionLosesDefault(n, k, v) ==
    TreeNode(0, [(IF n.kind = "tree" THEN n.leaf ELSE NoVersions) EXCEPT ![k] = v])

\* Recording a version at a leaf splits a string entry into an object whose
\* default is the old string.
SetVersion(n, k, v) ==
    TreeNode(n.at, [(IF n.kind = "tree" THEN n.leaf ELSE NoVersions) EXCEPT ![k] = v])

\* $set / $unset of `f.k`.
WriteLeaf(x, n, w, v) ==
    IF Gate(n, w.key) >= v THEN Cell(x, n)
    ELSE Cell(IF w.op = "set" THEN SetNested(x, w.key, w.value.atom)
                              ELSE UnsetNested(x, w.key),
              SetVersion(n, w.key, v))

\* Mutant: no listed leaf survives.
SurvivorsNone(n, v) == {}

\* Leaves whose version is not older than v survive a broad write of v.
Survivors(n, v) == {k \in Key : n.leaf[k] >= v}

\* A broad write over finer entries: newer leaves survive, the rest takes
\* the incoming value, and the write's version becomes the default.  With
\* no survivor the write takes the whole position.
MergeReplace(x, n, w, v) ==
    LET old  == AsObject(x)
        kept == Survivors(n, v)
    IN  CASE n.at >= v -> Cell(x, n)
          [] n.at < v /\ kept = {} -> Cell(w.value, VersionNode(v))
          [] n.at < v /\ kept # {} ->
               Cell([shape |-> "object", atom |-> None,
                     leaf  |-> [k \in Key |-> IF k \in kept THEN old[k]
                                                            ELSE w.value.leaf[k]]],
                    TreeNode(v, [k \in Key |-> IF k \in kept THEN n.leaf[k] ELSE 0]))

\* $set / $unset of `f`.
WriteWhole(x, n, w, v) ==
    IF n.kind = "tree" THEN MergeReplace(x, n, w, v)
    ELSE IF n.at >= v  THEN Cell(x, n)
    ELSE Cell(w.value, VersionNode(v))

ApplyOp(x, n, w, v) ==
    CASE w.op = "none"                    -> Cell(x, n)
      [] w.op # "none" /\ w.key = Whole   -> WriteWhole(x, n, w, v)
      [] w.op # "none" /\ w.key # Whole   -> WriteLeaf(x, n, w, v)

\* Lossless: entries equal to the default are dropped, and an object entry
\* left with nothing but its default becomes that string.
Compact(n) ==
    IF n.kind # "tree" \/ n.at = 0 THEN n
    ELSE LET rest == [k \in Key |-> IF n.leaf[k] = n.at THEN 0 ELSE n.leaf[k]]
         IN  IF rest = NoVersions THEN VersionNode(n.at) ELSE TreeNode(n.at, rest)

----------------------------------------------------------------------------
(* recordModifier.Modify: the record after one change.                     *)

Lower(marker, v) == IF marker = 0 \/ v < marker THEN v ELSE marker

\* Mutant: only the create stamps it.
LowerMarkerOnCreate(x, ch) == x

\* The creation marker moves down on every upsert, even one a tombstone absorbs.
LowerMarker(x, ch) ==
    IF ch.upsert THEN [x EXCEPT !.marker = Lower(@, ch.version)] ELSE x

Tombstone(x, ch) ==
    [life |-> "dead", marker |-> IF x.marker = 0 THEN ch.version ELSE x.marker,
     stone |-> ch.version, val |-> NoValues, ver |-> NoNodes]

ApplyOps(x, ch) ==
    LET cell(f) == ApplyOp(x.val[f], x.ver[f], ch.write[f], ch.version)
    IN  [x EXCEPT !.life = "live",
                  !.val  = [f \in Field |-> cell(f).val],
                  !.ver  = [f \in Field |-> Compact(cell(f).ver)]]

\* Mutant: an upsert revives a tombstone.
ModifyRevives(x, ch) ==
    CASE x.life = "dead" /\ ~ch.upsert                       -> x
      [] x.life # "dead" /\ ch.delete                        -> Tombstone(x, ch)
      [] x.life = "absent" /\ ~ch.delete /\ ~ch.upsert       -> x
      [] x.life # "live" /\ ~ch.delete /\ ch.upsert          ->
           ApplyOps([x EXCEPT !.marker = ch.version], ch)
      [] x.life = "live" /\ ~ch.delete                       ->
           ApplyOps(LowerMarker(x, ch), ch)

Modify(x, ch) ==
    CASE x.life = "dead"                                     -> LowerMarker(x, ch)
      [] x.life # "dead" /\ ch.delete                        -> Tombstone(x, ch)
      [] x.life = "absent" /\ ~ch.delete /\ ~ch.upsert       -> x
      [] x.life = "absent" /\ ~ch.delete /\ ch.upsert        ->
           ApplyOps([x EXCEPT !.marker = ch.version], ch)
      [] x.life = "live" /\ ~ch.delete                       ->
           ApplyOps(LowerMarker(x, ch), ch)

----------------------------------------------------------------------------

MergeInit ==
    /\ change \in Universe
    /\ seen = [r \in Replica |-> {}]
    /\ rec = [r \in Replica |-> NoRecord]

Apply(r, c) ==
    /\ change[c].past \subseteq seen[r]
    /\ seen' = [seen EXCEPT ![r] = @ \cup {c}]
    /\ rec' = [rec EXCEPT ![r] = Modify(@, change[c])]
    /\ UNCHANGED change

MergeNext == \E r \in Replica, c \in ChangeId : Apply(r, c)

MergeSpec == MergeInit /\ [][MergeNext]_mergeVars

----------------------------------------------------------------------------
(* Properties.                                                             *)

\* In every entry of `_ver` the default is the oldest version: mergeReplace
\* returns early on the strength of it ("explicit entries are never older
\* than their level's default").
DefaultIsOldest ==
    \A r \in Replica, f \in Field, k \in Key :
        LET n == rec[r].ver[f] IN n.leaf[k] # 0 => n.leaf[k] >= n.at

\* Replicas that have applied the same changes agree on every leaf, on the
\* version of every leaf and on whether the record lives.
LeafConvergence ==
    \A r, s \in Replica :
        seen[r] = seen[s] =>
            /\ rec[r].life = rec[s].life
            /\ \A f \in Field, k \in Key :
                 /\ Gate(rec[r].ver[f], k) = Gate(rec[s].ver[f], k)
                 /\ rec[r].val[f].leaf[k] = rec[s].val[f].leaf[k]

\* Every leaf of a record that is not deleted holds what the newest applied
\* change that covers it wrote, whichever way the version tree was split,
\* replaced and compacted on the way there.
LeafIsNewestWrite == Leaves!LeafIsNewestWrite

\* Replicas that have applied the same changes store the same content:
\* scalars and empty objects included, not only the leaves.  crdt.md and
\* crdt-spec.md section 3.2 promise it for broad-replace against per-leaf
\* writes in every delivery order.
SameContent == \A r, s \in Replica : seen[r] = seen[s] => rec[r].val = rec[s].val

\* They do so unless one of the changes clears a key below a field.
ContentConvergence ==
    (\A c \in ChangeId, f \in Field :
        change[c].write[f].op = "unset" => change[c].write[f].key = Whole)
    => SameContent

\* Applying a change again changes nothing, whatever came in between: a
\* restore that re-reads changes at or below the watermark is harmless.
ReplayIsNoOp ==
    \A r \in Replica : \A c \in seen[r] : Modify(rec[r], change[c]) = rec[r]

\* The creation marker of a live record is the version of its earliest
\* upsert, so that ordering by `_ver.id` agrees between replicas.
MarkerIsEarliestUpsert ==
    \A r \in Replica :
        LET ups == {c \in seen[r] : change[c].upsert}
        IN  rec[r].life = "live" =>
                /\ \E c \in ups : rec[r].marker = change[c].version
                /\ \A c \in ups : rec[r].marker <= change[c].version

\* The record's leaves are last-writer-wins registers, one per leaf.
LeafSpec == Leaves!Spec
============================================================================
