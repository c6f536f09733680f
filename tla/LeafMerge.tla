---------------------------- MODULE LeafMerge ----------------------------
(***************************************************************************)
(* What merging one record promises, with no version tree in sight: every  *)
(* leaf of the record is a last-writer-wins register of its own.           *)
(*                                                                         *)
(* A record has top-level fields and, below each, keys; a leaf is a pair   *)
(* <<field, key>>.  A change writes whole fields ($set / $unset of `f`) or *)
(* single leaves ($set / $unset of `f.k`) under one version, the position  *)
(* any-sync gives the change in the object's tree.  Every replica receives *)
(* the changes of one tree in some order that respects their causal past.  *)
(*                                                                         *)
(* RecordMerge models how the code does it and implements this module.     *)
(***************************************************************************)
EXTENDS Naturals

CONSTANTS
    Replica,    \* the devices that hold the object
    ChangeId,   \* the changes of its tree
    Field,      \* top-level fields of the record
    Key,        \* keys below a field
    Atom,       \* values a leaf (or a scalar field) may hold
    None,       \* no value
    Whole       \* the key of a write at the field itself

\* A leaf holds an atom or nothing.
Content == Atom \cup {None}

\* A value at a field: nothing, a scalar, or an object over Key.
Value == [shape : {"absent", "scalar", "object"},
          atom  : Content,
          leaf  : [Key -> Content]]

NoLeaf == [k \in Key |-> None]

Absent == [shape |-> "absent", atom |-> None, leaf |-> NoLeaf]

\* What a change does to one field: nothing, set it, or unset it; `key`
\* says whether at the field or at one key below it.
Write == [op : {"none", "set", "unset"}, key : Key \cup {Whole}, value : Value]

ChangeRecord == [version : Nat \ {0},
                 upsert  : BOOLEAN,
                 delete  : BOOLEAN,
                 past    : SUBSET ChangeId,
                 write   : [Field -> Write]]

\* The value a write carries is empty where its shape has no room for one.
WellFormed(w) ==
    /\ w.value.shape # "object" => w.value.leaf = NoLeaf
    /\ w.value.shape # "scalar" => w.value.atom = None
    /\ w.op # "set" => w.value = Absent
    /\ w.op = "set" => w.value.shape # "absent"
    /\ w.op = "set" /\ w.key # Whole => w.value.shape = "scalar"

(***************************************************************************)
(* The changes of a tree: versions are distinct and follow causality, a    *)
(* delete is no upsert (writers refuse it), and a strict modify has the    *)
(* change that creates its record, or deletes it, in its past.             *)
(***************************************************************************)
Tree(chs) ==
    /\ chs \in [ChangeId -> ChangeRecord]
    /\ \A c \in ChangeId : \A f \in Field : WellFormed(chs[c].write[f])
    /\ \A c, d \in ChangeId : chs[c].version = chs[d].version => c = d
    /\ \A c \in ChangeId : \A d \in chs[c].past : chs[d].version < chs[c].version
    /\ \A c \in ChangeId : ~(chs[c].upsert /\ chs[c].delete)
    /\ \A c \in ChangeId :
         ~chs[c].upsert /\ ~chs[c].delete =>
            \E d \in chs[c].past : chs[d].upsert \/ chs[d].delete

VARIABLES
    change,     \* the tree's changes, fixed from the start
    seen,       \* seen[r]: the changes replica r has applied
    dead,       \* dead[r]: the record is deleted on r
    leaf        \* leaf[r][f][k]: newest version that wrote the leaf, and its value

vars == <<change, seen, dead, leaf>>

Register == [ver : Nat, val : Content]
Unwritten == [ver |-> 0, val |-> None]
Blank == [f \in Field |-> [k \in Key |-> Unwritten]]

TypeOK ==
    /\ Tree(change)
    /\ seen \in [Replica -> SUBSET ChangeId]
    /\ dead \in [Replica -> BOOLEAN]
    /\ leaf \in [Replica -> [Field -> [Key -> Register]]]

----------------------------------------------------------------------------

Covers(w, k) == w.op # "none" /\ w.key \in {Whole, k}

\* What a covering write puts at leaf k: a scalar or an unset clears it.
Incoming(w, k) == IF w.key = Whole THEN w.value.leaf[k] ELSE w.value.atom

\* The register after a write of version v.
Newest(reg, w, k, v) ==
    IF Covers(w, k) /\ v > reg.ver THEN [ver |-> v, val |-> Incoming(w, k)]
                                   ELSE reg

Merge(leaves, ch) ==
    [f \in Field |-> [k \in Key |->
        Newest(leaves[f][k], ch.write[f], k, ch.version)]]

Init ==
    /\ Tree(change)
    /\ seen = [r \in Replica |-> {}]
    /\ dead = [r \in Replica |-> FALSE]
    /\ leaf = [r \in Replica |-> Blank]

\* A delete wins over every write, in whatever order they come.
Apply(r, c) ==
    /\ change[c].past \subseteq seen[r]
    /\ seen' = [seen EXCEPT ![r] = @ \cup {c}]
    /\ dead' = [dead EXCEPT ![r] = @ \/ change[c].delete]
    /\ leaf' = [leaf EXCEPT ![r] = IF dead'[r] THEN Blank ELSE Merge(@, change[c])]
    /\ UNCHANGED change

Next == \E r \in Replica, c \in ChangeId : Apply(r, c)

Spec == Init /\ [][Next]_vars

----------------------------------------------------------------------------

\* The seen changes of r that write leaf <<f, k>>.
Writers(r, f, k) == {c \in seen[r] : Covers(change[c].write[f], k)}

\* Every leaf of a record that is not deleted holds what the newest seen
\* change that covers it wrote: the order of arrival leaves no trace.
\* (crdt-spec.md section 3: a field is updated only by a greater version.)
LeafIsNewestWrite ==
    \A r \in Replica, f \in Field, k \in Key :
        ~dead[r] =>
            IF Writers(r, f, k) = {}
            THEN leaf[r][f][k] = Unwritten
            ELSE \E c \in Writers(r, f, k) :
                   /\ leaf[r][f][k] = [ver |-> change[c].version,
                                       val |-> Incoming(change[c].write[f], k)]
                   /\ \A d \in Writers(r, f, k) : change[d].version <= change[c].version

\* A record is deleted exactly where a delete has been seen, and then empty.
DeadIfDeleteSeen ==
    \A r \in Replica :
        /\ dead[r] <=> \E c \in seen[r] : change[c].delete
        /\ dead[r] => leaf[r] = Blank

\* Replicas that have seen the same changes agree on every leaf and on
\* whether the record is deleted.
Convergence ==
    \A r, s \in Replica :
        seen[r] = seen[s] => leaf[r] = leaf[s] /\ dead[r] = dead[s]
============================================================================
