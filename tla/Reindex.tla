------------------------------ MODULE Reindex ------------------------------
(***************************************************************************)
(* Rebuilding an object's rows when a handler's version changed            *)
(* (src/internal/spaceobjects: reindex.go, loadObject of store.go;         *)
(* src/internal/crdt/reindex.go).                                          *)
(*                                                                         *)
(* Every apply stamps the handler version onto the object's `_meta` row.   *)
(* A load that finds another version than its own captures the device-     *)
(* local values, rewinds the watermark and keeps the values on the same    *)
(* row, wipes the rows, replays the tree, restores the values, and clears  *)
(* the mark.  The process may die between any two of these transactions,   *)
(* and the next load goes on from what it finds.                           *)
(*                                                                         *)
(* One object and one dataset.  Change i of the tree writes row i, once;   *)
(* the device-local value sits in row 1.  Changes of other devices come    *)
(* through the tree; ObjectApply has the local ones, the drainer's steps   *)
(* and the tree lock.                                                      *)
(***************************************************************************)
EXTENDS Naturals

CONSTANTS
    Gated,          \* the changes that name a definition, and may be parked
    MaxTree,        \* bound: changes of the tree
    MaxVersion,     \* bound: handler versions
    MaxWrites,      \* bound: device-local writes
    MaxFaults       \* bound: crashes and failed storage operations

Row == 1..MaxTree
Version == 1..MaxVersion

\* The row that holds the device-local value, and what it holds when unset.
LocalRow == 1
Unset == 0

ASSUME BoundAssumption ==
    /\ MaxTree \in Nat \ {0} /\ MaxVersion \in Nat \ {0}
    /\ MaxWrites \in Nat /\ MaxFaults \in Nat
    /\ Gated \subseteq Row

VARIABLES
    \* persisted
    tree,       \* changes in the tree, in AddSeq order
    built,      \* built[i]: the handler version that built row i, 0: no row
    parked,     \* the changes in `_detached`
    local,      \* the device-local value in row 1
    meta,       \* the object's `_meta` row
    defs,       \* the definitions: usable, built by an old handler, wiped
    \* in memory
    handler,    \* the handler version of this process, 0: it does not run
    pc,         \* where the object's load, or its replay, is
    next,       \* the next change to replay, or row to wipe
    load,       \* what the load decided: a stale version, an open rebuild
    carried,    \* the captured value the load is to restore
    \* history
    written,    \* the last device-local value written
    leftover,   \* rows whose collection could not be dropped
    disarmed,   \* a replay stamped the new version over rows still to wipe
    forfeit,    \* the last local value could not be captured or restored
    unmarked,   \* some rebuild ended without its mark being cleared
    faults

rows == <<tree, built, parked, local>>
memory == <<load, carried>>
history == <<written, leftover, disarmed, forfeit, unmarked>>
vars == <<rows, meta, defs, handler, pc, next, memory, history, faults>>

\* `pending`: captured values are on the row; `leaf` is theirs.
Meta == [mark : 0..MaxTree, version : 0..MaxVersion,
         pending : BOOLEAN, leaf : 0..MaxWrites]

\* "opening" replays what the tree's listener is told while it is opened,
\* "restore" is the cold restore, "sync" a replay of the open object.
Replaying == {"opening", "restore", "sync"}
Places == Replaying \cup {"none", "prepare", "wipe", "leaves", "finish", "open"}

NoLoad == [stale |-> FALSE, resume |-> FALSE]

TypeOK ==
    /\ tree \in 0..MaxTree
    /\ built \in [Row -> 0..MaxVersion]
    /\ parked \in SUBSET Gated
    /\ local \in 0..MaxWrites
    /\ meta \in Meta
    /\ defs \in {"usable", "old", "wiped"}
    /\ handler \in 0..MaxVersion
    /\ pc \in Places
    /\ next \in 1..(MaxTree + 1)
    /\ load \in [stale : BOOLEAN, resume : BOOLEAN]
    /\ carried \in 0..MaxWrites
    /\ written \in 0..MaxWrites
    /\ leftover \in SUBSET Row
    /\ disarmed \in BOOLEAN /\ forfeit \in BOOLEAN /\ unmarked \in BOOLEAN
    /\ faults \in 0..MaxFaults
    \* What the load holds, and where.
    /\ handler = 0 => pc = "none"
    /\ pc \in {"none", "open", "sync"} => load = NoLoad /\ carried = Unset
    /\ pc \in {"prepare", "wipe"} => load.stale
    /\ pc \in {"leaves", "finish"} => load.stale \/ load.resume
    /\ load.stale => ~load.resume

Fault == faults < MaxFaults /\ faults' = faults + 1

----------------------------------------------------------------------------
(* Steps the load, the replays and the drain share.                        *)

\* The commit of an apply: the row, the watermark and the handler version
\* in one transaction.  A row that is there is gated to what it is.
Apply(i) ==
    /\ built' = [built EXCEPT ![i] = IF @ = 0 THEN handler ELSE @]
    /\ meta' = [meta EXCEPT !.mark = IF i > @ THEN i ELSE @, !.version = handler]

\* A device-local write is an apply too, of no change: a row it does not
\* find makes it a rejection.
WriteLocal(v) ==
    /\ local' = IF built[LocalRow] # 0 THEN v ELSE local
    /\ meta' = [meta EXCEPT !.version = handler]

\* A load that fails leaves the object out of the cache.
LeaveLoad ==
    /\ pc' = "none"
    /\ next' = 1 /\ load' = NoLoad /\ carried' = Unset

----------------------------------------------------------------------------
(* loadObject                                                              *)

\* Mutant: only an upgrade is noticed.
LoadUpgraded ==
    /\ handler # 0 /\ pc = "none"
    /\ LET stale == meta.version # 0 /\ meta.version < handler
       IN  load' = [stale |-> stale, resume |-> ~stale /\ meta.pending]
    /\ carried' = IF meta.pending THEN meta.leaf ELSE Unset
    /\ pc' = "opening" /\ next' = meta.mark + 1
    /\ UNCHANGED <<rows, meta, defs, handler, history, faults>>

\* The controller reads `_meta` and compares the version with its own.  A
\* row never written by the handler has none and is never stale.
Load ==
    /\ handler # 0 /\ pc = "none"
    /\ LET stale == meta.version # 0 /\ meta.version # handler
       IN  load' = [stale |-> stale, resume |-> ~stale /\ meta.pending]
    /\ carried' = IF meta.pending THEN meta.leaf ELSE Unset
    /\ pc' = "opening" /\ next' = meta.mark + 1
    /\ UNCHANGED <<rows, meta, defs, handler, history, faults>>

\* The tree cannot be opened: offline, removed, not wanted here.
OpenFails ==
    /\ pc = "opening" /\ Fault
    /\ LeaveLoad
    /\ UNCHANGED <<rows, meta, defs, handler, history>>

\* Mutant: the value is captured anew although a rebuild is open.
CaptureAnew ==
    /\ pc = "prepare"
    /\ carried' = local
    /\ meta' = [meta EXCEPT !.mark = 0, !.pending = TRUE, !.leaf = carried']
    /\ pc' = "wipe" /\ next' = 1
    /\ UNCHANGED <<rows, defs, handler, load, history, faults>>

\* captureLocalLeaves, unless an open rebuild holds the values already, and
\* ResetForReindex: the rewind and the values in one upsert.
Prepare ==
    /\ pc = "prepare"
    /\ carried' = IF meta.pending THEN meta.leaf ELSE local
    /\ meta' = [meta EXCEPT !.mark = 0, !.pending = TRUE, !.leaf = carried']
    /\ pc' = "wipe" /\ next' = 1
    /\ UNCHANGED <<rows, defs, handler, load, history, faults>>

\* The values cannot be read: the rebuild goes on without them.
CaptureFails ==
    /\ pc = "prepare" /\ ~meta.pending /\ Fault
    /\ carried' = Unset
    /\ forfeit' = TRUE
    /\ meta' = [meta EXCEPT !.mark = 0, !.pending = TRUE, !.leaf = Unset]
    /\ pc' = "wipe" /\ next' = 1
    /\ UNCHANGED <<rows, defs, handler, load, written, leftover, disarmed, unmarked>>

\* The upsert fails, or a row of a shared collection cannot be deleted.
PrepareFails ==
    /\ pc \in {"prepare", "wipe"} /\ Fault
    /\ LeaveLoad
    /\ UNCHANGED <<rows, meta, defs, handler, history>>

\* wipeMaterialized, a row a step; the local value goes with its row.
Wipe ==
    /\ pc = "wipe" /\ next <= MaxTree
    /\ built' = [built EXCEPT ![next] = 0]
    /\ local' = IF next = LocalRow THEN Unset ELSE local
    /\ leftover' = leftover \ {next}
    /\ next' = next + 1
    /\ UNCHANGED <<tree, parked, meta, defs, handler, pc, memory, written, disarmed, forfeit,
                   unmarked, faults>>

\* A collection that cannot be dropped is logged and left where it is.
DropFails ==
    /\ pc = "wipe" /\ next <= MaxTree /\ built[next] # 0 /\ Fault
    /\ leftover' = leftover \cup {next}
    /\ next' = next + 1
    /\ UNCHANGED <<rows, meta, defs, handler, pc, memory, written, disarmed, forfeit, unmarked>>

WipeDone ==
    /\ pc = "wipe" /\ next > MaxTree
    /\ disarmed' = FALSE
    /\ pc' = "restore" /\ next' = meta.mark + 1
    /\ UNCHANGED <<rows, meta, defs, handler, memory, written, leftover, forfeit, unmarked,
                   faults>>

\* restoreLocalLeaves: LocalSet with a version above what the field has.
RestoreLeaves ==
    /\ pc = "leaves"
    /\ IF carried # Unset
       THEN /\ WriteLocal(carried)
            /\ forfeit' = (forfeit \/ built[LocalRow] = 0)
       ELSE UNCHANGED <<local, meta, forfeit>>
    /\ pc' = "finish"
    /\ UNCHANGED <<tree, built, parked, defs, handler, next, memory, written, leftover, disarmed,
                   unmarked, faults>>

\* A value that cannot be restored is logged, the mark is cleared all the same.
RestoreFails ==
    /\ pc = "leaves" /\ carried # Unset /\ Fault
    /\ forfeit' = TRUE
    /\ pc' = "finish"
    /\ UNCHANGED <<rows, meta, defs, handler, next, memory, written, leftover, disarmed, unmarked>>

Opened == pc' = "open" /\ next' = 1 /\ load' = NoLoad /\ carried' = Unset

\* PersistVersions ends the rebuild.
Finish ==
    /\ pc = "finish"
    /\ meta' = [meta EXCEPT !.version = handler, !.pending = FALSE, !.leaf = Unset]
    /\ Opened
    /\ UNCHANGED <<rows, defs, handler, history, faults>>

\* It fails, which is logged, and the object opens.
FinishFails ==
    /\ pc = "finish" /\ Fault
    /\ unmarked' = TRUE
    /\ Opened
    /\ UNCHANGED <<rows, meta, defs, handler, written, leftover, disarmed, forfeit>>

----------------------------------------------------------------------------
(* replayLocked, from the tree's listener while the tree is opened, from   *)
(* the cold restore, and from sync.                                        *)

ParkOrApply(i) ==
    IF i \in Gated /\ defs = "wiped"
    THEN parked' = parked \cup {i} /\ UNCHANGED <<built, meta>>
    ELSE Apply(i) /\ UNCHANGED parked

Replay ==
    /\ pc \in Replaying /\ next <= tree
    /\ ParkOrApply(next)
    /\ next' = next + 1
    /\ disarmed' = (disarmed \/ (pc = "opening" /\ load.stale /\ meta' # meta))
    /\ UNCHANGED <<tree, local, defs, handler, pc, memory, written, leftover, forfeit, unmarked,
                   faults>>

ReplayFails ==
    /\ pc \in Replaying /\ next <= tree /\ Fault
    /\ IF pc = "sync" THEN Opened ELSE LeaveLoad
    /\ UNCHANGED <<rows, meta, defs, handler, history>>

\* Mutant: a rebuild that is resumed starts over with the wipe.
ResumeWipes ==
    /\ pc \in Replaying /\ next > tree
    /\ \/ /\ pc = "opening"
          /\ pc' = IF load.stale \/ load.resume THEN "prepare" ELSE "restore"
          /\ next' = meta.mark + 1
          /\ UNCHANGED memory
       \/ /\ pc = "restore" /\ (load.stale \/ load.resume)
          /\ pc' = "leaves"
          /\ UNCHANGED <<next, memory>>
       \/ /\ pc = "sync" \/ (pc = "restore" /\ ~load.stale /\ ~load.resume)
          /\ Opened
    /\ UNCHANGED <<rows, meta, defs, handler, history, faults>>

\* What follows a replay: the rebuild the load decided on, or the open object.
ReplayDone ==
    /\ pc \in Replaying /\ next > tree
    /\ \/ /\ pc = "opening"
          /\ pc' = IF load.stale THEN "prepare" ELSE "restore"
          /\ next' = meta.mark + 1
          /\ UNCHANGED memory
       \/ /\ pc = "restore" /\ (load.stale \/ load.resume)
          /\ pc' = "leaves"
          /\ UNCHANGED <<next, memory>>
       \/ /\ pc = "sync" \/ (pc = "restore" /\ ~load.stale /\ ~load.resume)
          /\ Opened
    /\ UNCHANGED <<rows, meta, defs, handler, history, faults>>

----------------------------------------------------------------------------
(* The open object, its tree, and the definitions.                         *)

\* Sync stores a change: through the open object, which replays, or into
\* the storage of one that is not loaded.
Grow ==
    /\ handler # 0 /\ tree < MaxTree
    /\ tree' = tree + 1
    /\ \/ pc = "open" /\ pc' = "sync" /\ next' = meta.mark + 1
       \/ pc = "none" /\ UNCHANGED <<pc, next>>
    /\ UNCHANGED <<built, parked, local, meta, defs, handler, memory, history, faults>>

LocalSet ==
    /\ pc = "open" /\ built[LocalRow] # 0 /\ written < MaxWrites
    /\ written' = written + 1
    /\ WriteLocal(written')
    /\ forfeit' = FALSE
    /\ UNCHANGED <<tree, built, parked, defs, handler, pc, next, memory, leftover, disarmed,
                   unmarked, faults>>

\* The drainer applies a parked change to the open object.
Drain(i) ==
    /\ pc = "open" /\ i \in parked /\ defs # "wiped"
    /\ Apply(i)
    /\ parked' = parked \ {i}
    /\ UNCHANGED <<tree, local, defs, handler, pc, next, memory, history, faults>>

Evict ==
    /\ pc = "open"
    /\ LeaveLoad
    /\ UNCHANGED <<rows, meta, defs, handler, history, faults>>

\* A type object is rebuilt as well: its definitions are gone, then back.
WipeDefinitions ==
    /\ handler # 0 /\ defs = "old"
    /\ defs' = "wiped"
    /\ UNCHANGED <<rows, meta, handler, pc, next, memory, history, faults>>

RebuildDefinitions ==
    /\ handler # 0 /\ defs = "wiped"
    /\ defs' = "usable"
    /\ UNCHANGED <<rows, meta, handler, pc, next, memory, history, faults>>

----------------------------------------------------------------------------
(* The process: it stops, or dies, and starts with any handler version.    *)

Stop ==
    /\ handler # 0
    /\ IF pc \in {"none", "open"} THEN UNCHANGED faults ELSE Fault
    /\ handler' = 0
    /\ LeaveLoad
    /\ UNCHANGED <<rows, meta, defs, history>>

Start(v) ==
    /\ handler = 0
    /\ handler' = v
    /\ defs' \in IF defs = "usable" THEN {"usable", "old"} ELSE {defs}
    /\ UNCHANGED <<rows, meta, pc, next, memory, history, faults>>

Init ==
    /\ tree = 0 /\ built = [i \in Row |-> 0] /\ parked = {} /\ local = Unset
    /\ meta = [mark |-> 0, version |-> 0, pending |-> FALSE, leaf |-> Unset]
    /\ defs = "usable"
    /\ handler = 1 /\ pc = "none" /\ next = 1 /\ load = NoLoad /\ carried = Unset
    /\ written = Unset /\ leftover = {}
    /\ disarmed = FALSE /\ forfeit = FALSE /\ unmarked = FALSE
    /\ faults = 0

LoadStep ==
    \/ Load \/ OpenFails \/ Prepare \/ CaptureFails \/ PrepareFails
    \/ Wipe \/ DropFails \/ WipeDone
    \/ RestoreLeaves \/ RestoreFails \/ Finish \/ FinishFails

Next ==
    \/ LoadStep
    \/ Replay \/ ReplayFails \/ ReplayDone
    \/ Grow \/ LocalSet \/ Evict
    \/ \E i \in Row : Drain(i)
    \/ WipeDefinitions \/ RebuildDefinitions
    \/ Stop
    \/ \E v \in Version : Start(v)

Spec == Init /\ [][Next]_vars

----------------------------------------------------------------------------
(* Properties.                                                             *)

\* However often its rebuild was broken off, an open object misses no row:
\* what has none is parked, or above the watermark, from where the next
\* replay starts.  Its rows are its handler's, not another version's,
\* but for a collection that could not be dropped, or a replay that
\* stamped the new version before the wipe; and the next load with the same
\* handlers finds nothing stale and nothing pending.
RowsAreRebuilt ==
    pc = "open" =>
        /\ \A i \in 1..tree : built[i] # 0 \/ i \in parked \/ i > meta.mark
        /\ ~disarmed => \A i \in Row \ leftover : built[i] \in {0, handler}
        /\ ~unmarked => meta.version \in {0, handler} /\ ~meta.pending

\* An open object has the device-local value last written to it, unless it
\* could not be captured or restored, or the mark of a rebuild is left.
LocalValueSurvives == pc = "open" /\ ~forfeit /\ ~unmarked => local = written

\* "A handler-version bump recorded on the object's _meta row rebuilds the
\* object before anything reads it" (loadObject).
BumpRebuilds == pc = "open" => \A i \in Row \ leftover : built[i] \in {0, handler}
============================================================================
