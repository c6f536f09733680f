---------------------------- MODULE ObjectApply ----------------------------
(***************************************************************************)
(* How the changes of one object reach its records                         *)
(* (src/internal/object/object.go, src/internal/spaceobjects: store.go,    *)
(* gate.go, drainer.go, detached.go).                                      *)
(*                                                                         *)
(* Changes enter the object's tree from sync or from a local write and get *)
(* an AddSeq, their position in the local DAG.  A replay walks the changes *)
(* above the persisted watermark under the tree lock.  The gate lets one   *)
(* through to the controller, or parks it in `_detached` when a definition *)
(* it names is unknown or the resident controller has no current handler   *)
(* for its dataset.  Applying a definition wakes the drainer, which        *)
(* replays parked rows through the object, bypassing the gate.  The object *)
(* is cached: it is loaded on demand, replaying what it missed, and        *)
(* evicted at any time its tree is not locked.  Every lookup, scan and     *)
(* recompile on the way may fail, as may every write.                      *)
(*                                                                         *)
(* One object, one runtime dataset, several definitions.  Handlers and     *)
(* versions are those of RecordMerge; what a change does here is create    *)
(* the record, modify it, or count on it.                                  *)
(***************************************************************************)
EXTENDS Naturals, Sequences, FiniteSets

CONSTANTS
    Change,         \* the changes of the object's tree
    Def,            \* definitions: (typeId, shortId) pairs
    Kind,           \* Kind[c]: "create", "modify" or "inc"
    Needs,          \* Needs[c]: the definitions the change's DataVersion names
    Runtime,        \* the changes on the runtime dataset
    Past,           \* Past[c]: the changes c follows in the tree
    Local,          \* the changes this device writes; the others are synced
    NoChange,       \* no change
    MaxRev,         \* bound: revisions of the runtime dataset's schema
    QueueSize,      \* the drainer's queue (drainerQueueSize)
    MaxFaults       \* bound: crashes and failed storage operations

ASSUME ChangeAssumption ==
    /\ Kind \in [Change -> {"create", "modify", "inc"}]
    /\ Needs \in [Change -> SUBSET Def]
    /\ Runtime \subseteq Change
    /\ Past \in [Change -> SUBSET Change]
    /\ Local \subseteq Change
    /\ NoChange \notin Change

ASSUME BoundAssumption ==
    MaxRev \in Nat /\ QueueSize \in Nat \ {0} /\ MaxFaults \in Nat

VARIABLES
    \* persisted
    known,      \* the definitions that are committed
    schema,     \* revision of the runtime dataset's committed schema, 0: none
    dag,        \* the stored changes in AddSeq order
    maxAddSeq,  \* the watermark of the object's `_meta` row
    applied,    \* the changes a controller has committed
    exists,     \* the record exists
    effect,     \* effect[c]: how often c took effect on the record
    detached,   \* the changes parked in `_detached`
    pending,    \* pending[c]: the definitions a parked change waited for
    \* in memory
    up,         \* the process runs
    catalog,    \* the catalog snapshot's revision of the runtime dataset, 0: not in it
    degraded,   \* the catalog's last refresh or first scan failed (history)
    wake,       \* definitions whose apply has yet to notify the drainer
    schemaPc,   \* the schema apply in progress
    cached,     \* the object in the cache: "none", "loading" or "open"
    handlers,   \* the revision its controller was built with
    lock,       \* who holds the tree lock
    replay,     \* the replay in progress
    queue,      \* notifications waiting for the drainer
    drainer,    \* the drain pass in progress
    \* history
    aborted,    \* changes a failed replay did not get to
    unwritten,  \* local writes whose apply failed
    skipped,    \* parked changes that failed operations left without a wake-up:
                \* the last pass could not look them up or replay them, or the
                \* re-check after their park failed since
    faults      \* faults so far

definitions == <<known, schema, catalog, degraded, wake, schemaPc>>
record == <<maxAddSeq, applied, exists, effect>>
rows == <<detached, pending>>
history == <<aborted, unwritten, skipped>>
vars == <<definitions, record, rows, history, dag, up, cached, handlers,
          lock, replay, queue, drainer, faults>>

Stored == {dag[i] : i \in DOMAIN dag}

Replay == [pc   : {"idle", "gate", "park", "recheck", "apply"},
           next : Nat \ {0}, missing : SUBSET Def]

\* `object` is "held" when the pass holds the resident object, "closed" when
\* that was closed since; `rev` is what its controller was built with.
Drainer == [pc     : {"wait", "scan", "pick", "get", "check", "reload", "apply", "unpark"},
            ready  : SUBSET Change, row : Change \cup {NoChange},
            object : {"none", "held", "closed"}, rev : 0..MaxRev]

NoReplay == [pc |-> "idle", next |-> 1, missing |-> {}]
NoPass == [pc |-> "wait", ready |-> {}, row |-> NoChange, object |-> "none", rev |-> 0]

TypeOK ==
    /\ known \in SUBSET Def /\ wake \in SUBSET Def
    /\ schema \in 0..MaxRev /\ catalog \in 0..MaxRev /\ handlers \in 0..MaxRev
    /\ schemaPc \in {"idle", "refresh", "notify"} /\ degraded \in BOOLEAN
    /\ dag \in Seq(Change)
    /\ maxAddSeq \in 0..Len(dag)
    /\ applied \in SUBSET Change /\ exists \in BOOLEAN /\ effect \in [Change -> 0..2]
    /\ detached \in SUBSET Change /\ pending \in [Change -> SUBSET Def]
    /\ up \in BOOLEAN
    /\ cached \in {"none", "loading", "open"}
    /\ lock \in {"none", "load", "sync", "local"}
    /\ replay \in Replay
    /\ queue \in 0..QueueSize
    /\ drainer \in Drainer
    /\ aborted \in SUBSET Change /\ unwritten \in SUBSET Change /\ skipped \in SUBSET Change
    /\ faults \in 0..MaxFaults
    \* Who holds the tree lock, and what it is held for.
    /\ (lock = "load") <=> (cached = "loading")
    /\ lock \in {"sync", "local"} => cached = "open"
    /\ (lock \in {"load", "sync"}) <=> (replay.pc # "idle")
    /\ cached # "none" => up

----------------------------------------------------------------------------
(* Steps the actors share.                                                 *)

\* Notify is TryAdd: a full queue drops the pair, a pass is coming anyway.
Notify == queue' = IF queue < QueueSize THEN queue + 1 ELSE queue

AddSeq(c) == CHOOSE i \in DOMAIN dag : dag[i] = c

\* A strict change of an absent record is a rejection, not an error.
TakesEffect(c) == exists \/ Kind[c] = "create"

\* Mutant: the watermark is not written with the records.
ApplyWithoutWatermark(c) ==
    /\ applied' = applied \cup {c}
    /\ exists' = (exists \/ Kind[c] = "create")
    /\ effect' = effect
    /\ maxAddSeq' = maxAddSeq

\* The commit of ApplyChangeWithResult: record and watermark together.  A
\* counter counts every apply, the other kinds are gated by their version.
ApplyChange(c) ==
    /\ applied' = applied \cup {c}
    /\ exists' = (exists \/ Kind[c] = "create")
    /\ effect' = [effect EXCEPT ![c] =
                    IF TakesEffect(c)
                    THEN IF Kind[c] = "inc" /\ @ < 2 THEN @ + 1 ELSE IF @ = 0 THEN 1 ELSE @
                    ELSE @]
    /\ maxAddSeq' = IF AddSeq(c) > maxAddSeq THEN AddSeq(c) ELSE maxAddSeq

\* controllerStaleFor: the controller built at revision rev has no handler
\* for the change's dataset, or another one than the catalog's.
Stale(c, rev) == c \in Runtime /\ (rev = 0 \/ rev # catalog)

Fault == faults < MaxFaults /\ faults' = faults + 1

----------------------------------------------------------------------------
(* Definitions, applied on objects of their own.                           *)

\* The apply commits; afterApply notifies later.
DefineShortId(d) ==
    /\ up /\ d \notin known
    /\ known' = known \cup {d}
    /\ wake' = wake \cup {d}
    /\ UNCHANGED <<schema, catalog, degraded, schemaPc, record, rows, history, dag, up,
                   cached, handlers, lock, replay, queue, drainer, faults>>

NotifyShortId(d) ==
    /\ d \in wake
    /\ wake' = wake \ {d}
    /\ Notify
    /\ UNCHANGED <<known, schema, catalog, degraded, schemaPc, record, rows, history, dag, up,
                   cached, handlers, lock, replay, drainer, faults>>

DefineDataset ==
    /\ up /\ schemaPc = "idle" /\ schema < MaxRev
    /\ schema' = schema + 1
    /\ schemaPc' = "refresh"
    /\ UNCHANGED <<known, catalog, degraded, wake, record, rows, history, dag, up, cached,
                   handlers, lock, replay, queue, drainer, faults>>

\* The catalog is refreshed before the drainer is woken.
RefreshCatalog ==
    /\ schemaPc = "refresh"
    /\ catalog' = schema /\ degraded' = FALSE
    /\ schemaPc' = "notify"
    /\ UNCHANGED <<known, schema, wake, record, rows, history, dag, up, cached, handlers,
                   lock, replay, queue, drainer, faults>>

\* The compile fails: logged, the snapshot stays, the drainer is woken all
\* the same.
RefreshFails ==
    /\ schemaPc = "refresh" /\ Fault
    /\ degraded' = TRUE
    /\ schemaPc' = "notify"
    /\ UNCHANGED <<known, schema, catalog, wake, record, rows, history, dag, up, cached,
                   handlers, lock, replay, queue, drainer>>

NotifyDataset ==
    /\ schemaPc = "notify"
    /\ schemaPc' = "idle"
    /\ Notify
    /\ UNCHANGED <<known, schema, catalog, degraded, wake, record, rows, history, dag, up,
                   cached, handlers, lock, replay, drainer, faults>>

----------------------------------------------------------------------------
(* The cached object.                                                      *)

\* Mutant: the load replays from the tree's head, not from the watermark.
LoadAtHead ==
    /\ up /\ cached = "none" /\ lock = "none"
    /\ cached' = "loading" /\ lock' = "load"
    /\ handlers' = catalog
    /\ replay' = [NoReplay EXCEPT !.pc = "gate", !.next = Len(dag) + 1]
    /\ UNCHANGED <<definitions, record, rows, history, dag, up, queue, drainer, faults>>

\* Loading builds a controller from the catalog and replays under the lock.
Load ==
    /\ up /\ cached = "none" /\ lock = "none"
    /\ cached' = "loading" /\ lock' = "load"
    /\ handlers' = catalog
    /\ replay' = [NoReplay EXCEPT !.pc = "gate", !.next = maxAddSeq + 1]
    /\ UNCHANGED <<definitions, record, rows, history, dag, up, queue, drainer, faults>>

Close ==
    /\ cached' = "none" /\ handlers' = 0
    /\ drainer' = [drainer EXCEPT !.object = IF @ = "held" THEN "closed" ELSE @]

\* Idle eviction, release, or EnsureDatasetRegistered.
Evict ==
    /\ cached = "open" /\ lock = "none"
    /\ Close
    /\ UNCHANGED <<definitions, record, rows, history, dag, up, lock, replay, queue, faults>>

\* Sync stores a change and fires the tree's update listener.
Receive(c) ==
    /\ cached = "open" /\ lock = "none"
    /\ c \notin Local \cup Stored /\ Past[c] \subseteq Stored
    /\ dag' = Append(dag, c)
    /\ lock' = "sync"
    /\ replay' = [NoReplay EXCEPT !.pc = "gate", !.next = maxAddSeq + 1]
    /\ UNCHANGED <<definitions, record, rows, history, up, cached, handlers, queue, drainer,
                   faults>>

----------------------------------------------------------------------------
(* replayLocked.                                                           *)

Item == dag[replay.next]
More == replay.next <= Len(dag)
Following == [NoReplay EXCEPT !.pc = "gate", !.next = replay.next + 1]

\* gateFor looks the definitions up.
ReplayGate ==
    /\ replay.pc = "gate" /\ More
    /\ LET missing == Needs[Item] \ known
       IN  IF missing = {} /\ ~Stale(Item, handlers)
           THEN replay' = [replay EXCEPT !.pc = "apply"]
           ELSE replay' = [replay EXCEPT !.pc = "park", !.missing = missing]
    /\ UNCHANGED <<definitions, record, rows, history, dag, up, cached, handlers, lock, queue,
                   drainer, faults>>

\* A lookup that fails counts as a definition that is not there.
LookupFails ==
    /\ replay.pc = "gate" /\ More /\ Fault
    /\ \E failed \in SUBSET (Needs[Item] \cap known) :
        /\ failed # {}
        /\ replay' = [replay EXCEPT !.pc = "park",
                                    !.missing = (Needs[Item] \ known) \cup failed]
    /\ UNCHANGED <<definitions, record, rows, history, dag, up, cached, handlers, lock, queue,
                   drainer>>

ReplayPark ==
    /\ replay.pc = "park"
    /\ detached' = detached \cup {Item}
    /\ pending' = [pending EXCEPT ![Item] = replay.missing]
    /\ replay' = [replay EXCEPT !.pc = "recheck"]
    /\ UNCHANGED <<definitions, record, history, dag, up, cached, handlers, lock, queue,
                   drainer, faults>>

\* Mutant: the lookup is not repeated.
ParkWithoutRecheck ==
    /\ replay.pc = "recheck"
    /\ replay' = Following
    /\ UNCHANGED <<definitions, record, rows, history, dag, up, cached, handlers, lock, queue,
                   drainer, faults>>

\* parkGated repeats the lookup once the row is in.
ReplayRecheck ==
    /\ replay.pc = "recheck"
    /\ IF replay.missing \subseteq known THEN Notify ELSE UNCHANGED queue
    /\ replay' = Following
    /\ UNCHANGED <<definitions, record, rows, history, dag, up, cached, handlers, lock,
                   drainer, faults>>

\* A lookup that fails there is taken for a definition still being
\* committed, whose own wake-up follows: nobody is notified.
RecheckFails ==
    /\ replay.pc = "recheck" /\ replay.missing # {} /\ Fault
    /\ skipped' = skipped \cup {Item}
    /\ replay' = Following
    /\ UNCHANGED <<definitions, record, rows, aborted, unwritten, dag, up, cached, handlers,
                   lock, queue, drainer>>

ReplayApply ==
    /\ replay.pc = "apply"
    /\ ApplyChange(Item)
    /\ replay' = Following
    /\ UNCHANGED <<definitions, rows, history, dag, up, cached, handlers, lock, queue,
                   drainer, faults>>

\* Mutant: the error path returns without unlocking.
EndReplayLocked(opened) ==
    /\ replay' = NoReplay
    /\ lock' = IF opened THEN "none" ELSE lock
    /\ cached' = IF lock = "load" /\ ~opened THEN "none" ELSE "open"
    /\ handlers' = IF lock = "load" /\ ~opened THEN 0 ELSE handlers

\* Gives up the lock; a load that replayed everything opens the object.
EndReplay(opened) ==
    /\ replay' = NoReplay
    /\ lock' = "none"
    /\ cached' = IF lock = "load" /\ ~opened THEN "none" ELSE "open"
    /\ handlers' = IF lock = "load" /\ ~opened THEN 0 ELSE handlers

ReplayDone ==
    /\ replay.pc = "gate" /\ ~More
    /\ EndReplay(TRUE)
    /\ UNCHANGED <<definitions, record, rows, history, dag, up, queue, drainer, faults>>

\* The drain pass gives a row up: it stays parked until another pass.
GiveUp ==
    /\ skipped' = skipped \cup {drainer.row}
    /\ drainer' = [NoPass EXCEPT !.pc = "pick", !.ready = drainer.ready]

\* Mutant: a change that fails is skipped and the iteration goes on.
SkipFailed ==
    /\ replay.pc \in {"gate", "park", "apply"} /\ Fault /\ More
    /\ replay' = Following
    /\ UNCHANGED <<definitions, record, rows, history, dag, up, cached, handlers, lock, queue,
                   drainer>>

\* The iteration itself, the park or the apply fails, or the context ends:
\* the replay stops.  Whoever waits for the object gets the error of a failed
\* load.
ReplayFails ==
    /\ replay.pc \in {"gate", "park", "apply"} /\ Fault
    /\ EndReplay(FALSE)
    /\ aborted' = aborted \cup {dag[i] : i \in replay.next..Len(dag)}
    /\ IF lock = "load" /\ drainer.pc \in {"get", "reload"}
       THEN GiveUp ELSE UNCHANGED <<skipped, drainer>>
    /\ UNCHANGED <<definitions, record, rows, unwritten, dag, up, queue>>

----------------------------------------------------------------------------
(* LocalWriteIf.                                                           *)

\* The writer stamps what it knows, so nothing is missing here.
AddContent(c) ==
    /\ cached = "open" /\ lock = "none"
    /\ c \in Local \ Stored /\ Past[c] \subseteq Stored
    /\ Needs[c] \subseteq known
    /\ c \in Runtime => handlers > 0
    /\ dag' = Append(dag, c)
    /\ lock' = "local"
    /\ UNCHANGED <<definitions, record, rows, history, up, cached, handlers, replay, queue,
                   drainer, faults>>

LocalApply ==
    /\ lock = "local"
    /\ ApplyChange(dag[Len(dag)])
    /\ lock' = "none"
    /\ UNCHANGED <<definitions, rows, history, dag, up, cached, handlers, replay, queue,
                   drainer, faults>>

\* The change stays in the tree although the writer gets an error.
LocalApplyFails ==
    /\ lock = "local" /\ Fault
    /\ unwritten' = unwritten \cup {dag[Len(dag)]}
    /\ lock' = "none"
    /\ UNCHANGED <<definitions, record, rows, aborted, skipped, dag, up, cached, handlers,
                   replay, queue, drainer>>

----------------------------------------------------------------------------
(* The drainer.                                                            *)

\* One pass per burst: waiting takes every notification there is.
DrainWait ==
    /\ up /\ drainer.pc = "wait" /\ queue > 0
    /\ queue' = 0
    /\ drainer' = [drainer EXCEPT !.pc = "scan"]
    /\ UNCHANGED <<definitions, record, rows, history, dag, up, cached, handlers, lock,
                   replay, faults>>

\* What a parked change waited for is there, its dataset included.
Resolvable(c) ==
    c \in detached /\ pending[c] \subseteq known /\ (c \in Runtime => catalog > 0)

DrainScan ==
    /\ drainer.pc = "scan"
    /\ drainer' = [drainer EXCEPT !.pc = "pick", !.ready = {c \in Change : Resolvable(c)}]
    /\ skipped' = {}
    /\ UNCHANGED <<definitions, record, rows, aborted, unwritten, dag, up, cached, handlers,
                   lock, replay, queue, faults>>

\* The scan fails, which ends the pass, or the lookups of some rows do, and
\* these rows are left out.
ScanFails ==
    /\ drainer.pc = "scan" /\ Fault
    /\ LET resolvable == {c \in Change : Resolvable(c)}
       IN  \E left \in SUBSET resolvable :
            /\ left = resolvable \/ \A c \in left : pending[c] # {}
            /\ skipped' = left
            /\ drainer' = [drainer EXCEPT !.pc = "pick", !.ready = resolvable \ left]
    /\ UNCHANGED <<definitions, record, rows, aborted, unwritten, dag, up, cached, handlers,
                   lock, replay, queue>>

\* Rows come in the order of their ids, hashes of the changes: any order.
DrainPick ==
    /\ drainer.pc = "pick"
    /\ \/ /\ drainer.ready = {}
          /\ drainer' = NoPass
       \/ \E c \in drainer.ready :
            drainer' = [drainer EXCEPT !.pc = "get", !.ready = @ \ {c}, !.row = c]
    /\ UNCHANGED <<definitions, record, rows, history, dag, up, cached, handlers, lock,
                   replay, queue, faults>>

\* Store.Get waits for the object to be loaded.
DrainGet ==
    /\ drainer.pc \in {"get", "reload"} /\ cached = "open"
    /\ drainer' = [drainer EXCEPT !.pc = IF @ = "get" THEN "check" ELSE "apply",
                                  !.object = "held", !.rev = handlers]
    /\ UNCHANGED <<definitions, record, rows, history, dag, up, cached, handlers, lock,
                   replay, queue, faults>>

DrainCheck ==
    /\ drainer.pc = "check" /\ ~Stale(drainer.row, drainer.rev)
    /\ drainer' = [drainer EXCEPT !.pc = "apply"]
    /\ UNCHANGED <<definitions, record, rows, history, dag, up, cached, handlers, lock,
                   replay, queue, faults>>

\* Drop evicts whatever object is cached, once its tree is unlocked.
DrainDrop ==
    /\ drainer.pc = "check" /\ Stale(drainer.row, drainer.rev)
    /\ lock = "none"
    /\ cached' = "none" /\ handlers' = 0
    /\ drainer' = [drainer EXCEPT !.pc = "reload", !.object = "none", !.rev = 0]
    /\ UNCHANGED <<definitions, record, rows, history, dag, up, lock, replay, queue, faults>>

\* ApplyDecoded takes the lock and bypasses the gate.  Definitions are not
\* withdrawn here, so the controller has a handler for the row.
DrainApply ==
    /\ drainer.pc = "apply" /\ lock = "none" /\ drainer.object = "held"
    /\ ApplyChange(drainer.row)
    /\ drainer' = [drainer EXCEPT !.pc = "unpark"]
    /\ UNCHANGED <<definitions, rows, history, dag, up, cached, handlers, lock, replay, queue,
                   faults>>

\* ErrClosed: the object was evicted since the pass got it, the row stays.
DrainRefused ==
    /\ drainer.pc = "apply" /\ drainer.object = "closed"
    /\ GiveUp
    /\ UNCHANGED <<definitions, record, rows, aborted, unwritten, dag, up, cached, handlers,
                   lock, replay, queue, faults>>

DrainApplyFails ==
    /\ drainer.pc = "apply" /\ lock = "none" /\ drainer.object = "held" /\ Fault
    /\ GiveUp
    /\ UNCHANGED <<definitions, record, rows, aborted, unwritten, dag, up, cached, handlers,
                   lock, replay, queue>>

DrainUnpark ==
    /\ drainer.pc = "unpark"
    /\ detached' = detached \ {drainer.row}
    /\ pending' = [pending EXCEPT ![drainer.row] = {}]
    /\ drainer' = [NoPass EXCEPT !.pc = "pick", !.ready = drainer.ready]
    /\ UNCHANGED <<definitions, record, history, dag, up, cached, handlers, lock, replay, queue,
                   faults>>

\* The error of Unpark is ignored.
DrainUnparkFails ==
    /\ drainer.pc = "unpark" /\ Fault
    /\ GiveUp
    /\ UNCHANGED <<definitions, record, rows, aborted, unwritten, dag, up, cached, handlers,
                   lock, replay, queue>>

----------------------------------------------------------------------------
(* The process.                                                            *)

Crash ==
    /\ up /\ Fault
    /\ up' = FALSE
    /\ catalog' = 0 /\ wake' = {} /\ schemaPc' = "idle"
    /\ cached' = "none" /\ handlers' = 0 /\ lock' = "none"
    /\ replay' = NoReplay /\ drainer' = NoPass /\ queue' = 0
    /\ UNCHANGED <<known, schema, degraded, record, rows, history, dag>>

\* Mutant: the opener does not kick the drainer.
RestartQuietly ==
    /\ ~up
    /\ up' = TRUE
    /\ catalog' = schema /\ degraded' = FALSE
    /\ UNCHANGED <<known, schema, wake, schemaPc, record, rows, history, dag, cached,
                   handlers, lock, replay, queue, drainer, faults>>

\* The catalog is read before the store is published; the store's opener
\* kicks the drainer once.
Restart ==
    /\ ~up
    /\ up' = TRUE
    /\ catalog' = schema /\ degraded' = FALSE
    /\ Notify
    /\ UNCHANGED <<known, schema, wake, schemaPc, record, rows, history, dag, cached,
                   handlers, lock, replay, drainer, faults>>

\* The first scan of the types fails and the store opens without them.
RestartDegraded ==
    /\ ~up /\ Fault
    /\ up' = TRUE
    /\ catalog' = 0 /\ degraded' = TRUE
    /\ Notify
    /\ UNCHANGED <<known, schema, wake, schemaPc, record, rows, history, dag, cached,
                   handlers, lock, replay, drainer>>

----------------------------------------------------------------------------

Init ==
    /\ known = {} /\ schema = 0 /\ catalog = 0 /\ degraded = FALSE /\ wake = {}
    /\ schemaPc = "idle"
    /\ dag = <<>> /\ maxAddSeq = 0
    /\ applied = {} /\ exists = FALSE /\ effect = [c \in Change |-> 0]
    /\ detached = {} /\ pending = [c \in Change |-> {}]
    /\ up = TRUE /\ cached = "none" /\ handlers = 0 /\ lock = "none"
    /\ replay = NoReplay /\ queue = 1 /\ drainer = NoPass
    /\ aborted = {} /\ unwritten = {} /\ skipped = {}
    /\ faults = 0

Definitions ==
    \/ \E d \in Def : DefineShortId(d) \/ NotifyShortId(d)
    \/ DefineDataset \/ RefreshCatalog \/ NotifyDataset

ReplayStep == ReplayGate \/ ReplayPark \/ ReplayRecheck \/ ReplayApply \/ ReplayDone

DrainStep ==
    \/ DrainWait \/ DrainScan \/ DrainPick \/ DrainGet \/ DrainCheck \/ DrainDrop
    \/ DrainApply \/ DrainRefused \/ DrainUnpark

Faults ==
    \/ RefreshFails \/ LookupFails \/ RecheckFails \/ ReplayFails \/ LocalApplyFails
    \/ ScanFails \/ DrainApplyFails \/ DrainUnparkFails \/ Crash \/ RestartDegraded

Next ==
    \/ Definitions
    \/ Load \/ Evict \/ Restart
    \/ \E c \in Change : Receive(c) \/ AddContent(c)
    \/ LocalApply
    \/ ReplayStep
    \/ DrainStep
    \/ Faults

Spec == Init /\ [][Next]_vars

\* The drainer is a goroutine of its own and every lock is released, so it
\* runs on; Go's mutex and ocache's load channel do not starve a waiter, so
\* what is enabled again and again is done.  Its Get loads the object.
\* Nobody is obliged to write, to evict, or to open the object otherwise.
DrainLoad == drainer.pc \in {"get", "reload"} /\ Load

Fairness ==
    /\ WF_vars(Restart)
    /\ \A d \in Def : WF_vars(NotifyShortId(d))
    /\ WF_vars(RefreshCatalog) /\ WF_vars(NotifyDataset)
    /\ WF_vars(ReplayStep) /\ WF_vars(LocalApply)
    /\ WF_vars(DrainLoad) /\ SF_vars(DrainStep)

FairSpec == Spec /\ Fairness

----------------------------------------------------------------------------
(* Properties.                                                             *)

\* What happened to c is on record: it was applied, or it is parked, or the
\* operation that should have applied it failed.
Accounted(c) == c \in applied \cup detached \cup aborted \cup unwritten

\* Nothing is skipped below the watermark: a replay starts above it and
\* would never come back for a change it left behind.
NoChangeLost == \A i \in 1..maxAddSeq : Accounted(dag[i])

\* Whoever opens the object finds every stored change applied or parked.
OpenIsCaughtUp == cached = "open" /\ lock = "none" => \A c \in Stored : Accounted(c)

\* What a parked change waited for is committed, its dataset included.
Ready(c) ==
    c \in detached /\ pending[c] \subseteq known /\ (c \in Runtime => schema > 0)

\* A failed operation has left a parked change without its wake-up: a failed
\* lookup, scan or replay of its own, or a catalog that could not be read and
\* knows nothing of its dataset.  It waits for whatever notifies next.
LeftByFault(c) == c \in skipped \/ (c \in Runtime /\ catalog = 0 /\ degraded)

\* No wake-up is lost unless an operation failed: whatever the gate, the
\* definitions' applies and the drainer interleave to, a parked change whose
\* definitions and dataset are committed is in the pass, or a pass is coming,
\* or a failed operation has left it.
NoLostWakeup ==
    up => \A c \in Change : Ready(c) =>
            \/ c \in drainer.ready \cup {drainer.row} \/ LeftByFault(c)
            \/ queue > 0 \/ drainer.pc = "scan"
            \/ wake # {} \/ schemaPc # "idle"
            \/ replay.pc = "recheck" /\ Item = c

\* A change that has been applied is not parked anew.
NeverParkedAfterApply ==
    [][\A c \in detached' \ detached : c \notin applied]_vars

\* The drainer comes to rest with nothing left to it, again and again: a
\* parked change whose definitions and dataset are committed is applied and
\* leaves `_detached`, unless a failed operation has left it for the next pass;
\* and a pass ends, whatever it waits for: whoever holds the tree lock or loads
\* the object notifies the drainer without blocking.
DrainerServes ==
    []<>(drainer.pc = "wait" /\ \A c \in Change : Ready(c) => LeftByFault(c))

\* "A lookup that fails here is a definition still being committed: its own
\* wake-up follows" (gate.go, of the re-check).
FailedRecheckIsWoken == [][RecheckFails => ~(replay.missing \subseteq known)]_vars

\* A parked change is not lost (crdt-spec.md section 14: "nothing is lost"):
\* every change handed to the controller takes effect on the record.
NothingIsLost == \A c \in applied : effect[c] > 0

\* Replaying an applied change is a no-op (crdt-spec.md section 7).
AppliedOnce == \A c \in Change : effect[c] < 2

\* A failed replay leaves the watermark below what it did not apply
\* (object.go), so that the next one retries it.
AbortKeepsWatermark ==
    \A c \in aborted : c \in applied \cup detached \/ AddSeq(c) > maxAddSeq
============================================================================
