# Verification of any-sync-sdk

TLA+ models of the any-sync SDK (Go), the TLC runs that check them on small
instances, and theorems about them that TLAPS proves for every instance.
Paths below are relative to the repository; `_ver`, `_meta` and the like are
the names the code uses.

To check a run: `tlc -config <cfg> <module>.tla`; to check the proofs:
`tlapm <module>_proofs.tla`. `PROJECT.json` lists the runs, the mutants that
show each property can fail, the source lines each definition stands for, the
hazards and the findings.

## 1. Inventory

The SDK stores, syncs and queries objects. An object is a tree of signed
changes kept by any-sync (a DAG with a total order on it); the SDK decodes each
change and merges it into records of local collections (any-store). Almost all
state is a projection of trees, rebuilt from them at need.

| component | state | operations | interacts with |
|---|---|---|---|
| record merge `internal/crdt` (apply, versions, op) | a record: content, version tree `_ver`, creation marker `_ver.id`, tombstone | `$set`, `$unset`, `$inc`, `$incGated`, `$addToSet`, `$pull`, delete, upsert | called by the controller, once per record of a change |
| controller `internal/crdt` (controller, meta) | handlers, `_meta` row: watermark `maxAddSeq`, `maxApplySeq`, handler versions | ApplyChange: one write transaction for records, siblings, stamps, watermark | called by the object under the tree lock |
| object `internal/object` | the tree, its lock, closed / deleted marks | Update, Rebuild, ColdRestore (replay), LocalWrite, LocalSet, InjectedSet, ApplyDecoded, Close | any-sync calls it when a tree grew; callers write through it |
| gate, detached changes, drainer `internal/spaceobjects` | collection `_detached`, a bounded queue, one goroutine | gate a change, park it, notify, drain pass, unpark | a definition's apply notifies; the drainer writes through objects |
| object store, catalog `internal/spaceobjects` | cache of open objects, catalog snapshot of datasets | Get / load, evict, create, delete, purge, refresh | loads objects, builds controllers from the catalog |
| reindex `internal/spaceobjects`, `internal/crdt` | captured local leaves in `_meta` | rewind, wipe, rebuild, restore, finish; background sweep | inside a load |
| change feed | per-space `applySeq`, `_meta` rows | allocate, stamp, query above a cursor, subscribe | every apply; consumers |
| types, schema, properties | definitions as records of type objects, live registry | lookups; validation of ops | the gate, the handlers |
| history `internal/history` | index of changes per record, staleness marks | index on apply, backfill, purge | commits with the apply |
| read tracking `internal/readstate`, `readsync` | read frontier, unread entries | mark read in chunks, merge frontiers, prune | tech space carries it between devices |
| subscriptions `internal/subscribe` | sorted window, drift counter | record added, changed, removed | events of the apply path |
| tree sync `internal/anysyncx` | sync jobs, parked and pending trees, responsible peers | head sync round, fetch, retry, reopen, teardown | any-sync, the object store |
| space service `internal/spaceimpl` | open spaces, join states, mirror, inbox, bundles | open, join, offload, delete, collect | tech space, tree sync, store |
| tech space `internal/techspace` | space rows and statuses, account values | register, set status, watch | space service |
| account record `internal/p2p` (accountlayer, account) | the last record, siblings, the packet on each relay | resolve, merge, publish, handshake | relays, the layer below |
| global p2p `internal/p2p` (global, connector, stores) | records of rows, peer store, address and status book, connections | apply, reconcile, recompute, plan, dial, accept, sweep | key-value rows of spaces, the account record, tree sync |
| LAN discovery, exchange `internal/p2p` | sessions, LAN addresses | announce, exchange space ids | address book |
| files `internal/files` | CARs, reference counts, attach intents, jobs | attach, upload, fetch, collect | records of objects, file nodes |
| inbox, push, sync status | cursor; none; per-space status | process a batch; request; aggregate | services |
| payloads, auth, config, public API, examples | none of their own | construction, key derivation, delegation | all |

What is hard here:

* **order**: devices receive concurrent changes in different orders, and a record
  must come out the same;
* **interleaving**: sync, local writers, the drainer, definitions, the cache's
  eviction and background sweeps meet at a tree lock, a catalog snapshot and a
  queue, and most hand-overs are check-then-act;
* **failure**: storage operations fail one by one, the process is killed between
  two transactions, and the watermark decides what a restart reads again;
* **staleness**: an object, a controller or a plan is used after what it was
  taken from has gone.

What makes each component correct: replicas that saw the same changes agree
(merge); a stored change is applied or parked, never skipped (object); a parked
change leaves once it can (drainer); a consumer misses no change (feed); local
values outlive a rebuild (reindex); a row never exists without its reference
(files); a record written by many names them all, and a loaded space finds a peer
that answers (p2p); a round reports synced only when nothing is left (tree sync);
a message is processed at least once and the cursor passes none (inbox). The
hazards, each at its line and with the properties that guard it, are in
`PROJECT.json`.

## 2. Modules

| module | models | kind |
|---|---|---|
| `LeafMerge` | what a merge promises: one last-writer-wins register per leaf | abstract specification |
| `RecordMerge` | apply.go, versions.go, `recordModifier.Modify` | detailed, implements `LeafMerge` |
| `MergeTrees` | the small change trees both are checked on | instance data |
| `ObjectApply` | object.go, gate.go, detached.go, drainer.go, parts of store.go and catalog.go | concurrent, failures, crashes |
| `Reindex` | reindex.go of spaceobjects and of crdt, loadObject | crashes and failures, across versions |
| `ChangeFeed` | applyseq.go, meta.go, changefeed.go, the purge of a deleted object, a consumer | transactions, crashes, a lost database |
| `ReadState` | readstate.go, readsync.go, readtracking.go | two devices, chunked transactions |
| `TreeSync` | treesyncer.go, syncjob.go, treefetch.go, catchup.go, the close of sdk.go | concurrent, failures, restarts |
| `Files` | upload.go, store, the durable queue, gc.go, the file calls of a space | concurrent, one write a step |
| `Membership` | spaceindex.go, the join and invite calls of service.go, joincontroller.go, notifier.go | devices, nodes and an ACL chain |
| `Subscriptions` | sub.go, engine.go, query.go and the hook that feeds them | concurrent |
| `AccountRecord` | accountlayer.go, account/client.go, account/record.go | devices, relays that fail, clocks that differ |
| `GlobalPeers` | global.go, connector.go, peerstore.go, addrbook.go, peerstatus.go | concurrent, a network that changes |
| `MC…` | instances for TLC | |
| `…_proofs` | theorems and proofs (section 5) | |

### LeafMerge and RecordMerge

`change` is the tree, fixed at the start (`RecordMerge` chooses it from
`Universe`): per change a
version (any-sync's OrderId, distinct and causal), its past, whether it upserts
or deletes, and for each field a write at the field (`Whole`) or at a key below
it. `seen[r]` is what replica `r` has applied; `Apply(r, c)` delivers any change
whose past is there, and delivers it again at will, as a replay does.

`RecordMerge` keeps what the row keeps. `val[f]` is the value at a field with its
shape: nothing, scalar, object. `ver[f]` is the entry of `_ver`: none, a version
string, or an object with a default `*` and entries per key. `Gate` is the
version a write of a leaf must exceed, `SetVersion` the split of a string into
an object, `MergeReplace` the decomposition of a broad write over finer entries
with its `Survivors`, `Compact` the lossless compaction that follows every
change. `Modify` is the life cycle: absent, live, tombstone, with the creation
marker `_ver.id`. Two levels of path are modelled, which is where every branch
of the code already occurs; deeper levels recurse through the same functions.
Handlers admit every op. `$addToSet`, `$pull`, `$inc`, `$incGated` are not in this
module: the documents give them conditions of their own under which they
converge.

`LeafSpec` is the refinement: with `leaf[r][f][k] = [ver |-> Gate(...), val |-> ...]`
and `dead = (life = "dead")`, `RecordMerge` implements `LeafMerge!Spec`. Shape,
default, compaction and marker are invisible there.

### ObjectApply

One object, its runtime dataset, the definitions its changes name, the drainer,
and the process. Persisted: `known`, `schema` (what is committed of types and
dataset declarations), `dag` (the stored changes in AddSeq order), `maxAddSeq`
(the watermark), `applied`, `exists`, `effect` (what the records became),
`detached` and `pending` (the parked rows). In memory: `catalog` (the snapshot's
revision), `wake` and `schemaPc` (a definition's apply between its commit and its
notification), `cached` and `handlers` (the object and what its controller was
built with), `lock`, `replay`, `queue`, `drainer`. `aborted`, `unwritten`, `skipped`
and `degraded` record what failed, for the properties.

| actions | code |
|---|---|
| `DefineShortId`, `DefineDataset`, `RefreshCatalog`, `RefreshFails`, `NotifyShortId`, `NotifyDataset` | apply of a definition, `afterApplyFor`: refresh, which may fail, then notify |
| `Load`, `Evict` | `Store.loadObject`, `Object.TryClose`, `EnsureDatasetRegistered` |
| `Receive` | any-sync adds a change and calls `Update` / `Rebuild` |
| `ReplayGate`, `ReplayPark`, `ReplayRecheck`, `ReplayApply`, `ReplayDone`, `ReplayFails` | `replayLocked`, `gateFor`, `parkGated`, `Park` |
| `LookupFails`, `RecheckFails`, `ScanFails` | a failed lookup in the gate counts as missing, in the re-check as still to come; a failed scan ends the pass, a failed lookup there leaves its row |
| `AddContent`, `LocalApply`, `LocalApplyFails` | `LocalWriteIf` |
| `DrainWait` … `DrainUnparkFails` | `drainer.loop`, `Store.Drain`, `replayParked` |
| `Crash`, `Restart`, `RestartDegraded` | the process; opening a space scans the types, which may fail, and kicks the drainer |

Steps are cut where another actor can come in: a definition's lookup and the
park are two steps, the apply of a drained row and its removal are two, the
apply inside one write transaction is one. Actions under the tree lock name the
lock. `Load` takes the lock at once: in the code the tree's listener may run an
`Update` before the cold restore does, which is the same replay from the same
watermark. The drain takes rows in any order, as their ids are hashes.

Abstractions: one dataset stands for all runtime ones, and its schema only grows
in revisions; what a change does to the record is to create it, modify it or
count on it; `effect` counts to 2. A change of a runtime dataset has no gate in
the model but the one `controllerStaleFor` gives it.

### Reindex

One object and one dataset across lives of the process. Persisted: `tree` (its
length), `built` (the handler version that built each row, change i writes row
i), `parked`, `local` (the device-local value in row 1) and the `_meta` row
`meta`: watermark, handler version, captured value. In memory: `handler` (the
version this process was compiled with, 0 when it does not run), `pc`, `next` (the
position of the running replay or wipe), `load` (the verdict of `loadObject`) and
`carried`. `leftover`, `disarmed`, `forfeit` and `unmarked` record what failed, for
the properties.

| actions | code |
|---|---|
| `Load`, `OpenFails` | `loadObject` up to `object.New`, `openTree` |
| `Replay`, `ReplayFails`, `ReplayDone` | `replayLocked`: from the listener while the tree opens, from the cold restore, from sync |
| `Prepare`, `CaptureFails`, `PrepareFails` | `reindexPrepare`, `captureLocalLeaves`, `ResetForReindex` |
| `Wipe`, `DropFails`, `WipeDone` | `wipeMaterialized`, `dropCollectionByName` |
| `RestoreLeaves`, `RestoreFails`, `Finish`, `FinishFails` | `reindexFinish`, `restoreLocalLeaves`, `PersistVersions` |
| `Grow`, `LocalSet`, `Drain`, `Evict` | `Update`, `LocalSet`, `ApplyDecoded`, `TryClose` |
| `WipeDefinitions`, `RebuildDefinitions` | the same rebuild of the type's object, seen from here |
| `Stop`, `Start` | the process, with any handler version |

Every transaction is a step, so `Stop` falls between any two. Abstractions: rows
are wiped one a step, and which of them sit in shared collections is not modelled,
so a row's removal may fail either way (`DropFails` is logged and goes on,
`PrepareFails` ends the load); a definition is usable, of an old handler, or
wiped; the cap on captured leaves, the history marks and read state are left out;
local writes and the drainer's own steps are in `ObjectApply`. The background
sweep is a `Load`.

### ChangeFeed

The sequence every apply, read mark and purge takes, and a consumer that pages
by it. Persisted: `meta` (per object `maxApplySeq` and the deletion mark),
`reads` (the `stateSeq` of its read state), `rows`. In memory: `alloc` (seeded
from the rows at first use, never stored), `writer` (goroutines inside and after
a write transaction). `reader` is a consumer: its cursor and what it has indexed
are durable, its page is not.

| actions | code |
|---|---|
| `Begin`, `Enter`, `Allocate`, `Commit`, `Rollback`, `Notify` | a write transaction of an apply, a mark, a purge; the event after it |
| `LoadStore`, `DeleteTree`, `Refuse` | the store's seed; deletion: tree, then the cached object, then the purge |
| `Start`, `Pull`, `Index`, `Save` | the contract of `ChangesSince` in space/changeindex.go |
| `Crash` | the process, with or without its database |

A purge is a writer's transaction like the others. What the rows hold is not
modelled, only that they are there.

### ReadState

One object's unread entries (`st`), the frontier this device published (`own`),
the one another device did (`remote`), the load with its seed (`object`, `skip`,
`sets`), whether a rebuild has begun and not ended (`reindex`, which outlives a crash:
the next load resumes it, and tracks as little as the first), the merge queue and the reconcile at boot. A frontier is a set of change
ids, and what it covers is their past in the tree.

| actions | code |
|---|---|
| `Arrive`, `Apply`, `Load`, `Seed`, `Evict` | storage, the apply hook, `loadObject`, `SeedAllRead` and `SeedPublished`, a rebuild |
| `MarkRead`, `MarkReadUpTo`, `Chunk`, `ChunkFails`, `Publish` | a mark, a ranged mark chunk by chunk under the object's lock, the key-value row |
| `RemoteMark`, `Merge`, `ReconcileMerge`, `ReconcileRead`, `ReconcilePublish` | rows of other devices, the merge worker, the boot pass |
| `Crash` | the process |

Change ids are numbers in versionId order. Tags are one counter. `early` holds
marks that met a change in storage before the object had applied it, and
pending ids applied while nothing tracked; `dropped` holds changes that were
cleared or applied where nothing tracks. Both are exempt in the properties, and
`SeedIsExact` shows what the first costs (Known limits).

### TreeSync

One space and its trees. Persisted: the version `stored` with its `addSeq`, the
heads-only `stub`, `deleted`, what the projection `applied`, the `watermark`. In
memory: the boot pass, `pending` (parked trees), the sync job (`queue`, `kind`,
`fetched`, `job`, and `step`, a worker per tree), `round` per peer, `pulling` (head
updates between store and replay). `inline` says whether rounds hand over to the
job or work themselves, as under selective sync.

| actions | code |
|---|---|
| `Diff`, `Join`, `Return`, `Timeout` | `SyncAll` with the job: `syncJob.add`, the wait |
| `Turn`, `Wake`, `Exit`, `Take` | the job's loop, its groups and workers |
| `Fetch`, `Open`, `Load`, `Gone` and the failing ones | `fetchTree`, the registry's open, `MarkPending`, `Recovered` |
| `Inline…` | `syncInline` with the type probe |
| `HeadUpdate`, `Update`, `Evict`, `Delete`, `PeerGrows` | what any-sync and the user do beside it |
| `Start`, `Boot…`, `CloseSyncJob`, `CloseGate`, `Snapshot`, `CloseWithout`, `Crash` | `spacesync.Run`, `SDK.Close` |

A successful exchange of heads in the update handler is an `Update` of the tree.
A worker's tree is one at a time outside the fetch group, which is the width the
code gives the other groups for one space. `failed` (an update or boot load that
failed is retried by nobody) and `cut` (what the close's snapshot ran into
between its reads) are exempt.

### Files

Rows (`row`), CARs (`car`, `refs`, `aged`, `intent`), the `dedup` index, durable
jobs (`job`, `drive`), the nodes (`net`), calls of Attach (`add`), the collector's
pass (`gc`, a plan made while it iterates and carried out afterwards), and a CAR in
place that no metadata row names (`stray`): listing and both passes go by the rows.

| actions | code |
|---|---|
| `AttachBound`, `AttachFull` (the CAR is renamed into place), `Finalize` (its row), `Mark`, `Register`, `Link`, `RecordContent`, `Enqueue`, `Unmark` and failures | `Attach`, write by write |
| `DriveStart`, `Upload`, `SetNetworkSign`, `JobIsMoot`, `DriveFails` | a durable job, `lockRoot`, `siblingSign` |
| `Delete`, `UserOffload`, `Read`, `Retry` | the calls of a space; a deletion may sync in |
| `Sweep`, `FreeUp`, `Prune` … `ClearMarker`, `End` | both passes of gc.go, the heal of an attach that died |
| `Age`, `Crash` | the grace period; the process |

`exposed` holds rows whose guard another attachment of the same content took
away, or whose donor went before they were linked: with them the claim of
files.md fails (Known limits). `open` in `add` marks the calls it can happen to.
`Store.Delete` and `Offload` drop the bytes and then write the row; the model has
them as one step: broken off between, the row says more than there is. After a
deletion no live file refers to it and the next pass does it again; after an offload
the content is durable and the next read fetches it.

### Membership

One shared space, the devices of one account, the nodes and the owner. `chain` is
the ACL as it is, `served` how much of it the nodes serve. The row in the space
list is a last-writer-wins field of the index tree: a replica keeps its latest
status, cursor and deletion with their `Place` in the order all replicas replay
the changes in, which is known only once they meet. `dead` is the handler's
terminal rule (a row that has read deleted stays so where it did). Per device:
`marker`, `head`, `storage`, `waiter`, `load`, `call`, and the inbox worker
(`pass`, `latched`).

| actions | code |
|---|---|
| `JoinPost` … `JoinHead`, `Cancel…`, `DeleteMark`, `Offload`, `Accept…`, `DeclineInvite`, `Get` | the calls of service.go, split at their writes |
| `Poll`, `Reject`, `Resolve` | the ACL waiter |
| `Pass`, `LoadJoined`, `FlipJoinActive`, `JoinLoaded`, `HealJoin`, `CheckInvite`, `LoadInvite` | joincontroller.go and the loads it starts |
| `StartPass`, `HandleInvite`, `SaveBatch`, `SaveCursor` | the inbox worker |
| `Owner`, `Serve`, `SendInvite`, `Sync`, `Restart` | the outside |

A controller pass is one step; the deletion of a joining row whose request is
open takes the way of `CancelJoin`; the reclaim at boot is part of `Restart`.
`consent` is history. Seen on the way and left in the model as the code has it:
an accepted invite's load swallows one that is granted later (`pendingLoads`), a
requester that loses its chain head before a decline never notices it, a stale
`joining` hides an invite, and a space deleted elsewhere is reclaimed only at
boot.

### Subscriptions

The store (`row`, a sort key per record), the writers (`apply`, and `stamped`, what
a replay batch holds back), `Engine.mu`, `Engine.counter`, one subscription
(`sub`: its window with the sentinel, the lazy boundary `maxRef`, the drift `lost`,
the mailbox), the event being built (`event`) and what the consumer shows (`view`).

| actions | code |
|---|---|
| `Write`, `Stamp`, `Announce`, `FlushStamps`, `MarkDeleted`, `Purge` | the apply path and its hook |
| `OnApply`, `ApplyRecord`, `EndEvent`, `CloseObject` | engine.go, sub.go |
| `Resolve`, `Lock`, `Snapshot`, `SnapshotFails`, `Register`, `CheckDeleted`, `Take`, `Unsubscribe`, `CloseEngine` | query.go, the consumer, the space |

The consumer applies what an event removes, then what it sets. Offset is 0;
`minRef`, which nothing reads, is left out; a purge announces its records at
once. `untold` holds records an event said too little or too much of, `strayed`
counts moves of a held record past rows the window does not hold, which the
code does not count as drift: both are exempt, and two limits below show them. An
object is looked up before the fence, and if it is not local (`NotLocal`, `absent`)
the snapshot asks nothing, though rows may have landed by then; a row that cannot
be read (`Misread`) is taken for one that is gone. The records so lost, until an
event speaks of them again, are `missed`, exempt as well, with a limit below.

### AccountRecord

The devices of an account (`release`: the payload version each writes), the
packet on each pkarr relay (`held`), and per device the record it last decoded or
published (`last`), the one on disk (`file`: a save may fail), its cycle, the
siblings it knows (`peers`) and sees (`near`). Only the order of timestamps matters, so they are places that are
renumbered after every step; a new one is past the packet it was read from and
anywhere otherwise, as clocks are.

| actions | code |
|---|---|
| `Resolve`, `ResolveAgain`, `Publish` | `accountCycle`, `publishMerged`, `Client.Resolve`, `Client.Publish`, `Merge`, `SealAt` |
| `OutOfDate` | the own entry aged, or the home relay changed |
| `Handshake`, `FallSilent` | `admitSibling`, the hour after which a sibling not named is dropped |
| `GrowOld` | a sibling's entry is past `MaxAge` by this device's clock: `Merge` and `applyAccountRecord` skip it |
| `Wipe`, `Restart` | a relay forgets; `loadRecord`, whose file may not be readable |

A cycle asks the relays at once and goes on with what answered: one step, in
which any of them may be silent or its answer lost. Entries are counted, not
dated: `old` has, per reader, how many of a writer's entries are past `MaxAge`, which
the latest never is, unless the two clocks are that far apart (`Ahead`). Every device
has a home relay, and the caps on devices and relays in a record, the clamp of a
date ahead of the clock and the budget of unknown peers are left out. `best` and
`lagging` are history: a device that last decoded an older record than it once had,
or began again from a file without its last one, is exempt from `SiblingsAreKept`
(Known limits).

### GlobalPeers

One device. Persisted by others: `rows` of peers in its spaces, `members`,
`loaded`, `entry` (the sibling set, from the account record). The worker: `queue`,
`round`, `records` (what it has read), `job` (a recompute in progress, of the
worker, of an unload or of the account cycle). The stores: `global`, `account`,
`ticket`, `lan`, `lastSeen`, `failures`. Connections: `live`, `pending`, and
`link`, what the transport has. The connector: `dial`, `backoff`. Time is a
counter of writes, handshakes and expiries.

| actions | code |
|---|---|
| `RowArrives`, `SpaceLoaded`, `SpaceUnloaded`, `MemberChanges` | the rows' handler, spaces, the ACL |
| `Take`, `Reconcile`, `ReconcileTick`, `AccountRecord` | the worker, its ticker, `applyAccountRecord` |
| `Read`, `WriteGone`, `WriteForgotten`, `WriteTicket`, `WriteStore` | `recompute`, one store after the other |
| `AllowInbound`, `AllowHandshake`, `Accepted`, `PendingExpires`, `Closes`, `Sweep` | the accept path, both inbound filters, the sweep of the pool |
| `Plan`, `CheckDial`, `PickLive`, `StartDial` | connector.go: the plan, the check whether the peer has connected, the pool, which may not answer within `PickTimeout`, and the dial |
| `DialAnswered`, `DialFails`, `WindowEnds`, `BackOff`, `Due` | the end of a dial; the window in which the remote may still refuse |
| `ReachChanges`, `LanChanges`, `Expire` | the network, the disable threshold |

What a backoff lasts is not counted: a peer is due at some time, but one with
`MaxFailures` failures not before the connector has been round the others, and
any backoff outlasts at least the next plan. Left out: the publish of the own
row, the caps on rows and peers, the rate limit of dials, the budget of unknown
peers, the status file. `unsure` holds peers of which two recomputes overlapped
or one was dropped by a full queue: `StoresAreTrue` exempts them, `PeersSettle`
does not. A dial is `blind` to a connection that was admitted after its check, and to
one the pool did not answer for: `DialsNoneBack` sets these apart.

## 3. Runs

| run | instance | states | shows |
|---|---|---|---|
| `record_merge` | 2 replicas, 2400 trees of a create and 3 concurrent changes: `$set` of the field and of its keys, the same with `$unset`, and upserts, deletes, modifies | 211297 | leaves, versions and life are those of the newest write; content converges where no key is `$unset`; replay is a no-op; creation marker; refinement of `LeafMerge` |
| `object_apply` | create and modify of a runtime dataset synced, an increment local, 1 definition, 2 schema revisions, queue of 1, 2 faults, fair | 1655123 | no change is skipped, no wake-up lost but to a failed operation, an applied change is not parked anew, parked changes drain, passes end |
| `object_lost` | 3 synced changes, no fault | 2873 | the finding below |
| `reindex` | 2 changes that may park, 3 versions, 2 local writes, 3 faults | 3813096 | rows, their version and the local value outlive every broken-off rebuild; a finished one is not repeated |
| `tree_sync` | a type and an object of it, 1 peer, with the job or inline, 1 fault, fair | 383644 | the watermark covers only what was replayed, a tree behind is in somebody's hands, a round waits for the whole queue, trees arrive |
| `read_state` | 5 changes, 2 devices, chunks of 1, 1 fault | 3590481 | what lies behind a mark becomes read, nothing else does, frontiers have nothing unread behind them |
| `change_feed` | 2 writers, 2 objects, 3 numbers, pages of 1, 1 fault, fair | 2435037 | a consumer's cursor passes nothing, deleted objects stay gone, the feed catches up |
| `files` | 2 attaches of one content, 1 fault, fair | 526966 | a file without a receipt keeps its bytes, one upload per root, orphans go, queued files are backed up |
| `membership` | 2 devices: a join by 1 of them, chain of 2, 2 calls; or 1 invite, 1 call of either; 1 restart, fair | 310889 | nothing is downloaded before somebody agrees, the cursor passes no unread invite, what the chain grants or an accept began is loaded |
| `subscriptions` | 4 records of 2 objects, window of 2 or none, 2 changes or a failed read, 1 query | 4474521 | the view is the window, the window is what is stored but for records read in vain, it lacks no more than the drift budget |
| `account_record` | 2 devices of one release or two, 2 relays, 2 entries of one device, 2 faults, fair | 155586 | a device the account knows stays in the record until it is too old, a second write is past an answer, the record names everyone in the end |
| `global_peers` | a device of the account and another peer, 2 spaces, 1 connection and 1 accepted, queue of 2; six courses of events, fair | 873603 | the stores follow the records, no peer that was connected at the check is dialed back, rows reach the stores and spaces are covered |

Properties named as a conjunction: `DrainerServes` is `ParkedDrains` and
`PassEnds`; `FeedIsTrue` is `NothingSkipped` and `DeletedStaysGone`; `FilesSettle`
is `OrphansGo` and `QueuedIsBackedUp`; `SyncSettles` is `RoundEnds` and
`TreesArrive`; `PeersSettle` is `RowsAreReached` and `SpacesAreCovered`, for good.
`FrontierIsRead`, `FeedIsTrue`, `OnlyCopySurvives`, `ConsentFirst`, `LiveIsStored`
and `StoresAreTrue` each include their module's `TypeOK`.

Bounds. `RecordMerge`: four changes with two keys reach every branch of
`MergeReplace` (a survivor on one key, replaced on the other, older default, newer
default) after a split, and a replay after each; two replicas are enough for a
property of pairs. `ObjectApply`: `MaxRev` 2 gives a dataset that is unknown,
known, and re-declared under a resident controller; a queue of 1 overflows at the
second notification; two faults are a crash after an aborted replay, a lookup
that fails in the gate and again in the re-check, or two crashes. `Reindex`: three versions are an upgrade overtaken by another, or taken
back; three faults break one rebuild off three times; two rows are one wiped and
one not. `ChangeFeed`: three numbers are one before the cursor, one in a page and
one committing late; pages of one row put a crash between any two. `ReadState`: a
message, an own change after it that is not tracked, and two concurrent
successors, one of which deletes the first; chunks of one entry, a frontier of at
most two, a queue that overflows at the second row. `TreeSync`: a definition and
an object named first by the registry are the two orders a pass knows; one fault
is any single failure, timeout, close or crash. `Files`: two calls and one fault
give a bound and a full attachment, a donor and its copy. `Membership`: a chain of
two is a request and its answer, or a grant and a removal; two devices are the one
that asks and one that knows the row by sync. `Subscriptions`: a window of two
over up to four records has a member, a sentinel and rows outside; two changes of
up to two records push each other over the boundary, and a failed read takes the
place of one (`FewFaults`). `AccountRecord`: two relays
disagree, two devices overwrite each other, and a second entry of one is a first that
may expire; two faults are a silent relay and a lost answer, a failed save and a
restart, or a wipe and a restart. `GlobalPeers`: two peers and one connection are one that is kept from the
other, two spaces a peer that leaves one of them; a queue of two overflows at the
third task; the courses (`MCGlobalPeers`) bound the events, as all at once would
not end, and each of them is there for an interleaving it names. `QueryFirst`
leaves out writes before the first query, which `FirstRows` covers. `PageSize`,
`QueueSize`, `ChunkSize`, `MaxFrontier`, `FetchWorkers`, `MailboxCap`, `Budget`,
`MaxConnections` and `MaxInbound` are constants of the code made small; every
other `Max…`, `Elsewhere`, `Foreseen`, `Stories` bounds the model only.

Deadlock is checked where work never ends. `CHECK_DEADLOCK FALSE` stands where the
model may come to rest because the bound on writes, calls, numbers, files or
events is used up and nothing is pending.

Fairness. In each module it is that of what runs by itself. `ObjectApply`: the
drainer is a goroutine, and the holder of the tree lock is always in a step that
can go on, so replays, local applies and notifications are weakly fair; the
drainer's own steps wait for a mutex and for the cache's load, which wake their
waiters in order: strong fairness. A drain pass loads the object by itself
(`DrainLoad`). Restart is fair: what eventually happens is about an SDK that is
started again. `TreeSync`: rounds are periodic, the loop, the workers and the boot
pass are goroutines that only wait for requests, which time out. `ChangeFeed`: a
transaction that began ends, and a consumer that is awake reads on. `Files`: an
attach, a runnable job and a pass go on; the embedder sweeps periodically, and as
a pass and a FreeUp exclude each other `Sweep` is strongly fair. `Membership`: calls
return, waiters poll, loads retry, and now and then a tick of the controller
finds the network up. `AccountRecord`: a cycle runs every ten minutes, and its
requests are answered or time out; silent relays are bounded. `GlobalPeers`: the
worker and the goroutines that recompute go on, the tickers tick, a dial is
answered or times out, an accepted connection is announced or its admission
expires, and a backoff is a date that comes (strong fairness, as evidence may end
it before). Nowhere does a user, an owner, a peer or a notification
owe anything.

## 4. Findings

One run is found violated against a sentence of the repository; the quote is in
`PROJECT.json`.

`object_lost`: the gate looks at one change at a time. A create parked on a
definition, the definition commits, and a modify of the same record that arrives
next passes the gate before the drain: it is rejected as a modify of an absent
record and never comes again. The drain's order by row id loses it the same way.

### Known limits

The properties of the passing runs are stated so that what follows is accounted
for, through the history variables named. Each is reproduced by the cfg given
(`tlc -config <cfg>.cfg <module>`), which TLC finds violated; "(run)" says
it is the cfg of the run, with the property put in place of the run's.

| cfg, property | what happens | the passing run exempts it by |
|---|---|---|
| `MCRecordMergeShape`, `SameContent` | leaves converge, shapes do not: `{f: {k: 1}}` with a concurrent `$unset f.k` and a broad `$set f` ends as an empty object on one device and as a scalar, or no field, on another | `ContentConvergence`: no key is `$unset` |
| `MCObjectApplyTwice`, `AppliedOnce` | a drained row is applied and removed in two transactions; a crash between them applies it twice, which `$inc` counts | not a property of the run |
| `MCObjectApplyAbort`, `AbortKeepsWatermark` | a replay that aborts keeps the watermark low, and a local write on the still open object raises it past the remainder | `aborted`; in the same way `unwritten`, the change of a local write whose apply failed |
| `MCObjectApplyMix` (run), `FailedRecheckIsWoken` | a lookup fails in the gate and again in the re-check although the definition is committed: parkGated takes it for one still being committed whose "own wake-up follows" (gate.go:111), and nobody notifies; so too when the lookup or the scan of a pass fails, or the catalog's recompile | `LeftByFault`: `skipped`, and `degraded` with a catalog that lacks the dataset |
| `MCReindexBump`, `BumpRebuilds` | opening the tree replays through the new handlers before the rewind, and each apply stamps the new version; a load broken off there leaves old rows nothing finds stale | `disarmed`; and `unmarked`, a rebuild whose captured values could not be cleared |
| `MCReadState` (run), `SeedIsExact` | a frontier merged while the first load restores names changes that are stored and not applied: they stay unread | `early` |
| `MCChangeFeedPurge`, `NothingSkipped` | the purge of an object marked as read and never applied here has no `_meta` row to announce it on, its read-state row goes, and after a restart its number is given again, below a consumer's cursor | `Foreseen` is empty |
| `MCFilesForgotten`, `NeverForgotten` | an attach fails between its reference and its job: the row is unsigned, has bytes, and neither a job nor a heal (files.md: never "the queue forgets") | `QueuedIsBackedUp` starts from a job |
| `MCFiles` (run), `NoTraceLeft` | a crash between the rename of a finished CAR and its metadata row, or a removal that fails too, leaves a CAR that listing and the collector never see (build.go: "leaves no trace" of a crash) | `Orphan` asks for a metadata row (`stray` is the rest) |
| `MCFilesLost`, `OnlyCopyIsKept` | an attach binds to a donor's CAR; the donor is deleted and a free-up pass drops the aged CAR before the new row is written; or the marker two attaches share is cleared by the first to end | `exposed` |
| `MCMembershipAgree`, `RowsAgree` | a deletion and a status written concurrently: the terminal rule is applied to the local row, the field is last-writer-wins, and devices with the same changes differ (docs/tech-space.md:120) | no run compares devices |
| `MCMembershipSeed`, `FreshDeviceSeeds` | the inbox worker reads the offset before its guard waits for the space list, and reads the whole inbox again (docs/one-to-one-spaces.md:385) | an invite handled twice is harmless, which `NoInviteSkipped` and `ConsentFirst` show |
| `MCAccountRecord` (run), `BaseIsNewest` | a relay that lags is the only one to answer: the older record becomes the base, and the next publish leaves out a device only the newer one named (accountlayer.go, `last`: "the newest record this device decoded"); so too after a save that failed, a restart from the older file and a silent relay | `lagging` |
| `MCAccountRecordApart`, `RecordConverges` | a device whose clock is more than 30 days ahead takes every entry of the other for expired: it never knows the other, and drops it from the record whenever it renews its own entry (docs/account-discovery.md: "drop entries unseen for 30 days") | `Ahead` is empty in the run |
| `MCAccountRecord` (run), `WipeHeals` | every relay forgets while the device's own entry is fresh in its base: the cycle reads nothing and writes nothing until the entry ages (accountlayer.go, `accountInterval`) | `RecordConverges` asks nothing while no relay has a packet |
| `MCAccountRecordNewer`, `NewerIsKept` | a device of an older release that did not hear the newer record publishes, dated past it, where it was (docs/account-discovery.md) | `RecordConverges` allows either |
| `MCGlobalPeers` (run), `GonePeersGo` | an unload drops a space's records while the worker recomputes from a view read before: the peer stays in the store with a space that is gone, until a record of it comes (global.go, `SpaceUnloaded`) | `unsure` |
| `MCGlobalPeers` (run), `NewestDecides` | a handshake refreshes the time of a sibling's entry, whose relay is as old as it was and now masks a newer row (global.go, `recompute`) | `Fold` is the code's order |
| `MCGlobalPeers` (run), `DialsCrossNone` | a peer is admitted between the connector's check and its dial, or the pool does not answer in time: it is dialed back (connector.go, `dial`) | `blind` |
| `MCGlobalPeers` (run), `EvidenceReactivates` | evidence that comes while a dial is on its way clears a backoff that is not set yet; the failure sets it afterwards (connector.go, `reactivate`) | not a property of the run |
| `MCSubscriptions` (run), `InitialIsWindow` | of equal keys at the edge `appendInitial` keeps the first as the boundary, and not the last row it was given | `untold` |
| `MCSubscriptions` (run), `EveryMoveIsTold` | one change moves a record over the boundary twice: the event tells it once, or tells a removal and nothing else | `untold` |
| `MCSubscriptions` (run), `AnswerIsWhole` | an object that is not local when a query looks it up gains rows before the snapshot, which asks nothing and whose events are over (query.go: "if the object lands later, its events flow in"); or an event cannot read a row, and takes it for one that is gone (controller.go, `GetStored`) | `missed` |

## 5. Proofs

The theorems hold for every value of the constants; what each listed theorem
establishes is in `PROJECT.json`. Every one rests on an inductive invariant, named
in the module, whose first conjuncts are the types; the assumptions are those of
the component's module, which TLC evaluates in its runs, and no other.

`ObjectRecords_proofs`, about `RecordMerge`: the inductive invariant `MergeInv` is
`RecordTypeOK` with
`DefaultIsOldest` and what a row that is not live holds. `DefaultIsOldest` is what
makes the early return of `mergeReplace` sound (an older broad write has nothing
to replace), so the refinement needs it: with it each write of a field is shown,
key by key, to be a step of the register (`Gate` and leaf after `WriteLeaf`,
`WriteWhole`, `Compact`), hence `Refinement` to `LeafMerge` and, through
its theorems, `NewestWriteWins` and `LeavesConverge`. What the registers do not see
is in `HistoryInv`, which ties the stored record to the set of changes seen: the
marker is the earliest upsert (`MarkerIsEarliest`), an entry is compact and its
default is the newest broad write, and without an `$unset` below a field the field's
shape is a function of the broad writes and of the leaves newer than they are. So
two replicas with the same changes store the same content (`ContentConverges`), and
a change applied again finds every leaf it writes at its version or a newer one and
moves neither marker nor compaction (`ReplayHarmless`). The theorems of `LeafMerge`
are in the same module: from an invariant that each register is that of the newest
covering change seen, `NewestWins`, and from it, since versions are distinct,
`Converges`; they need no assumption, the initial states being well-formed trees.
Assumption of the others:
`UniverseAssumption`, every tree of `Universe` is well-formed (versions distinct and
causal, a strict modify has its create in its past), which any-sync's order gives. (`RecordMerge` names its specification `MergeSpec`, so that
one module can extend both it and `ObjectApply`.)

`ObjectRecords_proofs`, about `ObjectApply`: `ApplyInv` joins `TypeOK` with its lock discipline, that AddSeqs
are distinct (`DagInv`), that a replay has left nothing unaccounted behind its
position and works on nothing applied (`ReplayInv`), that a local write under the
lock is the last change stored (`LocalInv`), that a row in the drainer's hands is
stored (`DrainInv`), and `OpenIsCaughtUp`. `NoChangeLost` alone is not inductive: an
apply moves the watermark over everything between, which is accounted for only
because the replay goes in order and a local write starts from a caught-up
object. `NothingSkipped`, `CaughtUp` and `AppliedStaysApplied` follow. `WakeInv` adds
to `NoLostWakeup` that a pass between rows holds none, that the second look of
the gate is at the row just parked, and that the catalog is the committed schema but
for a refresh to come or failed (`SnapshotIsCurrent`); a step either makes no row
ready and leaves every parked change in somebody's hands (`WakeQuiet`), or leaves a
notification behind it (`WokenUp`), a full queue being one. Hence `WakeupKept`; it
says nothing of the rows a failed operation left (`LeftByFault`).

`Reindex_proofs`: `ReindexInv` says what each step of a load may rely on: nothing is
missing below the watermark and behind a replay's position (`CompleteInv`), rows are
of the version on the `_meta` row until the wipe and of the handler behind it
(`VersionInv`), the mark of a rebuild and the captured value stay together until it
ends (`MarkInv`), and the value is in its row or in the capture (`ValueInv`).
`RowsRebuilt` needs the first three, because a load that finds versions equal and
no mark trusts the rows; `ValueSurvives` the last two.

`ChangeFeed_proofs`: `StoreInv` is `TypeOK` with the transactions (`WriterInv`: a number
taken in a transaction is above every number persisted) and deletions (`DeleteInv`:
a deleted object refuses writes and has none in flight before its rows go), which
gives `DeletedGone`. `FeedInv` adds that an awake consumer is on the axis of the
database (`AxisInv`), that what the feed of reads has is announced (`AnnouncedInv`),
and `SeenInv`: cursor and page are behind numbers that some row has reached, and
what is behind them was seen. Cursors alone are not inductive: a number may be
given below a cursor if the rows that held the higher ones are gone. So `FeedTrue`
has the hypothesis `Foreseen = {}` of its run; without it `MCChangeFeedPurge` is the
counterexample.

`Readers_proofs`, about `ReadState`: `Inv` joins the types with the order of arrival (`Causal`), where
entries and frontiers lie (`Places`), what a load may skip (`Modes`), and three parts
that carry the theorems. `Behind`: nothing unread lies behind a change that some
frontier claims, kept, published or about to be, or that is marked and not pending.
`Noted`: what is marked before it is applied is pending or was noted early; this is
why an entry inserted later cannot fall behind a mark, and it holds outside a
rebuild only, which applies everything again and tracks none of it until it has
ended. `Account`: an applied change that is tracked is unread, behind a mark, or
cleared. A walk stops at the frontier and below the oldest entry, and it is
`Reached`, the least set closed under it, so that no induction over the tree is
needed: `MarkFacts` shows that the set of what is read, the walked and what lies
behind the frontier is closed, hence holds the whole past of what is marked. A
chunk of a ranged mark covers the oldest entries, and what is older than all that
is left has nothing unread behind it. `MarksReadPast`, `FrontierHidesNothing` (with
the types and the counter) and `UnreadUntilMarked` follow. A frontier that is cut at
its cap only shrinks.

`Readers_proofs`, about `Subscriptions`: between events the consumer shows the
window, and with no writer at work the window is what is stored; `EngineInv` says
what holds in between, of every record but those whose last read came to nothing
(`missed`, which count as `InFlight`: whatever is held of them is no error). `AllTold`: what the consumer has, with the event so far on
top, is the window, save the records set apart. A record's own move and the moves of
the sentinel it causes must be told together, so `AfterUpdate`, `AfterLeft` and
`AfterEntered` say what each transition does to the window and its boundary,
`ClassifySays` what the event then says, and `MovesTold` that the two agree.
`Writes`: what a writer has committed and not announced are records of its object,
each once, and a purge comes alone. `Held` and `Whole`: a row that is held, or that
an unlimited query should hold, is the stored row, or its writer still has it to
tell. A writer that finds no subscriber drops its event, so `Locked` ties the counter
and the mutex to the query: whoever is counted has no snapshot yet or is told.
`Bounded` keeps a full window at one row beyond its limit. `ConsumerShowsWindow` and
`NothingMissedLive` (with the types and bounds) follow. What a window lacks cannot be
counted step by step: the stored rows move as well, and a row that was behind may
come forward. `Lacks` therefore says that some window exists that extends the one
held, answers the query but for what a writer has still to tell, and has at most
`strayed` and the losses beyond the first rows more. A record that is applied gives
the next one: `SkipServes`, `UpdateServes`, `LeaveServes` and `JoinServes`, one for each
way (`ApplyWays`), where `Repaired` adds the first stored row that is missing. With no
writer at work what is missing is among the rows it has more; `Counts` bounds the
losses by the budget, and `DriftStaysInBudget` follows.

`Files_proofs`: `Inv` is `Shape` (types, and what rows, CARs, calls and plans refer to)
with the reasons no collector takes an only copy. A row keeps its bytes because its
reference is linked, or its owner's marker stands until it is (`Guarded`); a marker
helps only if no pass had planned to reclaim the root before it was written, so a
plan is spared of rows and of calls that will write one (`Spares`); a row bound to a
sibling relies on the sibling's link (`Donors`), a first attachment on its CAR being
young and its alone (`NewCars`); and what the nodes do not hold is complete on the
device (`Receipts`, `Kept`). `OnlyCopyStays` follows; the attachments for which the
code breaks it are in `exposed`, and `MCFilesLost` shows one. `Uploaded` adds that a
root the nodes hold has a row with its receipt or about to get it: the lock of the
root is held between the two steps, hence `UploadsAreShared`.

`GlobalP2P_proofs`, about `AccountRecord`: `AccountInv` is the types with what is on
the relays (`PacketInv`), in a write cycle (`CycleInv`), and `BaseInv`: a device that
has read no older record since, nor begun again from a file that misses its last one,
has in its base every sibling of the newest it has read or written, but for entries
that have expired for it (`Expired` only grows, `FileInv`). `SiblingsKept` is an
action property: at a publish, `Merged` drops none of them.

`GlobalP2P_proofs`, about `GlobalPeers`: `StoresAreTrue` speaks of peers at rest, so
`PeersInv` says what holds of the others. `Truth`: a peer that is not set apart is
being looked at, waits to be, or is in the stores as its records have it. `Latest`: a
recompute that is alone with its peer has a view that is still so, and has written it
as far as it has come (`Told`), or the peer waits to be read again; for whatever
changes the records of a peer gives it to a goroutine in the same step, and a
dropped task sets it apart. `Alone`: whoever believes itself alone with a peer is, so
no other writes over it. A step keeps these in one of four ways, each with a lemma:
it only adds to what waits (`Aside`), begins a recompute (`Begins`), takes one a
store further (`OwnStep`), or drops one (`Misses`). The threshold only grows, so a
ticket that is withheld stays rightly so. `StoresFollowRecords` follows.
`NeverDialsBack` rests on `DialSeen`: while the pool is asked, a connection on its way
to the pool came after the check; after it, so did one in the pool, or the pool was
asked in vain. It needs of the types that a connection the layer holds is in the
pool, and that one on its way there is still marked as admitted (`LinksTyped`).

`Membership_proofs`: `MemberInv` is the types with `RowInv` (a status has a place in the
account's order, at or after the deletions held; a cursor is never without a row),
`PassInv` (what a pass of the inbox has handled has a row) and `ConsentInv`: before
the account asks for the space not only is it stored nowhere, but no row, marker,
waiter, load or call is such as could bring it. `ConsentFirst` says the first half
only and any of the others would break it in the next step. `ConsentComesFirst` and
`NoneSkipped` follow.

`TreeSync_proofs`: in `SyncInv`, `StepInv` and `StoredInv` say that workers and the
group to take are items of the queue, that only stored trees are loaded, and that
an open tree is behind only while an update is in flight. `AttendInv` is the core:
whoever stores a tree has it in hand (the queue, an inline round, a head update) or
parks it, and a caught-up session had nothing behind to begin with. It needs the
boot pass (`BootInv`: what is behind and seen by its snapshot is still to load, what
was stored since is in somebody's hands) and the gate of a close, past whose first
half nothing is only parked. `MarkInv` bounds watermark and snapshot by the AddSeqs
given out, so that a tree that falls behind is above both. Each action is one of a
few kinds of steps, each with a lemma: one that keeps every tree in its hands
(`HandsStep`), one of a round, of a worker, of the process, of data only
(`RoundStep`, `WorkStep`, `ProcessStep`, `DataStep`), and the queue's lemmas say that
an item leaves it alone (`ItemLeaves`, `ItemStays`). `WatermarkTrue`, `NoTreeDropped` and
the action property `RoundComplete` follow.

Every safety invariant and action property of the passing runs is proved. Only
model-checked: liveness (`DrainerServes`, `SyncSettles`, `FeedCatchesUp`,
`FilesSettle`, `MembershipSettles`, `RecordConverges`, `PeersSettle`), which TLAPS
does not do.

## 6. Plan

Models still to come: `$inc`, `$incGated`, `$addToSet`, `$pull` under the documents'
conditions; create, delete and purge of an object against the drain and the
cache; the version history's index against its backfill; the aggregation of sync
status; members, bundles and type datasets.

Not modelled: encoding, cryptography, validation of values, network transport
and any-sync itself (its tree, its diff), LAN discovery and its exchange, the
publish of a device's own row, push requests, payload builders, key handling,
and the public interfaces that delegate. `PROJECT.json` says of each component
what is left out and why.
