------------------------------ MODULE TreeSync ------------------------------
(***************************************************************************)
(* How the trees of one space reach this device and its projection         *)
(* (src/internal/anysyncx: treesyncer.go, syncjob.go, treefetch.go,        *)
(* treemanager.go; src/internal/spacesync/catchup.go; src/sdk.go).         *)
(*                                                                         *)
(* A headsync round compares the heads of a peer with the heads stored     *)
(* here and hands the trees that differ to the space's sync job, one loop  *)
(* that works its queue in groups; under selective sync (`inline`) the     *)
(* round works them itself.  A tree is first stored, with the next AddSeq  *)
(* of the head store, and then replayed into the projection.  A tree whose *)
(* replay fails is parked, in memory: its heads are stored, so no later    *)
(* diff names it.  A head update of a peer stores and replays a tree       *)
(* without the job.  Across restarts the space's watermark says how far    *)
(* the projection is known to be current: the boot pass loads every tree   *)
(* stored above it, and a clean close advances it without a replay unless  *)
(* trees are parked or still with the job.                                 *)
(***************************************************************************)
EXTENDS Naturals, Sequences, FiniteSets, SequencesExt

CONSTANTS
    Tree,           \* the trees of the space
    Peer,           \* the responsible peers
    Definition,     \* the trees whose root is a type or a collection
    First,          \* the trees the registry names first
    Selected,       \* the trees whose root is of a selected type
    Held,           \* the trees each peer holds at first
    Modes,          \* whether rounds work inline, or hand over to the job
    FetchWorkers,   \* trees one pass fetches at once (treeFetchWorkers)
    NoTree,         \* no tree
    MaxVersion,     \* bound: versions of a tree on the peers
    MaxFaults       \* bound: failures, crashes, closes, round timeouts

ASSUME TreeAssumption ==
    /\ Definition \subseteq Tree /\ First \subseteq Tree /\ Selected \subseteq Tree
    /\ IsFiniteSet(Tree) /\ NoTree \notin Tree /\ Modes \subseteq BOOLEAN
    /\ Held \in [Peer -> SUBSET Tree]

ASSUME BoundAssumption ==
    FetchWorkers \in Nat \ {0} /\ MaxVersion \in Nat \ {0} /\ MaxFaults \in Nat

VARIABLES
    inline,     \* the space syncs within its rounds (selective sync)
    remote,     \* remote[p][t]: the version p holds, 0: none
    \* persisted
    stored,     \* the version in tree storage, 0: none
    addSeq,     \* the head store's LastAddSeq of the tree
    stub,       \* the version a heads-only stub stands for, 0: none
    deleted,    \* trees deleted here
    applied,    \* the version the projection reflects
    watermark,  \* the space's catch-up watermark
    \* in memory
    phase,      \* the process: "down", "up", "closing" or "gate"
    boot,       \* the boot pass: [pc, snapshot, load]
    caughtUp,   \* the space is on the allowlist of the close-time snapshot
    resident,   \* trees whose object is open in the cache
    pulling,    \* trees a head update is about to replay
    pending,    \* parked trees: "no", "local", "missing"
    queue,      \* the trees queued on the job, in queue order
    kind,       \* why: "none", "missing", "changed" or "retry"
    fetched,    \* queued trees in storage, not yet materialized
    job,        \* the loop: [pc, batch, worked, wake, closed]
    step,       \* what a worker is about to do for a tree
    round,      \* round[p]: the round with p
    \* history
    failed,     \* trees whose update or boot load failed: nobody retries
    cut,        \* trees the close-time snapshot ran into
    faults      \* faults so far

persisted == <<stored, addSeq, stub, deleted, applied, watermark>>
syncer == <<pending, queue, kind, fetched, job, step, round>>
rest == <<inline, remote>>
process == <<phase, boot, caughtUp>>
history == <<failed, cut>>
vars == <<rest, persisted, process, syncer, resident, pulling, history, faults>>

Groups == <<"first", "second", "fetch", "definitions", "objects", "changed", "retry">>

NoBoot == [pc |-> "off", snapshot |-> 0, load |-> {}]
IdleJob == [pc |-> "off", batch |-> {}, worked |-> FALSE, wake |-> FALSE, closed |-> FALSE]
IdleRound == [pc |-> "idle", missing |-> {}, changed |-> {}, parked |-> {}, awaits |-> {},
              todo |-> <<>>, at |-> NoTree, next |-> "no", owed |-> {}]

TypeOK ==
    /\ inline \in BOOLEAN
    /\ remote \in [Peer -> [Tree -> 0..MaxVersion]]
    /\ stored \in [Tree -> 0..MaxVersion] /\ stub \in [Tree -> 0..MaxVersion]
    /\ addSeq \in [Tree -> Nat] /\ watermark \in Nat
    /\ deleted \in SUBSET Tree
    /\ applied \in [Tree -> 0..MaxVersion] /\ \A t \in Tree : applied[t] <= stored[t]
    /\ phase \in {"down", "up", "closing", "gate"}
    /\ boot \in [pc : {"off", "start", "load", "done"}, snapshot : Nat, load : SUBSET Tree]
    /\ caughtUp \in BOOLEAN
    /\ resident \in SUBSET Tree /\ pulling \in SUBSET Tree
    /\ pending \in [Tree -> {"no", "local", "missing"}]
    /\ queue \in Seq(Tree) /\ IsInjective(queue)
    /\ kind \in [Tree -> {"none", "missing", "changed", "retry"}]
    /\ fetched \in SUBSET Tree
    /\ job \in [pc : Range(Groups) \cup {"off", "wait", "exited"}, batch : SUBSET Tree,
                worked : BOOLEAN, wake : BOOLEAN, closed : BOOLEAN]
    /\ step \in [Tree -> {"no", "fetch", "open", "load"}]
    /\ round \in [Peer -> [pc : {"idle", "diff", "wait", "inline"},
                           missing : SUBSET Tree, changed : SUBSET Tree, parked : SUBSET Tree,
                           awaits : SUBSET Tree, todo : Seq(Tree), at : Tree \cup {NoTree},
                           next : {"no", "open", "load"}, owed : SUBSET Tree]]
    /\ failed \in SUBSET Tree /\ cut \in SUBSET Tree
    /\ faults \in 0..MaxFaults
    \* One item per tree.
    /\ \A t \in Tree : t \in Range(queue) <=> kind[t] # "none"
    /\ fetched \subseteq Range(queue)

Running == phase # "down"
Fault == faults < MaxFaults /\ faults' = faults + 1
Working == {t \in Tree : step[t] # "no"}
Behind == {t \in Tree : stored[t] > applied[t] /\ t \notin deleted}
Parked == {t \in Tree : pending[t] # "no"}

----------------------------------------------------------------------------
(* Storage and the projection.                                             *)

MaxLastAddSeq ==
    CHOOSE n \in {0} \cup {addSeq[t] : t \in Tree} : \A t \in Tree : addSeq[t] <= n

\* Version v of t is stored: the head store stamps the next AddSeq.
Put(t, v) ==
    /\ stored' = [stored EXCEPT ![t] = v]
    /\ addSeq' = [addSeq EXCEPT ![t] = MaxLastAddSeq + 1]

Forget(t) == failed' = failed \ {t} /\ cut' = cut \ {t}
Fails(t) == failed' = failed \cup ({t} \cap Behind) /\ UNCHANGED cut
Cut(ts) == cut' = cut \cup (ts \cap Behind) /\ UNCHANGED failed

\* A load replays everything stored; an object already open is handed out
\* as it is.
Materialize(t) ==
    /\ applied' = IF t \in resident THEN applied ELSE [applied EXCEPT ![t] = stored[t]]
    /\ IF t \in resident THEN UNCHANGED history ELSE Forget(t)
    /\ resident' = resident \cup {t}

Recovered(t) == pending' = [pending EXCEPT ![t] = "no"]

\* Mutant: only a tree that could not be fetched is parked.
MarkPendingMissing(t, missing) ==
    pending' = [pending EXCEPT ![t] = IF missing THEN "missing" ELSE @]

MarkPending(t, missing) ==
    pending' = [pending EXCEPT ![t] = IF missing THEN "missing" ELSE IF @ = "no" THEN "local" ELSE @]

Copies(t) == {remote[p][t] : p \in Peer} \ {0}

Unstored == UNCHANGED <<stub, deleted, watermark>>

----------------------------------------------------------------------------
(* Rounds (SyncAll).                                                       *)

Heads(t) == IF stored[t] > 0 THEN stored[t] ELSE stub[t]

\* any-sync compares heads; the parked trees join what the diff names.
Diff(p) ==
    /\ phase \in {"up", "closing", "gate"} /\ round[p].pc = "idle"
    /\ round' = [round EXCEPT ![p] =
           [IdleRound EXCEPT
              !.pc = "diff",
              !.missing = {t \in Tree \ deleted : Heads(t) = 0 /\ remote[p][t] > 0},
              !.changed = {t \in Tree \ deleted : Heads(t) > 0 /\ remote[p][t] \notin {0, Heads(t)}},
              !.parked = Parked]]
    /\ UNCHANGED <<rest, persisted, process, resident, pulling, pending, queue, kind, fetched,
                   job, step, history, faults>>

Named(p) == round[p].missing \cup round[p].changed \cup round[p].parked

\* A retry the diff now names becomes a fetch or a ping, until a worker has it.
NamedKind(p, t) ==
    CASE t \in round[p].missing -> "missing"
      [] t \in round[p].changed -> "changed"
      [] OTHER -> "retry"

Requeue(p, t) ==
    IF t \notin Named(p) THEN kind[t]
    ELSE IF kind[t] = "none" \/ (kind[t] = "retry" /\ step[t] = "no") THEN NamedKind(p, t)
    ELSE kind[t]

\* The round's own trees (mutant of what a round waits for).
OwnTrees(p, all) == Named(p)

\* A round waits for the whole queue: a tree stored and not yet replayed is
\* one its diff does not name.
Awaited(p, all) == all

\* syncJob.add.  The new trees are queued missing ones first.
Join(p) ==
    LET new(ids) == SetToSeq({t \in ids : kind[t] = "none"})
        own == round[p].missing
        grown == queue \o new(own) \o new(round[p].changed \ own)
                       \o new(round[p].parked \ (own \cup round[p].changed))
    IN  /\ ~inline /\ round[p].pc = "diff"
        /\ queue' = grown
        /\ kind' = [t \in Tree |-> Requeue(p, t)]
        /\ job' = IF grown = <<>> \/ job.closed THEN job
                  ELSE [job EXCEPT !.pc = IF @ = "off" THEN "wait" ELSE @, !.wake = TRUE]
        /\ round' = [round EXCEPT ![p] = [IdleRound EXCEPT
               !.pc = "wait", !.owed = IF caughtUp THEN Behind ELSE {},
               !.awaits = Awaited(p, Range(grown))]]
        /\ UNCHANGED <<rest, persisted, process, resident, pulling, pending, fetched, step,
                       history, faults>>

\* Every item is handled, or the job is closed: the round returns nil.
Return(p) ==
    /\ round[p].pc = "wait" /\ (round[p].awaits = {} \/ job.closed)
    /\ round' = [round EXCEPT ![p] = IdleRound]
    /\ UNCHANGED <<rest, persisted, process, resident, pulling, pending, queue, kind, fetched,
                   job, step, history, faults>>

\* The caller's context ends.  The job goes on; a round that works inline
\* parks what it has not reached.
Timeout(p) ==
    LET unreached == IF round[p].pc = "wait" THEN {} ELSE Range(round[p].todo) \cup ({round[p].at} \ {NoTree})
    IN  /\ Fault /\ round[p].pc \in {"wait", "inline"}
        /\ round' = [round EXCEPT ![p] = IdleRound]
        /\ pending' = [t \in Tree |->
               IF t \notin unreached THEN pending[t]
               ELSE IF t \in round[p].missing THEN "missing"
               ELSE IF pending[t] = "no" THEN "local" ELSE pending[t]]
        /\ IF phase = "gate" THEN Cut(unreached) ELSE UNCHANGED history
        /\ UNCHANGED <<rest, persisted, process, resident, pulling, queue, kind, fetched, job, step>>

----------------------------------------------------------------------------
(* The sync job.                                                           *)

InGroup(g, t) ==
    CASE g \in {"first", "second"} -> t \in First /\ Len(queue) >= 2
      [] g = "fetch" -> kind[t] = "missing" /\ t \notin fetched
      [] g = "definitions" -> t \in fetched /\ t \in Definition
      [] g = "objects" -> t \in fetched /\ t \notin Definition
      [] OTHER -> kind[t] = g

Group(g) == {t \in Range(queue) : InGroup(g, t)}

\* Mutant: a pass starts again before the changed trees.
GroupAfterObjects(g) ==
    CASE g = "first" /\ ~job.worked -> "fetch"
      [] g = "objects" -> "first"
      [] g = "retry" -> IF job.worked THEN "first" ELSE "wait"
      [] OTHER -> Groups[(CHOOSE i \in DOMAIN Groups : Groups[i] = g) + 1]

GroupAfter(g) ==
    CASE g = "first" /\ ~job.worked -> "fetch"
      [] g = "retry" -> IF job.worked THEN "first" ELSE "wait"
      [] OTHER -> Groups[(CHOOSE i \in DOMAIN Groups : Groups[i] = g) + 1]

\* The loop takes the next group of a pass, or starts a pass.
Turn ==
    /\ job.pc \in Range(Groups) /\ job.batch = {} /\ Working = {} /\ ~job.closed
    /\ LET g == GroupAfter(job.pc)
           batch == Group(g)
       IN  job' = [job EXCEPT !.pc = g, !.batch = IF g = "wait" THEN {} ELSE batch,
                              !.worked = IF g = "first" THEN batch # {}
                                         ELSE @ \/ (g # "wait" /\ batch # {})]
    /\ UNCHANGED <<rest, persisted, process, resident, pulling, pending, queue, kind, fetched,
                   step, round, history, faults>>

Wake ==
    /\ job.pc = "wait" /\ job.wake /\ ~job.closed
    /\ LET batch == Group("first")
       IN  job' = [job EXCEPT !.pc = "first", !.wake = FALSE, !.batch = batch, !.worked = batch # {}]
    /\ UNCHANGED <<rest, persisted, process, resident, pulling, pending, queue, kind, fetched,
                   step, round, history, faults>>

\* The loop ends once the job is closed and its workers have returned.
Exit ==
    /\ job.closed /\ job.pc \notin {"off", "exited"} /\ Working = {}
    /\ job' = [job EXCEPT !.pc = "exited", !.batch = {}]
    /\ UNCHANGED <<rest, persisted, process, resident, pulling, pending, queue, kind, fetched,
                   step, round, history, faults>>

Position(t) == CHOOSE i \in DOMAIN queue : queue[i] = t

Workers == IF job.pc = "fetch" THEN FetchWorkers ELSE 1

\* The way a worker goes: fetch into storage, or resolve through the registry,
\* which opens the tree (from a peer when it is not stored) and replays it.
Entry(t) == IF stored[t] = 0 THEN "open" ELSE "load"

\* A group is handled in queue order.
Take ==
    /\ ~job.closed /\ Cardinality(Working) < Workers
    /\ \E t \in job.batch :
          /\ \A u \in job.batch : Position(t) <= Position(u)
          /\ step' = [step EXCEPT ![t] = IF job.pc = "fetch" THEN "fetch" ELSE Entry(t)]
          /\ job' = [job EXCEPT !.batch = @ \ {t}]
    /\ UNCHANGED <<rest, persisted, process, resident, pulling, pending, queue, kind, fetched,
                   round, history, faults>>

\* Mutant: the fetched mark outlives the item.
FinishKeepsFetched(t) ==
    /\ step' = [step EXCEPT ![t] = "no"]
    /\ queue' = RemoveAt(queue, Position(t))
    /\ kind' = [kind EXCEPT ![t] = "none"]
    /\ round' = [p \in Peer |-> [round[p] EXCEPT !.awaits = @ \ {t}]]
    /\ UNCHANGED <<fetched, job>>

\* The item leaves the queue and the rounds waiting for it go on.
Finish(t) ==
    /\ step' = [step EXCEPT ![t] = "no"]
    /\ queue' = RemoveAt(queue, Position(t))
    /\ kind' = [kind EXCEPT ![t] = "none"]
    /\ fetched' = fetched \ {t}
    /\ round' = [p \in Peer |-> [round[p] EXCEPT !.awaits = @ \ {t}]]
    /\ UNCHANGED job

\* The worker is done with t; the item stays queued.
Stay(t) ==
    /\ step' = [step EXCEPT ![t] = "no"]
    /\ UNCHANGED <<queue, kind, fetched, job, round>>

MayFetch(t) == kind[t] = "missing" \/ pending[t] = "missing"

\* A missing tree is brought into storage; one stored meanwhile is local.
Fetch(t) ==
    /\ step[t] = "fetch" /\ t \notin deleted
    /\ IF stored[t] > 0 THEN UNCHANGED <<stored, addSeq>>
       ELSE \E v \in Copies(t) : Put(t, v)
    /\ fetched' = fetched \cup {t}
    /\ step' = [step EXCEPT ![t] = "no"]
    /\ UNCHANGED <<rest, process, applied, resident, pulling, pending, queue, kind, job, round,
                   history, faults>> /\ Unstored

\* A request that fails may have stored what arrived of the tree.
FetchFails(t) ==
    /\ step[t] = "fetch" /\ t \notin deleted /\ Fault
    /\ \/ UNCHANGED <<stored, addSeq>>
       \/ stored[t] = 0 /\ Copies(t) # {} /\ Put(t, 1)
    /\ IF job.closed THEN Stay(t) /\ UNCHANGED pending ELSE MarkPending(t, TRUE) /\ Finish(t)
    /\ UNCHANGED <<rest, process, applied, resident, pulling, history>> /\ Unstored

\* The registry's first half for a tree not stored: fetched from a peer.
Open(t) ==
    /\ step[t] = "open" /\ t \notin deleted
    /\ IF stored[t] > 0 THEN UNCHANGED <<stored, addSeq>>
       ELSE \E v \in Copies(t) : Put(t, v)
    /\ step' = [step EXCEPT ![t] = "load"]
    /\ UNCHANGED <<rest, process, applied, resident, pulling, pending, queue, kind, fetched, job,
                   round, history, faults>> /\ Unstored

Load(t) ==
    /\ step[t] = "load" /\ t \notin deleted
    /\ Materialize(t) /\ Recovered(t) /\ Finish(t)
    /\ UNCHANGED <<rest, process, stored, addSeq, pulling, faults>> /\ Unstored

LoadFails(t) ==
    /\ step[t] \in {"open", "load"} /\ t \notin deleted /\ t \notin resident /\ Fault
    /\ IF job.closed THEN Stay(t) /\ UNCHANGED pending
       ELSE MarkPending(t, t \notin fetched /\ MayFetch(t)) /\ Finish(t)
    /\ UNCHANGED <<rest, persisted, process, resident, pulling, history>>

\* A tree deleted meanwhile: nothing to sync.
Gone(t) ==
    /\ step[t] # "no" /\ t \in deleted
    /\ Recovered(t) /\ Finish(t)
    /\ UNCHANGED <<rest, persisted, process, resident, pulling, history, faults>>

JobStep(t) == Fetch(t) \/ FetchFails(t) \/ Open(t) \/ Load(t) \/ LoadFails(t) \/ Gone(t)
----------------------------------------------------------------------------
(* A round that works within itself (syncInline).                          *)

\* The trees the registry names first, then missing, changed and parked.
InlineOrder(p) ==
    LET own == round[p].missing
        ahead == IF Cardinality(Named(p)) >= 2 THEN First ELSE {}
        ordered(ts) == SetToSeq(ts \cap own) \o SetToSeq(ts \cap (round[p].changed \ own))
                         \o SetToSeq(ts \cap (round[p].parked \ (own \cup round[p].changed)))
    IN  ordered(ahead) \o ordered(Tree \ ahead)

InlineStart(p) ==
    /\ inline /\ round[p].pc = "diff"
    /\ round' = [round EXCEPT ![p].pc = "inline", ![p].todo = InlineOrder(p)]
    /\ UNCHANGED <<rest, persisted, process, resident, pulling, pending, queue, kind, fetched,
                   job, step, history, faults>>

InlineNext(p) ==
    /\ round[p].pc = "inline" /\ round[p].at = NoTree
    /\ round' = IF round[p].todo = <<>> THEN [round EXCEPT ![p] = IdleRound]
                ELSE LET t == Head(round[p].todo)
                     IN  [round EXCEPT ![p] = [round[p] EXCEPT !.at = t, !.todo = Tail(@), !.next = Entry(t)]]
    /\ UNCHANGED <<rest, persisted, process, resident, pulling, pending, queue, kind, fetched,
                   job, step, history, faults>>

InlineDone(p) == round' = [round EXCEPT ![p].at = NoTree, ![p].next = "no"]

\* The probe finds a tree of a type not selected: its heads are recorded as a
\* stub and nothing is parked.
InlineSkip(p, t) ==
    /\ round[p].next = "open" /\ t \notin deleted /\ stored[t] = 0 /\ t \notin Selected
    /\ \E v \in Copies(t) : stub' = [stub EXCEPT ![t] = v]
    /\ Recovered(t) /\ InlineDone(p)
    /\ UNCHANGED <<rest, stored, addSeq, deleted, applied, watermark, process, resident, pulling,
                   queue, kind, fetched, job, step, history, faults>>

InlineOpen(p, t) ==
    /\ round[p].next = "open" /\ t \notin deleted
    /\ IF stored[t] > 0 THEN UNCHANGED <<stored, addSeq>>
       ELSE t \in Selected /\ \E v \in Copies(t) : Put(t, v)
    /\ round' = [round EXCEPT ![p].next = "load"]
    /\ UNCHANGED <<rest, process, applied, resident, pulling, pending, queue, kind, fetched, job,
                   step, history, faults>> /\ Unstored

InlineLoad(p, t) ==
    /\ round[p].next = "load" /\ t \notin deleted
    /\ Materialize(t) /\ Recovered(t) /\ InlineDone(p)
    /\ UNCHANGED <<rest, process, stored, addSeq, pulling, queue, kind, fetched, job, step, faults>>
    /\ Unstored

\* A tree parked while the close reads its two counts is in neither.
InlineFails(p, t) ==
    /\ round[p].next \in {"open", "load"} /\ t \notin deleted /\ t \notin resident /\ Fault
    /\ MarkPending(t, t \in round[p].missing \/ pending[t] = "missing") /\ InlineDone(p)
    /\ IF phase = "gate" THEN Cut({t}) ELSE UNCHANGED history
    /\ UNCHANGED <<rest, persisted, process, resident, pulling, queue, kind, fetched, job, step>>

InlineGone(p, t) ==
    /\ t \in deleted
    /\ Recovered(t) /\ InlineDone(p)
    /\ UNCHANGED <<rest, persisted, process, resident, pulling, queue, kind, fetched, job, step,
                   history, faults>>

InlineStep(p) ==
    \/ InlineStart(p) \/ InlineNext(p)
    \/ LET t == round[p].at
       IN  /\ t # NoTree
           /\ InlineSkip(p, t) \/ InlineOpen(p, t) \/ InlineLoad(p, t) \/ InlineGone(p, t)

----------------------------------------------------------------------------
(* What happens beside the rounds.                                         *)

PeerGrows(p, t) ==
    /\ remote[p][t] < MaxVersion /\ t \notin deleted
    /\ remote' = [remote EXCEPT ![p][t] = @ + 1]
    /\ UNCHANGED <<inline, persisted, process, syncer, resident, pulling, history, faults>>

\* A head update, or the answer to a ping: a tree not stored is pulled whole,
\* an open one gets the new changes, one that is stored and not open is loaded.
HeadUpdate(p, t) ==
    /\ Running /\ t \notin deleted /\ t \notin pulling
    /\ remote[p][t] > stored[t] /\ (inline => t \in Selected)
    /\ IF stored[t] = 0 \/ t \in resident THEN Put(t, remote[p][t]) ELSE UNCHANGED <<stored, addSeq>>
    /\ pulling' = pulling \cup {t}
    /\ UNCHANGED <<rest, applied, process, syncer, resident, history, faults>> /\ Unstored

\* The listener of the open tree, or the load, replays what is stored.
Update(t) ==
    /\ t \in pulling
    /\ applied' = [applied EXCEPT ![t] = stored[t]]
    /\ resident' = resident \cup {t}
    /\ Forget(t)
    /\ pulling' = pulling \ {t}
    /\ UNCHANGED <<rest, stored, addSeq, process, syncer, faults>> /\ Unstored

UpdateFails(t) ==
    /\ t \in pulling /\ Fault
    /\ Fails(t)
    /\ pulling' = pulling \ {t}
    /\ UNCHANGED <<rest, persisted, process, syncer, resident>>

\* The cache's TTL, or ReleaseTree after the job materialized the tree.
Evict(t) ==
    /\ t \in resident /\ t \notin pulling
    /\ resident' = resident \ {t}
    /\ UNCHANGED <<rest, persisted, process, syncer, pulling, history, faults>>

Delete(t) ==
    /\ Running /\ t \notin deleted /\ t \notin pulling /\ Fault
    /\ deleted' = deleted \cup {t}
    /\ resident' = resident \ {t}
    /\ UNCHANGED <<rest, stored, addSeq, stub, applied, watermark, process, syncer, pulling, history>>

----------------------------------------------------------------------------
(* The process: boot pass, close, crash.                                   *)

Start ==
    /\ phase = "down"
    /\ phase' = "up" /\ boot' = [NoBoot EXCEPT !.pc = "start"]
    /\ UNCHANGED <<rest, persisted, caughtUp, syncer, resident, pulling, history, faults>>

\* spacesync.Run: the head store's maximum is read before its entries.
BootSnapshot ==
    /\ boot.pc = "start" /\ phase # "gate"
    /\ IF MaxLastAddSeq <= watermark
       THEN boot' = [NoBoot EXCEPT !.pc = "done"] /\ caughtUp' = TRUE
       ELSE /\ boot' = [pc |-> "load", snapshot |-> MaxLastAddSeq,
                        load |-> {t \in Tree \ deleted : addSeq[t] > watermark}]
            /\ UNCHANGED caughtUp
    /\ UNCHANGED <<rest, persisted, phase, syncer, resident, pulling, history, faults>>

\* The object is dropped again once it is loaded.
BootLoad(t) ==
    /\ boot.pc = "load" /\ t \in boot.load /\ phase # "gate"
    /\ boot' = [boot EXCEPT !.load = @ \ {t}]
    /\ IF t \in deleted THEN UNCHANGED <<applied, history, resident>>
       ELSE /\ applied' = IF t \in resident THEN applied ELSE [applied EXCEPT ![t] = stored[t]]
            /\ IF t \in resident THEN UNCHANGED history ELSE Forget(t)
            /\ resident' = resident \ {t}
    /\ pulling' = pulling
    /\ UNCHANGED <<rest, stored, addSeq, phase, caughtUp, syncer, faults>> /\ Unstored

\* A load that fails does not halt the pass.
BootLoadFails(t) ==
    /\ boot.pc = "load" /\ t \in boot.load \ resident /\ phase # "gate" /\ Fault
    /\ boot' = [boot EXCEPT !.load = @ \ {t}]
    /\ Fails(t)
    /\ UNCHANGED <<rest, persisted, phase, caughtUp, syncer, resident, pulling>>

BootPersist ==
    /\ boot.pc = "load" /\ boot.load = {} /\ phase # "gate"
    /\ watermark' = boot.snapshot /\ caughtUp' = TRUE /\ boot' = [NoBoot EXCEPT !.pc = "done"]
    /\ Cut(pulling)
    /\ UNCHANGED <<rest, stored, addSeq, stub, deleted, applied, phase, syncer, resident, pulling, faults>>

BootStep == BootSnapshot \/ BootPersist \/ \E t \in Tree : BootLoad(t)

\* SDK.Close: the jobs are closed first ...
CloseSyncJob ==
    /\ phase = "up" /\ Fault
    /\ phase' = "closing" /\ job' = [job EXCEPT !.closed = TRUE]
    /\ UNCHANGED <<rest, persisted, boot, caughtUp, pending, queue, kind, fetched, step, round,
                   resident, pulling, history>>

\* ... and the boot pass joined.  The gate reads the parked trees first.
CloseGate ==
    /\ phase = "closing" /\ job.pc \in {"off", "exited"}
    /\ Parked = {} /\ caughtUp
    /\ phase' = "gate" /\ boot' = [boot EXCEPT !.pc = "off"]
    /\ UNCHANGED <<rest, persisted, caughtUp, syncer, resident, pulling, history, faults>>

Reset ==
    /\ phase' = "down" /\ boot' = NoBoot /\ caughtUp' = FALSE
    /\ resident' = {} /\ pulling' = {}
    /\ pending' = [t \in Tree |-> "no"] /\ queue' = <<>> /\ kind' = [t \in Tree |-> "none"]
    /\ fetched' = {} /\ job' = IdleJob /\ step' = [t \in Tree |-> "no"]
    /\ round' = [p \in Peer |-> IdleRound]

\* Mutant: the gate ignores what the job still holds.
NothingSyncsInline == \A p \in Peer : round[p].at = NoTree

NothingSyncs == queue = <<>> /\ \A p \in Peer : round[p].at = NoTree

\* Then the trees still syncing; with none the watermark is advanced.
Snapshot ==
    /\ phase = "gate" /\ NothingSyncs
    /\ watermark' = IF MaxLastAddSeq > watermark THEN MaxLastAddSeq ELSE watermark
    /\ Cut(pulling)
    /\ Reset
    /\ UNCHANGED <<rest, stored, addSeq, stub, deleted, applied, faults>>

\* The close skips the snapshot.
CloseWithout ==
    /\ \/ phase = "closing" /\ job.pc \in {"off", "exited"} /\ ~(Parked = {} /\ caughtUp)
       \/ phase = "gate" /\ ~NothingSyncs
    /\ Reset
    /\ UNCHANGED <<rest, persisted, history, faults>>

Crash ==
    /\ Running /\ Fault
    /\ Reset
    /\ UNCHANGED <<rest, persisted, history>>

----------------------------------------------------------------------------
Init ==
    /\ inline \in Modes
    /\ remote = [p \in Peer |-> [t \in Tree |-> IF t \in Held[p] THEN 1 ELSE 0]]
    /\ stored = [t \in Tree |-> 0] /\ addSeq = stored /\ stub = stored /\ applied = stored
    /\ deleted = {} /\ watermark = 0
    /\ phase = "down" /\ boot = NoBoot /\ caughtUp = FALSE
    /\ resident = {} /\ pulling = {}
    /\ pending = [t \in Tree |-> "no"] /\ queue = <<>> /\ kind = [t \in Tree |-> "none"]
    /\ fetched = {} /\ job = IdleJob /\ step = [t \in Tree |-> "no"]
    /\ round = [p \in Peer |-> IdleRound]
    /\ failed = {} /\ cut = {} /\ faults = 0

Next ==
    \/ \E p \in Peer : Diff(p) \/ Join(p) \/ Return(p) \/ Timeout(p) \/ InlineStep(p)
    \/ \E p \in Peer : round[p].at # NoTree /\ InlineFails(p, round[p].at)
    \/ Turn \/ Wake \/ Exit \/ Take
    \/ \E t \in Tree : JobStep(t) \/ Update(t) \/ UpdateFails(t) \/ Evict(t) \/ Delete(t)
    \/ \E p \in Peer, t \in Tree : PeerGrows(p, t) \/ HeadUpdate(p, t)
    \/ Start \/ BootStep \/ \E t \in Tree : BootLoadFails(t)
    \/ CloseSyncJob \/ CloseGate \/ Snapshot \/ CloseWithout \/ Crash

\* Rounds are periodic, the loop, its workers and the boot pass are goroutines
\* nothing holds up, a request is answered or times out, a close goes through
\* and the SDK is started again.  Nobody has to evict, delete or push.
Fairness ==
    /\ \A p \in Peer : WF_vars(Diff(p)) /\ WF_vars(Join(p)) /\ WF_vars(Return(p)) /\ WF_vars(InlineStep(p))
    /\ WF_vars(Turn) /\ WF_vars(Wake) /\ WF_vars(Exit) /\ WF_vars(Take)
    /\ \A t \in Tree : WF_vars(JobStep(t)) /\ WF_vars(Update(t))
    /\ WF_vars(Start) /\ WF_vars(BootStep)
    /\ WF_vars(CloseGate) /\ WF_vars(Snapshot) /\ WF_vars(CloseWithout)

Spec == Init /\ [][Next]_vars
FairSpec == Spec /\ Fairness

----------------------------------------------------------------------------
(* Properties.                                                             *)

\* The watermark never covers a tree the projection is behind on: the next
\* boot pass would not load it.  Exempt are the trees nobody retries (an
\* update or a boot load failed) and those the snapshot ran into (an update
\* in flight, a tree an inline round parked between the gate's two reads).
WatermarkCovers == \A t \in Behind \ (failed \cup cut) : addSeq[t] > watermark

\* In a caught-up session a tree that is stored and not applied is in
\* somebody's hands: queued, parked, being synced inline or replayed.
BehindIsAttended ==
    caughtUp /\ phase = "up" =>
        \A t \in Behind \ (failed \cup cut) :
            \/ t \in Range(queue) \cup Parked \cup pulling
            \/ \E p \in Peer : t \in {round[p].at} \cup Range(round[p].todo)

\* A round that joined in a caught-up session and returns while the job is
\* open leaves none of the trees that were behind when it joined, unless they
\* are parked, being replayed, or nobody's.
RoundLeavesNothing ==
    [][\A p \in Peer :
          (round[p].pc = "wait" /\ round'[p].pc = "idle" /\ round[p].awaits = {}
             /\ phase' # "down") =>
              round[p].owed \cap Behind \subseteq
                  Parked \cup failed \cup cut \cup pulling]_vars

\* A round ends, however many others keep adding trees to the job.
RoundEnds == \A p \in Peer : round[p].pc = "wait" ~> round[p].pc # "wait"

\* A tree a peer holds is materialized in the end, whatever failed on the way.
TreesArrive ==
    \A t \in Tree :
        (\E p \in Peer : remote[p][t] > 0) ~>
            (applied[t] > 0 \/ stub[t] > 0 \/ t \in deleted \cup failed \cup cut)

SyncSettles == RoundEnds /\ TreesArrive
=============================================================================
