---------------------------- MODULE ChangeFeed ----------------------------
(***************************************************************************)
(* The per-space apply sequence and the feeds ordered by it                *)
(* (src/internal/crdt/applyseq.go, meta.go, controller.go,                 *)
(* src/internal/spaceobjects/changefeed.go, store.go,                      *)
(* src/internal/readstate/readstate.go, src/space/changeindex.go).         *)
(*                                                                         *)
(* Applies, read marks and purges run in write transactions, one at a      *)
(* time.  Each takes the next sequence number inside its transaction and   *)
(* persists it there: an apply and a purge on the object's _meta row, a    *)
(* mark, and an apply that is tracked, on its read-state row.  No counter  *)
(* is stored; a restart seeds it from the rows.  A consumer of either feed *)
(* pages through the rows above its cursor, indexes a page, then persists  *)
(* the cursor, and sleeps when there is nothing left until it is notified. *)
(* Deleting an object removes its tree, makes the cached object refuse     *)
(* every write, then purges its rows and announces it in the feed.         *)
(***************************************************************************)
EXTENDS Naturals, FiniteSets, FiniteSetsExt

CONSTANTS
    Object,      \* objects of the space
    Writer,      \* goroutines that write
    Tracked,     \* those whose changes are tracked as read and unread
    Foreseen,    \* those a mark may reach before they were ever applied here
    PageSize,    \* how many rows a consumer asks for
    MaxSeq,      \* bound: sequence numbers
    MaxFaults    \* bound: rolled back transactions, crashes and wipes

ASSUME ObjectAssumption ==
    IsFiniteSet(Object) /\ Tracked \subseteq Object /\ Foreseen \subseteq Tracked
ASSUME BoundAssumption ==
    PageSize \in Nat \ {0} /\ MaxSeq \in Nat /\ MaxFaults \in Nat

Kind == {"apply", "mark", "purge"}
Feed == {"changes", "reads"}

VARIABLES
    meta,     \* per object: the sequence and deletion mark of its _meta row
    reads,    \* per object: the stateSeq of its read-state row, 0 without one
    rows,     \* the objects with rows of data
    gen,      \* the generation of the database
    life,     \* per object: "live", "deleting" (tree gone), "refused" or "purged"
    alloc,    \* the allocator: whether it is seeded, and the last number it gave
    writer,   \* per goroutine: its step, kind, object and sequence number
    reader,   \* a consumer: the feed it follows, its step and page; its cursor,
              \* what it has seen and the generation are durable
    faults    \* faults so far

vars == <<meta, reads, rows, gen, life, alloc, writer, reader, faults>>
tables == <<meta, reads, rows>>

Fault == faults < MaxFaults /\ faults' = faults + 1

Idle == [step |-> "idle", kind |-> "none", obj |-> "none", seq |-> 0]
NoMeta == [o \in Object |-> [seq |-> 0, del |-> FALSE]]
Unseen == [o \in Object |-> 0]
NewReader(f) ==
    [feed |-> f, step |-> "start", page |-> {}, cursor |-> 0, seen |-> Unseen, gen |-> 0]

\* The sequence of an object in the feed the consumer follows.
SeqOf(o) == IF reader.feed = "changes" THEN meta[o].seq ELSE reads[o]

TypeOK ==
    /\ meta \in [Object -> [seq : 0..MaxSeq, del : BOOLEAN]]
    /\ reads \in [Object -> 0..MaxSeq] /\ rows \subseteq Object
    /\ gen \in Nat /\ faults \in 0..MaxFaults
    /\ life \in [Object -> {"live", "deleting", "refused", "purged"}]
    /\ alloc \in [seeded : BOOLEAN, last : 0..MaxSeq]
    /\ writer \in [Writer -> [step : {"idle", "wait", "write", "notify"},
                              kind : Kind \cup {"none"}, obj : Object \cup {"none"},
                              seq : 0..MaxSeq]]
    \* any-store has one writer.
    /\ \A v, w \in Writer : writer[v].step = "write" /\ writer[w].step = "write" => v = w
    \* A number persisted in this generation was given out by the allocator.
    /\ alloc.seeded =>
         \A o \in Object : meta[o].seq <= alloc.last /\ reads[o] <= alloc.last
    /\ reader \in [feed : Feed, step : {"start", "sleep", "pull", "index", "save"},
                    page : SUBSET (Object \X (1..MaxSeq)), cursor : 0..MaxSeq,
                    seen : [Object -> 0..MaxSeq], gen : Nat]

----------------------------------------------------------------------------
(* The store.                                                              *)

\* The highest sequence persisted anywhere.
Seed == [seeded |-> TRUE,
         last |-> Max({0} \cup {meta[o].seq : o \in Object} \cup {reads[o] : o \in Object})]

\* EnsureApplySeq, when the store is loaded.
LoadStore ==
    /\ ~alloc.seeded /\ alloc' = Seed
    /\ UNCHANGED <<tables, gen, life, writer, reader, faults>>

\* An apply of the object holds its tree lock, from before its transaction.
InFlight(o) ==
    \E w \in Writer : writer[w].obj = o /\ writer[w].kind = "apply"
                      /\ writer[w].step \in {"wait", "write"}

\* Whether an operation of the object may start.  The cached object takes
\* changes until it refuses them.
Admits(k, o) ==
    CASE k = "apply" -> life[o] \in {"live", "deleting"} /\ ~InFlight(o)
      [] k = "mark" -> o \in (Tracked \cap rows) \cup Foreseen
      [] k = "purge" -> life[o] \in {"refused", "purged"}

\* The goroutine waits for the write transaction.
Begin(w, k, o) ==
    /\ alloc.seeded /\ writer[w].step = "idle" /\ Admits(k, o)
    /\ writer' = [writer EXCEPT ![w] = [step |-> "wait", kind |-> k, obj |-> o, seq |-> 0]]
    /\ UNCHANGED <<tables, gen, life, alloc, reader, faults>>

Enter(w) ==
    /\ writer[w].step = "wait" /\ \A v \in Writer : writer[v].step # "write"
    /\ writer' = [writer EXCEPT ![w].step = "write"]
    /\ UNCHANGED <<tables, gen, life, alloc, reader, faults>>

\* A purge of an object that left nothing in the feed is not announced.
Announced(o) == o \in rows \/ meta[o].seq # 0

\* A mark of a deleted object is refused, unless its row is still there.
Refused(w) ==
    writer[w].kind = "mark" /\ life[writer[w].obj] # "live" /\ reads[writer[w].obj] = 0

Stamps(w) == writer[w].kind = "purge" => Announced(writer[w].obj)

\* Mutant: the number is taken before the transaction.
MayAllocateEarly(w) == writer[w].step = "wait" /\ writer[w].seq = 0

\* The number is taken inside the transaction.
MayAllocate(w) ==
    writer[w].step = "write" /\ writer[w].seq = 0 /\ Stamps(w) /\ ~Refused(w)

Allocate(w) ==
    /\ MayAllocate(w) /\ alloc.last < MaxSeq
    /\ alloc' = [alloc EXCEPT !.last = @ + 1]
    /\ writer' = [writer EXCEPT ![w].seq = alloc'.last]
    /\ UNCHANGED <<tables, gen, life, reader, faults>>

\* The rows an operation leaves.
Write(k, o, n) ==
    CASE k = "apply" ->
            /\ meta' = [meta EXCEPT ![o].seq = Max({@, n})]
            /\ rows' = rows \cup {o}
            /\ reads' = IF o \in Tracked THEN [reads EXCEPT ![o] = Max({@, n})] ELSE reads
      [] k = "mark" -> reads' = [reads EXCEPT ![o] = Max({@, n})] /\ UNCHANGED <<meta, rows>>
      [] k = "purge" ->
            /\ meta' = IF n = 0 THEN meta ELSE [meta EXCEPT ![o] = [seq |-> n, del |-> TRUE]]
            /\ rows' = rows \ {o} /\ reads' = [reads EXCEPT ![o] = 0]

Commit(w) ==
    LET t == writer[w]
    IN  /\ t.step = "write" /\ (t.seq # 0 \/ ~Stamps(w))
        /\ Write(t.kind, t.obj, t.seq)
        /\ life' = IF t.kind = "purge" THEN [life EXCEPT ![t.obj] = "purged"] ELSE life
        /\ writer' = [writer EXCEPT ![w].step = "notify"]
        /\ UNCHANGED <<gen, alloc, reader, faults>>

\* The transaction fails or is refused; its number is not used again.
Rollback(w) ==
    /\ writer[w].step = "write"
    /\ IF Refused(w) THEN UNCHANGED faults ELSE Fault
    /\ writer' = [writer EXCEPT ![w] = Idle]
    /\ UNCHANGED <<tables, gen, life, alloc, reader>>

Wake(fs) ==
    reader' = IF reader.feed \in fs /\ reader.step = "sleep"
              THEN [reader EXCEPT !.step = "pull"] ELSE reader

\* The feeds an operation notifies.
Notified(k, n) ==
    CASE k = "apply" -> Feed [] k = "mark" -> {"reads"}
      [] k = "purge" -> IF n = 0 THEN {} ELSE {"changes"}

\* Mutant: the event is dispatched before the commit, in the transaction.
NotifyEarly(w) ==
    /\ \/ /\ writer[w].step = "write" /\ Wake(Notified(writer[w].kind, writer[w].seq))
          /\ UNCHANGED writer
       \/ /\ writer[w].step = "notify" /\ UNCHANGED reader
          /\ writer' = [writer EXCEPT ![w] = Idle]
    /\ UNCHANGED <<tables, gen, life, alloc, faults>>

\* After the commit, from memory: a crash drops it.
Notify(w) ==
    /\ writer[w].step = "notify"
    /\ Wake(Notified(writer[w].kind, writer[w].seq))
    /\ writer' = [writer EXCEPT ![w] = Idle]
    /\ UNCHANGED <<tables, gen, life, alloc, faults>>

----------------------------------------------------------------------------
(* Deletion of an object.                                                  *)

DeleteTree(o) ==
    /\ life[o] = "live" /\ life' = [life EXCEPT ![o] = "deleting"]
    /\ UNCHANGED <<tables, gen, alloc, writer, reader, faults>>

\* MarkDeleted, under the tree lock.
Refuse(o) ==
    /\ life[o] = "deleting" /\ ~InFlight(o)
    /\ life' = [life EXCEPT ![o] = "refused"]
    /\ UNCHANGED <<tables, gen, alloc, writer, reader, faults>>

----------------------------------------------------------------------------
(* A consumer.                                                             *)

\* At its start it compares generations: another one means a new axis.
Start ==
    /\ alloc.seeded /\ reader.step = "start"
    /\ reader' = IF reader.gen = gen THEN [reader EXCEPT !.step = "pull"]
                 ELSE [NewReader(reader.feed) EXCEPT !.step = "pull", !.gen = gen]
    /\ UNCHANGED <<tables, gen, life, alloc, writer, faults>>

\* The first rows above the cursor.
Page ==
    LET later == {o \in Object : SeqOf(o) > reader.cursor}
        before(o) == {p \in later : SeqOf(p) < SeqOf(o)}
    IN  {<<o, SeqOf(o)>> : o \in {p \in later : Cardinality(before(p)) < PageSize}}

Pull ==
    /\ reader.step = "pull"
    /\ reader' = [reader EXCEPT !.page = Page, !.step = IF Page = {} THEN "sleep" ELSE "index"]
    /\ UNCHANGED <<tables, gen, life, alloc, writer, faults>>

Index ==
    /\ reader.step = "index"
    /\ reader' = [reader EXCEPT !.step = "save",
           !.seen = [o \in Object |->
                        Max({@[o]} \cup {n \in 1..MaxSeq : <<o, n>> \in reader.page})]]
    /\ UNCHANGED <<tables, gen, life, alloc, writer, faults>>

\* The last sequence of the page is the next cursor.
Save ==
    /\ reader.step = "save"
    /\ reader' = [reader EXCEPT !.step = "pull", !.page = {},
                                !.cursor = Max({e[2] : e \in reader.page})]
    /\ UNCHANGED <<tables, gen, life, alloc, writer, faults>>

----------------------------------------------------------------------------
\* The process dies: a tree that was being deleted is loaded no more.  With
\* the process, the database may be lost; its trees are replayed into a new one.
Crash(wipe) ==
    /\ Fault
    /\ alloc' = [seeded |-> FALSE, last |-> 0]
    /\ writer' = [w \in Writer |-> Idle]
    /\ reader' = [reader EXCEPT !.step = "start", !.page = {}]
    /\ life' = [o \in Object |-> IF life[o] = "deleting" THEN "refused" ELSE life[o]]
    /\ IF wipe
       THEN meta' = NoMeta /\ reads' = Unseen /\ rows' = {} /\ gen' = gen + 1
       ELSE UNCHANGED <<tables, gen>>

Init ==
    /\ meta = NoMeta /\ reads = Unseen /\ rows = {} /\ gen = 1
    /\ life = [o \in Object |-> "live"]
    /\ alloc = [seeded |-> FALSE, last |-> 0]
    /\ writer = [w \in Writer |-> Idle]
    /\ reader \in {NewReader(f) : f \in Feed} /\ faults = 0

WriterStep(w) == Enter(w) \/ Allocate(w) \/ Commit(w) \/ Notify(w)
ReaderStep == Start \/ Pull \/ Index \/ Save

Next ==
    \/ LoadStore \/ \E wipe \in BOOLEAN : Crash(wipe)
    \/ \E w \in Writer : WriterStep(w) \/ Rollback(w) \/ \E k \in Kind, o \in Object : Begin(w, k, o)
    \/ ReaderStep
    \/ \E o \in Object : DeleteTree(o) \/ Refuse(o)

Spec == Init /\ [][Next]_vars

\* The store loads, a transaction that began ends, a consumer that is awake
\* runs: none waits for the outside.
FairSpec ==
    /\ Spec /\ WF_vars(LoadStore) /\ WF_vars(ReaderStep)
    /\ \A w \in Writer : WF_vars(WriterStep(w))

----------------------------------------------------------------------------
(* Properties.                                                             *)

\* A consumer's cursor passes nothing it has not seen: what commits later has
\* a later number, whatever was rolled back, purged or lost in between.
NothingSkipped ==
    \A o \in Object :
        reader.gen = gen /\ SeqOf(o) <= reader.cursor => reader.seen[o] >= SeqOf(o)

\* A deleted object whose deletion was announced has no rows, and none come
\* back: an apply in flight ends before the purge.
DeletedStaysGone == \A o \in Object : meta[o].del => o \notin rows

\* What the feed has told stands.  The types come with it: one writer at a time,
\* and no number persisted that the allocator may give again.
FeedIsTrue == TypeOK /\ NothingSkipped /\ DeletedStaysGone

\* A change that was committed reaches every consumer, though its event may be
\* lost with the process.
FeedCatchesUp == <>[](\A o \in Object : reader.seen[o] >= SeqOf(o))
=============================================================================
