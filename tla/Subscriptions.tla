--------------------------- MODULE Subscriptions ---------------------------
(***************************************************************************)
(* Live queries (internal/subscribe): the engine of one space, one         *)
(* subscription, the apply path that feeds it and the consumer.  Writers   *)
(* commit under the lock of their object and hand the event to the engine  *)
(* afterwards; the engine's mutex `mu' orders the snapshot, the events and *)
(* the closes.  A limited subscription holds one row more than it shows:   *)
(* the sentinel.  It never reads the store again, so it loses rows as held *)
(* records leave, and closes itself when too many have.                    *)
(*                                                                         *)
(* `view' is what the consumer shows once it has taken every event: a      *)
(* record is removed, then set.  Ghosts: `untold', the records whose move  *)
(* was left out of an event or told twice in it, or that tie at the edge   *)
(* of the snapshot; `strayed', the moves of a held record past a row the   *)
(* window does not hold; `missed', the records whose last read came to     *)
(* nothing: stored when the snapshot was taken of an object that was not   *)
(* local when it was resolved, or not found when an event looked them up.  *)
(***************************************************************************)
EXTENDS Integers, Sequences, FiniteSets, Functions

CONSTANTS
    Id,           \* records of one dataset
    Object,
    Owner,        \* the object a record belongs to
    MaxKey,       \* sort keys are 1..MaxKey
    Limits,       \* the limits a query may have; 0: none
    Scopes,       \* what a query may read: an object's records, or All
    Budget,       \* DriftBudget, percent of the limit
    MailboxCap,
    FirstRows,    \* the rows the store may start with
    MaxRecords,   \* records of one change
    MaxWrites,    \* bound: changes and deletions in all
    MaxSubs,      \* bound: subscriptions in all
    MaxMisreads,  \* bound: failed reads in all
    NoId, Nobody, All

ASSUME SubscriptionsAssumption ==
    /\ Owner \in [Id -> Object] /\ Scopes \subseteq Object \cup {All}
    /\ Limits \subseteq Nat /\ MaxKey \in Nat
    /\ {Budget, MailboxCap, MaxRecords} \subseteq Nat \ {0} /\ {MaxWrites, MaxSubs, MaxMisreads} \subseteq Nat
    /\ NoId \notin Id /\ {Nobody, All} \cap Object = {} /\ Nobody # All
    /\ IsFiniteSet(Id) /\ FirstRows \subseteq [Id -> 0..(MaxKey + 2)]

Gone == 0             \* no row
Out  == MaxKey + 1    \* a row the filter does not match
Dead == MaxKey + 2    \* a tombstone: nothing revives it
Matches(v) == v \in 1..MaxKey

VARIABLES
    row,        \* the store: the sort key of each record
    deleted,    \* a purge's progress: "no", "marked", "purged", "gone"
    apply,      \* what an object's writer has committed and not announced
    stamped,    \* stampPending: the row a replay batch has stamped
    mu,         \* who holds Engine.mu
    counter,    \* Engine.counter
    shut,       \* Engine.closed
    sub,        \* the subscription
    event,      \* subPending, of the event being applied
    absent,     \* the object was not local when the query resolved it
    view, untold, strayed, missed,
    writes, subs, misreads

dataset == <<row, deleted>>
client == <<view, untold, strayed, missed>>
reads  == <<absent, misreads>>
bounds == <<writes, subs>>
engineVars == <<dataset, apply, stamped, mu, counter, shut, sub, event, client, reads, bounds>>

Record == [id : Id, deleted : BOOLEAN]
Idle   == [pc |-> "idle", records |-> <<>>, batch |-> FALSE]
NoEvent == [todo |-> <<>>, seen |-> {}, set |-> <<>>, removed |-> {}, muddled |-> {}]
NoSub  == [pc |-> "none", limit |-> 0, scope |-> All, closed |-> FALSE,
           entries |-> <<>>, maxRef |-> NoId, lost |-> 0, queued |-> 0]

EngineTypeOK ==
    /\ row \in [Id -> Gone..Dead]
    /\ deleted \in [Object -> {"no", "marked", "purged", "gone"}]
    /\ \A o \in Object : /\ apply[o].pc \in {"idle", "committed", "event", "calling"}
                         /\ apply[o].records \in Seq(Record)
    /\ stamped \in [Object -> Id \cup {NoId}]
    /\ mu \in Object \cup {Nobody, All}
    /\ counter \in 0..1 /\ shut \in BOOLEAN
    /\ sub.pc \in {"none", "resolved", "reading", "read", "checking", "live"}
    /\ DOMAIN sub.entries \subseteq Id /\ sub.maxRef \in Id \cup {NoId}
    /\ sub.limit > 0 => /\ Cardinality(DOMAIN sub.entries) <= sub.limit + 1
                        /\ sub.maxRef # NoId => sub.maxRef \in DOMAIN sub.entries
    /\ sub.queued \in 0..MailboxCap /\ sub.lost \in Nat
    /\ DOMAIN view \subseteq Id /\ untold \subseteq Id /\ strayed \in Nat
    /\ absent \in BOOLEAN /\ missed \subseteq Id

EngineInit ==
    /\ row \in FirstRows
    /\ deleted = [o \in Object |-> "no"]
    /\ apply = [o \in Object |-> Idle]
    /\ stamped = [o \in Object |-> NoId]
    /\ mu = Nobody /\ counter = 0 /\ shut = FALSE
    /\ sub = NoSub /\ event = NoEvent
    /\ absent = FALSE /\ misreads = 0
    /\ view = <<>> /\ untold = {} /\ strayed = 0 /\ missed = {}
    /\ writes = 0 /\ subs = 0

-----------------------------------------------------------------------------
(* The window.                                                             *)

Windowed     == sub.limit > 0
Full(e)      == Windowed /\ Cardinality(DOMAIN e) = sub.limit + 1
Largest(e)   == {i \in DOMAIN e : \A j \in DOMAIN e : e[j] <= e[i]}
With(e, i, k) == [j \in DOMAIN e \cup {i} |-> IF j = i THEN k ELSE e[j]]
Without(e, s) == Restrict(e, DOMAIN e \ s)

\* A cleared boundary is searched for again, and among equal keys the order
\* of a Go map decides.
EnsureMax(e, m) == IF m = NoId THEN Largest(e) ELSE {m}

\* The boundary after a look at the sentinel, which searches only at capacity.
Looked(e, m)   == IF Full(e) THEN EnsureMax(e, m) ELSE {m}
Sentinel(e, m) == IF Full(e) THEN m ELSE NoId

\* An unbounded subscription keeps membership only.
Kept(k) == IF Windowed THEN k ELSE 0

MaxAfterUpdate(e, m, i, k) ==
    CASE m = NoId -> NoId
      [] m = i    -> IF k < e[i] THEN NoId ELSE i
      [] OTHER    -> IF k > e[m] THEN i ELSE m

MaxAfterInsert(e, m, i, k) ==
    IF m = NoId THEN Largest(With(e, i, k)) ELSE IF k > e[m] THEN {i} ELSE {m}

\* The order of a query: any row before any row with a greater key.
IsPage(s, from, n) ==
    /\ Cardinality(s) = (IF Cardinality(from) < n THEN Cardinality(from) ELSE n)
    /\ \A i \in s, j \in from \ s : row[i] <= row[j]

\* What the consumer should show; between events a full window knows its
\* sentinel.
Visible == DOMAIN sub.entries \ {Sentinel(sub.entries, sub.maxRef)}

-----------------------------------------------------------------------------
(* Writers: a commit, then the hook (afterApplyFor), under the object's    *)
(* lock.  `batch' marks the stamp a replay puts on the object's shared row *)
(* (ObjectStamper): its event waits for the end of the batch.              *)

Commit(o, records, batch) ==
    apply' = [apply EXCEPT ![o] = [pc |-> "committed", records |-> records, batch |-> batch]]

RecordsOf(o) == {i \in Id : Owner[i] = o}

\* One change of up to MaxRecords records, created, updated or deleted.
Write(o) ==
    /\ apply[o].pc = "idle" /\ deleted[o] = "no" /\ writes < MaxWrites
    /\ \E n \in 1..MaxRecords :
        \E ids \in {f \in [1..n -> RecordsOf(o)] : \A a, b \in 1..n : f[a] = f[b] => a = b} :
            \E new \in [1..n -> 1..Dead] :
                /\ \A a \in 1..n : row[ids[a]] # Dead /\ (row[ids[a]] = Gone => new[a] # Dead)
                /\ row' = [i \in Id |-> IF \E a \in 1..n : ids[a] = i
                                        THEN new[CHOOSE a \in 1..n : ids[a] = i] ELSE row[i]]
                /\ Commit(o, [a \in 1..n |-> [id |-> ids[a], deleted |-> new[a] = Dead]], FALSE)
    /\ writes' = writes + 1
    /\ UNCHANGED <<deleted, stamped, mu, counter, shut, sub, event, client, reads, subs>>

Stamp(o) ==
    /\ apply[o].pc = "idle" /\ deleted[o] = "no" /\ writes < MaxWrites
    /\ \E i \in RecordsOf(o), k \in 1..MaxKey :
        /\ Matches(row[i]) /\ k # row[i] /\ stamped[o] \in {NoId, i}
        /\ row' = [row EXCEPT ![i] = k]
        /\ Commit(o, <<[id |-> i, deleted |-> FALSE]>>, TRUE)
    /\ writes' = writes + 1
    /\ UNCHANGED <<deleted, stamped, mu, counter, shut, sub, event, client, reads, subs>>

\* HasSubscribers is read without the engine's mutex.
Announce(o) ==
    /\ apply[o].pc = "committed"
    /\ IF counter = 0 THEN apply' = [apply EXCEPT ![o] = Idle] /\ UNCHANGED stamped
       ELSE IF apply[o].batch
       THEN /\ stamped' = [stamped EXCEPT ![o] = apply[o].records[1].id]
            /\ apply' = [apply EXCEPT ![o] = Idle]
       ELSE apply' = [apply EXCEPT ![o].pc = "event"] /\ UNCHANGED stamped
    /\ UNCHANGED <<dataset, mu, counter, shut, sub, event, client, reads, bounds>>

\* An event on its way to the engine, with no commit of its own.
Due(records) == [pc |-> "event", records |-> records, batch |-> FALSE]

\* Records whose rows are read in vain (GetStored: an error is no row).
Misread(ids) ==
    /\ misreads + Cardinality(ids) <= MaxMisreads
    /\ misreads' = misreads + Cardinality(ids)

\* The end of a replay batch, whatever ended it.
FlushStamps(o) ==
    /\ apply[o].pc = "idle" /\ stamped[o] # NoId
    /\ stamped' = [stamped EXCEPT ![o] = NoId]
    /\ IF counter = 0 \/ row[stamped[o]] = Gone THEN UNCHANGED <<apply, missed, misreads>>
       ELSE \E failed \in SUBSET {stamped[o]} :
              /\ Misread(failed) /\ missed' = missed \cup failed
              /\ IF failed # {} THEN UNCHANGED apply
                 ELSE apply' = [apply EXCEPT ![o] = Due(<<[id |-> stamped[o], deleted |-> FALSE]>>)]
    /\ UNCHANGED <<dataset, mu, counter, shut, sub, event, view, untold, strayed, absent, bounds>>

\* Head storage knows of the deletion first; MarkDeleted waits for the lock.
MarkDeleted(o) ==
    /\ deleted[o] = "no" /\ apply[o].pc = "idle" /\ stamped[o] = NoId /\ writes < MaxWrites
    /\ deleted' = [deleted EXCEPT ![o] = "marked"]
    /\ writes' = writes + 1
    /\ UNCHANGED <<row, apply, stamped, mu, counter, shut, sub, event, client, reads, subs>>

\* The rows go in one transaction, their event follows (NotifyRecordsDeleted).
Purge(o) ==
    /\ deleted[o] = "marked"
    /\ LET rows == {i \in RecordsOf(o) : row[i] # Gone}
           ids  == CHOOSE f \in [1..Cardinality(rows) -> rows] : Range(f) = rows
       IN  /\ row' = [i \in Id |-> IF i \in rows THEN Gone ELSE row[i]]
           /\ IF rows = {} THEN UNCHANGED apply
              ELSE apply' = [apply EXCEPT ![o] =
                     Due([a \in 1..Cardinality(rows) |-> [id |-> ids[a], deleted |-> TRUE]])]
    /\ deleted' = [deleted EXCEPT ![o] = "purged"]
    /\ UNCHANGED <<stamped, mu, counter, shut, sub, event, client, reads, bounds>>

-----------------------------------------------------------------------------
(* The engine applies an event, under mu, record by record.                *)

Registered == sub.pc \in {"checking", "live"}
Concerned(o) == Registered /\ sub.scope \in {o, All} /\ ~sub.closed

Skip(o) ==
    /\ counter = 0 \/ shut \/ (mu = Nobody /\ ~Concerned(o))
    /\ apply' = [apply EXCEPT ![o] = Idle]
    /\ UNCHANGED <<mu, event, missed, misreads>>

\* Which rows cannot be read turns out record by record.
Call(o) ==
    /\ counter # 0 /\ ~shut /\ mu = Nobody /\ Concerned(o)
    /\ mu' = o /\ event' = [NoEvent EXCEPT !.todo = apply[o].records]
    /\ apply' = [apply EXCEPT ![o].pc = "calling"]
    /\ \E failed \in SUBSET {r.id : r \in {x \in Range(apply[o].records) : ~x.deleted}} :
          Misread(failed) /\ missed' = (missed \ {r.id : r \in Range(apply[o].records)}) \cup failed

OnApply(o) ==
    /\ apply[o].pc = "event"
    /\ Skip(o) \/ Call(o)
    /\ UNCHANGED <<dataset, stamped, counter, shut, sub, view, untold, strayed, absent, bounds>>

Rec  == Head(event.todo)
\* postValue: the row as it is now, and none if it cannot be read.
Post == IF Rec.deleted \/ Rec.id \in missed THEN Gone ELSE row[Rec.id]

\* A full window rejects a new row that is not below its boundary; a row that
\* is neither held nor matches changes nothing.
Ignored(m) ==
    /\ Rec.id \notin DOMAIN sub.entries
    /\ \/ ~Matches(Post)
       \/ Full(sub.entries) /\ Post >= sub.entries[m]

Passed(i, k) == \E j \in Id \ DOMAIN sub.entries :
                    Matches(row[j]) /\ sub.entries[i] <= row[j] /\ row[j] <= k

\* The window and the counts after the record: updated, gone, or new.  Each
\* gives the entries, the boundaries it may leave, and what it counts.
Updated(m) ==
    LET k == Kept(Post)
    IN  [entries |-> With(sub.entries, Rec.id, k),
         maxRefs |-> {MaxAfterUpdate(sub.entries, m, Rec.id, k)},
         lost    |-> sub.lost]

\* Mutant: a record deleted is no loss, only one filtered out.
LeftUncounted(m) ==
    [entries |-> Without(sub.entries, {Rec.id}),
     maxRefs |-> {IF m = Rec.id THEN NoId ELSE m},
     lost    |-> IF Rec.deleted THEN sub.lost ELSE sub.lost + 1]

Left(m) ==
    [entries |-> Without(sub.entries, {Rec.id}),
     maxRefs |-> {IF m = Rec.id THEN NoId ELSE m},
     lost    |-> sub.lost + 1]

\* At capacity the sentinel makes room, which is no loss.
Entered(m) ==
    LET rest == IF Full(sub.entries) THEN Without(sub.entries, {m}) ELSE sub.entries
        max  == IF Full(sub.entries) THEN NoId ELSE m
    IN  [entries |-> With(rest, Rec.id, Kept(Post)),
         maxRefs |-> MaxAfterInsert(rest, max, Rec.id, Kept(Post)),
         lost    |-> sub.lost]

Transition(m) ==
    IF Rec.id \in DOMAIN sub.entries
    THEN IF Matches(Post) THEN Updated(m) ELSE Left(m)
    ELSE Entered(m)

\* Mutant: a sentinel is promoted only when another takes its place.
RisenReplaced(old, new, entries) ==
    IF new \in {old, NoId} THEN {} ELSE {old} \cap (DOMAIN entries \ {Rec.id})

\* The old sentinel, if it is in view now.
Risen(old, new, entries) ==
    IF new = old THEN {} ELSE {old} \cap (DOMAIN entries \ {Rec.id})

\* The record's own move, then the moves of the sentinel it causes: the old
\* one may come into view, the new one leave it.  A record the event has
\* already spoken of is not spoken of again.
Classify(old, new, entries) ==
    LET id    == Rec.id
        was   == id \in DOMAIN sub.entries /\ id # old
        is    == id \in DOMAIN entries /\ id # new
        seen  == event.seen \cup {id}
        risen == Risen(old, new, entries)
        sunk  == {new} \ {old, id, NoId}
        tell(s) == s \ seen
        set   == [i \in (IF is THEN {id} ELSE {}) \cup tell(risen) |->
                    IF i = id THEN Post ELSE entries[i]]
        gone  == (IF was /\ ~is THEN {id} ELSE {}) \cup tell(sunk)
    IN  event' = [todo    |-> Tail(event.todo),
                  seen    |-> seen \cup risen \cup sunk,
                  set     |-> [i \in DOMAIN event.set \cup DOMAIN set |->
                                  IF i \in DOMAIN set THEN set[i] ELSE event.set[i]],
                  removed |-> event.removed \cup gone,
                  muddled |-> event.muddled \cup ((risen \cup sunk) \cap seen)
                                \cup (DOMAIN event.set \cap gone) \cup (DOMAIN set \cap event.removed)]

ApplyRecord(o) ==
    /\ mu = o /\ event.todo # <<>>
    /\ \E m \in Looked(sub.entries, sub.maxRef) :
        \/ /\ Ignored(m)
           /\ event' = [event EXCEPT !.todo = Tail(@), !.seen = @ \cup {Rec.id}]
           /\ sub' = [sub EXCEPT !.maxRef = m]
           /\ UNCHANGED strayed
        \/ /\ ~Ignored(m)
           /\ LET t == Transition(m)
              IN  \E x \in t.maxRefs : \E m2 \in Looked(t.entries, x) :
                    /\ Classify(Sentinel(sub.entries, m), Sentinel(t.entries, m2), t.entries)
                    /\ sub' = [sub EXCEPT !.entries = t.entries, !.maxRef = m2, !.lost = t.lost]
           /\ strayed' = IF /\ Windowed /\ Rec.id \in DOMAIN sub.entries /\ Matches(Post)
                            /\ Passed(Rec.id, Post)
                         THEN strayed + 1 ELSE strayed
    /\ UNCHANGED <<dataset, apply, stamped, mu, counter, shut, view, untold, missed, reads, bounds>>

Drifted(s) == s.limit > 0 /\ s.lost * 100 >= s.limit * Budget

\* One message for the whole event, if it says anything; a full mailbox ends
\* the subscription.
EndEvent(o) ==
    /\ mu = o /\ event.todo = <<>>
    /\ LET empty == DOMAIN event.set \cup event.removed = {}
           over  == ~empty /\ sub.queued = MailboxCap
       IN  /\ sub' = IF over THEN [sub EXCEPT !.closed = TRUE]
                     ELSE [sub EXCEPT !.closed = Drifted(sub),
                                      !.queued = IF empty THEN @ ELSE @ + 1]
           /\ view' = IF over THEN view
                      ELSE [i \in (DOMAIN view \ event.removed) \cup DOMAIN event.set |->
                              IF i \in DOMAIN event.set THEN event.set[i] ELSE view[i]]
           /\ untold' = untold \cup event.muddled
    /\ mu' = Nobody /\ event' = NoEvent
    /\ apply' = [apply EXCEPT ![o] = Idle]
    /\ UNCHANGED <<dataset, stamped, counter, shut, strayed, missed, reads, bounds>>

\* The last step of a purge ends the subscriptions on the object.
CloseObject(o) ==
    /\ deleted[o] = "purged" /\ apply[o].pc = "idle"
    /\ counter = 0 \/ shut \/ mu = Nobody
    /\ deleted' = [deleted EXCEPT ![o] = "gone"]
    /\ sub' = IF Registered /\ sub.scope = o /\ ~sub.closed
              THEN [sub EXCEPT !.closed = TRUE, !.entries = <<>>, !.maxRef = NoId] ELSE sub
    /\ UNCHANGED <<row, apply, stamped, mu, counter, shut, event, client, reads, bounds>>

-----------------------------------------------------------------------------
(* The subscriber (queryImpl.Subscribe, Engine.Subscribe).                 *)

\* The object is resolved before the fence, and need not be local yet.
NotLocal(s) == s \in Object /\ \A i \in RecordsOf(s) : row[i] = Gone

Resolve ==
    /\ sub.pc = "none" /\ subs < MaxSubs
    /\ \E n \in Limits, s \in Scopes :
        /\ sub' = [NoSub EXCEPT !.pc = "resolved", !.limit = n, !.scope = s]
        /\ absent' \in {FALSE, NotLocal(s)}
    /\ subs' = subs + 1
    /\ UNCHANGED <<dataset, apply, stamped, mu, counter, shut, event, client, misreads, writes>>

\* The subscription counts from before its snapshot.
Lock ==
    /\ sub.pc = "resolved" /\ mu = Nobody
    /\ IF shut THEN sub' = NoSub /\ UNCHANGED <<mu, counter>>
       ELSE mu' = All /\ counter' = counter + 1 /\ sub' = [sub EXCEPT !.pc = "reading"]
    /\ UNCHANGED <<dataset, apply, stamped, shut, event, client, reads, bounds>>

Covered == {i \in Id : Matches(row[i]) /\ sub.scope \in {Owner[i], All}}

\* What the snapshot finds: nothing, where there was no object to ask.
Found == IF absent THEN {} ELSE Covered

\* The first rows in sort order, one more than the limit; the caller gets
\* all but the last.  appendInitial keeps the first of equal keys as the
\* boundary, which need not be the last row.
Snapshot ==
    /\ sub.pc = "reading"
    /\ \E page \in SUBSET Found :
        /\ IF Windowed THEN IsPage(page, Found, sub.limit + 1) ELSE page = Found
        /\ LET entries == [i \in page |-> Kept(row[i])]
           IN  \E last, max \in IF page = {} THEN {NoId} ELSE Largest(entries) :
                /\ last = max => Cardinality(Largest(entries)) < 2
                /\ sub' = [sub EXCEPT !.pc = "read", !.entries = entries, !.maxRef = max]
                /\ view' = [i \in page \ {Sentinel(entries, last)} |-> row[i]]
                /\ untold' = IF Full(entries) /\ last # max THEN {last, max} ELSE {}
    /\ strayed' = 0 /\ missed' = Covered \ Found
    /\ UNCHANGED <<dataset, apply, stamped, mu, counter, shut, event, reads, bounds>>

SnapshotFails ==
    /\ sub.pc = "reading"
    /\ counter' = counter - 1 /\ mu' = Nobody /\ sub' = NoSub
    /\ UNCHANGED <<dataset, apply, stamped, shut, event, client, reads, bounds>>

Register ==
    /\ sub.pc = "read"
    /\ mu' = Nobody
    /\ sub' = [sub EXCEPT !.pc = IF sub.scope = All THEN "live" ELSE "checking"]
    /\ UNCHANGED <<dataset, apply, stamped, counter, shut, event, client, reads, bounds>>

\* closeSub: takes mu, gives the count back.
Release ==
    /\ mu = Nobody
    /\ counter' = IF shut THEN counter ELSE counter - 1
    /\ sub' = NoSub

\* Mutant: the check after the registration is left out.
CheckNothing ==
    /\ sub.pc = "checking"
    /\ sub' = [sub EXCEPT !.pc = "live"]
    /\ UNCHANGED <<dataset, apply, stamped, mu, counter, shut, event, client, reads, bounds>>

\* The object may have been deleted since it was resolved (TreeDeleted).
CheckDeleted ==
    /\ sub.pc = "checking"
    /\ IF deleted[sub.scope] # "no" THEN Release
       ELSE sub' = [sub EXCEPT !.pc = "live"] /\ UNCHANGED counter
    /\ UNCHANGED <<dataset, apply, stamped, mu, shut, event, client, reads, bounds>>

Take ==
    /\ sub.pc = "live" /\ sub.queued > 0
    /\ sub' = [sub EXCEPT !.queued = @ - 1]
    /\ UNCHANGED <<dataset, apply, stamped, mu, counter, shut, event, client, reads, bounds>>

\* The consumer closes, on its own account or to subscribe again.
Unsubscribe ==
    /\ sub.pc = "live" /\ Release
    /\ UNCHANGED <<dataset, apply, stamped, mu, shut, event, client, reads, bounds>>

\* Engine.Close: the space closes.
CloseEngine ==
    /\ ~shut /\ mu = Nobody
    /\ shut' = TRUE /\ counter' = 0
    /\ sub' = IF Registered THEN [sub EXCEPT !.closed = TRUE, !.entries = <<>>, !.maxRef = NoId]
              ELSE sub
    /\ UNCHANGED <<dataset, apply, stamped, mu, event, client, reads, bounds>>

Writer(o) == \/ Write(o) \/ Stamp(o) \/ Announce(o) \/ FlushStamps(o)
             \/ MarkDeleted(o) \/ Purge(o) \/ CloseObject(o)
             \/ OnApply(o) \/ ApplyRecord(o) \/ EndEvent(o)
Subscriber == \/ Resolve \/ Lock \/ Snapshot \/ SnapshotFails \/ Register \/ CheckDeleted
              \/ Take \/ Unsubscribe
EngineNext == (\E o \in Object : Writer(o)) \/ Subscriber \/ CloseEngine
EngineSpec == EngineInit /\ [][EngineNext]_engineVars

-----------------------------------------------------------------------------
(* Properties.                                                             *)

Open  == Registered /\ ~sub.closed
Quiet == /\ mu = Nobody
         /\ \A o \in Object : /\ apply[o].pc = "idle" /\ stamped[o] = NoId
                              /\ deleted[o] \in {"no", "gone"}

(***************************************************************************)
(* The consumer shows the window: whatever records one change carries and  *)
(* however they push each other over the boundary, the events add up to    *)
(* the rows the engine takes for visible, with their last documents.  Set  *)
(* apart are the records of which an event said too little or too much.    *)
(***************************************************************************)
ViewIsWindow ==
    Open /\ mu = Nobody =>
        \A i \in Id \ untold : /\ (i \in DOMAIN view) = (i \in Visible)
                               /\ i \in Visible /\ Windowed => view[i] = sub.entries[i]

\* The caller's first page is the window: what the engine holds back as the
\* sentinel is the last row of the snapshot (sub.go, appendInitial; query.go,
\* Subscribe: "excluding the sentinel").
InitialIsWindow == sub.pc = "read" => DOMAIN view = Visible

\* An event tells of every record that left or entered the view, and once
\* (space/subscribe.go, SubscriptionEvent).
EveryMoveIsTold == event.muddled = {}

(***************************************************************************)
(* No event is missed between the snapshot and the registration, or when a *)
(* replay's stamps are held back: once every writer is through, what is    *)
(* held is what is stored, an unlimited query shows all of it, and no      *)
(* query on a deleted object stays open.  Set apart are the records whose  *)
(* last read came to nothing.  The types, and the bounds of the window,    *)
(* come with it.                                                           *)
(***************************************************************************)
LiveIsStored ==
    /\ EngineTypeOK
    /\ Open /\ Quiet =>
          /\ \A i \in DOMAIN sub.entries \ missed : i \in Covered /\ (Windowed => sub.entries[i] = row[i])
          /\ ~Windowed => \A i \in Id \ missed : /\ i \in DOMAIN view <=> i \in Covered
                                                /\ i \in Covered => view[i] = row[i]
          /\ sub.pc = "live" /\ sub.scope # All => deleted[sub.scope] = "no"

\* The answer is whole: a row is shown that landed after its object was looked
\* up (query.go, Subscribe: "if the object lands later, its events flow in"),
\* and a row that cannot be read is not taken for one that is gone.
AnswerIsWhole == Open /\ Quiet /\ ~Windowed => DOMAIN view = Covered

(***************************************************************************)
(* A limited query that is still open lacks no more of its answer than its *)
(* drift budget allows: the sentinel stands in for the first record that   *)
(* leaves, and each further one may hide a row.  Not counted are the moves *)
(* of held records past rows the window does not hold, which the code does *)
(* not count either.  Set apart is a query as long as the last read of a   *)
(* record came to nothing, which is not counted in the code either.        *)
(***************************************************************************)
Missing == {i \in Covered \ Visible :
               Cardinality({j \in Covered \ {i} : row[j] <= row[i]}) < sub.limit}
DriftIsBounded ==
    Open /\ Quiet /\ Windowed /\ missed = {} =>
        LET hidden == Cardinality(Missing) - strayed
        IN  hidden > 0 => (hidden + 1) * 100 < sub.limit * Budget
=============================================================================
