----------------------------- MODULE ReadState -----------------------------
(***************************************************************************)
(* What an object's changes are read and unread on this device             *)
(* (src/internal/readstate/readstate.go, src/internal/readsync/readsync.go,*)
(* src/internal/spaceobjects/readtracking.go).                             *)
(*                                                                         *)
(* A change that is applied and tracked leaves an unread entry.  A mark    *)
(* covers changes and their causal past: their entries go and the marked   *)
(* ids join the frontier, whose members' past the next walk takes for      *)
(* read.  A marked id this device does not have is kept as pending and     *)
(* covered when it is applied.  The frontier is published in the account's *)
(* key-value store, a row per device, and the rows of the other devices    *)
(* are merged like marks.  The first load of an object seeds its state:    *)
(* from the published rows when there are any, with everything read when   *)
(* there are none.  Marks, merges and applies are transactions; marks and  *)
(* merges of an object hold its lock, applies do not.                      *)
(***************************************************************************)
EXTENDS Naturals, Sequences, FiniteSets, Functions

CONSTANTS
    Change,       \* the changes of the object, in the order of their versionIds
    Root,         \* the root change of the tree
    Prev,         \* Prev[c]: the changes c follows directly
    Tracked,      \* the changes the dataset tracks
    Own,          \* the changes this account wrote
    Clears,       \* Clears[c]: whose entries c supersedes or deletes
    Seedable,     \* every tracked dataset seeds at first sight
    ChunkSize,    \* entries one transaction of a ranged mark covers (markChunkSize)
    MaxFrontier,  \* maxFrontierSize
    QueueSize,    \* capacity of the merge queue
    Elsewhere,    \* bound: the changes the other device marks
    MaxFaults     \* bound: crashes, rebuilds, failed operations, dropped rows

ASSUME ChangeAssumption ==
    /\ Change \subseteq Nat /\ IsFiniteSet(Change) /\ Root \in Change
    /\ Prev \in [Change -> SUBSET Change] /\ Prev[Root] = {}
    /\ \A c \in Change : \A p \in Prev[c] : p < c
    /\ \A c \in Change \ {Root} : Prev[c] # {}
    /\ Tracked \subseteq Change \ {Root} /\ Own \subseteq Change \ {Root}
    /\ Clears \in [Change -> SUBSET Change]

ASSUME BoundAssumption ==
    /\ Seedable \in BOOLEAN /\ Elsewhere \subseteq Change \ {Root}
    /\ ChunkSize \in Nat \ {0} /\ MaxFrontier \in Nat \ {0}
    /\ QueueSize \in Nat /\ MaxFaults \in Nat

VARIABLES
    log,      \* the changes in tree storage, in the order they arrived
    done,     \* how many of them are applied: the object's watermark
    st,       \* persisted: [entries, frontier, pending, seeded, unread, seq]
    own,      \* the frontier this device published
    remote,   \* the frontier another device of the account published
    reindex,  \* a rebuild of the object has begun and not ended
    object,   \* the object: "closed", "restoring" or "open"
    skip,     \* why its apply hook does not track (readSeedPending): "no" if it does
    sets,     \* the published frontiers its load found, to seed from
    queue,    \* frontiers that arrived, waiting for the merge worker
    lock,     \* the object's lock: "free", or "chunk", "publish" under it
    upTo,     \* the range the chunks cover
    heads,    \* the frontiers a mark and the reconcile are about to publish
    boot,     \* the reconcile at boot: the rows it merges, "publish" or "done"
    marked,   \* history: the ids marked, merged or seeded here
    early,    \* history: those stored and not yet applied at that time, and
              \*          pending ones applied while nothing was tracked
    dropped,  \* history: changes cleared, applied by a rebuild, or by a restore
              \*          whose seed did not follow
    faults    \* faults so far

vars == <<log, done, st, own, remote, reindex, object, skip, sets, queue, lock, upTo, heads, boot,
          marked, early, dropped, faults>>
history == <<marked, early, dropped>>
store == <<log, done>>
kv == <<own, remote>>
load == <<reindex, object, skip, sets>>

Stored == Range(log)
Applied == {log[i] : i \in 1..done}
Fault == faults < MaxFaults /\ faults' = faults + 1
Unmarked == [entries |-> {}, frontier |-> {}, pending |-> {}, seeded |-> FALSE,
             unread |-> 0, seq |-> 0]

NoHeads == [mark |-> {}, boot |-> {}]
NoSets == [own |-> {}, other |-> {}]

Parents(cs) == UNION {Prev[c] : c \in cs}

\* What a walk from ids reaches that goes on where `through` lets it: the
\* least set with ids and the parents of those it goes through.
Reached(ids, through) ==
    {c \in Change : \A S \in SUBSET Change :
        ids \subseteq S /\ Parents(S \cap through) \subseteq S => c \in S}

\* A change and everything it follows.
Past == [c \in Change |-> Reached({c}, Change)]
PastOf(cs) == UNION {Past[c] : c \in cs}
Heads(cs) == cs \ Parents(cs)

TypeOK ==
    /\ log \in Seq(Change) /\ IsInjective(log) /\ done \in 0..Len(log)
    /\ Parents(Stored) \subseteq Stored
    /\ st.entries \subseteq Tracked \cap Stored /\ st.frontier \subseteq Stored
    /\ st.pending \subseteq Change /\ st.seeded \in BOOLEAN /\ st.seq \in 0..1
    \* The counter follows the rows.
    /\ st.unread = Cardinality(st.entries)
    /\ own \subseteq Change /\ remote \subseteq Change
    /\ reindex \in BOOLEAN
    /\ object \in {"closed", "restoring", "open"} /\ skip \in {"no", "seed", "rebuild"}
    /\ sets \in [own : SUBSET Change, other : SUBSET Change]
    /\ queue \in Seq(SUBSET Change) /\ Len(queue) <= QueueSize
    /\ lock \in {"free", "chunk", "publish"} /\ upTo \in Change
    /\ heads \in [mark : SUBSET Change, boot : SUBSET Change]
    /\ boot \in {"own", "other", "read", "publish", "done"}
    /\ marked \subseteq Change /\ early \subseteq marked /\ dropped \subseteq Change
    /\ faults \in 0..MaxFaults

----------------------------------------------------------------------------
(* The engine.  stateSeq is kept as whether it moved: seq flips.           *)

Bump(s) == [s EXCEPT !.seq = 1 - @]

Drop(s, cs) == [s EXCEPT !.entries = @ \ cs, !.unread = @ - Cardinality(cs \cap s.entries)]

\* compactFrontier: the oldest members go.
Compact(s) ==
    LET newer(c) == Cardinality({d \in s.frontier : d > c})
    IN  [s EXCEPT !.frontier = {c \in @ : newer(c) < MaxFrontier}]

\* Mutant: the walk does not pass a change that is read already.
WalkUnread(s, ids) ==
    (s.entries \ s.frontier) \cap Reached(ids, s.entries \ s.frontier)

\* The entries a walk from ids reaches.  It stops at the frontier, and at a
\* change that is older than every entry.
Walk(s, ids) ==
    LET through == {d \in Stored \ s.frontier : \E e \in s.entries : e <= d}
    IN  (s.entries \ s.frontier) \cap Reached(ids, through)

\* Nothing unread: nothing is walked.
MarkNoEntries(s, known, unknown) ==
    IF known = {} /\ unknown \subseteq s.pending THEN s
    ELSE Bump(Compact([s EXCEPT !.frontier = @ \cup known, !.pending = @ \cup unknown]))

\* markLocked.
Mark(s, ids) ==
    LET todo == ids \ s.frontier
        known == todo \cap Stored
        unknown == todo \ Stored
        covered == Walk(s, known)
    IN  IF todo = {} THEN s
        ELSE IF s.entries = {} THEN MarkNoEntries(s, known, unknown)
        ELSE Bump(Compact([Drop(s, covered) EXCEPT
                 !.frontier = (@ \cup known) \ Parents(covered),
                 !.pending = @ \cup unknown]))

\* Mutant: a chunk is any entries of the range.
NewestEntries(es, n) == {e \in es : Cardinality({d \in es : d > e}) < n}

\* The entries one chunk covers: the oldest of the range.
FirstEntries(es, n) == {e \in es : Cardinality({d \in es : d < e}) < n}

InRange(s, v) == {e \in s.entries : e <= v}

\* MarkReadUpToChunk.
MarkChunk(s, v) ==
    LET covered == FirstEntries(InRange(s, v), ChunkSize)
    IN  IF covered = {} THEN s
        ELSE Bump(Compact([Drop(s, covered) EXCEPT
                 !.frontier = (@ \ Parents(covered)) \cup Heads(covered)]))

\* ClearRecords and TrackChange.
Track(s, c) ==
    LET wasPending == c \in s.pending
        cleared == Drop(s, Clears[c])
        inserts == c \in Tracked \ Own /\ c \notin s.frontier /\ ~wasPending
        advances == c \in Own /\ Prev[c] \subseteq s.frontier
        tracked == [cleared EXCEPT
            !.entries = IF inserts THEN @ \cup {c} ELSE @,
            !.unread = IF inserts THEN @ + 1 ELSE @,
            !.frontier = IF advances THEN (@ \ Prev[c]) \cup {c} ELSE @,
            !.pending = @ \ {c}]
        dirty == inserts \/ advances \/ cleared # s
    IN  IF wasPending THEN [Mark(tracked, {c}) EXCEPT !.seq = 1 - s.seq]
        ELSE IF dirty THEN Bump(tracked) ELSE s

\* SeedFrontier: everything at or behind the heads is read.
SeedAllRead(s, tips) ==
    LET seeded == [s EXCEPT !.entries = {}, !.unread = 0, !.frontier = tips, !.seeded = TRUE]
    IN  IF s.seeded THEN s ELSE IF s.entries = {} THEN seeded ELSE Bump(seeded)

\* seedFromPublished: one transaction merges the frontiers in turn.
SeedPublished(s, published) ==
    LET merged == Mark(Mark([s EXCEPT !.seeded = TRUE], published.own), published.other)
    IN  IF merged.entries = s.entries /\ merged.frontier = s.frontier /\ merged.pending = s.pending
        THEN merged ELSE [merged EXCEPT !.seq = 1 - s.seq]

NoteMark(ids) ==
    /\ marked' = marked \cup ids
    /\ early' = early \cup (ids \cap (Stored \ Applied))

----------------------------------------------------------------------------
(* The object.                                                             *)

\* A tree is fetched whole, or grows while its object is open: its root
\* first, parents before children.
Arrive(c) ==
    /\ object = "open" \/ (object = "closed" /\ done = 0)
    /\ c \notin Stored /\ Prev[c] \subseteq Stored
    /\ log' = Append(log, c)
    /\ UNCHANGED <<done, st, kv, load, queue, lock, upTo, heads, boot, history, faults>>

Apply ==
    LET c == log[done + 1]
        untracked == c = Root \/ skip # "no"
    IN  /\ object # "closed" /\ done < Len(log)
        /\ done' = done + 1
        /\ st' = IF untracked THEN st ELSE Track(st, c)
        /\ dropped' = dropped \cup (IF ~untracked THEN Clears[c]
                                  ELSE IF skip = "rebuild" THEN {c} \ st.entries ELSE {})
        /\ early' = IF untracked THEN early \cup ({c} \cap st.pending) ELSE early
        /\ UNCHANGED <<log, kv, load, queue, lock, upTo, heads, boot, marked, faults>>

\* The frontiers a first load finds, none where the rows say nothing.
Published == [own |-> own, other |-> remote]
First == Seedable /\ ~st.seeded

\* Mutant: an object the account has read elsewhere restores untracked too.
LoadUntracked(rebuild) ==
    /\ object = "closed" /\ log # <<>>
    /\ IF rebuild THEN Fault ELSE UNCHANGED faults
    /\ object' = "restoring" /\ reindex' = (reindex \/ rebuild)
    /\ sets' = IF First THEN Published ELSE NoSets
    /\ skip' = IF reindex' THEN "rebuild" ELSE IF First THEN "seed" ELSE "no"
    /\ done' = IF rebuild THEN 0 ELSE done
    /\ UNCHANGED <<log, st, kv, queue, lock, upTo, heads, boot, history>>

\* A rebuild replays every change and tracks none, also when it resumes; an
\* object not seeded looks for published frontiers.
Load(rebuild) ==
    /\ object = "closed" /\ log # <<>>
    /\ IF rebuild THEN Fault ELSE UNCHANGED faults
    /\ object' = "restoring" /\ reindex' = (reindex \/ rebuild)
    /\ sets' = IF First THEN Published ELSE NoSets
    /\ skip' = CASE reindex' -> "rebuild"
                 [] ~reindex' /\ First /\ Published = NoSets -> "seed"
                 [] OTHER -> "no"
    /\ done' = IF rebuild THEN 0 ELSE done
    /\ UNCHANGED <<log, st, kv, queue, lock, upTo, heads, boot, history>>

Loaded == object = "restoring" /\ done = Len(log)

\* What a restore that was to be seeded as read has applied and not tracked.
Interrupted == IF skip = "seed" THEN Applied \ st.entries ELSE {}

\* The load ends, and with it a rebuild.  A seed that fails is logged; the
\* next load seeds.
Seed(ok) ==
    /\ Loaded
    /\ object' = "open" /\ skip' = "no" /\ sets' = NoSets /\ reindex' = FALSE
    /\ IF ~First THEN ok /\ UNCHANGED <<st, marked, early, faults>>
       ELSE IF ~ok THEN Fault /\ UNCHANGED <<st, marked, early>>
       ELSE IF sets # NoSets
       THEN st' = SeedPublished(st, sets) /\ NoteMark(sets.own \cup sets.other) /\ UNCHANGED faults
       ELSE st' = SeedAllRead(st, Heads(Stored)) /\ NoteMark(Heads(Stored)) /\ UNCHANGED faults
    /\ dropped' = IF ok THEN dropped ELSE dropped \cup Interrupted
    /\ UNCHANGED <<store, kv, queue, lock, upTo, heads, boot>>

Evict ==
    /\ object = "open" /\ object' = "closed"
    /\ UNCHANGED <<store, st, kv, reindex, skip, sets, queue, lock, upTo, heads, boot, history,
                   faults>>

----------------------------------------------------------------------------
(* Marks and merges.                                                       *)

\* MarkRead of a change the user sees; the frontier is published after the
\* transaction, under the lock.
MarkRead(c) ==
    /\ lock = "free" /\ c \in Applied \ {Root}
    /\ st' = Mark(st, {c}) /\ NoteMark({c})
    /\ lock' = IF st' = st THEN "free" ELSE "publish"
    /\ heads' = [heads EXCEPT !.mark = IF st' = st THEN {} ELSE st'.frontier]
    /\ UNCHANGED <<store, kv, load, queue, upTo, boot, dropped, faults>>

MarkReadUpTo(v) ==
    /\ lock = "free" /\ InRange(st, v) # {}
    /\ lock' = "chunk" /\ upTo' = v
    /\ UNCHANGED <<store, st, kv, load, queue, heads, boot, history, faults>>

Chunk ==
    LET covered == FirstEntries(InRange(st, upTo), ChunkSize)
    IN  /\ lock = "chunk"
        /\ st' = MarkChunk(st, upTo) /\ NoteMark(Heads(covered))
        /\ lock' = IF InRange(st, upTo) = covered THEN "publish" ELSE "chunk"
        /\ upTo' = IF InRange(st, upTo) = covered THEN Root ELSE upTo
        /\ heads' = [heads EXCEPT !.mark = IF InRange(st, upTo) = covered THEN st'.frontier ELSE {}]
        /\ UNCHANGED <<store, kv, load, queue, boot, dropped, faults>>

\* A chunk that fails ends the mark; what is committed is not published.
ChunkFails ==
    /\ lock = "chunk" /\ Fault /\ lock' = "free" /\ upTo' = Root
    /\ UNCHANGED <<store, st, kv, load, queue, heads, boot, history>>

Publish(ok) ==
    /\ lock = "publish" /\ lock' = "free"
    /\ heads' = [heads EXCEPT !.mark = {}]
    /\ IF ok THEN own' = heads.mark /\ UNCHANGED faults ELSE UNCHANGED own /\ Fault
    /\ UNCHANGED <<store, st, remote, load, queue, upTo, boot, history>>

\* Another device marks c and publishes; the row is queued here, or dropped
\* when the queue is full.
RemoteMark(c) ==
    /\ c \in Elsewhere \ PastOf(remote)
    /\ remote' = (remote \ Past[c]) \cup {c}
    /\ queue' = IF Len(queue) < QueueSize THEN Append(queue, remote') ELSE queue
    /\ UNCHANGED <<store, st, own, load, lock, upTo, heads, boot, history, faults>>

\* The merge worker; a merge that fails is dropped.
Merge(ok) ==
    /\ lock = "free" /\ queue # <<>>
    /\ queue' = Tail(queue)
    /\ IF ok THEN st' = Mark(st, Head(queue)) /\ NoteMark(Head(queue)) /\ UNCHANGED faults
       ELSE UNCHANGED <<st, marked, early>> /\ Fault
    /\ UNCHANGED <<store, kv, load, lock, upTo, heads, boot, dropped>>

\* Reconcile at boot: every row is merged, the own one too; then the frontier
\* is read, and published where the own row differs, beside a mark.
ReconcileMerge ==
    /\ boot \in {"own", "other"} /\ lock = "free"
    /\ LET row == IF boot = "own" THEN own ELSE remote
       IN  st' = Mark(st, row) /\ NoteMark(row)
    /\ boot' = CASE own \cup remote = {} -> "done"
                 [] boot = "own" -> "other"
                 [] OTHER -> "read"
    /\ UNCHANGED <<store, kv, load, queue, lock, upTo, heads, dropped, faults>>

ReconcileRead ==
    /\ boot = "read"
    /\ IF st.frontier \in {{}, own}
       THEN boot' = "done" /\ UNCHANGED heads
       ELSE boot' = "publish" /\ heads' = [heads EXCEPT !.boot = st.frontier]
    /\ UNCHANGED <<store, st, kv, load, queue, lock, upTo, history, faults>>

ReconcilePublish ==
    /\ boot = "publish" /\ boot' = "done"
    /\ own' = heads.boot /\ heads' = [heads EXCEPT !.boot = {}]
    /\ UNCHANGED <<store, st, remote, load, queue, lock, upTo, history, faults>>

Crash ==
    /\ Fault
    /\ object' = "closed" /\ skip' = "no" /\ sets' = NoSets
    /\ queue' = <<>> /\ lock' = "free" /\ upTo' = Root /\ heads' = NoHeads /\ boot' = "own"
    /\ dropped' = dropped \cup Interrupted
    /\ UNCHANGED <<store, st, kv, reindex, marked, early>>

----------------------------------------------------------------------------
Init ==
    /\ log = <<>> /\ done = 0 /\ st = Unmarked
    /\ own = {} /\ remote = {}
    /\ reindex = FALSE /\ object = "closed" /\ skip = "no" /\ sets = NoSets
    /\ queue = <<>> /\ lock = "free" /\ upTo = Root /\ heads = NoHeads /\ boot = "own"
    /\ marked = {} /\ early = {} /\ dropped = {} /\ faults = 0

Next ==
    \/ \E c \in Change : Arrive(c) \/ MarkRead(c) \/ MarkReadUpTo(c) \/ RemoteMark(c)
    \/ Apply \/ Evict \/ Chunk \/ ChunkFails \/ Crash
    \/ \E b \in BOOLEAN : Load(b) \/ Seed(b) \/ Publish(b) \/ Merge(b)
    \/ ReconcileMerge \/ ReconcileRead \/ ReconcilePublish

Spec == Init /\ [][Next]_vars

----------------------------------------------------------------------------
(* Properties.                                                             *)

\* What lies behind a mark is read: once a marked change is applied none of
\* its past has an entry, whichever arrived first and through whatever chunks,
\* merges, crashes.  Exempt is a mark that met the change in storage before
\* the object had applied it, or a pending one applied by a rebuild.
MarkedIsRead == PastOf(marked \cap Applied) \cap st.entries \subseteq PastOf(early)

\* What is unread stays unread until somebody reads it: a tracked change of
\* somebody else is an entry unless a mark covers it or a change cleared it.
NothingReadUnseen ==
    st.seeded \/ ~Seedable => \A c \in (Applied \cap Tracked) \ Own :
        c \in st.entries \cup PastOf(marked) \cup dropped

\* No entry lies behind a member of the frontier: the walk stops there, and
\* the other devices take everything behind it for read.  The types, and the
\* counts with the entries they count, come with it.
FrontierIsRead ==
    /\ TypeOK
    /\ PastOf((st.frontier \cup own) \cap Applied) \cap st.entries \subseteq PastOf(early)

\* A seed from the published frontiers lands on the account's read state
\* (readtracking.go:376): nothing they cover is unread.
SeedIsExact ==
    [][(object = "restoring" /\ st'.seeded /\ ~st.seeded) =>
           PastOf((sets.own \cup sets.other) \cap Applied) \cap st'.entries = {}]_vars
=============================================================================
