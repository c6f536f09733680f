-------------------------- MODULE Readers_proofs --------------------------
(***************************************************************************)
(* Proofs about the two readers of what was applied: the unread entries    *)
(* and their marks (ReadState), and the live queries (Subscriptions).      *)
(*                                                                         *)
(* ReadState, for any tree of changes, any chunk size, cap, queue and      *)
(* number of faults: what lies behind a mark or behind a frontier is read, *)
(* and nothing else is.  The three invariants are not inductive: an entry  *)
(* inserted behind a mark would break them, and none is because a change   *)
(* that is marked and not applied yet is pending, or was noted early; and  *)
(* a rebuild, which replays what is marked, tracks nothing until it has    *)
(* ended.  Inv says so.  The lemma MarkFacts carries most of the weight: a *)
(* walk that stops at the frontier and below the oldest entry reaches all  *)
(* that is unread behind what is marked, given that nothing unread is      *)
(* behind the frontier.                                                    *)
(*                                                                         *)
(* Subscriptions, for any records, objects, keys, limits, scopes, budget   *)
(* and mailbox: the consumer shows the window, misses nothing, and lacks   *)
(* no more than the drift budget allows.  That holds between events only,  *)
(* and of what is stored only when no writer has anything left to tell.    *)
(* EngineInv says what holds in between.                                   *)
(* What the consumer has, with what the event has said so far on top, is   *)
(* the window, but for the records the event has muddled (AllTold): each   *)
(* record's own move and the moves of the sentinel it causes are told      *)
(* together (MovesTold).  A row that is held is the row that is stored, or *)
(* a writer still has the record to tell (Held), and so is a row that      *)
(* should be held and is not (Whole); who has what to tell is Writes, and  *)
(* Locked makes a writer that skips the engine one that nobody listens to. *)
(* What a window has lost cannot be read off its rows: Lacks asks for some *)
(* window that extends the one held by no more rows than were counted, and *)
(* that does answer the query.  It is rebuilt at each record (ApplyLacks): *)
(* when one row more is needed, the first in the store that is missing     *)
(* will do (Repaired).                                                     *)
(***************************************************************************)
EXTENDS ReadState, Subscriptions, TLAPS, FiniteSetTheorems

----------------------------------------------------------------------------
(* The inductive invariant.                                                *)

States == [entries : SUBSET Change, frontier : SUBSET Change, pending : SUBSET Change,
           seeded : BOOLEAN, unread : Nat, seq : 0..1]

Counted(s) == s.unread = Cardinality(s.entries)

\* The types of what a mark's bookkeeping keeps beside the read state.
Aside ==
    /\ own \in SUBSET Change /\ remote \in SUBSET Change
    /\ queue \in Seq(SUBSET Change) /\ Len(queue) <= QueueSize
    /\ lock \in {"free", "chunk", "publish"} /\ upTo \in Change
    /\ heads \in [mark : SUBSET Change, boot : SUBSET Change]
    /\ boot \in {"own", "other", "read", "publish", "done"}
    /\ faults \in 0..MaxFaults

Types ==
    /\ log \in Seq(Change) /\ IsInjective(log) /\ done \in 0..Len(log)
    /\ st \in States /\ Counted(st)
    /\ reindex \in BOOLEAN
    /\ object \in {"closed", "restoring", "open"} /\ skip \in {"no", "seed", "rebuild"}
    /\ sets \in [own : SUBSET Change, other : SUBSET Change]
    /\ marked \in SUBSET Change /\ early \in SUBSET Change /\ dropped \in SUBSET Change
    /\ Aside

\* Changes arrive after those they follow.
Causal == \A i \in 1..Len(log) : Prev[log[i]] \subseteq {log[j] : j \in 1..(i - 1)}

\* A frontier that is kept, published, or about to be.
Claimed == st.frontier \cup own \cup heads.mark \cup heads.boot

Places ==
    /\ st.entries \subseteq (Tracked \cap Stored) \ Own
    /\ Claimed \subseteq Stored
    /\ st.pending \subseteq marked /\ early \subseteq marked
    /\ marked \subseteq Stored \cup st.pending

\* A load skips nothing, what a first load seeds as read, or all a rebuild
\* replays; a rebuild ends with a load.
Modes ==
    /\ object # "restoring" => skip = "no" /\ sets = NoSets
    /\ object = "open" => ~reindex
    /\ object = "restoring" => (skip = "rebuild" <=> reindex)
    /\ skip = "seed" => First /\ sets = NoSets

\* Nothing unread lies behind k, but for what a mark met too early.
ReadBehind(k) == Past[k] \cap st.entries \subseteq PastOf(early)

Behind ==
    /\ \A k \in Claimed : ReadBehind(k)
    /\ \A k \in marked : k \in st.pending \/ ReadBehind(k)

\* What is marked before it is applied is noted early, or pending until it
\* is; a rebuild applies again what was, and tracks none of it.
Noted ==
    /\ ~reindex => /\ Claimed \ Applied \subseteq early
                   /\ (marked \cap Stored) \ Applied \subseteq early \cup st.pending
                   /\ st.entries \subseteq Applied
    /\ st.pending \cap Applied \subseteq early

\* An applied change that is tracked is unread, behind a mark, or cleared.
Accounted(c) == c \in st.entries \cup PastOf(marked) \cup dropped
Account == skip # "seed" => \A c \in (Applied \cap Tracked) \ Own : Accounted(c)

Inv == Types /\ Causal /\ Places /\ Modes /\ Behind /\ Noted /\ Account

----------------------------------------------------------------------------
(* Walks and pasts.                                                        *)

\* A walk reaches where it starts, and the parents of what it goes through.
LEMMA ReachedFacts ==
    ASSUME NEW ids \in SUBSET Change, NEW through
    PROVE  /\ Reached(ids, through) \in SUBSET Change
           /\ ids \subseteq Reached(ids, through)
           /\ \A d \in Reached(ids, through) \cap through :
                Prev[d] \subseteq Reached(ids, through)
<1>1. \A d \in Change : Prev[d] \subseteq Change
  BY ChangeAssumption
<1>2. ASSUME NEW d \in Reached(ids, through) \cap through, NEW p \in Prev[d]
      PROVE  p \in Reached(ids, through)
  <2>1. d \in Change /\ p \in Change
    BY <1>1 DEF Reached
  <2>2. ASSUME NEW S \in SUBSET Change, ids \subseteq S, Parents(S \cap through) \subseteq S
        PROVE  p \in S
    <3>1. d \in S \cap through
      BY <2>2 DEF Reached
    <3>. QED
      BY <3>1, <2>2 DEF Parents
  <2>. QED
    BY <2>1, <2>2 DEF Reached
<1>. QED
  BY <1>2 DEF Reached

\* It reaches nothing outside a set that is closed under it.
LEMMA ReachedLeast ==
    ASSUME NEW ids, NEW through, NEW S \in SUBSET Change, ids \subseteq S,
           \A d \in S \cap through : Prev[d] \subseteq S
    PROVE  Reached(ids, through) \subseteq S
<1>1. Parents(S \cap through) \subseteq S
  BY DEF Parents
<1>. QED
  BY <1>1 DEF Reached

Closed(S) == \A d \in S : Prev[d] \subseteq S

LEMMA PastType == Past \in [Change -> SUBSET Change]
BY DEF Past, Reached

\* The past of a change is the least closed set with it.
LEMMA PastFacts ==
    ASSUME NEW c \in Change
    PROVE  /\ Past[c] \in SUBSET Change /\ c \in Past[c] /\ Closed(Past[c])
           /\ \A S \in SUBSET Change : c \in S /\ Closed(S) => Past[c] \subseteq S
<1>1. Past[c] = Reached({c}, Change)
  BY DEF Past
<1>2. /\ Past[c] \in SUBSET Change /\ {c} \subseteq Past[c]
      /\ \A d \in Past[c] \cap Change : Prev[d] \subseteq Past[c]
  <2>1. {c} \in SUBSET Change
    OBVIOUS
  <2>2. /\ Reached({c}, Change) \in SUBSET Change /\ {c} \subseteq Reached({c}, Change)
        /\ \A d \in Reached({c}, Change) \cap Change : Prev[d] \subseteq Reached({c}, Change)
    BY <2>1, ReachedFacts, Zenon
  <2>. QED
    BY <1>1, <2>2, Zenon
<1>3. ASSUME NEW S \in SUBSET Change, c \in S, Closed(S)
      PROVE  Past[c] \subseteq S
  BY <1>1, <1>3, ReachedLeast DEF Closed
<1>. QED
  BY <1>2, <1>3 DEF Closed

\* What lies behind c is older, and so is its past.
LEMMA PastIsOlder ==
    ASSUME NEW c \in Change, NEW e \in Past[c]
    PROVE  e \in Change /\ e <= c /\ Past[e] \subseteq Past[c]
<1>. DEFINE Older == {d \in Change : d <= c}
<1>1. e \in Change
  BY PastFacts
<1>2. Past[e] \subseteq Past[c]
  BY <1>1, PastFacts
<1>3. Closed(Older) /\ c \in Older
  <2>1. \A d \in Change : d \in Nat /\ Prev[d] \subseteq Change /\ \A p \in Prev[d] : p < d
    BY ChangeAssumption
  <2>2. \A d \in Older : \A p \in Prev[d] : p \in Nat /\ p <= c
    BY <2>1
  <2>. QED
    BY <2>1, <2>2 DEF Closed
<1>4. Past[c] \subseteq Older
  <2>. HIDE DEF Older
  <2>1. Older \in SUBSET Change
    BY DEF Older
  <2>. QED
    BY <1>3, <2>1, PastFacts
<1>. QED
  BY <1>1, <1>2, <1>4

\* The past of a change is itself and the pasts of its parents.
LEMMA PastStep ==
    ASSUME NEW c \in Change
    PROVE  Past[c] \subseteq {c} \cup PastOf(Prev[c])
<1>. DEFINE S == {c} \cup PastOf(Prev[c])
<1>1. Prev[c] \in SUBSET Change
  BY ChangeAssumption
<1>2. S \in SUBSET Change
  BY <1>1, PastType DEF PastOf
<1>3. Prev[c] \subseteq S
  BY <1>1, PastFacts DEF PastOf
<1>4. Closed(S)
  <2>1. ASSUME NEW p \in Prev[c], NEW d \in Past[p] PROVE Prev[d] \subseteq PastOf(Prev[c])
    <3>1. Closed(Past[p])
      BY <1>1, PastFacts
    <3>. QED
      BY <3>1 DEF Closed, PastOf
  <2>. QED
    BY <2>1, <1>3 DEF Closed, PastOf
<1>. QED
  <2>. HIDE DEF S
  <2>1. c \in S
    BY DEF S
  <2>2. Past[c] \subseteq S
    BY <1>2, <1>4, <2>1, PastFacts
  <2>. QED
    BY <2>2 DEF S

\* The pasts of changes make a closed set with them.
LEMMA PastOfFacts ==
    ASSUME NEW cs \in SUBSET Change
    PROVE  /\ PastOf(cs) \in SUBSET Change /\ cs \subseteq PastOf(cs) /\ Closed(PastOf(cs))
           /\ \A c \in cs : Past[c] \subseteq PastOf(cs)
           /\ \A S \in SUBSET Change : cs \subseteq S /\ Closed(S) => PastOf(cs) \subseteq S
           /\ \A ds \in SUBSET cs : PastOf(ds) \subseteq PastOf(cs)
<1>1. \A c \in cs : Past[c] \in SUBSET Change /\ c \in Past[c] /\ Closed(Past[c])
  BY PastFacts
<1>2. PastOf(cs) \in SUBSET Change /\ cs \subseteq PastOf(cs)
  BY <1>1 DEF PastOf
<1>3. Closed(PastOf(cs))
  BY <1>1 DEF PastOf, Closed
<1>4. \A S \in SUBSET Change : cs \subseteq S /\ Closed(S) => PastOf(cs) \subseteq S
  <2>. SUFFICES ASSUME NEW S \in SUBSET Change, cs \subseteq S, Closed(S), NEW c \in cs
                PROVE  Past[c] \subseteq S
    BY DEF PastOf
  <2>. QED
    BY PastFacts
<1>. QED
  BY <1>2, <1>3, <1>4 DEF PastOf

\* A finite set of changes that is not empty has a newest one.
LEMMA NewestFacts ==
    ASSUME NEW S \in SUBSET Change, S # {}
    PROVE  \E x \in S : \A y \in S : y <= x
<1>. DEFINE Above(x) == {y \in S : y > x}
            Aboves == {Above(x) : x \in S}
<1>0. S \in SUBSET Nat
  BY ChangeAssumption
<1>1. IsFiniteSet(S)
  BY ChangeAssumption, FS_Subset
<1>2. IsWellFoundedOn(StrictSubsetOrdering(S), SUBSET S)
  BY <1>1, FS_StrictSubsetOrderingWellFounded, FS_FiniteSubsetsOfFinite
<1>3. Aboves \subseteq SUBSET S /\ Aboves # {}
  OBVIOUS
<1>4. PICK m \in Aboves : \A a \in Aboves : <<a, m>> \notin StrictSubsetOrdering(S)
  <2>. HIDE DEF Aboves
  <2>. QED
    BY <1>2, <1>3, WFMin
<1>5. PICK x \in S : m = Above(x)
  OBVIOUS
<1>6. Above(x) = {}
  <2>. SUFFICES ASSUME NEW y \in Above(x) PROVE FALSE
    OBVIOUS
  <2>1. Above(y) \in Aboves
    OBVIOUS
  <2>2. Above(y) \subseteq Above(x) /\ y \in Above(x) /\ y \notin Above(y)
    <3>0. y \in S /\ y > x /\ x \in S
      OBVIOUS
    <3>1. \A z \in S : z \in Nat
      BY <1>0
    <3>2. \A z \in S : z > y => z > x
      BY <3>0, <3>1
    <3>3. ~(y > y)
      BY <3>0, <3>1
    <3>. QED
      BY <3>0, <3>2, <3>3
  <2>3. <<Above(y), Above(x)>> \in StrictSubsetOrdering(S)
    BY <2>2 DEF StrictSubsetOrdering
  <2>. QED
    BY <1>4, <1>5, <2>1, <2>3
<1>7. \A y \in S : ~(y > x)
  BY <1>6
<1>. QED
  BY <1>7, <1>0

\* Behind the heads of a set of changes lies all of it.
LEMMA HeadsCover ==
    ASSUME NEW cs \in SUBSET Change
    PROVE  /\ Heads(cs) \in SUBSET cs
           /\ cs \subseteq PastOf(Heads(cs))
<1>. SUFFICES ASSUME NEW c \in cs PROVE c \in PastOf(Heads(cs))
  BY DEF Heads
<1>. DEFINE S == {d \in cs : c \in Past[d]}
<1>1. S \in SUBSET Change /\ c \in S
  BY PastFacts
<1>2. PICK h \in S : \A d \in S : d <= h
  <2>. HIDE DEF S
  <2>. QED
    BY <1>1, NewestFacts
<1>3. h \notin Parents(cs)
  <2>. SUFFICES ASSUME NEW d \in cs, h \in Prev[d] PROVE FALSE
    BY DEF Parents
  <2>1. d \in Change /\ h < d /\ h \in Nat /\ d \in Nat /\ h \in Change
    BY <1>2, ChangeAssumption
  <2>2. h \in Past[d]
    BY <2>1, PastFacts DEF Closed
  <2>3. c \in Past[d]
    BY <2>1, <2>2, PastIsOlder
  <2>4. d <= h
    BY <1>2, <2>3
  <2>. QED
    BY <2>1, <2>4
<1>. QED
  BY <1>2, <1>3 DEF Heads, PastOf

----------------------------------------------------------------------------
(* The engine.                                                             *)

LEMMA BumpFacts ==
    ASSUME NEW s \in States
    PROVE  /\ Bump(s) \in States
           /\ Bump(s).entries = s.entries /\ Bump(s).frontier = s.frontier
           /\ Bump(s).pending = s.pending /\ Bump(s).seeded = s.seeded
           /\ Bump(s).unread = s.unread
<1>1. 1 - s.seq \in 0..1
  BY DEF States
<1>. QED
  BY <1>1 DEF Bump, States

\* The counter goes down by what it no longer counts.
LEMMA DropFacts ==
    ASSUME NEW s \in States, Counted(s), NEW cs
    PROVE  /\ Drop(s, cs) \in States /\ Counted(Drop(s, cs))
           /\ Drop(s, cs).entries = s.entries \ cs
           /\ Drop(s, cs).frontier = s.frontier
           /\ Drop(s, cs).pending = s.pending /\ Drop(s, cs).seeded = s.seeded
           /\ Drop(s, cs).seq = s.seq
<1>. DEFINE gone == cs \cap s.entries
            left == s.entries \ cs
<1>1. s.entries \in SUBSET Change
  BY DEF States
<1>2. IsFiniteSet(gone) /\ IsFiniteSet(left)
  BY <1>1, ChangeAssumption, FS_Subset
<1>3. Cardinality(gone) \in Nat /\ Cardinality(left) \in Nat
  BY <1>2, FS_CardinalityType
<1>4. Cardinality(left) = s.unread - Cardinality(gone)
  <2>1. gone \cup left = s.entries /\ gone \cap left = {}
    OBVIOUS
  <2>2. Cardinality(gone \cap left) = 0
    BY <2>1, FS_EmptySet
  <2>3. Cardinality(s.entries) = Cardinality(gone) + Cardinality(left) - Cardinality(gone \cap left)
    <3>. HIDE DEF gone, left
    <3>. QED
      BY <1>2, <2>1, FS_Union
  <2>. HIDE DEF gone, left
  <2>. QED
    BY <1>3, <2>2, <2>3 DEF Counted
<1>5. Drop(s, cs) = [s EXCEPT !.entries = left, !.unread = s.unread - Cardinality(gone)]
  BY DEF Drop
<1>. HIDE DEF gone
<1>6. left \in SUBSET Change /\ s.unread - Cardinality(gone) \in Nat
  BY <1>1, <1>3, <1>4
<1>7. Drop(s, cs) \in States
  BY <1>5, <1>6 DEF States
<1>8. /\ Drop(s, cs).entries = left /\ Drop(s, cs).unread = s.unread - Cardinality(gone)
      /\ Drop(s, cs).frontier = s.frontier
      /\ Drop(s, cs).pending = s.pending /\ Drop(s, cs).seeded = s.seeded
      /\ Drop(s, cs).seq = s.seq
  BY <1>5 DEF States
<1>. QED
  BY <1>4, <1>7, <1>8 DEF Counted

\* The frontier only shrinks.
LEMMA CompactFacts ==
    ASSUME NEW s \in States
    PROVE  /\ Compact(s) \in States
           /\ Compact(s).frontier \subseteq s.frontier
           /\ Compact(s).entries = s.entries /\ Compact(s).pending = s.pending
           /\ Compact(s).seeded = s.seeded /\ Compact(s).unread = s.unread
<1>. DEFINE newer(c) == Cardinality({d \in s.frontier : d > c})
            kept == {c \in s.frontier : newer(c) < MaxFrontier}
<1>1. kept \subseteq s.frontier
  OBVIOUS
<1>2. Compact(s) = [s EXCEPT !.frontier = kept]
  BY DEF Compact
<1>. HIDE DEF kept
<1>3. kept \in SUBSET Change
  BY <1>1 DEF States
<1>. QED
  BY <1>1, <1>2, <1>3 DEF States

\* A read state all of whose entries and frontier are stored, with nothing but
\* E unread behind the frontier.
Reads(s, E) ==
    /\ s \in States /\ Counted(s)
    /\ s.entries \subseteq Stored /\ s.frontier \subseteq Stored
    /\ \A f \in s.frontier : Past[f] \cap s.entries \subseteq E

\* t is s with ids marked: what is read lies behind one of them, nothing but E
\* behind them is unread, and those that are not stored are pending.
Covers(s, t, ids, E) ==
    /\ t \in States /\ Counted(t)
    /\ t.entries \subseteq s.entries
    /\ s.entries \ t.entries \subseteq PastOf(ids \cap Stored)
    /\ t.frontier \subseteq s.frontier \cup (ids \cap Stored)
    /\ t.pending = s.pending \cup (ids \ Stored)
    /\ \A i \in ids \cap Stored : Past[i] \cap t.entries \subseteq E

\* A walk reads only what lies behind what is marked, and all of it: where it
\* stops, at the frontier or below every entry, there is nothing unread.
LEMMA WalkFacts ==
    ASSUME NEW s, NEW E, Reads(s, E), Stored \in SUBSET Change, Closed(Stored),
           NEW known \in SUBSET Stored
    PROVE  /\ Walk(s, known) \subseteq s.entries \cap PastOf(known)
           /\ \A i \in known : Past[i] \cap (s.entries \ Walk(s, known)) \subseteq E
<1>. DEFINE through == {d \in Stored \ s.frontier : \E e \in s.entries : e <= d}
            R == Reached(known, through)
            Below == {d \in Change : \A e \in s.entries : d < e}
            T == R \cup PastOf(s.frontier) \cup Below
<1>1. Walk(s, known) = (s.entries \ s.frontier) \cap R
  BY DEF Walk
<1>2. known \in SUBSET Change /\ s.entries \in SUBSET Change /\ s.frontier \in SUBSET Change
  BY DEF Reads, States
<1>3. /\ R \in SUBSET Change /\ known \subseteq R
      /\ \A d \in R \cap through : Prev[d] \subseteq R
  <2>. HIDE DEF through
  <2>. QED
    BY <1>2, ReachedFacts
<1>4. R \subseteq PastOf(known)
  <2>1. /\ PastOf(known) \in SUBSET Change /\ known \subseteq PastOf(known)
        /\ \A d \in PastOf(known) \cap through : Prev[d] \subseteq PastOf(known)
    BY <1>2, PastOfFacts DEF Closed
  <2>. HIDE DEF through
  <2>. QED
    BY <2>1, ReachedLeast
<1>5. R \subseteq Stored
  <2>1. \A d \in Stored \cap through : Prev[d] \subseteq Stored
    BY DEF Closed
  <2>. HIDE DEF through
  <2>. QED
    BY <2>1, ReachedLeast
<1>6. T \in SUBSET Change /\ known \subseteq T
  BY <1>2, <1>3, PastOfFacts
<1>7. Closed(T)
  <2>. SUFFICES ASSUME NEW d \in T PROVE Prev[d] \subseteq T
    BY DEF Closed
  <2>1. CASE d \in PastOf(s.frontier)
    BY <1>2, <2>1, PastOfFacts DEF Closed
  <2>2. CASE d \in Below
    <3>1. d \in Nat /\ \A p \in Prev[d] : p \in Change /\ p \in Nat /\ p < d
      BY <2>2, ChangeAssumption
    <3>2. \A e \in s.entries : e \in Nat /\ d < e
      BY <1>2, <2>2, ChangeAssumption
    <3>3. \A p \in Prev[d] : \A e \in s.entries : p < e
      BY <3>1, <3>2
    <3>4. Prev[d] \subseteq Below
      BY <3>1, <3>3
    <3>. QED
      BY <3>4
  <2>3. CASE d \in R /\ d \notin PastOf(s.frontier) /\ d \notin Below
    <3>1. d \in Change /\ d \in Stored /\ d \in Nat
      BY <1>3, <1>5, <2>3, ChangeAssumption
    <3>2. d \notin s.frontier
      BY <1>2, <2>3, PastOfFacts
    <3>3. PICK e \in s.entries : ~(d < e)
      BY <2>3, <3>1
    <3>4. e \in Nat /\ e <= d
      <4>1. e \in Nat
        BY <1>2, ChangeAssumption
      <4>. QED
        BY <3>1, <3>3, <4>1
    <3>5. d \in through
      BY <3>1, <3>2, <3>4
    <3>. HIDE DEF through
    <3>. QED
      BY <1>3, <2>3, <3>5
  <2>. QED
    BY <2>1, <2>2, <2>3
<1>8. ASSUME NEW i \in known, NEW e \in Past[i] \cap (s.entries \ Walk(s, known))
      PROVE  e \in E
  <2>1. i \in Change /\ e \in s.entries /\ e \in Change /\ e \in Nat
    BY <1>2, <1>8, ChangeAssumption
  <2>2. e \in T
    <3>. HIDE DEF T
    <3>. QED
      BY <1>6, <1>7, <2>1, PastFacts
  <2>3. CASE e \in R
    <3>1. e \in s.frontier
      BY <1>1, <2>1, <2>3
    <3>. QED
      BY <2>1, <3>1, PastFacts DEF Reads
  <2>4. CASE e \in PastOf(s.frontier)
    BY <2>1, <2>4 DEF Reads, PastOf
  <2>5. CASE e \in Below
    BY <2>1, <2>5
  <2>. QED
    BY <2>2, <2>3, <2>4, <2>5
<1>. QED
  BY <1>1, <1>4, <1>8

\* t is s with cs read, a frontier within f, and p pending.
Reading(s, t, cs, f, p) ==
    /\ t \in States /\ Counted(t)
    /\ t.entries = s.entries \ cs /\ t.frontier \subseteq f /\ t.pending = p
    /\ t.seeded = s.seeded

\* A new frontier, cut to its cap, and new pending marks.
Brought(s, f, p) == Bump(Compact([s EXCEPT !.frontier = f, !.pending = p]))

LEMMA UpdateFacts ==
    ASSUME NEW s \in States, Counted(s), NEW f \in SUBSET Change, NEW p \in SUBSET Change
    PROVE  Reading(s, Brought(s, f, p), {}, f, p)
<1>. DEFINE u == [s EXCEPT !.frontier = f, !.pending = p]
            t == Brought(s, f, p)
<1>1. /\ u \in States /\ u.frontier = f /\ u.pending = p
      /\ u.entries = s.entries /\ u.seeded = s.seeded /\ u.unread = s.unread
  BY DEF States
<1>2. t = Bump(Compact(u))
  BY DEF Brought
<1>. HIDE DEF u
<1>3. /\ Compact(u) \in States /\ Compact(u).frontier \subseteq f /\ Compact(u).pending = p
      /\ Compact(u).entries = s.entries /\ Compact(u).seeded = s.seeded
      /\ Compact(u).unread = s.unread
  BY <1>1, CompactFacts
<1>. HIDE DEF t
<1>4. /\ t \in States /\ t.frontier \subseteq f /\ t.pending = p
      /\ t.entries = s.entries /\ t.seeded = s.seeded /\ t.unread = s.unread
  BY <1>2, <1>3, BumpFacts
<1>5. Reading(s, t, {}, f, p)
  BY <1>4 DEF Reading, Counted
<1>. QED
  BY <1>5 DEF t

LEMMA ReadWithFacts ==
    ASSUME NEW s \in States, Counted(s), NEW cs,
           NEW f \in SUBSET Change, NEW p \in SUBSET Change
    PROVE  Reading(s, Brought(Drop(s, cs), f, p), cs, f, p)
<1>. DEFINE d == Drop(s, cs)
            t == Brought(d, f, p)
<1>1. /\ d \in States /\ Counted(d) /\ d.entries = s.entries \ cs /\ d.seeded = s.seeded
  BY DropFacts
<1>. HIDE DEF d
<1>2. Reading(d, t, {}, f, p)
  BY <1>1, UpdateFacts
<1>. HIDE DEF t
<1>3. Reading(s, t, cs, f, p)
  BY <1>1, <1>2 DEF Reading
<1>. QED
  BY <1>3 DEF t, d

\* A mark reads what lies behind the marked ids, all of it, and nothing else.
LEMMA MarkFacts ==
    ASSUME NEW s, NEW E, Reads(s, E), Stored \in SUBSET Change, Closed(Stored),
           NEW ids \in SUBSET Change
    PROVE  Covers(s, Mark(s, ids), ids, E) /\ Mark(s, ids).seeded = s.seeded
<1>. DEFINE todo == ids \ s.frontier
            known == todo \cap Stored
            unknown == todo \ Stored
            covered == Walk(s, known)
            t == Mark(s, ids)
<1>. SUFFICES Covers(s, t, ids, E) /\ t.seeded = s.seeded
  OBVIOUS
<1>1. s \in States /\ Counted(s) /\ s.frontier \subseteq Stored
  BY DEF Reads
<1>2. s.entries \in SUBSET Change /\ s.frontier \in SUBSET Change /\ s.pending \in SUBSET Change
  BY <1>1 DEF States
<1>3. unknown = ids \ Stored /\ known \in SUBSET Stored /\ unknown \in SUBSET Change
  BY <1>1
<1>4. /\ covered \subseteq s.entries \cap PastOf(known)
      /\ \A i \in known : Past[i] \cap (s.entries \ covered) \subseteq E
  <2>. HIDE DEF known
  <2>. QED
    BY <1>3, WalkFacts
<1>5. PastOf(known) \subseteq PastOf(ids \cap Stored)
  BY DEF PastOf
<1>6. \A i \in ids \cap Stored : i \in known \/ i \in s.frontier
  OBVIOUS
<1>7. \A f \in s.frontier : Past[f] \cap s.entries \subseteq E
  BY DEF Reads
<1>8. CASE todo = {}
  <2>1. t = s
    BY <1>8 DEF Mark
  <2>2. ids \subseteq s.frontier /\ ids \ Stored = {}
    BY <1>1, <1>8
  <2>. HIDE DEF t
  <2>. QED
    BY <1>1, <1>7, <2>1, <2>2 DEF Covers
<1>9. CASE s.entries = {} /\ todo # {}
  <2>1. t = MarkNoEntries(s, known, unknown)
    BY <1>9 DEF Mark
  <2>2. CASE known = {} /\ unknown \subseteq s.pending
    <3>1. t = s
      BY <2>1, <2>2 DEF MarkNoEntries
    <3>2. t.pending = s.pending \cup (ids \ Stored)
      BY <1>3, <2>2, <3>1
    <3>. HIDE DEF t, known
    <3>. QED
      BY <1>1, <1>9, <3>1, <3>2 DEF Covers
  <2>3. CASE ~(known = {} /\ unknown \subseteq s.pending)
    <3>. DEFINE f == s.frontier \cup known
                p == s.pending \cup unknown
    <3>1. t = Brought(s, f, p)
      BY <2>1, <2>3 DEF MarkNoEntries, Brought
    <3>2. f \in SUBSET Change /\ p \in SUBSET Change
      BY <1>2, <1>3
    <3>3. f \subseteq s.frontier \cup (ids \cap Stored) /\ p = s.pending \cup (ids \ Stored)
      BY <1>3
    <3>. HIDE DEF f, p, t
    <3>4. Reading(s, t, {}, f, p)
      BY <1>1, <3>1, <3>2, UpdateFacts
    <3>. HIDE DEF known, todo, unknown
    <3>. QED
      BY <1>9, <3>3, <3>4 DEF Covers, Reading
  <2>. QED
    BY <2>2, <2>3
<1>10. CASE s.entries # {} /\ todo # {}
  <2>. DEFINE f == (s.frontier \cup known) \ Parents(covered)
              p == s.pending \cup unknown
  <2>1. t = Brought(Drop(s, covered), f, p)
    <3>. DEFINE d == Drop(s, covered)
    <3>1. t = Brought(d, (d.frontier \cup known) \ Parents(covered), d.pending \cup unknown)
      BY <1>10 DEF Mark, Brought
    <3>2. d.frontier = s.frontier /\ d.pending = s.pending
      <4>. HIDE DEF covered
      <4>. QED
        BY <1>1, DropFacts
    <3>. HIDE DEF t, covered, known, unknown
    <3>3. t = Brought(d, f, p)
      <4>. HIDE DEF d
      <4>. QED
        BY <3>1, <3>2
    <3>. QED
      BY <3>3
  <2>2. f \in SUBSET Change /\ p \in SUBSET Change
    BY <1>2, <1>3
  <2>3. f \subseteq s.frontier \cup (ids \cap Stored) /\ p = s.pending \cup (ids \ Stored)
    BY <1>3
  <2>. HIDE DEF f, p, t, covered, known
  <2>4. Reading(s, t, covered, f, p)
    BY <1>1, <2>1, <2>2, ReadWithFacts
  <2>5. \A i \in ids \cap Stored : Past[i] \cap t.entries \subseteq E
    BY <1>4, <1>6, <1>7, <2>4 DEF Reading
  <2>6. s.entries \ t.entries \subseteq PastOf(ids \cap Stored)
    BY <1>4, <1>5, <2>4 DEF Reading
  <2>. QED
    BY <2>3, <2>4, <2>5, <2>6 DEF Covers, Reading
<1>. QED
  BY <1>8, <1>9, <1>10

\* What is read of what is read stays read.
LEMMA CoversReads ==
    ASSUME NEW s, NEW E, NEW t, NEW ids, Reads(s, E), Covers(s, t, ids, E)
    PROVE  Reads(t, E)
BY DEF Reads, Covers

\* One mark after another is a mark of both.
LEMMA CoversTwice ==
    ASSUME NEW s, NEW E, NEW t, NEW u, NEW ids, NEW more,
           Covers(s, t, ids, E), Covers(t, u, more, E)
    PROVE  Covers(s, u, ids \cup more, E)
<1>1. u.entries \subseteq t.entries /\ t.entries \subseteq s.entries
  BY DEF Covers
<1>2. s.entries \ u.entries \subseteq PastOf((ids \cup more) \cap Stored)
  BY <1>1 DEF Covers, PastOf
<1>3. \A i \in (ids \cup more) \cap Stored : Past[i] \cap u.entries \subseteq E
  BY <1>1 DEF Covers
<1>4. u.pending = s.pending \cup ((ids \cup more) \ Stored)
  BY DEF Covers
<1>5. u.frontier \subseteq s.frontier \cup ((ids \cup more) \cap Stored)
  BY DEF Covers
<1>. QED
  BY <1>1, <1>2, <1>3, <1>4, <1>5 DEF Covers

\* The first entries of a set: what is older than one of them is one.
LEMMA FirstFacts ==
    ASSUME NEW es \in SUBSET Change, NEW n \in Nat,
           NEW h \in FirstEntries(es, n), NEW e \in es, e <= h
    PROVE  e \in FirstEntries(es, n)
<1>. DEFINE below(x) == {d \in es : d < x}
<1>1. h \in es /\ Cardinality(below(h)) < n
  BY DEF FirstEntries
<1>2. \A d \in es : d \in Nat
  BY ChangeAssumption
<1>3. below(e) \subseteq below(h)
  BY <1>1, <1>2
<1>4. IsFiniteSet(below(h))
  <2>1. below(h) \in SUBSET Change
    OBVIOUS
  <2>. QED
    BY <2>1, ChangeAssumption, FS_Subset
<1>5. /\ Cardinality(below(e)) <= Cardinality(below(h))
      /\ Cardinality(below(e)) \in Nat /\ Cardinality(below(h)) \in Nat
  <2>. HIDE DEF below
  <2>. QED
    BY <1>3, <1>4, FS_Subset, FS_CardinalityType
<1>6. Cardinality(below(e)) < n
  <2>. HIDE DEF below
  <2>. QED
    BY <1>1, <1>5
<1>. QED
  BY <1>6 DEF FirstEntries

\* A chunk reads the oldest entries of its range: nothing that stays unread
\* lies behind them.
LEMMA ChunkFacts ==
    ASSUME NEW s, NEW E, Reads(s, E), NEW v \in Change,
           NEW cs, cs = FirstEntries(InRange(s, v), ChunkSize)
    PROVE  /\ cs \subseteq InRange(s, v)
           /\ Covers(s, MarkChunk(s, v), Heads(cs), E) /\ MarkChunk(s, v).seeded = s.seeded
<1>. DEFINE t == MarkChunk(s, v)
            ids == Heads(cs)
<1>. SUFFICES cs \subseteq InRange(s, v) /\ Covers(s, t, ids, E) /\ t.seeded = s.seeded
  OBVIOUS
<1>1. /\ s \in States /\ Counted(s) /\ s.entries \subseteq Stored
      /\ \A f \in s.frontier : Past[f] \cap s.entries \subseteq E
  BY DEF Reads
<1>2. s.entries \in SUBSET Change /\ s.frontier \in SUBSET Change /\ s.pending \in SUBSET Change
  BY <1>1 DEF States
<1>3. cs \subseteq InRange(s, v) /\ InRange(s, v) \subseteq s.entries
  BY DEF FirstEntries, InRange
<1>4. cs \in SUBSET Change /\ cs \subseteq s.entries
  BY <1>2, <1>3
<1>5. ids \in SUBSET cs /\ cs \subseteq PastOf(ids)
  BY <1>4, HeadsCover
<1>6. ids \cap Stored = ids /\ ids \ Stored = {}
  BY <1>1, <1>4, <1>5
<1>7. ASSUME NEW i \in ids, NEW e \in Past[i], e \in s.entries
      PROVE  e \in cs
  <2>1. i \in cs /\ i \in Change /\ e <= i /\ e \in Nat /\ i \in Nat
    BY <1>4, <1>5, PastIsOlder, ChangeAssumption
  <2>2. i <= v /\ v \in Nat
    BY <1>3, <2>1, ChangeAssumption DEF InRange
  <2>3. e \in InRange(s, v)
    BY <1>7, <2>1, <2>2 DEF InRange
  <2>4. InRange(s, v) \in SUBSET Change /\ ChunkSize \in Nat
    BY <1>2, <1>3, BoundAssumption
  <2>. QED
    BY <2>1, <2>3, <2>4, FirstFacts
<1>8. CASE cs = {}
  <2>1. t = s
    BY <1>8 DEF MarkChunk
  <2>2. ids = {}
    BY <1>5, <1>8
  <2>. HIDE DEF t, ids
  <2>. QED
    BY <1>1, <1>3, <2>1, <2>2 DEF Covers
<1>9. CASE cs # {}
  <2>. DEFINE d == Drop(s, cs)
              f == (s.frontier \ Parents(cs)) \cup ids
  <2>1. d \in States /\ d.frontier = s.frontier /\ d.pending = s.pending
    BY <1>1, DropFacts
  <2>2. t = Brought(d, f, s.pending)
    <3>1. t = Bump(Compact([d EXCEPT !.frontier = (d.frontier \ Parents(cs)) \cup ids]))
      BY <1>9 DEF MarkChunk
    <3>2. ASSUME NEW u \in States, NEW g, NEW p, p = u.pending
          PROVE  [u EXCEPT !.frontier = g] = [u EXCEPT !.frontier = g, !.pending = p]
      BY <3>2 DEF States
    <3>. HIDE DEF d, ids, t
    <3>3. t = Bump(Compact([d EXCEPT !.frontier = f]))
      BY <2>1, <3>1
    <3>. HIDE DEF f
    <3>4. [d EXCEPT !.frontier = f] = [d EXCEPT !.frontier = f, !.pending = s.pending]
      BY <2>1, <3>2
    <3>. QED
      BY <3>3, <3>4 DEF Brought
  <2>3. f \in SUBSET Change /\ f \subseteq s.frontier \cup ids
    BY <1>2, <1>4, <1>5
  <2>. HIDE DEF d, f, t, ids
  <2>4. Reading(s, t, cs, f, s.pending)
    BY <1>1, <1>2, <2>2, <2>3, ReadWithFacts DEF d
  <2>5. \A i \in ids \cap Stored : Past[i] \cap t.entries \subseteq E
    BY <1>7, <2>4 DEF Reading
  <2>6. s.entries \ t.entries \subseteq PastOf(ids \cap Stored)
    BY <1>5, <1>6, <2>4 DEF Reading
  <2>. QED
    BY <1>3, <1>6, <2>3, <2>4, <2>5, <2>6 DEF Covers, Reading
<1>. QED
  BY <1>8, <1>9

\* Seeding an object with everything read marks the heads of its tree.
LEMMA SeedAllReadFacts ==
    ASSUME NEW s, NEW E, Reads(s, E), ~s.seeded, Stored \in SUBSET Change
    PROVE  Covers(s, SeedAllRead(s, Heads(Stored)), Heads(Stored), E)
<1>. DEFINE tips == Heads(Stored)
            u == [s EXCEPT !.entries = {}, !.unread = 0, !.frontier = tips, !.seeded = TRUE]
            t == SeedAllRead(s, tips)
<1>. SUFFICES Covers(s, t, tips, E)
  OBVIOUS
<1>1. s \in States /\ s.entries \subseteq Stored
  BY DEF Reads
<1>2. tips \in SUBSET Stored /\ Stored \subseteq PastOf(tips)
  BY HeadsCover
<1>3. tips \in SUBSET Change
  BY <1>2
<1>4. t = u \/ t = Bump(u)
  BY DEF SeedAllRead
<1>. HIDE DEF tips, t
<1>5. /\ u \in States /\ u.entries = {} /\ u.unread = 0 /\ u.frontier = tips
      /\ u.pending = s.pending
  BY <1>1, <1>3 DEF States
<1>. HIDE DEF u
<1>6. /\ t \in States /\ t.entries = {} /\ t.unread = 0 /\ t.frontier = tips
      /\ t.pending = s.pending
  BY <1>4, <1>5, BumpFacts
<1>7. Counted(t)
  BY <1>6, FS_EmptySet DEF Counted
<1>8. tips \cap Stored = tips /\ tips \ Stored = {}
  BY <1>2
<1>. QED
  BY <1>1, <1>2, <1>6, <1>7, <1>8 DEF Covers

\* Seeding it from the published frontiers marks them.
LEMMA SeedPublishedFacts ==
    ASSUME NEW s, NEW E, Reads(s, E), Stored \in SUBSET Change, Closed(Stored),
           NEW r, r.own \in SUBSET Change, r.other \in SUBSET Change
    PROVE  Covers(s, SeedPublished(s, r), r.own \cup r.other, E)
<1>. DEFINE u == [s EXCEPT !.seeded = TRUE]
            m == Mark(u, r.own)
            merged == Mark(m, r.other)
            t == SeedPublished(s, r)
<1>. SUFFICES Covers(s, t, r.own \cup r.other, E)
  OBVIOUS
<1>1. s \in States
  BY DEF Reads
<1>2. /\ u \in States /\ u.entries = s.entries /\ u.frontier = s.frontier
      /\ u.pending = s.pending /\ u.unread = s.unread
  BY <1>1 DEF States
<1>3. t = merged \/ t = [merged EXCEPT !.seq = 1 - s.seq]
  BY DEF SeedPublished
<1>. HIDE DEF t, u
<1>4. Reads(u, E)
  BY <1>2 DEF Reads, Counted
<1>5. Covers(u, m, r.own, E)
  BY <1>4, MarkFacts
<1>6. Reads(m, E)
  BY <1>4, <1>5, CoversReads
<1>. HIDE DEF m
<1>7. Covers(m, merged, r.other, E)
  BY <1>6, MarkFacts
<1>. HIDE DEF merged
<1>8. Covers(u, merged, r.own \cup r.other, E)
  BY <1>5, <1>7, CoversTwice
<1>9. Covers(s, merged, r.own \cup r.other, E)
  BY <1>2, <1>8 DEF Covers
<1>10. /\ t \in States /\ t.entries = merged.entries /\ t.frontier = merged.frontier
       /\ t.pending = merged.pending /\ t.unread = merged.unread
  <2>1. merged \in States /\ 1 - s.seq \in 0..1
    BY <1>1, <1>9 DEF Covers, States
  <2>. QED
    BY <1>3, <2>1 DEF States
<1>. QED
  BY <1>9, <1>10 DEF Covers, Counted

\* What an applied change adds to the entries, and to the frontier.
Inserted(s, c) ==
    {d \in {c} : d \in Tracked \ Own /\ d \notin s.frontier /\ d \notin s.pending}
Advanced(s, c) == {d \in {c} : d \in Own /\ Prev[d] \subseteq s.frontier}

\* t is s with c tracked, but for a pending mark of c.
IsTracked(s, t, c) ==
    /\ t \in States /\ Counted(t)
    /\ t.entries = (s.entries \ Clears[c]) \cup Inserted(s, c)
    /\ t.frontier \subseteq s.frontier \cup Advanced(s, c)
    /\ t.pending = s.pending \ {c} /\ t.seeded = s.seeded

\* A change without a pending mark is tracked; one with it is tracked and
\* marked.
LEMMA TrackFacts ==
    ASSUME NEW s \in States, Counted(s), NEW c \in Change, c \notin s.entries
    PROVE  \/ c \notin s.pending /\ IsTracked(s, Track(s, c), c)
           \/ /\ c \in s.pending
              /\ \E m \in States : /\ IsTracked(s, m, c)
                                   /\ Track(s, c) = [Mark(m, {c}) EXCEPT !.seq = 1 - s.seq]
<1>. DEFINE wasPending == c \in s.pending
            cleared == Drop(s, Clears[c])
            inserts == c \in Tracked \ Own /\ c \notin s.frontier /\ ~wasPending
            advances == c \in Own /\ Prev[c] \subseteq s.frontier
            es == IF inserts THEN cleared.entries \cup {c} ELSE cleared.entries
            n == IF inserts THEN cleared.unread + 1 ELSE cleared.unread
            f == IF advances THEN (cleared.frontier \ Prev[c]) \cup {c} ELSE cleared.frontier
            p == cleared.pending \ {c}
            m == [cleared EXCEPT !.entries = es, !.unread = n, !.frontier = f, !.pending = p]
<1>1. /\ cleared \in States /\ Counted(cleared)
      /\ cleared.entries = s.entries \ Clears[c] /\ cleared.frontier = s.frontier
      /\ cleared.pending = s.pending /\ cleared.seeded = s.seeded
  BY DropFacts
<1>2. s.entries \in SUBSET Change /\ s.frontier \in SUBSET Change /\ s.pending \in SUBSET Change
  BY DEF States
<1>3. Track(s, c) = IF wasPending THEN [Mark(m, {c}) EXCEPT !.seq = 1 - s.seq]
                    ELSE IF inserts \/ advances \/ cleared # s THEN Bump(m) ELSE s
  BY DEF Track
<1>. HIDE DEF cleared
<1>4. es = (s.entries \ Clears[c]) \cup Inserted(s, c)
  BY <1>1 DEF Inserted
<1>5. f \subseteq s.frontier \cup Advanced(s, c)
  BY <1>1 DEF Advanced
<1>6. es \in SUBSET Change /\ f \in SUBSET Change /\ p \in SUBSET Change
  BY <1>1, <1>2
<1>7. n \in Nat /\ n = Cardinality(es)
  <2>1. cleared.unread = Cardinality(cleared.entries) /\ cleared.unread \in Nat
    BY <1>1 DEF Counted, States
  <2>2. IsFiniteSet(cleared.entries) /\ c \notin cleared.entries
    BY <1>1, <1>2, ChangeAssumption, FS_Subset
  <2>3. Cardinality(cleared.entries \cup {c}) = cleared.unread + 1
    BY <2>1, <2>2, FS_AddElement
  <2>. QED
    BY <2>1, <2>3
<1>8. p = s.pending \ {c}
  BY <1>1
<1>. HIDE DEF es, n, f, p
<1>9. /\ m \in States /\ m.entries = es /\ m.unread = n /\ m.frontier = f /\ m.pending = p
      /\ m.seeded = s.seeded
  BY <1>1, <1>6, <1>7 DEF States
<1>. HIDE DEF m
<1>10. IsTracked(s, m, c)
  BY <1>4, <1>5, <1>7, <1>8, <1>9 DEF IsTracked, Counted
<1>11. CASE wasPending
  BY <1>3, <1>9, <1>10, <1>11
<1>12. CASE ~wasPending /\ (inserts \/ advances \/ cleared # s)
  <2>1. Track(s, c) = Bump(m)
    BY <1>3, <1>12
  <2>2. IsTracked(s, Bump(m), c)
    BY <1>9, <1>10, BumpFacts DEF IsTracked, Counted
  <2>. QED
    BY <1>12, <2>1, <2>2
<1>13. CASE ~wasPending /\ ~(inserts \/ advances \/ cleared # s)
  <2>1. Track(s, c) = s /\ cleared = s
    BY <1>3, <1>13
  <2>2. Inserted(s, c) = {} /\ Advanced(s, c) = {}
    BY <1>13 DEF Inserted, Advanced
  <2>3. s.entries = s.entries \ Clears[c] /\ s.pending = s.pending \ {c}
    BY <1>1, <1>13, <2>1
  <2>4. IsTracked(s, s, c)
    BY <2>2, <2>3 DEF IsTracked
  <2>. QED
    BY <1>13, <2>1, <2>4
<1>. QED
  BY <1>11, <1>12, <1>13

----------------------------------------------------------------------------
(* The log.                                                                *)

\* The stored changes and the applied ones are closed; the next one to apply
\* follows applied ones only.
LEMMA LogFacts ==
    Types /\ Causal =>
        /\ Stored \in SUBSET Change /\ Applied \subseteq Stored
        /\ Closed(Stored) /\ Closed(Applied)
        /\ done = Len(log) => Applied = Stored
        /\ done < Len(log) => /\ log[done + 1] \in Stored \ Applied
                              /\ Prev[log[done + 1]] \subseteq Applied
<1>. SUFFICES ASSUME Types, Causal
              PROVE  /\ Stored \in SUBSET Change /\ Applied \subseteq Stored
                     /\ Closed(Stored) /\ Closed(Applied)
                     /\ done = Len(log) => Applied = Stored
                     /\ done < Len(log) => /\ log[done + 1] \in Stored \ Applied
                                           /\ Prev[log[done + 1]] \subseteq Applied
  OBVIOUS
<1>1. /\ log \in Seq(Change) /\ done \in 0..Len(log) /\ Len(log) \in Nat
      /\ DOMAIN log = 1..Len(log)
      /\ \A i \in 1..Len(log) : log[i] \in Change
      /\ \A i, j \in 1..Len(log) : log[i] = log[j] => i = j
  BY DEF Types, IsInjective
<1>2. Stored = {log[i] : i \in 1..Len(log)}
  BY <1>1 DEF Stored, Range
<1>3. \A i \in 1..Len(log) : \A p \in Prev[log[i]] : \E j \in 1..(i - 1) : p = log[j]
  BY DEF Causal
<1>4. Stored \in SUBSET Change /\ Applied \subseteq Stored
  BY <1>1, <1>2 DEF Applied
<1>5. Closed(Stored)
  <2>. SUFFICES ASSUME NEW i \in 1..Len(log), NEW p \in Prev[log[i]] PROVE p \in Stored
    BY <1>2 DEF Closed
  <2>1. PICK j \in 1..(i - 1) : p = log[j]
    BY <1>3
  <2>2. j \in 1..Len(log)
    BY <1>1
  <2>. QED
    BY <1>2, <2>1, <2>2
<1>6. Closed(Applied)
  <2>. SUFFICES ASSUME NEW i \in 1..done, NEW p \in Prev[log[i]] PROVE p \in Applied
    BY DEF Closed, Applied
  <2>1. i \in 1..Len(log)
    BY <1>1
  <2>2. PICK j \in 1..(i - 1) : p = log[j]
    BY <1>3, <2>1
  <2>3. j \in 1..done
    BY <1>1
  <2>. QED
    BY <2>2, <2>3 DEF Applied
<1>7. done = Len(log) => Applied = Stored
  BY <1>2 DEF Applied
<1>8. ASSUME done < Len(log)
      PROVE  log[done + 1] \in Stored \ Applied /\ Prev[log[done + 1]] \subseteq Applied
  <2>1. done + 1 \in 1..Len(log) /\ done \in Nat /\ (done + 1) - 1 = done
    BY <1>1, <1>8
  <2>2. log[done + 1] \notin Applied
    <3>. SUFFICES ASSUME NEW i \in 1..done, log[i] = log[done + 1] PROVE FALSE
      BY DEF Applied
    <3>1. i \in 1..Len(log) /\ i # done + 1
      BY <1>1, <2>1
    <3>. QED
      BY <1>1, <2>1, <3>1
  <2>3. \A p \in Prev[log[done + 1]] : \E j \in 1..done : p = log[j]
    BY <1>3, <2>1
  <2>. QED
    BY <1>2, <2>1, <2>2, <2>3 DEF Applied
<1>. QED
  BY <1>4, <1>5, <1>6, <1>7, <1>8

\* What lies behind an applied change is applied.
LEMMA PastApplied ==
    Types /\ Causal => \A k \in Applied : Past[k] \subseteq Applied
<1>. SUFFICES ASSUME Types, Causal, NEW k \in Applied PROVE Past[k] \subseteq Applied
  OBVIOUS
<1>1. Applied \in SUBSET Change /\ Closed(Applied)
  BY LogFacts
<1>. HIDE DEF Applied
<1>2. k \in Change
  BY <1>1
<1>. QED
  BY <1>1, <1>2, PastFacts

\* What the changes marked and seen so far are.
LEMMA InvSets ==
    Inv => /\ st \in States /\ Counted(st)
           /\ st.entries \in SUBSET Change /\ st.frontier \in SUBSET Change
           /\ st.pending \in SUBSET Change /\ st.seeded \in BOOLEAN
           /\ Claimed \in SUBSET Change /\ marked \in SUBSET Change
           /\ early \in SUBSET marked /\ dropped \in SUBSET Change
           /\ Reads(st, PastOf(early))
<1>. SUFFICES ASSUME Inv
              PROVE  /\ st \in States /\ Counted(st)
                     /\ st.entries \in SUBSET Change /\ st.frontier \in SUBSET Change
                     /\ st.pending \in SUBSET Change /\ st.seeded \in BOOLEAN
                     /\ Claimed \in SUBSET Change /\ marked \in SUBSET Change
                     /\ early \in SUBSET marked /\ dropped \in SUBSET Change
                     /\ Reads(st, PastOf(early))
  OBVIOUS
<1>1. st \in States /\ Counted(st) /\ marked \in SUBSET Change /\ dropped \in SUBSET Change
  BY DEF Inv, Types
<1>2. /\ st.entries \in SUBSET Change /\ st.frontier \in SUBSET Change
      /\ st.pending \in SUBSET Change /\ st.seeded \in BOOLEAN
  BY <1>1 DEF States
<1>3. Stored \in SUBSET Change
  BY LogFacts DEF Inv
<1>4. /\ Claimed \subseteq Stored /\ early \subseteq marked
      /\ st.entries \subseteq Stored /\ st.frontier \subseteq Claimed
  BY DEF Inv, Places, Claimed
<1>5. \A f \in st.frontier : Past[f] \cap st.entries \subseteq PastOf(early)
  BY <1>4 DEF Inv, Behind, ReadBehind
<1>6. Reads(st, PastOf(early))
  BY <1>1, <1>4, <1>5 DEF Reads
<1>. QED
  BY <1>1, <1>2, <1>3, <1>4, <1>6

----------------------------------------------------------------------------
(* Steps that mark.                                                        *)

\* A mark keeps what the invariant says of the read state, and of what is
\* marked: the ids join it, stored or pending, noted early where they are
\* stored and not applied; what is read by it lies behind them.
LEMMA CoverStep ==
    ASSUME Inv, NEW ids \in SUBSET Change,
           Covers(st, st', ids, PastOf(early)), NoteMark(ids), UNCHANGED store,
           Claimed' \subseteq Claimed \cup st'.frontier, dropped \subseteq dropped',
           dropped' \in SUBSET Change
    PROVE  /\ (st \in States /\ Counted(st))'
           /\ (marked \in SUBSET Change /\ early \in SUBSET Change /\ dropped \in SUBSET Change)'
           /\ Causal' /\ Places' /\ Behind'
           /\ (reindex' = reindex \/ Applied = Stored) => Noted'
           /\ \A c \in Change : Accounted(c) => Accounted(c)'
           /\ PastOf(ids \cap Stored) \subseteq PastOf(marked')
<1>1. /\ st \in States /\ Counted(st)
      /\ st.entries \in SUBSET Change /\ st.frontier \in SUBSET Change
      /\ st.pending \in SUBSET Change
      /\ Claimed \in SUBSET Change /\ marked \in SUBSET Change
      /\ early \in SUBSET marked /\ dropped \in SUBSET Change
  BY InvSets
<1>2. Stored \in SUBSET Change /\ Applied \subseteq Stored
  BY LogFacts DEF Inv
<1>3. Stored' = Stored /\ Applied' = Applied /\ log' = log
  BY DEF store, Stored, Applied
<1>4. marked' = marked \cup ids /\ early' = early \cup (ids \cap (Stored \ Applied))
  BY DEF NoteMark
<1>5. /\ st' \in States /\ st'.unread = Cardinality(st'.entries)
      /\ st'.entries \subseteq st.entries
      /\ st.entries \ st'.entries \subseteq PastOf(ids \cap Stored)
      /\ st'.frontier \subseteq st.frontier \cup (ids \cap Stored)
      /\ st'.pending = st.pending \cup (ids \ Stored)
      /\ \A i \in ids \cap Stored : Past[i] \cap st'.entries \subseteq PastOf(early)
  BY DEF Covers, Counted
<1>6. Claimed' \subseteq Claimed \cup (ids \cap Stored)
  <2>1. st.frontier \subseteq Claimed
    BY DEF Claimed
  <2>. QED
    BY <1>5, <2>1
<1>7. PastOf(early) \subseteq PastOf(early') /\ PastOf(marked) \subseteq PastOf(marked')
  BY <1>4 DEF PastOf
<1>8. PastOf(ids \cap Stored) \subseteq PastOf(marked')
  BY <1>4 DEF PastOf
<1>9. marked' \in SUBSET Change /\ early' \in SUBSET Change
  BY <1>1, <1>4
<1>10. Causal'
  <2>1. Causal
    BY DEF Inv
  <2>. QED
    BY <1>3, <2>1 DEF Causal
<1>11. Places'
  <2>1. /\ st.entries \subseteq (Tracked \cap Stored) \ Own /\ Claimed \subseteq Stored
        /\ st.pending \subseteq marked /\ early \subseteq marked
        /\ marked \subseteq Stored \cup st.pending
    BY DEF Inv, Places
  <2>2. st'.entries \subseteq (Tracked \cap Stored) \ Own
    BY <1>5, <2>1
  <2>3. Claimed' \subseteq Stored
    BY <1>6, <2>1
  <2>4. st'.pending \subseteq marked' /\ early' \subseteq marked'
    BY <1>4, <1>5, <2>1
  <2>5. marked' \subseteq Stored \cup st'.pending
    BY <1>4, <1>5, <2>1
  <2>. QED
    BY <1>3, <2>2, <2>3, <2>4, <2>5 DEF Places
<1>12. Behind'
  <2>1. ASSUME NEW k \in Change, ReadBehind(k) PROVE ReadBehind(k)'
    <3>1. Past[k] \cap st.entries \subseteq PastOf(early)
      BY <2>1 DEF ReadBehind
    <3>2. Past[k] \cap st'.entries \subseteq PastOf(early')
      BY <1>5, <1>7, <3>1
    <3>. QED
      BY <3>2 DEF ReadBehind
  <2>2. ASSUME NEW i \in ids \cap Stored PROVE ReadBehind(i)'
    <3>1. Past[i] \cap st'.entries \subseteq PastOf(early')
      BY <1>5, <1>7
    <3>. QED
      BY <3>1 DEF ReadBehind
  <2>3. ASSUME NEW k \in Claimed' PROVE ReadBehind(k)'
    <3>1. CASE k \in Claimed
      BY <1>1, <2>1, <3>1 DEF Inv, Behind
    <3>2. CASE k \in ids \cap Stored
      BY <2>2, <3>2
    <3>. QED
      BY <1>6, <3>1, <3>2
  <2>4. ASSUME NEW k \in marked' PROVE k \in st'.pending \/ ReadBehind(k)'
    <3>1. CASE k \in marked
      <4>1. k \in st.pending \/ ReadBehind(k)
        BY <3>1 DEF Inv, Behind
      <4>. QED
        BY <1>1, <1>5, <2>1, <3>1, <4>1
    <3>2. CASE k \in ids \cap Stored
      BY <2>2, <3>2
    <3>3. CASE k \in ids \ Stored
      BY <1>5, <3>3
    <3>. QED
      BY <1>4, <3>1, <3>2, <3>3
  <2>. QED
    BY <2>3, <2>4 DEF Behind
<1>13. ASSUME reindex' = reindex \/ Applied = Stored PROVE Noted'
  <2>1. ASSUME ~reindex'
        PROVE  /\ Claimed' \ Applied \subseteq early'
               /\ (marked' \cap Stored) \ Applied \subseteq early' \cup st'.pending
               /\ st'.entries \subseteq Applied
    <3>1. CASE Applied = Stored
      <4>1. Claimed' \subseteq Stored /\ st'.entries \subseteq Stored
        BY <1>3, <1>11 DEF Places
      <4>. QED
        BY <3>1, <4>1
    <3>2. CASE reindex' = reindex
      <4>1. /\ Claimed \ Applied \subseteq early
            /\ (marked \cap Stored) \ Applied \subseteq early \cup st.pending
            /\ st.entries \subseteq Applied
        BY <2>1, <3>2 DEF Inv, Noted
      <4>2. Claimed' \ Applied \subseteq early'
        BY <1>4, <1>6, <4>1
      <4>3. (marked' \cap Stored) \ Applied \subseteq early' \cup st'.pending
        BY <1>4, <1>5, <4>1
      <4>4. st'.entries \subseteq Applied
        BY <1>5, <4>1
      <4>. QED
        BY <4>2, <4>3, <4>4
    <3>. QED
      BY <1>13, <3>1, <3>2
  <2>2. st'.pending \cap Applied \subseteq early'
    <3>1. st.pending \cap Applied \subseteq early
      BY DEF Inv, Noted
    <3>. QED
      BY <1>2, <1>4, <1>5, <3>1
  <2>. QED
    BY <1>3, <2>1, <2>2 DEF Noted
<1>14. ASSUME NEW c \in Change, Accounted(c) PROVE Accounted(c)'
  <2>1. c \in st.entries \cup PastOf(marked) \cup dropped
    BY <1>14 DEF Accounted
  <2>2. c \in st'.entries \cup PastOf(marked') \cup dropped'
    BY <1>5, <1>7, <1>8, <2>1
  <2>. QED
    BY <2>2 DEF Accounted
<1>15. (st \in States /\ Counted(st))'
  BY <1>5 DEF Counted
<1>. QED
  BY <1>8, <1>9, <1>10, <1>11, <1>12, <1>13, <1>14, <1>15

\* A walk from ids of the state at hand.
LEMMA MarkStep ==
    ASSUME Inv, NEW ids \in SUBSET Change, st' = Mark(st, ids)
    PROVE  Covers(st, st', ids, PastOf(early)) /\ st'.seeded = st.seeded
<1>1. Reads(st, PastOf(early)) /\ Stored \in SUBSET Change /\ Closed(Stored)
  BY InvSets, LogFacts DEF Inv
<1>2. Covers(st, Mark(st, ids), ids, PastOf(early)) /\ Mark(st, ids).seeded = st.seeded
  BY <1>1, MarkFacts
<1>. QED
  BY <1>2

\* A mark that leaves the object alone.
LEMMA ReadStep ==
    ASSUME Inv, NEW ids \in SUBSET Change,
           Covers(st, st', ids, PastOf(early)), st'.seeded = st.seeded, NoteMark(ids),
           UNCHANGED <<store, load, dropped>>, Claimed' \subseteq Claimed \cup st'.frontier, Aside'
    PROVE  Inv'
<1>1. /\ (st \in States /\ Counted(st))'
      /\ (marked \in SUBSET Change /\ early \in SUBSET Change /\ dropped \in SUBSET Change)'
      /\ Causal' /\ Places' /\ Behind'
      /\ (reindex' = reindex \/ Applied = Stored) => Noted'
      /\ \A c \in Change : Accounted(c) => Accounted(c)'
  <2>1. dropped \subseteq dropped' /\ dropped' \in SUBSET Change
    BY InvSets
  <2>. QED
    BY <2>1, CoverStep
<1>2. reindex' = reindex /\ object' = object /\ skip' = skip /\ sets' = sets
  BY DEF load
<1>3. log' = log /\ done' = done
  BY DEF store
<1>4. Types'
  BY <1>1, <1>2, <1>3 DEF Inv, Types
<1>5. Modes'
  BY <1>2 DEF Inv, Modes, First
<1>6. Account'
  <2>1. Applied' = Applied /\ Applied \in SUBSET Change
    BY <1>3, LogFacts DEF Inv, Applied
  <2>2. skip # "seed" => \A c \in (Applied \cap Tracked) \ Own : Accounted(c)
    BY DEF Inv, Account
  <2>3. skip # "seed" => \A c \in (Applied \cap Tracked) \ Own : Accounted(c)'
    BY <1>1, <2>1, <2>2
  <2>. QED
    BY <1>2, <2>1, <2>3 DEF Account
<1>. QED
  BY <1>1, <1>2, <1>4, <1>5, <1>6 DEF Inv

\* A step that leaves the read state alone is a mark of nothing.
LEMMA StillFacts ==
    ASSUME Inv, UNCHANGED <<st, marked, early>>, Claimed' \subseteq Claimed
    PROVE  /\ Covers(st, st', {}, PastOf(early)) /\ st'.seeded = st.seeded /\ NoteMark({})
           /\ Claimed' \subseteq Claimed \cup st'.frontier
<1>1. st \in States /\ Counted(st)
  BY InvSets
<1>. QED
  BY <1>1 DEF Covers, NoteMark

LEMMA StillStep ==
    ASSUME Inv, UNCHANGED <<st, marked, early>>, Claimed' \subseteq Claimed,
           UNCHANGED <<store, load, dropped>>, Aside'
    PROVE  Inv'
<1>1. {} \in SUBSET Change
  OBVIOUS
<1>. QED
  BY <1>1, StillFacts, ReadStep

LEMMA InvAside == Inv => Aside
BY DEF Inv, Types

LEMMA MarkReadInv ==
    ASSUME Inv, NEW c \in Change, MarkRead(c) PROVE Inv'
<1>1. /\ st' = Mark(st, {c}) /\ NoteMark({c}) /\ UNCHANGED <<store, load, dropped>>
      /\ lock' \in {"free", "publish"}
      /\ heads' = [heads EXCEPT !.mark = IF st' = st THEN {} ELSE st'.frontier]
      /\ UNCHANGED <<own, remote, queue, upTo, boot, faults>>
  BY DEF MarkRead, kv
<1>2. {c} \in SUBSET Change
  OBVIOUS
<1>3. Covers(st, st', {c}, PastOf(early)) /\ st'.seeded = st.seeded
  BY <1>1, <1>2, MarkStep
<1>4. st'.frontier \in SUBSET Change
  BY <1>3 DEF Covers, States
<1>5. /\ heads' \in [mark : SUBSET Change, boot : SUBSET Change]
      /\ heads'.mark \subseteq st'.frontier /\ heads'.boot = heads.boot
  BY <1>1, <1>4, InvAside DEF Aside
<1>6. Aside'
  BY <1>1, <1>5, InvAside DEF Aside
<1>7. Claimed' \subseteq Claimed \cup st'.frontier
  BY <1>1, <1>5 DEF Claimed
<1>. QED
  BY <1>1, <1>2, <1>3, <1>6, <1>7, ReadStep

LEMMA ChunkInv ==
    ASSUME Inv, Chunk PROVE Inv'
<1>. DEFINE covered == FirstEntries(InRange(st, upTo), ChunkSize)
            last == InRange(st, upTo) = covered
<1>1. /\ st' = MarkChunk(st, upTo) /\ NoteMark(Heads(covered))
      /\ UNCHANGED <<store, load, dropped>>
      /\ lock' \in {"chunk", "publish"} /\ upTo' \in {upTo, Root}
      /\ heads' = [heads EXCEPT !.mark = IF last THEN st'.frontier ELSE {}]
      /\ UNCHANGED <<own, remote, queue, boot, faults>>
  BY DEF Chunk, kv
<1>. HIDE DEF last
<1>2. /\ covered \subseteq InRange(st, upTo)
      /\ Covers(st, st', Heads(covered), PastOf(early)) /\ st'.seeded = st.seeded
  <2>1. Reads(st, PastOf(early)) /\ upTo \in Change
    BY InvSets, InvAside DEF Aside
  <2>2. /\ covered \subseteq InRange(st, upTo)
        /\ Covers(st, MarkChunk(st, upTo), Heads(covered), PastOf(early))
        /\ MarkChunk(st, upTo).seeded = st.seeded
    BY <2>1, ChunkFacts
  <2>. QED
    BY <1>1, <2>2
<1>. HIDE DEF covered
<1>3. Heads(covered) \in SUBSET Change
  BY <1>2, InvSets DEF InRange, Heads
<1>4. st'.frontier \in SUBSET Change
  BY <1>2 DEF Covers, States
<1>5. /\ heads' \in [mark : SUBSET Change, boot : SUBSET Change]
      /\ heads'.mark \subseteq st'.frontier /\ heads'.boot = heads.boot
  BY <1>1, <1>4, InvAside DEF Aside
<1>6. Aside'
  BY <1>1, <1>5, InvAside, ChangeAssumption DEF Aside
<1>7. Claimed' \subseteq Claimed \cup st'.frontier
  BY <1>1, <1>5 DEF Claimed
<1>. QED
  BY <1>1, <1>2, <1>3, <1>6, <1>7, ReadStep

LEMMA MergeInv ==
    ASSUME Inv, NEW ok \in BOOLEAN, Merge(ok) PROVE Inv'
<1>1. /\ queue # <<>> /\ queue' = Tail(queue) /\ UNCHANGED <<store, load, dropped>>
      /\ UNCHANGED <<own, remote, lock, upTo, heads, boot>>
  BY DEF Merge, kv
<1>2. queue \in Seq(SUBSET Change) /\ Len(queue) <= QueueSize
  BY InvAside DEF Aside
<1>3. Head(queue) \in SUBSET Change /\ queue' \in Seq(SUBSET Change) /\ Len(queue') <= QueueSize
  BY <1>1, <1>2, BoundAssumption
<1>4. faults' \in 0..MaxFaults
  BY InvAside, BoundAssumption DEF Merge, Fault, Aside
<1>5. Aside'
  BY <1>1, <1>3, <1>4, InvAside DEF Aside
<1>6. Claimed' \subseteq Claimed \cup st'.frontier
  BY <1>1 DEF Claimed
<1>7. CASE ok
  <2>1. st' = Mark(st, Head(queue)) /\ NoteMark(Head(queue))
    BY <1>7 DEF Merge
  <2>2. Covers(st, st', Head(queue), PastOf(early)) /\ st'.seeded = st.seeded
    BY <1>3, <2>1, MarkStep
  <2>. QED
    BY <1>1, <1>3, <1>5, <1>6, <2>1, <2>2, ReadStep
<1>8. CASE ~ok
  <2>1. UNCHANGED <<st, marked, early>>
    BY <1>8 DEF Merge
  <2>2. Claimed' \subseteq Claimed
    BY <1>1, <2>1 DEF Claimed
  <2>. QED
    BY <1>1, <1>5, <2>1, <2>2, StillStep
<1>. QED
  BY <1>7, <1>8

LEMMA ReconcileMergeInv ==
    ASSUME Inv, ReconcileMerge PROVE Inv'
<1>. DEFINE ours == IF boot = "own" THEN own ELSE remote
<1>1. /\ st' = Mark(st, ours) /\ NoteMark(ours) /\ UNCHANGED <<store, load, dropped>>
      /\ boot' \in {"own", "other", "read", "publish", "done"}
      /\ UNCHANGED <<own, remote, queue, lock, upTo, heads, faults>>
  BY DEF ReconcileMerge, kv
<1>2. ours \in SUBSET Change
  BY InvAside DEF Aside
<1>. HIDE DEF ours
<1>3. Covers(st, st', ours, PastOf(early)) /\ st'.seeded = st.seeded
  BY <1>1, <1>2, MarkStep
<1>4. Aside'
  BY <1>1, InvAside DEF Aside
<1>5. Claimed' \subseteq Claimed \cup st'.frontier
  BY <1>1 DEF Claimed
<1>. QED
  BY <1>1, <1>2, <1>3, <1>4, <1>5, ReadStep

----------------------------------------------------------------------------
(* Steps beside the read state, and of the object's life.                  *)

LEMMA MarkReadUpToInv ==
    ASSUME Inv, NEW v \in Change, MarkReadUpTo(v) PROVE Inv'
<1>1. /\ UNCHANGED <<st, marked, early, store, load, dropped>>
      /\ lock' = "chunk" /\ upTo' = v
      /\ UNCHANGED <<own, remote, queue, heads, boot, faults>>
  BY DEF MarkReadUpTo, history, kv
<1>2. Aside'
  BY <1>1, InvAside DEF Aside
<1>3. Claimed' \subseteq Claimed
  BY <1>1 DEF Claimed
<1>. QED
  BY <1>1, <1>2, <1>3, StillStep

LEMMA ChunkFailsInv ==
    ASSUME Inv, ChunkFails PROVE Inv'
<1>1. /\ UNCHANGED <<st, marked, early, store, load, dropped>>
      /\ lock' = "free" /\ upTo' = Root /\ Fault
      /\ UNCHANGED <<own, remote, queue, heads, boot>>
  BY DEF ChunkFails, history, kv
<1>2. Aside'
  BY <1>1, InvAside, ChangeAssumption, BoundAssumption DEF Aside, Fault
<1>3. Claimed' \subseteq Claimed
  BY <1>1 DEF Claimed
<1>. QED
  BY <1>1, <1>2, <1>3, StillStep

LEMMA PublishInv ==
    ASSUME Inv, NEW ok \in BOOLEAN, Publish(ok) PROVE Inv'
<1>1. /\ UNCHANGED <<st, marked, early, store, load, dropped>>
      /\ lock' = "free" /\ own' \in {own, heads.mark} /\ faults' \in {faults, faults + 1}
      /\ faults' = faults \/ faults < MaxFaults
      /\ heads' = [heads EXCEPT !.mark = {}]
      /\ UNCHANGED <<remote, queue, upTo, boot>>
  BY DEF Publish, history, Fault
<1>2. /\ heads' \in [mark : SUBSET Change, boot : SUBSET Change]
      /\ heads'.mark = {} /\ heads'.boot = heads.boot
  BY <1>1, InvAside DEF Aside
<1>3. own' \in SUBSET Change /\ faults' \in 0..MaxFaults
  BY <1>1, InvAside, BoundAssumption DEF Aside
<1>4. Aside'
  BY <1>1, <1>2, <1>3, InvAside DEF Aside
<1>5. Claimed' \subseteq Claimed
  BY <1>1, <1>2 DEF Claimed
<1>. QED
  BY <1>1, <1>4, <1>5, StillStep

LEMMA RemoteMarkInv ==
    ASSUME Inv, NEW c \in Change, RemoteMark(c) PROVE Inv'
<1>1. /\ UNCHANGED <<st, marked, early, store, load, dropped>>
      /\ remote' = (remote \ Past[c]) \cup {c}
      /\ queue' = IF Len(queue) < QueueSize THEN Append(queue, remote') ELSE queue
      /\ UNCHANGED <<own, lock, upTo, heads, boot, faults>>
  BY DEF RemoteMark, history
<1>2. remote' \in SUBSET Change
  BY <1>1, InvAside DEF Aside
<1>3. queue' \in Seq(SUBSET Change) /\ Len(queue') <= QueueSize
  <2>1. queue \in Seq(SUBSET Change) /\ Len(queue) <= QueueSize
    BY InvAside DEF Aside
  <2>2. Append(queue, remote') \in Seq(SUBSET Change)
        /\ Len(Append(queue, remote')) = Len(queue) + 1
    BY <1>2, <2>1
  <2>. QED
    BY <1>1, <2>1, <2>2, BoundAssumption
<1>4. Aside'
  BY <1>1, <1>2, <1>3, InvAside DEF Aside
<1>5. Claimed' \subseteq Claimed
  BY <1>1 DEF Claimed
<1>. QED
  BY <1>1, <1>4, <1>5, StillStep

LEMMA ReconcileReadInv ==
    ASSUME Inv, ReconcileRead PROVE Inv'
<1>1. /\ UNCHANGED <<st, marked, early, store, load, dropped>>
      /\ boot' \in {"publish", "done"}
      /\ heads' = heads \/ heads' = [heads EXCEPT !.boot = st.frontier]
      /\ UNCHANGED <<own, remote, queue, lock, upTo, faults>>
  BY DEF ReconcileRead, history, kv
<1>2. /\ heads' \in [mark : SUBSET Change, boot : SUBSET Change]
      /\ heads'.mark = heads.mark /\ heads'.boot \subseteq heads.boot \cup st.frontier
  BY <1>1, InvAside, InvSets DEF Aside
<1>3. Aside'
  BY <1>1, <1>2, InvAside DEF Aside
<1>4. Claimed' \subseteq Claimed
  BY <1>1, <1>2 DEF Claimed
<1>. QED
  BY <1>1, <1>3, <1>4, StillStep

LEMMA ReconcilePublishInv ==
    ASSUME Inv, ReconcilePublish PROVE Inv'
<1>1. /\ UNCHANGED <<st, marked, early, store, load, dropped>>
      /\ boot' = "done" /\ own' = heads.boot /\ heads' = [heads EXCEPT !.boot = {}]
      /\ UNCHANGED <<remote, queue, lock, upTo, faults>>
  BY DEF ReconcilePublish, history
<1>2. /\ heads' \in [mark : SUBSET Change, boot : SUBSET Change]
      /\ heads'.mark = heads.mark /\ heads'.boot = {}
  BY <1>1, InvAside DEF Aside
<1>3. own' \in SUBSET Change
  BY <1>1, InvAside DEF Aside
<1>4. Aside'
  BY <1>1, <1>2, <1>3, InvAside DEF Aside
<1>5. Claimed' \subseteq Claimed
  BY <1>1, <1>2 DEF Claimed
<1>. QED
  BY <1>1, <1>4, <1>5, StillStep

\* A step of the object's life that applies nothing and marks nothing.
LEMMA LifeFacts ==
    ASSUME Inv, UNCHANGED <<st, marked, early, store, reindex>>, Claimed' \subseteq Claimed,
           dropped \subseteq dropped', dropped' \in SUBSET Change
    PROVE  /\ (st \in States /\ Counted(st))'
           /\ (marked \in SUBSET Change /\ early \in SUBSET Change /\ dropped \in SUBSET Change)'
           /\ Causal' /\ Places' /\ Behind' /\ Noted'
           /\ \A c \in Change : Accounted(c) => Accounted(c)'
           /\ Applied' = Applied /\ Applied \in SUBSET Change /\ First' = First
           /\ log' = log /\ done' = done
<1>1. {} \in SUBSET Change
  OBVIOUS
<1>2. /\ (st \in States /\ Counted(st))'
      /\ (marked \in SUBSET Change /\ early \in SUBSET Change /\ dropped \in SUBSET Change)'
      /\ Causal' /\ Places' /\ Behind'
      /\ (reindex' = reindex \/ Applied = Stored) => Noted'
      /\ \A c \in Change : Accounted(c) => Accounted(c)'
  BY <1>1, StillFacts, CoverStep
<1>3. log' = log /\ done' = done
  BY DEF store
<1>4. Applied' = Applied /\ Applied \in SUBSET Change
  BY <1>3, LogFacts DEF Inv, Applied
<1>5. First' = First
  BY DEF First
<1>. QED
  BY <1>2, <1>3, <1>4, <1>5

LEMMA EvictInv ==
    ASSUME Inv, Evict PROVE Inv'
<1>1. /\ UNCHANGED <<st, marked, early, store, reindex, dropped>>
      /\ object = "open" /\ object' = "closed" /\ skip' = skip /\ sets' = sets
      /\ UNCHANGED <<own, remote, queue, lock, upTo, heads, boot, faults>>
  BY DEF Evict, history, kv
<1>2. Claimed' \subseteq Claimed /\ Aside'
  BY <1>1, InvAside DEF Claimed, Aside
<1>3. /\ (st \in States /\ Counted(st))'
      /\ (marked \in SUBSET Change /\ early \in SUBSET Change /\ dropped \in SUBSET Change)'
      /\ Causal' /\ Places' /\ Behind' /\ Noted'
      /\ \A c \in Change : Accounted(c) => Accounted(c)'
      /\ Applied' = Applied /\ Applied \in SUBSET Change /\ First' = First
      /\ log' = log /\ done' = done
  BY <1>1, <1>2, InvSets, LifeFacts
<1>4. skip = "no" /\ sets = NoSets
  BY <1>1 DEF Inv, Modes
<1>5. Types'
  BY <1>1, <1>2, <1>3 DEF Inv, Types
<1>6. Modes'
  BY <1>1, <1>3, <1>4 DEF Modes
<1>7. Account'
  BY <1>1, <1>3, <1>4 DEF Inv, Account
<1>. QED
  BY <1>3, <1>5, <1>6, <1>7 DEF Inv

\* What an interrupted restore applied and did not track counts as dropped.
LEMMA InterruptedFacts ==
    ASSUME Inv, dropped' = dropped \cup Interrupted
    PROVE  /\ dropped \subseteq dropped' /\ dropped' \in SUBSET Change
           /\ st' = st => \A c \in (Applied \cap Tracked) \ Own : Accounted(c) \/ Accounted(c)'
<1>1. Applied \in SUBSET Change /\ dropped \in SUBSET Change
  BY InvSets, LogFacts DEF Inv
<1>2. dropped \subseteq dropped' /\ dropped' \in SUBSET Change
  BY <1>1 DEF Interrupted
<1>3. ASSUME st' = st, NEW c \in (Applied \cap Tracked) \ Own
      PROVE  Accounted(c) \/ Accounted(c)'
  <2>1. CASE skip # "seed"
    BY <2>1 DEF Inv, Account
  <2>2. CASE skip = "seed"
    <3>1. c \in st.entries \/ c \in dropped'
      BY <2>2 DEF Interrupted
    <3>2. c \in st'.entries \cup PastOf(marked') \cup dropped'
      BY <1>3, <3>1
    <3>. QED
      BY <3>2 DEF Accounted
  <2>. QED
    BY <2>1, <2>2
<1>. QED
  BY <1>2, <1>3

LEMMA CrashInv ==
    ASSUME Inv, Crash PROVE Inv'
<1>1. /\ UNCHANGED <<st, marked, early, store, reindex>>
      /\ object' = "closed" /\ skip' = "no" /\ sets' = NoSets
      /\ queue' = <<>> /\ lock' = "free" /\ upTo' = Root /\ heads' = NoHeads /\ boot' = "own"
      /\ own' = own /\ remote' = remote /\ Fault /\ dropped' = dropped \cup Interrupted
  BY DEF Crash, kv
<1>2. dropped \subseteq dropped' /\ dropped' \in SUBSET Change
      /\ \A c \in (Applied \cap Tracked) \ Own : Accounted(c) \/ Accounted(c)'
  BY <1>1, InterruptedFacts
<1>3. Claimed' \subseteq Claimed
  BY <1>1 DEF Claimed, NoHeads
<1>4. Aside'
  <2>1. heads' \in [mark : SUBSET Change, boot : SUBSET Change]
    BY <1>1 DEF NoHeads
  <2>2. queue' \in Seq(SUBSET Change) /\ Len(queue') <= QueueSize
    BY <1>1, BoundAssumption
  <2>3. faults' \in 0..MaxFaults
    BY <1>1, InvAside, BoundAssumption DEF Aside, Fault
  <2>. QED
    BY <1>1, <2>1, <2>2, <2>3, InvAside, ChangeAssumption DEF Aside
<1>5. /\ (st \in States /\ Counted(st))'
      /\ (marked \in SUBSET Change /\ early \in SUBSET Change /\ dropped \in SUBSET Change)'
      /\ Causal' /\ Places' /\ Behind' /\ Noted'
      /\ \A c \in Change : Accounted(c) => Accounted(c)'
      /\ Applied' = Applied /\ Applied \in SUBSET Change /\ First' = First
      /\ log' = log /\ done' = done
  BY <1>1, <1>2, <1>3, LifeFacts
<1>6. Types'
  <2>1. sets' \in [own : SUBSET Change, other : SUBSET Change]
    BY <1>1 DEF NoSets
  <2>. QED
    BY <1>1, <1>4, <1>5, <2>1 DEF Inv, Types
<1>7. Modes'
  BY <1>1 DEF Modes, NoSets
<1>8. Account'
  BY <1>2, <1>5 DEF Account
<1>. QED
  BY <1>5, <1>6, <1>7, <1>8 DEF Inv

LEMMA LoadInv ==
    ASSUME Inv, NEW rebuild \in BOOLEAN, Load(rebuild) PROVE Inv'
<1>1. /\ UNCHANGED <<log, st, own, remote, queue, lock, upTo, heads, boot, marked, early, dropped>>
      /\ object = "closed" /\ object' = "restoring" /\ reindex' = (reindex \/ rebuild)
      /\ sets' = IF First THEN Published ELSE NoSets
      /\ skip' = CASE reindex' -> "rebuild"
                   [] ~reindex' /\ First /\ Published = NoSets -> "seed"
                   [] OTHER -> "no"
      /\ done' = IF rebuild THEN 0 ELSE done
  BY DEF Load, kv, history
<1>2. skip = "no" /\ reindex \in BOOLEAN /\ reindex' \in BOOLEAN
  BY <1>1 DEF Inv, Modes, Types
<1>3. First' = First
  BY <1>1 DEF First
<1>4. /\ reindex' => skip' = "rebuild"
      /\ ~reindex' => skip' \in {"seed", "no"}
      /\ skip' = "seed" => First /\ Published = NoSets
  BY <1>1, <1>2
<1>5. Modes'
  BY <1>1, <1>2, <1>3, <1>4 DEF Modes
<1>6. Aside'
  <2>1. faults' \in 0..MaxFaults
    BY InvAside, BoundAssumption DEF Load, Fault, Aside
  <2>. QED
    BY <1>1, <2>1, InvAside DEF Aside
<1>7. Claimed' = Claimed
  BY <1>1 DEF Claimed
<1>8. Types'
  <2>1. sets' \in [own : SUBSET Change, other : SUBSET Change]
    BY <1>1, InvAside DEF Aside, Published, NoSets
  <2>2. done' \in 0..Len(log)
    BY <1>1 DEF Inv, Types
  <2>3. skip' \in {"no", "seed", "rebuild"}
    BY <1>2, <1>4
  <2>4. /\ log' \in Seq(Change) /\ IsInjective(log') /\ (st \in States /\ Counted(st))'
        /\ (marked \in SUBSET Change /\ early \in SUBSET Change /\ dropped \in SUBSET Change)'
    BY <1>1 DEF Inv, Types, Counted
  <2>. QED
    BY <1>1, <1>2, <1>6, <2>1, <2>2, <2>3, <2>4 DEF Types
<1>9. CASE ~rebuild
  <2>1. reindex' = reindex /\ UNCHANGED store
    BY <1>1, <1>2, <1>9 DEF store
  <2>2. dropped' \in SUBSET Change
    BY <1>1, InvSets
  <2>3. /\ Causal' /\ Places' /\ Behind' /\ Noted'
        /\ \A c \in Change : Accounted(c) => Accounted(c)'
        /\ Applied' = Applied /\ Applied \in SUBSET Change
    BY <1>1, <1>7, <2>1, <2>2, LifeFacts
  <2>4. Account'
    BY <1>2, <2>3 DEF Inv, Account
  <2>. QED
    BY <1>5, <1>8, <2>3, <2>4 DEF Inv
<1>10. CASE rebuild
  <2>1. Applied' = {} /\ Stored' = Stored /\ reindex'
    <3>1. done' = 0 /\ log' = log /\ reindex'
      BY <1>1, <1>10
    <3>2. 1..0 = {}
      OBVIOUS
    <3>. QED
      BY <3>1, <3>2 DEF Applied, Stored
  <2>2. Causal' /\ Places'
    BY <1>1, <1>7, <2>1 DEF Inv, Causal, Places
  <2>3. \A k : ReadBehind(k)' <=> ReadBehind(k)
    BY <1>1 DEF ReadBehind
  <2>4. Behind'
    BY <1>1, <1>7, <2>3 DEF Inv, Behind
  <2>5. Noted' /\ Account'
    BY <2>1 DEF Noted, Account
  <2>. QED
    BY <1>5, <1>8, <2>2, <2>4, <2>5 DEF Inv
<1>. QED
  BY <1>9, <1>10

\* The end of a load, whatever it marks.
LEMMA SeedStep ==
    ASSUME Inv, NEW ok \in BOOLEAN, Seed(ok), NEW ids \in SUBSET Change,
           Covers(st, st', ids, PastOf(early)), NoteMark(ids),
           \A c \in (Applied \cap Tracked) \ Own :
               Accounted(c) \/ Accounted(c)' \/ c \in PastOf(ids \cap Stored)
    PROVE  Inv'
<1>1. /\ object' = "open" /\ skip' = "no" /\ sets' = NoSets /\ reindex' = FALSE
      /\ UNCHANGED <<store, own, remote, queue, lock, upTo, heads, boot>>
      /\ done = Len(log) /\ dropped' \in {dropped, dropped \cup Interrupted}
  BY DEF Seed, kv, Loaded
<1>2. Applied = Stored /\ Applied \in SUBSET Change
  BY <1>1, LogFacts DEF Inv
<1>3. Applied' = Applied /\ log' = log /\ done' = done
  BY <1>1 DEF store, Applied
<1>4. Claimed' \subseteq Claimed \cup st'.frontier
  BY <1>1 DEF Claimed
<1>5. dropped \subseteq dropped' /\ dropped' \in SUBSET Change
  BY <1>1, <1>2, InvSets DEF Interrupted
<1>6. /\ (st \in States /\ Counted(st))'
      /\ (marked \in SUBSET Change /\ early \in SUBSET Change /\ dropped \in SUBSET Change)'
      /\ Causal' /\ Places' /\ Behind'
      /\ (reindex' = reindex \/ Applied = Stored) => Noted'
      /\ \A c \in Change : Accounted(c) => Accounted(c)'
      /\ PastOf(ids \cap Stored) \subseteq PastOf(marked')
  BY <1>1, <1>4, <1>5, CoverStep
<1>7. Aside'
  <2>1. faults' \in 0..MaxFaults
    BY InvAside, BoundAssumption DEF Seed, Fault, Aside
  <2>. QED
    BY <1>1, <2>1, InvAside DEF Aside
<1>8. Types'
  <2>1. sets' \in [own : SUBSET Change, other : SUBSET Change]
    BY <1>1 DEF NoSets
  <2>. QED
    BY <1>1, <1>3, <1>6, <1>7, <2>1 DEF Inv, Types
<1>9. Modes'
  BY <1>1 DEF Modes
<1>10. Account'
  <2>1. ASSUME NEW c \in (Applied \cap Tracked) \ Own PROVE Accounted(c)'
    <3>1. CASE c \in PastOf(ids \cap Stored)
      <4>1. c \in PastOf(marked')
        BY <1>6, <3>1
      <4>2. c \in st'.entries \cup PastOf(marked') \cup dropped'
        BY <4>1
      <4>. QED
        BY <4>2 DEF Accounted
    <3>. QED
      BY <1>2, <1>6, <3>1
  <2>. QED
    BY <1>3, <2>1 DEF Account
<1>. QED
  BY <1>2, <1>6, <1>8, <1>9, <1>10 DEF Inv

LEMMA SeedInv ==
    ASSUME Inv, NEW ok \in BOOLEAN, Seed(ok) PROVE Inv'
<1>1. done = Len(log) /\ dropped' = IF ok THEN dropped ELSE dropped \cup Interrupted
  BY DEF Seed, Loaded
<1>2. Applied = Stored /\ Stored \in SUBSET Change /\ Closed(Stored)
  BY <1>1, LogFacts DEF Inv
<1>3. Reads(st, PastOf(early))
  BY InvSets
<1>4. sets.own \in SUBSET Change /\ sets.other \in SUBSET Change
  BY DEF Inv, Types
<1>5. CASE ~First \/ ~ok
  <2>1. UNCHANGED <<st, marked, early>>
    BY <1>5 DEF Seed
  <2>2. Covers(st, st', {}, PastOf(early)) /\ NoteMark({})
    BY <1>3, <2>1 DEF Reads, Covers, NoteMark
  <2>3. ASSUME NEW c \in (Applied \cap Tracked) \ Own
        PROVE  Accounted(c) \/ Accounted(c)'
    <3>1. CASE ~First
      BY <2>3, <3>1 DEF Inv, Modes, Account
    <3>2. CASE ~ok
      BY <1>1, <2>1, <2>3, <3>2, InterruptedFacts
    <3>. QED
      BY <1>5, <3>1, <3>2
  <2>4. {} \in SUBSET Change
    OBVIOUS
  <2>. QED
    BY <2>2, <2>3, <2>4, SeedStep
<1>6. CASE First /\ ok /\ sets # NoSets
  <2>. DEFINE ids == sets.own \cup sets.other
  <2>1. st' = SeedPublished(st, sets) /\ NoteMark(ids)
    BY <1>6 DEF Seed
  <2>2. Covers(st, st', ids, PastOf(early))
    BY <1>2, <1>3, <1>4, <2>1, SeedPublishedFacts
  <2>3. \A c \in (Applied \cap Tracked) \ Own : Accounted(c)
    BY <1>6 DEF Inv, Modes, Account
  <2>4. ids \in SUBSET Change
    BY <1>4
  <2>. HIDE DEF ids
  <2>. QED
    BY <2>1, <2>2, <2>3, <2>4, SeedStep
<1>7. CASE First /\ ok /\ sets = NoSets
  <2>. DEFINE ids == Heads(Stored)
  <2>1. st' = SeedAllRead(st, ids) /\ NoteMark(ids)
    BY <1>7 DEF Seed
  <2>2. Covers(st, st', ids, PastOf(early))
    BY <1>2, <1>3, <1>7, <2>1, SeedAllReadFacts DEF First
  <2>3. ids \in SUBSET Stored /\ Stored \subseteq PastOf(ids)
    BY <1>2, HeadsCover
  <2>. HIDE DEF ids
  <2>4. ids \cap Stored = ids /\ ids \in SUBSET Change
    BY <1>2, <2>3
  <2>5. \A c \in (Applied \cap Tracked) \ Own : c \in PastOf(ids \cap Stored)
    BY <1>2, <2>3, <2>4
  <2>. QED
    BY <2>1, <2>2, <2>4, <2>5, SeedStep
<1>. QED
  BY <1>5, <1>6, <1>7

----------------------------------------------------------------------------
(* Changes arrive, and are applied.                                        *)

LEMMA ArriveInv ==
    ASSUME Inv, NEW c \in Change, Arrive(c) PROVE Inv'
<1>1. /\ object \in {"open", "closed"} /\ c \notin Stored /\ Prev[c] \subseteq Stored
      /\ log' = Append(log, c)
      /\ UNCHANGED <<done, st, load, queue, lock, upTo, heads, boot, marked, early, dropped, faults>>
      /\ own' = own /\ remote' = remote
  BY DEF Arrive, history, kv
<1>2. /\ log \in Seq(Change) /\ done \in 0..Len(log) /\ Len(log) \in Nat
      /\ DOMAIN log = 1..Len(log)
      /\ \A i \in 1..Len(log) : log[i] \in Change
      /\ \A i, j \in 1..Len(log) : log[i] = log[j] => i = j
  BY DEF Inv, Types, IsInjective
<1>3. /\ log' \in Seq(Change) /\ Len(log') = Len(log) + 1
      /\ DOMAIN log' = 1..(Len(log) + 1)
      /\ \A i \in 1..Len(log) : log'[i] = log[i]
      /\ log'[Len(log) + 1] = c
  BY <1>1, <1>2
<1>4. Stored = {log[i] : i \in 1..Len(log)}
  BY <1>2 DEF Stored, Range
<1>5. \A i \in 1..(Len(log) + 1) : i \in 1..Len(log) \/ i = Len(log) + 1
  BY <1>2
<1>6. 1..Len(log) \subseteq 1..(Len(log) + 1) /\ Len(log) + 1 \in 1..(Len(log) + 1)
  BY <1>2
<1>7. Stored' = Stored \cup {c}
  <2>1. Stored' = {log'[i] : i \in 1..(Len(log) + 1)}
    BY <1>3 DEF Stored, Range
  <2>. QED
    BY <1>3, <1>4, <1>5, <1>6, <2>1
<1>8. Applied' = Applied
  <2>1. \A i \in 1..done : i \in 1..Len(log)
    BY <1>2
  <2>2. \A i \in 1..done : log'[i] = log[i]
    BY <1>3, <2>1
  <2>. QED
    BY <1>1, <2>2 DEF Applied
<1>9. IsInjective(log')
  <2>. SUFFICES ASSUME NEW i \in 1..(Len(log) + 1), NEW j \in 1..(Len(log) + 1),
                       log'[i] = log'[j]
                PROVE  i = j
    BY <1>3 DEF IsInjective
  <2>1. CASE i \in 1..Len(log) /\ j \in 1..Len(log)
    BY <1>2, <1>3, <2>1
  <2>2. CASE i \in 1..Len(log) /\ j = Len(log) + 1
    BY <1>1, <1>3, <1>4, <2>2
  <2>3. CASE i = Len(log) + 1 /\ j \in 1..Len(log)
    BY <1>1, <1>3, <1>4, <2>3
  <2>. QED
    BY <1>5, <2>1, <2>2, <2>3
<1>10. Causal'
  <2>1. ASSUME NEW i \in 1..Len(log)
        PROVE  Prev[log'[i]] \subseteq {log'[j] : j \in 1..(i - 1)}
    <3>1. Prev[log[i]] \subseteq {log[j] : j \in 1..(i - 1)}
      BY DEF Inv, Causal
    <3>2. \A j \in 1..(i - 1) : j \in 1..Len(log)
      BY <1>2
    <3>. QED
      BY <1>3, <3>1, <3>2
  <2>2. Prev[log'[Len(log) + 1]] \subseteq {log'[j] : j \in 1..((Len(log) + 1) - 1)}
    <3>1. (Len(log) + 1) - 1 = Len(log)
      BY <1>2
    <3>. QED
      BY <1>1, <1>3, <1>4, <3>1
  <2>3. \A i \in 1..(Len(log) + 1) : Prev[log'[i]] \subseteq {log'[j] : j \in 1..(i - 1)}
    BY <1>5, <2>1, <2>2
  <2>. QED
    BY <1>3, <2>3 DEF Causal
<1>11. Claimed' = Claimed
  BY <1>1 DEF Claimed
<1>12. Places'
  BY <1>1, <1>7, <1>11 DEF Inv, Places
<1>13. Behind'
  <2>1. \A k : ReadBehind(k)' <=> ReadBehind(k)
    BY <1>1 DEF ReadBehind
  <2>. QED
    BY <1>1, <1>11, <2>1 DEF Inv, Behind
<1>14. Noted'
  <2>1. /\ ~reindex => /\ Claimed \ Applied \subseteq early
                       /\ (marked \cap Stored) \ Applied \subseteq early \cup st.pending
                       /\ st.entries \subseteq Applied
        /\ st.pending \cap Applied \subseteq early
    BY DEF Inv, Noted
  <2>2. marked \subseteq Stored \cup st.pending
    BY DEF Inv, Places
  <2>3. ~reindex => (marked \cap Stored') \ Applied \subseteq early \cup st.pending
    BY <1>7, <2>1, <2>2
  <2>. QED
    BY <1>1, <1>8, <1>11, <2>1, <2>3 DEF Noted, load
<1>15. Types'
  <2>1. Aside'
    BY <1>1, InvAside DEF Aside
  <2>2. done' \in 0..Len(log')
    BY <1>1, <1>2, <1>3
  <2>3. (st \in States /\ Counted(st))'
    BY <1>1 DEF Inv, Types, Counted
  <2>. QED
    BY <1>1, <1>3, <1>9, <2>1, <2>2, <2>3 DEF Inv, Types, load
<1>16. Modes'
  BY <1>1 DEF Inv, Modes, First, load
<1>17. Account'
  <2>1. \A k : Accounted(k)' <=> Accounted(k)
    BY <1>1 DEF Accounted
  <2>. QED
    BY <1>1, <1>8, <2>1 DEF Inv, Account, load
<1>. QED
  BY <1>10, <1>12, <1>13, <1>14, <1>15, <1>16, <1>17 DEF Inv

\* The next change joins those applied.
LEMMA NextApplied ==
    ASSUME Inv, done < Len(log), log' = log, done' = done + 1
    PROVE  /\ Applied' = Applied \cup {log[done + 1]} /\ Stored' = Stored
           /\ log[done + 1] \in Stored \ Applied /\ log[done + 1] \in Change
           /\ Prev[log[done + 1]] \subseteq Applied
           /\ done' \in 0..Len(log)
<1>1. done \in 0..Len(log) /\ Len(log) \in Nat
  BY DEF Inv, Types
<1>2. \A i : i \in 1..(done + 1) <=> i \in 1..done \/ i = done + 1
  BY <1>1
<1>3. Applied' = {log[i] : i \in 1..(done + 1)}
  BY DEF Applied
<1>4. Applied' = Applied \cup {log[done + 1]}
  BY <1>2, <1>3 DEF Applied
<1>5. Stored' = Stored
  BY DEF Stored
<1>6. /\ log[done + 1] \in Stored \ Applied /\ Stored \in SUBSET Change
      /\ Prev[log[done + 1]] \subseteq Applied
  BY LogFacts DEF Inv
<1>. QED
  BY <1>1, <1>4, <1>5, <1>6

\* Tracking c inserts nothing behind a frontier or a mark that is not pending:
\* those behind which c lies are not applied, so they were noted early.
LEMMA TrackedBehind ==
    ASSUME Inv, ~reindex, NEW c \in Stored \ Applied, Prev[c] \subseteq Applied,
           NEW m, IsTracked(st, m, c)
    PROVE  /\ \A k \in Claimed \cup Advanced(st, c) : Past[k] \cap m.entries \subseteq PastOf(early)
           /\ \A k \in marked : k \in st.pending \/ Past[k] \cap m.entries \subseteq PastOf(early)
           /\ m.entries \subseteq (Tracked \cap Stored) \ Own
           /\ m.entries \subseteq Applied \cup {c}
<1>1. /\ Claimed \in SUBSET Change /\ marked \in SUBSET Change /\ early \in SUBSET Change
      /\ st.entries \in SUBSET Change
  BY InvSets
<1>2. c \in Change /\ \A k \in Applied : Past[k] \subseteq Applied
  BY LogFacts, PastApplied DEF Inv
<1>3. /\ m.entries \subseteq st.entries \cup Inserted(st, c)
      /\ Inserted(st, c) \subseteq {c} /\ Inserted(st, c) \subseteq Tracked \ Own
  BY DEF IsTracked, Inserted
<1>4. /\ Claimed \ Applied \subseteq early
      /\ (marked \cap Stored) \ Applied \subseteq early \cup st.pending
      /\ st.entries \subseteq Applied
  BY DEF Inv, Noted
<1>5. /\ st.entries \subseteq (Tracked \cap Stored) \ Own /\ Claimed \subseteq Stored
      /\ marked \subseteq Stored \cup st.pending
  BY DEF Inv, Places
<1>6. ASSUME NEW k \in Change, k \in Applied \/ k \in early, ReadBehind(k)
      PROVE  Past[k] \cap m.entries \subseteq PastOf(early)
  <2>1. Past[k] \cap st.entries \subseteq PastOf(early)
    BY <1>6 DEF ReadBehind
  <2>2. c \in Past[k] => c \in PastOf(early)
    <3>1. CASE k \in Applied
      BY <1>2, <3>1
    <3>2. CASE k \in early
      BY <3>2 DEF PastOf
    <3>. QED
      BY <1>6, <3>1, <3>2
  <2>. QED
    BY <1>3, <2>1, <2>2
<1>7. ASSUME NEW k \in Claimed PROVE Past[k] \cap m.entries \subseteq PastOf(early)
  <2>1. ReadBehind(k) /\ k \in Change /\ (k \in Applied \/ k \in early)
    BY <1>1, <1>4 DEF Inv, Behind
  <2>. QED
    BY <1>6, <2>1
<1>8. ASSUME NEW k \in Advanced(st, c) PROVE Past[k] \cap m.entries \subseteq PastOf(early)
  <2>1. k = c /\ c \in Own /\ Prev[c] \subseteq st.frontier
    BY DEF Advanced
  <2>2. m.entries \subseteq st.entries
    BY <1>3, <2>1
  <2>3. ASSUME NEW e \in Past[c], e \in st.entries PROVE e \in PastOf(early)
    <3>1. e # c
      BY <1>4, <2>3
    <3>2. e \in PastOf(Prev[c])
      BY <1>2, <3>1, PastStep
    <3>3. PICK p \in Prev[c] : e \in Past[p]
      BY <3>2 DEF PastOf
    <3>4. p \in Claimed
      BY <2>1 DEF Claimed
    <3>. QED
      BY <2>3, <3>3, <3>4 DEF Inv, Behind, ReadBehind
  <2>. QED
    BY <2>1, <2>2, <2>3
<1>9. ASSUME NEW k \in marked, k \notin st.pending
      PROVE  Past[k] \cap m.entries \subseteq PastOf(early)
  <2>1. ReadBehind(k) /\ k \in Change
    BY <1>1, <1>9 DEF Inv, Behind
  <2>2. k \in Applied \/ k \in early
    BY <1>4, <1>5, <1>9
  <2>. QED
    BY <1>6, <2>1, <2>2
<1>10. m.entries \subseteq (Tracked \cap Stored) \ Own /\ m.entries \subseteq Applied \cup {c}
  BY <1>3, <1>4, <1>5
<1>. QED
  BY <1>7, <1>8, <1>9, <1>10

\* What tracking c leaves: the tracked state, less what a pending mark of c
\* reads.
LEMMA TrackResult ==
    ASSUME Inv, ~reindex, NEW c \in Stored \ Applied, Prev[c] \subseteq Applied,
           st' = Track(st, c)
    PROVE  \E m : /\ IsTracked(st, m, c)
                  /\ st' \in States /\ Counted(st)' /\ st'.seeded = st.seeded
                  /\ st'.entries \subseteq m.entries
                  /\ m.entries \ st'.entries \subseteq PastOf(marked)
                  /\ st'.frontier \subseteq st.frontier \cup Advanced(st, c)
                                            \cup (IF c \in st.pending THEN {c} ELSE {})
                  /\ st'.pending = st.pending \ {c}
                  /\ c \in st.pending => Past[c] \cap st'.entries \subseteq PastOf(early)
<1>1. st \in States /\ Counted(st) /\ c \notin st.entries /\ c \in Change
  BY InvSets, LogFacts DEF Inv, Noted
<1>2. CASE c \notin st.pending /\ IsTracked(st, Track(st, c), c)
  <2>1. IsTracked(st, st', c)
    BY <1>2
  <2>2. Counted(st)'
    BY <2>1 DEF IsTracked, Counted
  <2>. QED
    BY <1>2, <2>1, <2>2 DEF IsTracked
<1>3. CASE /\ c \in st.pending
           /\ \E m \in States : /\ IsTracked(st, m, c)
                                /\ Track(st, c) = [Mark(m, {c}) EXCEPT !.seq = 1 - st.seq]
  <2>1. PICK m \in States : /\ IsTracked(st, m, c)
                            /\ Track(st, c) = [Mark(m, {c}) EXCEPT !.seq = 1 - st.seq]
    BY <1>3
  <2>2. Stored \in SUBSET Change /\ Closed(Stored) /\ {c} \cap Stored = {c} /\ {c} \ Stored = {}
    BY LogFacts DEF Inv
  <2>3. Reads(m, PastOf(early))
    <3>1. /\ \A k \in Claimed \cup Advanced(st, c) :
                Past[k] \cap m.entries \subseteq PastOf(early)
          /\ m.entries \subseteq Stored
      BY <2>1, TrackedBehind
    <3>2. m.frontier \subseteq Claimed \cup Advanced(st, c)
      BY <2>1 DEF IsTracked, Claimed
    <3>3. Claimed \cup Advanced(st, c) \subseteq Stored
      BY DEF Inv, Places, Advanced
    <3>4. m.frontier \subseteq Stored
      BY <3>2, <3>3
    <3>5. \A k \in m.frontier : Past[k] \cap m.entries \subseteq PastOf(early)
      BY <3>1, <3>2
    <3>. QED
      BY <2>1, <3>1, <3>4, <3>5 DEF Reads, IsTracked
  <2>. DEFINE t == Mark(m, {c})
  <2>4. Covers(m, t, {c}, PastOf(early)) /\ t.seeded = m.seeded
    <3>1. {c} \in SUBSET Change
      BY <1>1
    <3>. QED
      BY <2>2, <2>3, <3>1, MarkFacts
  <2>. HIDE DEF t
  <2>5. t \in States /\ Counted(t)
    BY <2>4 DEF Covers
  <2>6. st' = [t EXCEPT !.seq = 1 - st.seq] /\ 1 - st.seq \in 0..1
    BY <1>1, <2>1 DEF t, States
  <2>7. /\ st' \in States /\ st'.entries = t.entries /\ st'.frontier = t.frontier
        /\ st'.pending = t.pending /\ st'.unread = t.unread /\ st'.seeded = t.seeded
    BY <2>5, <2>6 DEF States
  <2>8. Counted(st)'
    BY <2>5, <2>7 DEF Counted
  <2>9. PastOf({c}) \subseteq PastOf(marked)
    BY <1>3 DEF PastOf, Inv, Places
  <2>10. /\ st'.entries \subseteq m.entries /\ m.entries \ st'.entries \subseteq PastOf(marked)
         /\ st'.pending = st.pending \ {c} /\ st'.seeded = st.seeded
         /\ st'.frontier \subseteq m.frontier \cup {c}
         /\ Past[c] \cap st'.entries \subseteq PastOf(early)
    BY <2>1, <2>2, <2>4, <2>7, <2>9 DEF Covers, IsTracked
  <2>11. st'.frontier \subseteq st.frontier \cup Advanced(st, c) \cup {c}
    BY <2>1, <2>10 DEF IsTracked
  <2>. QED
    BY <1>3, <2>1, <2>7, <2>8, <2>10, <2>11
<1>. QED
  BY <1>1, <1>2, <1>3, TrackFacts

\* A change applied while nothing is tracked.
LEMMA ApplyUntracked ==
    ASSUME Inv, Apply, log[done + 1] = Root \/ skip # "no" PROVE Inv'
<1>. DEFINE c == log[done + 1]
<1>1. /\ done < Len(log) /\ done' = done + 1 /\ st' = st /\ log' = log
      /\ dropped' = dropped \cup (IF skip = "rebuild" THEN {c} \ st.entries ELSE {})
      /\ early' = early \cup ({c} \cap st.pending) /\ marked' = marked
      /\ UNCHANGED <<own, remote, queue, lock, upTo, heads, boot, faults>>
      /\ reindex' = reindex /\ object' = object /\ skip' = skip /\ sets' = sets
  BY DEF Apply, kv, load
<1>2. /\ Applied' = Applied \cup {c} /\ Stored' = Stored /\ c \in Stored \ Applied
      /\ c \in Change /\ done' \in 0..Len(log)
  BY <1>1, NextApplied
<1>. HIDE DEF c
<1>3. /\ marked \in SUBSET Change /\ early \in SUBSET marked /\ dropped \in SUBSET Change
      /\ Claimed' = Claimed /\ PastOf(early) \subseteq PastOf(early')
  BY <1>1, InvSets DEF Claimed, PastOf
<1>4. st.pending \subseteq marked
  BY DEF Inv, Places
<1>5. Causal' /\ Modes'
  BY <1>1 DEF Inv, Causal, Modes, First
<1>6. Places'
  BY <1>1, <1>2, <1>3, <1>4 DEF Inv, Places
<1>7. Behind'
  <2>1. ASSUME NEW k, ReadBehind(k) PROVE ReadBehind(k)'
    BY <1>1, <1>3, <2>1 DEF ReadBehind
  <2>. QED
    BY <1>1, <1>3, <2>1 DEF Inv, Behind
<1>8. Noted'
  <2>1. /\ ~reindex => /\ Claimed \ Applied \subseteq early
                       /\ (marked \cap Stored) \ Applied \subseteq early \cup st.pending
                       /\ st.entries \subseteq Applied
        /\ st.pending \cap Applied \subseteq early
    BY DEF Inv, Noted
  <2>2. st.pending \cap Applied' \subseteq early'
    BY <1>1, <1>2, <2>1
  <2>3. ~reindex => /\ Claimed' \ Applied' \subseteq early'
                    /\ (marked' \cap Stored') \ Applied' \subseteq early' \cup st'.pending
                    /\ st'.entries \subseteq Applied'
    BY <1>1, <1>2, <1>3, <2>1
  <2>. QED
    BY <1>1, <2>2, <2>3 DEF Noted
<1>9. Types'
  <2>1. Aside'
    BY <1>1, InvAside DEF Aside
  <2>2. (st \in States /\ Counted(st))' /\ early' \in SUBSET Change /\ dropped' \in SUBSET Change
    BY <1>1, <1>2, <1>3, InvSets DEF Counted
  <2>. QED
    BY <1>1, <1>2, <1>3, <2>1, <2>2 DEF Inv, Types
<1>10. Account'
  <2>1. ASSUME skip # "seed", NEW d \in ((Applied \cup {c}) \cap Tracked) \ Own
        PROVE  Accounted(d)'
    <3>1. CASE d \in Applied
      <4>1. Accounted(d)
        BY <2>1, <3>1 DEF Inv, Account
      <4>. QED
        BY <1>1, <4>1 DEF Accounted
    <3>2. CASE d = c
      <4>1. c # Root
        BY <2>1, <3>2, ChangeAssumption
      <4>2. skip = "rebuild"
        BY <2>1, <4>1 DEF Inv, Types, c
      <4>3. d \in st'.entries \cup PastOf(marked') \cup dropped'
        BY <1>1, <3>2, <4>2
      <4>. QED
        BY <4>3 DEF Accounted
    <3>. QED
      BY <2>1, <3>1, <3>2
  <2>. QED
    BY <1>1, <1>2, <2>1 DEF Account
<1>. QED
  BY <1>5, <1>6, <1>7, <1>8, <1>9, <1>10 DEF Inv

\* A change applied and tracked.
LEMMA ApplyTracked ==
    ASSUME Inv, Apply, log[done + 1] # Root, skip = "no" PROVE Inv'
<1>. DEFINE c == log[done + 1]
<1>1. /\ object # "closed" /\ done < Len(log) /\ done' = done + 1 /\ log' = log
      /\ st' = Track(st, c) /\ dropped' = dropped \cup Clears[c]
      /\ early' = early /\ marked' = marked
      /\ UNCHANGED <<own, remote, queue, lock, upTo, heads, boot, faults>>
      /\ reindex' = reindex /\ object' = object /\ skip' = skip /\ sets' = sets
  BY DEF Apply, kv, load
<1>2. ~reindex
  BY <1>1 DEF Inv, Modes, Types
<1>3. /\ Applied' = Applied \cup {c} /\ Stored' = Stored /\ c \in Stored \ Applied
      /\ c \in Change /\ done' \in 0..Len(log) /\ Prev[c] \subseteq Applied
  BY <1>1, NextApplied
<1>. HIDE DEF c
<1>4. PICK m : /\ IsTracked(st, m, c)
               /\ st' \in States /\ Counted(st)' /\ st'.seeded = st.seeded
               /\ st'.entries \subseteq m.entries
               /\ m.entries \ st'.entries \subseteq PastOf(marked)
               /\ st'.frontier \subseteq st.frontier \cup Advanced(st, c)
                                         \cup (IF c \in st.pending THEN {c} ELSE {})
               /\ st'.pending = st.pending \ {c}
               /\ c \in st.pending => Past[c] \cap st'.entries \subseteq PastOf(early)
  BY <1>1, <1>2, <1>3, TrackResult
<1>5. /\ \A k \in Claimed \cup Advanced(st, c) : Past[k] \cap m.entries \subseteq PastOf(early)
      /\ \A k \in marked : k \in st.pending \/ Past[k] \cap m.entries \subseteq PastOf(early)
      /\ m.entries \subseteq (Tracked \cap Stored) \ Own
      /\ m.entries \subseteq Applied \cup {c}
  BY <1>2, <1>3, <1>4, TrackedBehind
<1>6. /\ marked \in SUBSET Change /\ early \in SUBSET marked /\ dropped \in SUBSET Change
      /\ st.pending \subseteq marked /\ marked \subseteq Stored \cup st.pending
      /\ Claimed \subseteq Stored /\ st.frontier \subseteq Claimed
  BY InvSets DEF Inv, Places, Claimed
<1>7. Claimed' \subseteq Claimed \cup Advanced(st, c) \cup (IF c \in st.pending THEN {c} ELSE {})
  BY <1>1, <1>4 DEF Claimed
<1>8. Advanced(st, c) \subseteq {c}
  BY DEF Advanced
<1>9. Causal' /\ Modes'
  BY <1>1, <1>4 DEF Inv, Causal, Modes, First
<1>10. Places'
  <2>1. st'.entries \subseteq (Tracked \cap Stored) \ Own /\ Claimed' \subseteq Stored
    BY <1>3, <1>4, <1>5, <1>6, <1>7, <1>8
  <2>2. st'.pending \subseteq marked /\ marked \subseteq Stored \cup st'.pending
    BY <1>3, <1>4, <1>6
  <2>. QED
    BY <1>1, <1>3, <1>6, <2>1, <2>2 DEF Places
<1>11. Behind'
  <2>1. ASSUME NEW k \in Claimed' PROVE ReadBehind(k)'
    <3>1. CASE k \in Claimed \cup Advanced(st, c)
      <4>1. Past[k] \cap st'.entries \subseteq PastOf(early)
        BY <1>4, <1>5, <3>1
      <4>. QED
        BY <1>1, <4>1 DEF ReadBehind
    <3>2. CASE k = c /\ c \in st.pending
      BY <1>1, <1>4, <3>2 DEF ReadBehind
    <3>. QED
      BY <1>7, <3>1, <3>2
  <2>2. ASSUME NEW k \in marked' PROVE k \in st'.pending \/ ReadBehind(k)'
    <3>1. CASE k \in st.pending /\ k # c
      BY <1>4, <3>1
    <3>2. CASE k = c /\ c \in st.pending
      BY <1>1, <1>4, <3>2 DEF ReadBehind
    <3>3. CASE k \notin st.pending
      <4>1. Past[k] \cap st'.entries \subseteq PastOf(early)
        BY <1>1, <1>4, <1>5, <3>3
      <4>. QED
        BY <1>1, <4>1 DEF ReadBehind
    <3>. QED
      BY <3>1, <3>2, <3>3
  <2>. QED
    BY <2>1, <2>2 DEF Behind
<1>12. Noted'
  <2>1. /\ Claimed \ Applied \subseteq early
        /\ (marked \cap Stored) \ Applied \subseteq early \cup st.pending
        /\ st.entries \subseteq Applied
        /\ st.pending \cap Applied \subseteq early
    BY <1>2 DEF Inv, Noted
  <2>2. Claimed' \ Applied' \subseteq early
    BY <1>3, <1>7, <1>8, <2>1
  <2>3. (marked \cap Stored) \ Applied' \subseteq early \cup st'.pending
    BY <1>3, <1>4, <2>1
  <2>4. st'.entries \subseteq Applied' /\ st'.pending \cap Applied' \subseteq early
    BY <1>3, <1>4, <1>5, <2>1
  <2>. QED
    BY <1>1, <1>3, <2>2, <2>3, <2>4 DEF Noted
<1>13. Types'
  <2>1. Aside'
    BY <1>1, InvAside DEF Aside
  <2>2. early' \in SUBSET Change /\ dropped' \in SUBSET Change
    BY <1>1, <1>3, <1>6, ChangeAssumption
  <2>3. Counted(st)' /\ st' \in States
    BY <1>4
  <2>. QED
    BY <1>1, <1>3, <1>6, <2>1, <2>2, <2>3 DEF Inv, Types
<1>14. Account'
  <2>1. ASSUME NEW d, d \in m.entries \/ d \in PastOf(marked) \/ d \in dropped'
        PROVE  Accounted(d)'
    <3>1. d \in st'.entries \cup PastOf(marked) \cup dropped'
      BY <1>4, <2>1
    <3>. QED
      BY <1>1, <3>1 DEF Accounted
  <2>2. ASSUME NEW d \in ((Applied \cup {c}) \cap Tracked) \ Own PROVE Accounted(d)'
    <3>1. CASE d \in Applied
      <4>1. d \in st.entries \/ d \in PastOf(marked) \/ d \in dropped
        BY <1>1, <2>2, <3>1 DEF Inv, Account, Accounted
      <4>2. d \in st.entries => d \in m.entries \/ d \in dropped'
        BY <1>1, <1>4 DEF IsTracked
      <4>. QED
        BY <1>1, <2>1, <4>1, <4>2
    <3>2. CASE d = c
      <4>1. d \in m.entries \/ d \in st.frontier \/ d \in st.pending
        BY <1>4, <2>2, <3>2 DEF IsTracked, Inserted
      <4>2. d \in st.frontier => d \in marked
        BY <1>2, <1>3, <1>6, <3>2 DEF Inv, Noted
      <4>3. d \in marked => d \in PastOf(marked)
        BY <1>6, PastOfFacts
      <4>. QED
        BY <1>6, <2>1, <4>1, <4>2, <4>3
    <3>. QED
      BY <2>2, <3>1, <3>2
  <2>. QED
    BY <1>1, <1>3, <2>2 DEF Account
<1>. QED
  BY <1>9, <1>10, <1>11, <1>12, <1>13, <1>14 DEF Inv

----------------------------------------------------------------------------
(* The invariant holds.                                                    *)

LEMMA InvInit == Init => Inv
<1>. SUFFICES ASSUME Init PROVE Inv
  OBVIOUS
<1>1. /\ log = <<>> /\ done = 0 /\ st = Unmarked /\ own = {} /\ remote = {}
      /\ reindex = FALSE /\ object = "closed" /\ skip = "no" /\ sets = NoSets
      /\ queue = <<>> /\ lock = "free" /\ upTo = Root /\ heads = NoHeads /\ boot = "own"
      /\ marked = {} /\ early = {} /\ dropped = {} /\ faults = 0
  BY DEF Init
<1>2. /\ st \in States /\ st.entries = {} /\ st.frontier = {} /\ st.pending = {}
      /\ st.unread = 0
  BY <1>1 DEF Unmarked, States
<1>3. Counted(st)
  BY <1>2, FS_EmptySet DEF Counted
<1>4. Aside
  <2>1. heads \in [mark : SUBSET Change, boot : SUBSET Change]
    BY <1>1 DEF NoHeads
  <2>. QED
    BY <1>1, <2>1, ChangeAssumption, BoundAssumption DEF Aside
<1>5. Types
  <2>1. sets \in [own : SUBSET Change, other : SUBSET Change]
    BY <1>1 DEF NoSets
  <2>2. log \in Seq(Change) /\ IsInjective(log) /\ done \in 0..Len(log)
    BY <1>1 DEF IsInjective
  <2>3. marked \in SUBSET Change /\ early \in SUBSET Change /\ dropped \in SUBSET Change
    BY <1>1
  <2>. QED
    BY <1>1, <1>2, <1>3, <1>4, <2>1, <2>2, <2>3 DEF Types
<1>6. Claimed = {}
  BY <1>1, <1>2 DEF Claimed, NoHeads
<1>7. Causal /\ Modes
  BY <1>1 DEF Causal, Modes
<1>8. Places /\ Behind /\ Noted
  BY <1>1, <1>2, <1>6 DEF Places, Behind, Noted
<1>9. Account
  <2>1. 1..0 = {}
    OBVIOUS
  <2>2. Applied = {}
    BY <1>1, <2>1 DEF Applied
  <2>. QED
    BY <2>2 DEF Account
<1>. QED
  BY <1>5, <1>7, <1>8, <1>9 DEF Inv

LEMMA InvNext == Inv /\ [Next]_vars => Inv'
<1>. SUFFICES ASSUME Inv, [Next]_vars PROVE Inv'
  OBVIOUS
<1>1. CASE \E c \in Change : Arrive(c) \/ MarkRead(c) \/ MarkReadUpTo(c) \/ RemoteMark(c)
  BY <1>1, ArriveInv, MarkReadInv, MarkReadUpToInv, RemoteMarkInv
<1>2. CASE Apply
  BY <1>2, ApplyTracked, ApplyUntracked
<1>3. CASE Evict \/ Chunk \/ ChunkFails \/ Crash
  BY <1>3, EvictInv, ChunkInv, ChunkFailsInv, CrashInv
<1>4. CASE \E b \in BOOLEAN : Load(b) \/ Seed(b) \/ Publish(b) \/ Merge(b)
  BY <1>4, LoadInv, SeedInv, PublishInv, MergeInv
<1>5. CASE ReconcileMerge \/ ReconcileRead \/ ReconcilePublish
  BY <1>5, ReconcileMergeInv, ReconcileReadInv, ReconcilePublishInv
<1>6. CASE UNCHANGED vars
  <2>1. /\ UNCHANGED <<st, marked, early, store, load, dropped>>
        /\ UNCHANGED <<own, remote, queue, lock, upTo, heads, boot, faults>>
    BY <1>6 DEF vars, store, load
  <2>2. Aside' /\ Claimed' \subseteq Claimed
    BY <2>1, InvAside DEF Aside, Claimed
  <2>. QED
    BY <2>1, <2>2, StillStep
<1>. QED
  BY <1>1, <1>2, <1>3, <1>4, <1>5, <1>6 DEF Next

LEMMA InvHolds == Spec => []Inv
<1>. QED
  BY InvInit, InvNext, PTL DEF Spec

----------------------------------------------------------------------------
(* What the invariant gives.                                               *)

\* The types, and the counter that follows the rows.
LEMMA InvTypeOK == Inv => TypeOK
<1>. SUFFICES ASSUME Inv PROVE TypeOK
  OBVIOUS
<1>1. Types /\ Aside /\ Places
  BY DEF Inv, Types
<1>2. /\ st \in States /\ st.unread = Cardinality(st.entries)
      /\ st.pending \in SUBSET Change /\ st.seeded \in BOOLEAN /\ st.seq \in 0..1
  BY <1>1 DEF Types, States, Counted
<1>3. Parents(Stored) \subseteq Stored
  BY LogFacts DEF Inv, Closed, Parents
<1>4. st.entries \subseteq Tracked \cap Stored /\ st.frontier \subseteq Stored
  BY <1>1 DEF Places, Claimed
<1>. QED
  BY <1>1, <1>2, <1>3, <1>4 DEF TypeOK, Types, Aside, Places

\* An applied change that is marked is not pending, or was noted early, and
\* then its past is exempt as a whole.
LEMMA InvMarked == Inv => MarkedIsRead
<1>. SUFFICES ASSUME Inv, NEW k \in marked \cap Applied, NEW e \in Past[k] \cap st.entries
              PROVE  e \in PastOf(early)
  BY DEF MarkedIsRead, PastOf
<1>1. CASE k \in st.pending
  <2>1. k \in early
    BY <1>1 DEF Inv, Noted
  <2>. QED
    BY <2>1 DEF PastOf
<1>2. CASE ReadBehind(k)
  BY <1>2 DEF ReadBehind
<1>. QED
  BY <1>1, <1>2 DEF Inv, Behind

LEMMA InvFrontier == Inv => FrontierIsRead
<1>. SUFFICES ASSUME Inv, NEW k \in (st.frontier \cup own) \cap Applied,
                     NEW e \in Past[k] \cap st.entries
              PROVE  e \in PastOf(early)
  BY InvTypeOK DEF FrontierIsRead, PastOf
<1>1. k \in Claimed
  BY DEF Claimed
<1>. QED
  BY <1>1 DEF Inv, Behind, ReadBehind

LEMMA InvAccounted == Inv => NothingReadUnseen
<1>. SUFFICES ASSUME Inv, st.seeded \/ ~Seedable, NEW c \in (Applied \cap Tracked) \ Own
              PROVE  c \in st.entries \cup PastOf(marked) \cup dropped
  BY DEF NothingReadUnseen
<1>1. skip # "seed"
  BY DEF Inv, Modes, First
<1>. QED
  BY <1>1 DEF Inv, Account, Accounted

\* What lies behind a mark is read, whichever of the two arrived first, over
\* chunks, merges, seeds, rebuilds and crashes.
THEOREM MarksReadPast == Spec => []MarkedIsRead
BY InvHolds, InvMarked, PTL

\* A tracked change of somebody else stays unread until a mark covers it, a
\* change clears it, or a rebuild or an interrupted first load passes it.
THEOREM UnreadUntilMarked == Spec => []NothingReadUnseen
BY InvHolds, InvAccounted, PTL

\* Nothing unread lies behind the frontier, here and as published; the counter
\* is the number of the entries.
THEOREM FrontierHidesNothing == Spec => []FrontierIsRead
BY InvHolds, InvFrontier, PTL

----------------------------------------------------------------------------
(* Live queries: types, and what holds of the window at every step.        *)

Windows == UNION {[D -> 0..MaxKey] : D \in SUBSET Id}
Jobs == [pc : {"idle", "committed", "event", "calling"}, records : Seq(Record), batch : BOOLEAN]
Subs == [pc : {"none", "resolved", "reading", "read", "checking", "live"}, limit : Nat,
         scope : Object \cup {All}, closed : BOOLEAN, entries : Windows, maxRef : Id \cup {NoId},
         lost : Nat, queued : 0..MailboxCap]
Events == [todo : Seq(Record), seen : SUBSET Id, set : Windows, removed : SUBSET Id,
           muddled : SUBSET Id]

EngineTyped ==
    /\ row \in [Id -> Gone..Dead]
    /\ deleted \in [Object -> {"no", "marked", "purged", "gone"}]
    /\ apply \in [Object -> Jobs]
    /\ stamped \in [Object -> Id \cup {NoId}]
    /\ mu \in Object \cup {Nobody, All}
    /\ counter \in 0..1 /\ shut \in BOOLEAN
    /\ sub \in Subs /\ event \in Events
    /\ view \in Windows /\ untold \in SUBSET Id /\ strayed \in Nat

\* The query counts among the subscribers; its window is to be shown.
Counting == ~shut /\ sub.pc \in {"reading", "read", "checking", "live"}
Shown == sub.pc = "read" \/ Open

\* Who holds the engine's mutex, and for what; an engine that nobody counts in,
\* or that is shut, has no query open.
Locked ==
    /\ mu \in Object => Open /\ ~shut /\ apply[mu].pc = "calling" /\ sub.scope \in {mu, All}
    /\ \A o \in Object : apply[o].pc = "calling" => mu = o
    /\ mu = All <=> sub.pc \in {"reading", "read"}
    /\ counter = IF Counting THEN 1 ELSE 0
    /\ shut => sub.pc \notin {"reading", "read"} /\ ~Open
    /\ mu \notin Object => event = NoEvent

\* A window is full with one row beyond its limit, and then has its boundary.
Bounded ==
    Windowed => /\ Cardinality(DOMAIN sub.entries) <= sub.limit + 1
                /\ sub.maxRef \in DOMAIN sub.entries \cup {NoId}
                /\ Full(sub.entries) => sub.maxRef # NoId
                /\ sub.maxRef # NoId => sub.maxRef \in Largest(sub.entries)

\* What the consumer shows with the event so far on top of what it has.
Coming == (DOMAIN view \ event.removed) \cup DOMAIN event.set
Pending(i) == IF i \in DOMAIN event.set THEN event.set[i] ELSE view[i]
Told(i) == /\ i \in Coming <=> i \in Visible
           /\ i \in Visible /\ Windowed => Pending(i) = sub.entries[i]
AllTold == Shown => \A i \in Id \ (untold \cup event.muddled) : Told(i)

-----------------------------------------------------------------------------
(* Windows.                                                                *)

LEMMA KeyFacts ==
    /\ MaxKey \in Nat /\ MailboxCap \in Nat /\ Limits \subseteq Nat
    /\ Scopes \subseteq Object \cup {All} /\ NoId \notin Id /\ IsFiniteSet(Id)
    /\ Owner \in [Id -> Object] /\ Nobody \notin Object /\ All \notin Object /\ Nobody # All
    /\ Gone = 0 /\ Out = MaxKey + 1 /\ Dead = MaxKey + 2
    /\ \A k : Matches(k) <=> k \in 1..MaxKey
BY SubscriptionsAssumption DEF SubscriptionsAssumption, Gone, Out, Dead, Matches

LEMMA WindowIs ==
    ASSUME NEW e
    PROVE  e \in Windows <=> /\ DOMAIN e \subseteq Id
                             /\ e \in [DOMAIN e -> 0..MaxKey]
BY DEF Windows

LEMMA EmptyWindow == <<>> \in Windows /\ DOMAIN <<>> = {}
<1>1. DOMAIN <<>> = {} /\ <<>> \in [{} -> 0..MaxKey]
  OBVIOUS
<1> QED BY <1>1 DEF Windows

IsWith(e, i, k, f) ==
    /\ f \in Windows
    /\ DOMAIN f = DOMAIN e \cup {i}
    /\ f[i] = k
    /\ \A j \in DOMAIN e \ {i} : f[j] = e[j]

LEMMA WithIs ==
    ASSUME NEW e \in Windows, NEW i \in Id, NEW k \in 0..MaxKey
    PROVE  IsWith(e, i, k, With(e, i, k))
<1>1. DOMAIN e \subseteq Id /\ \A j \in DOMAIN e : e[j] \in 0..MaxKey
  BY WindowIs
<1>2. DOMAIN With(e, i, k) = DOMAIN e \cup {i} /\ DOMAIN e \cup {i} \subseteq Id
  BY <1>1 DEF With
<1>3. With(e, i, k) \in [DOMAIN With(e, i, k) -> 0..MaxKey]
  BY <1>1, <1>2 DEF With
<1> QED BY <1>2, <1>3, WindowIs DEF With, IsWith

LEMMA WithoutIs ==
    ASSUME NEW e \in Windows, NEW s
    PROVE  /\ Without(e, s) \in Windows
           /\ DOMAIN Without(e, s) = DOMAIN e \ s
           /\ \A j \in DOMAIN e \ s : Without(e, s)[j] = e[j]
<1>1. DOMAIN e \subseteq Id /\ \A j \in DOMAIN e : e[j] \in 0..MaxKey
  BY WindowIs
<1>2. DOMAIN Without(e, s) = DOMAIN e \ s
  BY <1>1 DEF Without, Restrict
<1>3. Without(e, s) \in [DOMAIN Without(e, s) -> 0..MaxKey]
  BY <1>1, <1>2 DEF Without, Restrict
<1> QED BY <1>1, <1>2, <1>3, WindowIs DEF Without, Restrict

LEMMA LargestIs ==
    ASSUME NEW e \in Windows
    PROVE  Largest(e) \subseteq DOMAIN e /\ Largest(e) \subseteq Id
BY WindowIs DEF Largest

LEMMA WindowSize ==
    ASSUME NEW e \in Windows
    PROVE  IsFiniteSet(DOMAIN e) /\ Cardinality(DOMAIN e) \in Nat
<1>1. DOMAIN e \in SUBSET Id
  BY WindowIs
<1>2. IsFiniteSet(DOMAIN e)
  BY <1>1, KeyFacts, FS_Subset
<1> QED BY <1>2, FS_CardinalityType

-----------------------------------------------------------------------------
(* One record of an event.                                                 *)

LEMMA SubFields ==
    ASSUME EngineTyped
    PROVE  /\ sub.limit \in Nat /\ sub.scope \in Object \cup {All} /\ sub.closed \in BOOLEAN
           /\ sub.entries \in Windows /\ sub.maxRef \in Id \cup {NoId} /\ sub.lost \in Nat
           /\ sub.queued \in 0..MailboxCap
           /\ sub.pc \in {"none", "resolved", "reading", "read", "checking", "live"}
           /\ DOMAIN sub.entries \subseteq Id
<1>1. sub \in Subs
  BY DEF EngineTyped
<1>2. sub.entries \in Windows
  BY <1>1 DEF Subs
<1> QED BY <1>1, <1>2, WindowIs DEF Subs

LEMMA HeadFacts ==
    ASSUME EngineTyped, event.todo # <<>>
    PROVE  /\ Rec \in Record /\ Rec.id \in Id /\ Rec.deleted \in BOOLEAN
           /\ Tail(event.todo) \in Seq(Record)
           /\ Post \in Gone..Dead
           /\ Matches(Post) => Kept(Post) \in 0..MaxKey
<1>1. event.todo \in Seq(Record)
  BY DEF EngineTyped, Events
<1>2. Rec \in Record /\ Tail(event.todo) \in Seq(Record)
  BY <1>1 DEF Rec
<1>3. Rec.id \in Id /\ Rec.deleted \in BOOLEAN
  BY <1>2 DEF Record
<1>4. row[Rec.id] \in Gone..Dead
  BY <1>3 DEF EngineTyped
<1>5. Post \in Gone..Dead
  BY <1>4, KeyFacts DEF Post
<1>6. Matches(Post) => Kept(Post) \in 0..MaxKey
  BY <1>5, KeyFacts DEF Kept
<1> QED BY <1>2, <1>3, <1>5, <1>6

\* What a record does to the window.
Moved(m, e, m2) ==
    /\ e \in Windows /\ m2 \in Id \cup {NoId}
    /\ Rec.id \in DOMAIN e <=> Matches(Post)
    /\ Rec.id \in DOMAIN e => e[Rec.id] = Kept(Post)
    /\ \A j \in DOMAIN e \ {Rec.id} : j \in DOMAIN sub.entries /\ e[j] = sub.entries[j]
    /\ \A j \in DOMAIN sub.entries \ {Rec.id} : j \in DOMAIN e \/ j = Sentinel(sub.entries, m)
    /\ Windowed => /\ Cardinality(DOMAIN e) <= sub.limit + 1
                   /\ m2 \in DOMAIN e \cup {NoId}
                   /\ Full(e) => m2 # NoId
                   /\ m2 # NoId => m2 \in Largest(e)

LEMMA LookedIs ==
    ASSUME NEW e \in Windows, NEW m \in Id \cup {NoId}, NEW n \in Looked(e, m)
    PROVE  /\ n \in Id \cup {NoId}
           /\ n = m \/ n \in DOMAIN e
           /\ n = m \/ n \in Largest(e)
           /\ Full(e) => n # NoId
           /\ m # NoId => n = m
BY LargestIs, WindowIs, KeyFacts DEF Looked, EnsureMax

LEMMA LookedNow ==
    ASSUME EngineTyped, Bounded, NEW m \in Looked(sub.entries, sub.maxRef)
    PROVE  /\ m \in Id \cup {NoId} /\ m = sub.maxRef
           /\ Windowed => m \in DOMAIN sub.entries \cup {NoId}
           /\ Windowed /\ m # NoId => m \in Largest(sub.entries)
           /\ Full(sub.entries) => m \in DOMAIN sub.entries
<1>1. Full(sub.entries) => Windowed
  BY DEF Full
<1>2. m = sub.maxRef
  BY <1>1, SubFields DEF Bounded, Looked, EnsureMax
<1> QED BY <1>1, <1>2, SubFields DEF Bounded

LEMMA AfterUpdate ==
    ASSUME EngineTyped, Bounded, event.todo # <<>>, NEW m \in Looked(sub.entries, sub.maxRef),
           Rec.id \in DOMAIN sub.entries, Matches(Post),
           NEW x \in Updated(m).maxRefs, NEW m2 \in Looked(Updated(m).entries, x)
    PROVE  Moved(m, Updated(m).entries, m2)
<1> DEFINE k == Kept(Post)
           e == With(sub.entries, Rec.id, k)
<1>1. k \in 0..MaxKey /\ Rec.id \in Id
  BY HeadFacts
<1>2. sub.entries \in Windows /\ DOMAIN sub.entries \subseteq Id
  BY SubFields
<1>3. Updated(m).entries = e /\ Updated(m).maxRefs = {MaxAfterUpdate(sub.entries, m, Rec.id, k)}
  BY DEF Updated
<1>4. /\ e \in Windows /\ DOMAIN e = DOMAIN sub.entries
      /\ e[Rec.id] = k /\ \A j \in DOMAIN sub.entries \ {Rec.id} : e[j] = sub.entries[j]
  <2> HIDE DEF k
  <2>1. IsWith(sub.entries, Rec.id, k, e)
    BY <1>1, <1>2, WithIs
  <2>2. DOMAIN sub.entries \cup {Rec.id} = DOMAIN sub.entries
    OBVIOUS
  <2> HIDE DEF e
  <2> QED BY <2>1, <2>2 DEF IsWith
<1> HIDE DEF e, k
<1>5. x \in {NoId, Rec.id, m}
  BY <1>3 DEF MaxAfterUpdate
<1>6. m \in Id \cup {NoId} /\ (Windowed => m \in DOMAIN sub.entries \cup {NoId})
  BY LookedNow
<1>7. /\ x \in Id \cup {NoId} /\ (Windowed => x \in DOMAIN e \cup {NoId})
      /\ m2 \in Looked(e, x)
  BY <1>1, <1>3, <1>4, <1>5, <1>6
<1>8. m2 \in Id \cup {NoId} /\ (m2 = x \/ m2 \in DOMAIN e) /\ (Full(e) => m2 # NoId)
  BY <1>4, <1>7, LookedIs
<1>9. Windowed => Cardinality(DOMAIN e) <= sub.limit + 1
  BY <1>4 DEF Bounded
<1>10. e[Rec.id] = Kept(Post)
  BY <1>4 DEF k
<1>11. Windowed /\ x # NoId => x \in Largest(e)
  <2> SUFFICES ASSUME Windowed, x # NoId PROVE x \in Largest(e)
    OBVIOUS
  <2>1. x = MaxAfterUpdate(sub.entries, m, Rec.id, k) /\ m # NoId
    BY <1>3 DEF MaxAfterUpdate
  <2>2. m \in DOMAIN sub.entries /\ \A j \in DOMAIN sub.entries : sub.entries[j] <= sub.entries[m]
    BY <2>1, LookedNow DEF Largest
  <2>3. /\ \A j \in DOMAIN sub.entries : sub.entries[j] \in Nat
        /\ k \in Nat
    BY <1>1, <1>2, WindowIs, KeyFacts
  <2>4. CASE m = Rec.id
    <3>1. x = Rec.id /\ ~(k < sub.entries[Rec.id])
      BY <2>1, <2>4 DEF MaxAfterUpdate
    <3> QED BY <1>4, <2>2, <2>3, <2>4, <3>1 DEF Largest
  <2>5. CASE m # Rec.id /\ k > sub.entries[m]
    <3>1. x = Rec.id
      BY <2>1, <2>5 DEF MaxAfterUpdate
    <3> QED BY <1>4, <2>2, <2>3, <2>5, <3>1 DEF Largest
  <2>6. CASE m # Rec.id /\ ~(k > sub.entries[m])
    <3>1. x = m
      BY <2>1, <2>6 DEF MaxAfterUpdate
    <3> QED BY <1>4, <2>2, <2>3, <2>6, <3>1 DEF Largest
  <2> QED BY <2>4, <2>5, <2>6
<1>12. Windowed /\ m2 # NoId => m2 \in Largest(e)
  BY <1>4, <1>7, <1>11, LookedIs
<1> QED BY <1>3, <1>4, <1>7, <1>8, <1>9, <1>10, <1>12 DEF Moved

LEMMA AfterLeft ==
    ASSUME EngineTyped, Bounded, event.todo # <<>>, NEW m \in Looked(sub.entries, sub.maxRef),
           Rec.id \in DOMAIN sub.entries, ~Matches(Post),
           NEW x \in Left(m).maxRefs, NEW m2 \in Looked(Left(m).entries, x)
    PROVE  Moved(m, Left(m).entries, m2)
<1> DEFINE e == Without(sub.entries, {Rec.id})
<1>1. Rec.id \in Id
  BY HeadFacts
<1>2. sub.entries \in Windows /\ DOMAIN sub.entries \subseteq Id
  BY SubFields
<1>3. Left(m).entries = e /\ Left(m).maxRefs = {IF m = Rec.id THEN NoId ELSE m}
  BY DEF Left
<1>4. /\ e \in Windows /\ DOMAIN e = DOMAIN sub.entries \ {Rec.id}
      /\ \A j \in DOMAIN sub.entries \ {Rec.id} : e[j] = sub.entries[j]
  BY <1>2, WithoutIs
<1> HIDE DEF e
<1>5. x = IF m = Rec.id THEN NoId ELSE m
  BY <1>3
<1>6. m \in Id \cup {NoId} /\ (Windowed => m \in DOMAIN sub.entries \cup {NoId})
  BY LookedNow
<1>7. /\ x \in Id \cup {NoId} /\ (Windowed => x \in DOMAIN e \cup {NoId})
      /\ m2 \in Looked(e, x)
  BY <1>1, <1>3, <1>4, <1>5, <1>6
<1>8. m2 \in Id \cup {NoId} /\ (m2 = x \/ m2 \in DOMAIN e) /\ (Full(e) => m2 # NoId)
  BY <1>4, <1>7, LookedIs
<1>9. Windowed => Cardinality(DOMAIN e) <= sub.limit + 1
  <2>1. Cardinality(DOMAIN e) <= Cardinality(DOMAIN sub.entries)
    BY <1>2, <1>4, WindowSize, FS_Subset
  <2>2. Cardinality(DOMAIN e) \in Nat /\ Cardinality(DOMAIN sub.entries) \in Nat
    BY <1>2, <1>4, WindowSize
  <2> QED BY <2>1, <2>2, SubFields DEF Bounded
<1>10. Windowed /\ x # NoId => x \in Largest(e)
  BY <1>4, <1>5, LookedNow DEF Largest
<1>11. Windowed /\ m2 # NoId => m2 \in Largest(e)
  BY <1>4, <1>7, <1>10, LookedIs
<1> QED BY <1>3, <1>4, <1>7, <1>8, <1>9, <1>11 DEF Moved

LEMMA AfterEntered ==
    ASSUME EngineTyped, Bounded, event.todo # <<>>, NEW m \in Looked(sub.entries, sub.maxRef),
           Rec.id \notin DOMAIN sub.entries, Matches(Post),
           NEW x \in Entered(m).maxRefs, NEW m2 \in Looked(Entered(m).entries, x)
    PROVE  Moved(m, Entered(m).entries, m2)
<1> DEFINE k    == Kept(Post)
           rest == IF Full(sub.entries) THEN Without(sub.entries, {m}) ELSE sub.entries
           max  == IF Full(sub.entries) THEN NoId ELSE m
           e    == With(rest, Rec.id, k)
<1>1. k \in 0..MaxKey /\ Rec.id \in Id
  BY HeadFacts
<1>2. sub.entries \in Windows /\ DOMAIN sub.entries \subseteq Id
  BY SubFields
<1>3. Entered(m).entries = e /\ Entered(m).maxRefs = MaxAfterInsert(rest, max, Rec.id, k)
  BY DEF Entered
<1>4. /\ rest \in Windows /\ DOMAIN rest \subseteq DOMAIN sub.entries
      /\ \A j \in DOMAIN rest : rest[j] = sub.entries[j]
      /\ \A j \in DOMAIN sub.entries : j \in DOMAIN rest \/ j = Sentinel(sub.entries, m)
      /\ DOMAIN rest = IF Full(sub.entries) THEN DOMAIN sub.entries \ {m} ELSE DOMAIN sub.entries
  <2>1. CASE Full(sub.entries)
    <3>1. rest = Without(sub.entries, {m}) /\ Sentinel(sub.entries, m) = m
      BY <2>1 DEF Sentinel
    <3> HIDE DEF rest
    <3>2. rest \in Windows /\ DOMAIN rest = DOMAIN sub.entries \ {m}
      BY <1>2, <3>1, WithoutIs
    <3>3. \A j \in DOMAIN sub.entries \ {m} : Without(sub.entries, {m})[j] = sub.entries[j]
      BY <1>2, WithoutIs
    <3> QED BY <2>1, <3>1, <3>2, <3>3
  <2>2. CASE ~Full(sub.entries)
    BY <1>2, <2>2
  <2> QED BY <2>1, <2>2
<1>5. m \in Id \cup {NoId} /\ (Windowed => m \in DOMAIN sub.entries \cup {NoId})
      /\ (Full(sub.entries) => m \in DOMAIN sub.entries)
  BY LookedNow
<1>6. max \in Id \cup {NoId} /\ (Windowed => max \in DOMAIN rest \cup {NoId})
  BY <1>4, <1>5
<1>7. Windowed => Cardinality(DOMAIN rest) <= sub.limit /\ Cardinality(DOMAIN rest) \in Nat
  <2> SUFFICES ASSUME Windowed PROVE Cardinality(DOMAIN rest) <= sub.limit /\ Cardinality(DOMAIN rest) \in Nat
    OBVIOUS
  <2> HIDE DEF rest
  <2>1. Cardinality(DOMAIN sub.entries) \in Nat /\ sub.limit \in Nat /\ IsFiniteSet(DOMAIN sub.entries)
    BY <1>2, WindowSize, SubFields
  <2>2. Cardinality(DOMAIN sub.entries) <= sub.limit + 1
    BY DEF Bounded
  <2>3. CASE Full(sub.entries)
    <3>1. Cardinality(DOMAIN sub.entries \ {m}) = Cardinality(DOMAIN sub.entries) - 1
      BY <1>5, <2>1, <2>3, FS_RemoveElement
    <3>2. Cardinality(DOMAIN sub.entries) = sub.limit + 1
      BY <2>3 DEF Full
    <3> QED BY <1>4, <2>1, <2>3, <3>1, <3>2
  <2>4. CASE ~Full(sub.entries)
    <3>1. Cardinality(DOMAIN sub.entries) # sub.limit + 1
      BY <2>4 DEF Full
    <3> QED BY <1>4, <2>1, <2>2, <2>4, <3>1
  <2> QED BY <2>3, <2>4
<1> HIDE DEF rest, max, k
<1>8. /\ e \in Windows /\ DOMAIN e = DOMAIN rest \cup {Rec.id}
      /\ e[Rec.id] = k /\ \A j \in DOMAIN rest \ {Rec.id} : e[j] = rest[j]
  <2>1. IsWith(rest, Rec.id, k, e)
    <3>1. rest \in Windows /\ Rec.id \in Id /\ k \in 0..MaxKey
      BY <1>1, <1>4
    <3> QED BY <3>1, WithIs
  <2> QED BY <2>1 DEF IsWith
<1>9. Windowed => Cardinality(DOMAIN e) <= sub.limit + 1
  <2>1. IsFiniteSet(DOMAIN rest)
    BY <1>4, WindowSize
  <2>2. Rec.id \notin DOMAIN rest
    BY <1>4
  <2>3. Cardinality(DOMAIN rest \cup {Rec.id}) = Cardinality(DOMAIN rest) + 1
    BY <2>1, <2>2, FS_AddElement
  <2> HIDE DEF e
  <2> QED BY <1>7, <1>8, <2>3, SubFields
<1>10. x \in DOMAIN e \cup {Rec.id, max}
  <2>1. Largest(e) \subseteq DOMAIN e
    BY <1>8, LargestIs
  <2> QED BY <1>3, <2>1 DEF MaxAfterInsert, e
<1>16. x \in Largest(e) \/ (max # NoId /\ x = IF k > rest[max] THEN Rec.id ELSE max)
  BY <1>3 DEF MaxAfterInsert, e
<1>17. max # NoId => max = m /\ rest = sub.entries
  BY DEF max, rest
<1> HIDE DEF e
<1>18. Windowed /\ x # NoId => x \in Largest(e)
  <2> SUFFICES ASSUME Windowed, max # NoId, x = IF k > rest[max] THEN Rec.id ELSE max
               PROVE  x \in Largest(e)
    BY <1>16
  <2>1. max \in DOMAIN rest /\ \A j \in DOMAIN rest : rest[j] <= rest[max]
    BY <1>17, LookedNow DEF Largest
  <2>2. /\ \A j \in DOMAIN rest : rest[j] \in Nat
        /\ k \in Nat
    BY <1>1, <1>4, WindowIs, KeyFacts
  <2>3. Rec.id \notin DOMAIN rest
    BY <1>4
  <2>4. DOMAIN e = DOMAIN rest \cup {Rec.id} /\ e[Rec.id] = k /\ \A j \in DOMAIN rest : e[j] = rest[j]
    BY <1>8, <2>3
  <2>5. CASE k > rest[max]
    BY <2>1, <2>2, <2>4, <2>5 DEF Largest
  <2>6. CASE ~(k > rest[max])
    BY <2>1, <2>2, <2>4, <2>6 DEF Largest
  <2> QED BY <2>5, <2>6
<1>11. /\ x \in Id \cup {NoId} /\ (Windowed => x \in DOMAIN e \cup {NoId})
       /\ m2 \in Looked(e, x) /\ DOMAIN e \subseteq Id
  BY <1>1, <1>3, <1>6, <1>8, <1>10, WindowIs
<1>12. m2 \in Id \cup {NoId} /\ (m2 = x \/ m2 \in DOMAIN e) /\ (Full(e) => m2 # NoId)
  BY <1>8, <1>11, LookedIs
<1>13. e[Rec.id] = Kept(Post)
  BY <1>8 DEF k
<1>14. \A j \in DOMAIN e \ {Rec.id} : j \in DOMAIN sub.entries /\ e[j] = sub.entries[j]
  BY <1>4, <1>8
<1>15. \A j \in DOMAIN sub.entries \ {Rec.id} : j \in DOMAIN e \/ j = Sentinel(sub.entries, m)
  BY <1>4, <1>8
<1>19. Windowed /\ m2 # NoId => m2 \in Largest(e)
  BY <1>8, <1>11, <1>18, LookedIs
<1> QED BY <1>3, <1>8, <1>9, <1>11, <1>12, <1>13, <1>14, <1>15, <1>19 DEF Moved

\* The queries that differ from the one held in their window only.
Alike(s) == /\ s \in Subs /\ s.pc = sub.pc /\ s.limit = sub.limit /\ s.scope = sub.scope
            /\ s.closed = sub.closed /\ s.queued = sub.queued

\* The two ways a record may be applied.
Skips ==
    /\ Rec.id \notin DOMAIN sub.entries
    /\ Matches(Post) => Windowed
    /\ sub' = sub
    /\ event'.set = event.set /\ event'.removed = event.removed
    /\ event'.muddled = event.muddled
Moves ==
    /\ Alike(sub')
    /\ Moved(sub.maxRef, sub'.entries, sub'.maxRef)
    /\ Classify(Sentinel(sub.entries, sub.maxRef), Sentinel(sub'.entries, sub'.maxRef),
                sub'.entries)

LEMMA TransitionIs ==
    ASSUME EngineTyped, Bounded, event.todo # <<>>, NEW m \in Looked(sub.entries, sub.maxRef),
           ~Ignored(m), NEW x \in Transition(m).maxRefs,
           NEW m2 \in Looked(Transition(m).entries, x)
    PROVE  Moved(m, Transition(m).entries, m2) /\ Transition(m).lost \in Nat
<1>1. CASE Rec.id \in DOMAIN sub.entries /\ Matches(Post)
  <2>1. Transition(m) = Updated(m)
    BY <1>1 DEF Transition
  <2>2. Updated(m).lost = sub.lost
    BY DEF Updated
  <2> QED BY <1>1, <2>1, <2>2, AfterUpdate, SubFields
<1>2. CASE Rec.id \in DOMAIN sub.entries /\ ~Matches(Post)
  <2>1. Transition(m) = Left(m)
    BY <1>2 DEF Transition
  <2>2. Left(m).lost = sub.lost + 1
    BY DEF Left
  <2>3. Moved(m, Transition(m).entries, m2)
    BY <1>2, <2>1, AfterLeft
  <2> QED BY <2>1, <2>2, <2>3, SubFields
<1>3. CASE Rec.id \notin DOMAIN sub.entries
  <2>1. Transition(m) = Entered(m)
    BY <1>3 DEF Transition
  <2>2. Entered(m).lost = sub.lost
    BY DEF Entered
  <2>3. Matches(Post)
    BY <1>3 DEF Ignored
  <2> QED BY <1>3, <2>1, <2>2, <2>3, AfterEntered, SubFields
<1> QED BY <1>1, <1>2, <1>3

LEMMA ApplyRecordIs ==
    ASSUME EngineTyped, Bounded, NEW o \in Object, ApplyRecord(o)
    PROVE  /\ mu = o /\ event.todo # <<>>
           /\ UNCHANGED <<row, deleted, apply, stamped, mu, counter, shut, view, untold, missed>>
           /\ Skips \/ Moves
           /\ event'.todo = Tail(event.todo) /\ event' \in Events
           /\ strayed' \in Nat
<1>1. mu = o /\ event.todo # <<>>
      /\ UNCHANGED <<row, deleted, apply, stamped, mu, counter, shut, view, untold, missed>>
  BY DEF ApplyRecord, dataset
<1>2. strayed \in Nat /\ sub \in Subs /\ event \in Events
  BY DEF EngineTyped
<1>3. Rec \in Record /\ Rec.id \in Id /\ Tail(event.todo) \in Seq(Record)
  BY <1>1, HeadFacts
<1>4. PICK m \in Looked(sub.entries, sub.maxRef) :
        \/ /\ Ignored(m)
           /\ event' = [event EXCEPT !.todo = Tail(@), !.seen = @ \cup {Rec.id}]
           /\ sub' = [sub EXCEPT !.maxRef = m]
           /\ UNCHANGED strayed
        \/ /\ ~Ignored(m)
           /\ LET t == Transition(m)
              IN  \E x \in t.maxRefs : \E m2 \in Looked(t.entries, x) :
                    /\ Classify(Sentinel(sub.entries, m), Sentinel(t.entries, m2), t.entries)
                    /\ sub' = [sub EXCEPT !.entries = t.entries, !.maxRef = m2, !.lost = t.lost]
           /\ strayed' = IF /\ Windowed /\ Rec.id \in DOMAIN sub.entries /\ Matches(Post)
                            /\ Passed(Rec.id, Post)
                         THEN strayed + 1 ELSE strayed
  BY DEF ApplyRecord
<1>5. m = sub.maxRef
  BY LookedNow
<1>6. CASE Ignored(m)
  <2>1. /\ event' = [event EXCEPT !.todo = Tail(@), !.seen = @ \cup {Rec.id}]
        /\ sub' = [sub EXCEPT !.maxRef = m] /\ strayed' = strayed
    BY <1>4, <1>6
  <2>2. sub' = sub
    BY <1>2, <1>5, <2>1 DEF Subs
  <2>3. /\ event'.set = event.set /\ event'.removed = event.removed
        /\ event'.muddled = event.muddled /\ event'.todo = Tail(event.todo)
        /\ event' \in Events
    BY <1>2, <1>3, <2>1 DEF Events
  <2>4. Rec.id \notin DOMAIN sub.entries /\ (Matches(Post) => Windowed)
    BY <1>6 DEF Ignored, Full
  <2> QED BY <1>1, <1>2, <2>1, <2>2, <2>3, <2>4 DEF Skips
<1>7. CASE ~Ignored(m)
  <2> DEFINE t == Transition(m)
  <2>0. PICK x \in t.maxRefs : \E m2 \in Looked(t.entries, x) :
           /\ Classify(Sentinel(sub.entries, m), Sentinel(t.entries, m2), t.entries)
           /\ sub' = [sub EXCEPT !.entries = t.entries, !.maxRef = m2, !.lost = t.lost]
    BY <1>4, <1>7
  <2>1. PICK m2 \in Looked(t.entries, x) :
           /\ Classify(Sentinel(sub.entries, m), Sentinel(t.entries, m2), t.entries)
           /\ sub' = [sub EXCEPT !.entries = t.entries, !.maxRef = m2, !.lost = t.lost]
    BY <2>0
  <2>2. Moved(m, t.entries, m2) /\ t.lost \in Nat
    <3>1. Moved(m, Transition(m).entries, m2) /\ Transition(m).lost \in Nat
      BY <1>1, <1>7, TransitionIs
    <3> QED BY <3>1
  <2>3. strayed' \in Nat
    <3>1. strayed' \in {strayed, strayed + 1}
      BY <1>4, <1>7, Zenon
    <3> QED BY <1>2, <3>1
  <2> HIDE DEF t
  <2>4. t.entries \in Windows /\ m2 \in Id \cup {NoId}
    BY <2>2 DEF Moved
  <2>5. Alike(sub') /\ sub'.entries = t.entries /\ sub'.maxRef = m2
    <3>1. sub' = [sub EXCEPT !.entries = t.entries, !.maxRef = m2, !.lost = t.lost]
      BY <2>1
    <3> QED BY <1>2, <2>2, <2>4, <3>1 DEF Alike, Subs
  <2>6. Moves
    BY <1>5, <2>1, <2>2, <2>5 DEF Moves
  <2>7. event'.todo = Tail(event.todo) /\ event' \in Events
    <3> DEFINE old == Sentinel(sub.entries, m)
               new == Sentinel(t.entries, m2)
               risen == Risen(old, new, t.entries)
               sunk  == {new} \ {old, Rec.id, NoId}
               is == Rec.id \in DOMAIN t.entries /\ Rec.id # new
               seen == event.seen \cup {Rec.id}
               D == (IF is THEN {Rec.id} ELSE {}) \cup (risen \ seen)
               set == [i \in D |-> IF i = Rec.id THEN Post ELSE t.entries[i]]
               both == [i \in DOMAIN event.set \cup DOMAIN set |->
                            IF i \in DOMAIN set THEN set[i] ELSE event.set[i]]
    <3>1. /\ event.set \in Windows /\ event.seen \in SUBSET Id /\ event.removed \in SUBSET Id
          /\ event.muddled \in SUBSET Id
      BY <1>2 DEF Events
    <3>2. risen \subseteq DOMAIN t.entries /\ sunk \subseteq Id
      BY <2>4, KeyFacts DEF Risen, Sentinel
    <3>3. /\ DOMAIN t.entries \subseteq Id
          /\ \A i \in DOMAIN t.entries : t.entries[i] \in 0..MaxKey
      BY <2>4, WindowIs
    <3>4. Rec.id \in DOMAIN t.entries => Post \in 0..MaxKey
      BY <2>2, KeyFacts DEF Moved
    <3>5. DOMAIN both = DOMAIN event.set \cup D
      OBVIOUS
    <3>6. /\ DOMAIN event.set \subseteq Id
          /\ \A i \in DOMAIN event.set : event.set[i] \in 0..MaxKey
      BY <3>1, WindowIs
    <3>7. D \subseteq DOMAIN t.entries
      BY <3>2
    <3> HIDE DEF risen, sunk, is, seen
    <3>8. \A i \in DOMAIN both : both[i] \in 0..MaxKey
      <4>1. \A i \in D : set[i] \in 0..MaxKey
        BY <3>3, <3>4, <3>7
      <4>2. DOMAIN set = D
        OBVIOUS
      <4> HIDE DEF D, set
      <4> QED BY <3>6, <4>1, <4>2
    <3>9. both \in Windows
      <4>1. both \in [DOMAIN both -> 0..MaxKey]
        <5> HIDE DEF D, set
        <5> QED BY <3>8
      <4>2. DOMAIN both \subseteq Id
        BY <3>3, <3>5, <3>6, <3>7
      <4> HIDE DEF both
      <4> QED BY <4>1, <4>2, WindowIs
    <3> DEFINE was == Rec.id \in DOMAIN sub.entries /\ Rec.id # old
               gone == (IF was /\ ~is THEN {Rec.id} ELSE {}) \cup (sunk \ seen)
               muddle == event.muddled \cup ((risen \cup sunk) \cap seen)
                                \cup (DOMAIN event.set \cap gone) \cup (DOMAIN set \cap event.removed)
    <3>10. event' = [todo |-> Tail(event.todo), seen |-> seen \cup risen \cup sunk, set |-> both,
                     removed |-> event.removed \cup gone, muddled |-> muddle]
      BY <2>1 DEF Classify, risen, sunk, is, seen
    <3>11. seen \cup risen \cup sunk \in SUBSET Id
      BY <1>3, <3>1, <3>2, <3>3 DEF seen
    <3>12. gone \in SUBSET Id
      BY <1>3, <3>2
    <3>13. muddle \in SUBSET Id
      <4>1. D \subseteq Id
        BY <3>3, <3>7
      <4> HIDE DEF D, gone
      <4> QED BY <3>1, <3>6, <3>11, <3>12, <4>1
    <3>14. event.removed \cup gone \in SUBSET Id
      BY <3>1, <3>12
    <3> HIDE DEF both, gone, muddle
    <3> QED BY <1>3, <3>9, <3>10, <3>11, <3>13, <3>14 DEF Events
  <2> QED BY <1>1, <2>3, <2>6, <2>7
<1> QED BY <1>6, <1>7

-----------------------------------------------------------------------------
(* What the writers have yet to tell.                                      *)

\* What the writer of an object has committed and the engine not yet applied;
\* the news of a record is on its way, or lost with its last read.
Todo(o) == CASE apply[o].pc \in {"committed", "event"} -> apply[o].records
             [] apply[o].pc = "calling" -> event.todo
             [] OTHER -> <<>>
InFlight(i) == \/ stamped[Owner[i]] = i
               \/ \E a \in DOMAIN Todo(Owner[i]) : Todo(Owner[i])[a].id = i
               \/ i \in missed

\* Records of one object, each once; what is told deleted is no row.
Of(o, rs, r) ==
    \A a \in DOMAIN rs :
      /\ Owner[rs[a].id] = o
      /\ rs[a].deleted => r[rs[a].id] \in {Gone, Dead}
      /\ \A b \in DOMAIN rs : rs[a].id = rs[b].id => a = b

\* A stamp on its way to the batch, and one held there.
Batch(o) ==
    apply[o].pc = "committed" /\ apply[o].batch =>
        LET rs == apply[o].records
        IN  /\ Len(rs) = 1 /\ ~rs[1].deleted
            /\ stamped[o] \in {NoId, rs[1].id} /\ row[rs[1].id] # Gone
Stamps(o) == stamped[o] # NoId => Owner[stamped[o]] = o /\ row[stamped[o]] # Gone /\ deleted[o] = "no"

\* A purge comes alone, and leaves no row.
Deletes(o) ==
    /\ deleted[o] \in {"marked", "gone"} => apply[o].pc = "idle"
    /\ apply[o].pc = "committed" => deleted[o] = "no"
    /\ deleted[o] \in {"purged", "gone"} => \A i \in RecordsOf(o) : row[i] = Gone
Writes == \A o \in Object : Of(o, Todo(o), row) /\ Batch(o) /\ Stamps(o) /\ Deletes(o)

\* The writer of an object has records to tell, of all the rows it changed.
Posts(o, p, rs, b) ==
    /\ rs \in Seq(Record)
    /\ apply' = [apply EXCEPT ![o] = [pc |-> p, records |-> rs, batch |-> b]]
    /\ Of(o, rs, row')
    /\ \A i \in Id : row'[i] = row[i] \/ \E a \in DOMAIN rs : rs[a].id = i
    /\ \A i \in Id : Owner[i] # o => row'[i] = row[i]

LEMMA WriterFacts ==
    ASSUME EngineTyped, NEW o \in Object
    PROVE  /\ apply[o] \in Jobs /\ apply[o].records \in Seq(Record) /\ apply[o].batch \in BOOLEAN
           /\ apply[o].pc \in {"idle", "committed", "event", "calling"}
           /\ stamped[o] \in Id \cup {NoId}
           /\ deleted[o] \in {"no", "marked", "purged", "gone"}
           /\ event.todo \in Seq(Record)
           /\ Todo(o) \in Seq(Record)
<1>1. apply[o] \in Jobs
  BY DEF EngineTyped
<1>2. /\ apply[o].records \in Seq(Record) /\ apply[o].batch \in BOOLEAN
      /\ apply[o].pc \in {"idle", "committed", "event", "calling"}
  BY <1>1 DEF Jobs
<1>3. event.todo \in Seq(Record)
  BY DEF EngineTyped, Events
<1>4. Todo(o) \in Seq(Record)
  BY <1>2, <1>3 DEF Todo
<1> QED BY <1>1, <1>2, <1>3, <1>4 DEF EngineTyped

LEMMA PostsTyped ==
    ASSUME EngineTyped, NEW o \in Object, NEW p \in {"committed", "event"}, NEW rs,
           NEW b \in BOOLEAN, Posts(o, p, rs, b)
    PROVE  /\ apply' \in [Object -> Jobs]
           /\ apply'[o].pc = p /\ apply'[o].records = rs /\ apply'[o].batch = b
           /\ \A q \in Object \ {o} : apply'[q] = apply[q]
<1>1. [pc |-> p, records |-> rs, batch |-> b] \in Jobs
  BY DEF Posts, Jobs
<1>2. apply' = [apply EXCEPT ![o] = [pc |-> p, records |-> rs, batch |-> b]]
  BY DEF Posts
<1>3. apply \in [Object -> Jobs]
  BY DEF EngineTyped
<1> QED BY <1>1, <1>2, <1>3

LEMMA WriteIs ==
    ASSUME EngineTyped, NEW o \in Object, Write(o)
    PROVE  /\ apply[o].pc = "idle" /\ deleted[o] = "no"
           /\ \E rs : Posts(o, "committed", rs, FALSE)
           /\ row' \in [Id -> Gone..Dead]
           /\ \A i \in Id : row[i] # Gone => row'[i] # Gone
           /\ UNCHANGED <<deleted, stamped, mu, counter, shut, sub, event, client>>
<1>1. PICK n \in 1..MaxRecords :
        \E ids \in {f \in [1..n -> RecordsOf(o)] : \A a, b \in 1..n : f[a] = f[b] => a = b} :
            \E new \in [1..n -> 1..Dead] :
                /\ \A a \in 1..n : row[ids[a]] # Dead /\ (row[ids[a]] = Gone => new[a] # Dead)
                /\ row' = [i \in Id |-> IF \E a \in 1..n : ids[a] = i
                                        THEN new[CHOOSE a \in 1..n : ids[a] = i] ELSE row[i]]
                /\ Commit(o, [a \in 1..n |-> [id |-> ids[a], deleted |-> new[a] = Dead]], FALSE)
  BY DEF Write
<1>2. PICK ids \in {f \in [1..n -> RecordsOf(o)] : \A a, b \in 1..n : f[a] = f[b] => a = b},
           new \in [1..n -> 1..Dead] :
                /\ \A a \in 1..n : row[ids[a]] # Dead /\ (row[ids[a]] = Gone => new[a] # Dead)
                /\ row' = [i \in Id |-> IF \E a \in 1..n : ids[a] = i
                                        THEN new[CHOOSE a \in 1..n : ids[a] = i] ELSE row[i]]
                /\ Commit(o, [a \in 1..n |-> [id |-> ids[a], deleted |-> new[a] = Dead]], FALSE)
  BY <1>1
<1> DEFINE rs == [a \in 1..n |-> [id |-> ids[a], deleted |-> new[a] = Dead]]
<1>3. n \in Nat
  BY KeyFacts, SubscriptionsAssumption DEF SubscriptionsAssumption
<1>4. \A a \in 1..n : ids[a] \in Id /\ Owner[ids[a]] = o /\ new[a] \in 1..Dead
  BY DEF RecordsOf
<1>5. \A a, b \in 1..n : ids[a] = ids[b] => a = b
  OBVIOUS
<1>6. row' = [i \in Id |-> IF \E a \in 1..n : ids[a] = i
                           THEN new[CHOOSE a \in 1..n : ids[a] = i] ELSE row[i]]
  BY <1>2
<1>7. \A a \in 1..n : row'[ids[a]] = new[a]
  <2> TAKE a \in 1..n
  <2>1. (CHOOSE c \in 1..n : ids[c] = ids[a]) = a
    BY <1>5
  <2> QED BY <1>4, <1>6, <2>1
<1>8. \A i \in Id : row'[i] = row[i] \/ \E a \in 1..n : ids[a] = i
  BY <1>6
<1>9. \A i \in Id : row'[i] = row[i] \/ row'[i] \in 1..Dead
  <2> TAKE i \in Id
  <2>1. CASE \E a \in 1..n : ids[a] = i
    BY <1>4, <1>7, <2>1
  <2>2. CASE ~ \E a \in 1..n : ids[a] = i
    BY <1>8, <2>2
  <2> QED BY <2>1, <2>2
<1>10. row \in [Id -> Gone..Dead]
  BY DEF EngineTyped
<1>11. row' \in [Id -> Gone..Dead] /\ \A i \in Id : row[i] # Gone => row'[i] # Gone
  <2>1. \A i \in Id : row'[i] \in Gone..Dead
    BY <1>9, <1>10, KeyFacts
  <2>2. row' = [i \in Id |-> row'[i]]
    BY <1>6, Zenon
  <2> QED BY <1>9, <2>1, <2>2, KeyFacts
<1>12. DOMAIN rs = 1..n /\ \A a \in 1..n : rs[a].id = ids[a] /\ (rs[a].deleted => new[a] = Dead)
  OBVIOUS
<1>13. rs \in Seq(Record)
  BY <1>3, <1>4 DEF Record
<1>14. apply' = [apply EXCEPT ![o] = [pc |-> "committed", records |-> rs, batch |-> FALSE]]
  BY <1>2 DEF Commit
<1> HIDE DEF rs
<1>15. Of(o, rs, row')
  BY <1>4, <1>5, <1>7, <1>12 DEF Of
<1>16. \A i \in Id : Owner[i] # o => row'[i] = row[i]
  BY <1>4, <1>8
<1>17. \A i \in Id : row'[i] = row[i] \/ \E a \in DOMAIN rs : rs[a].id = i
  BY <1>8, <1>12
<1>18. Posts(o, "committed", rs, FALSE)
  BY <1>13, <1>14, <1>15, <1>16, <1>17 DEF Posts
<1> QED BY <1>11, <1>18 DEF Write

LEMMA StampIs ==
    ASSUME EngineTyped, NEW o \in Object, Stamp(o)
    PROVE  /\ apply[o].pc = "idle" /\ deleted[o] = "no"
           /\ \E i \in Id : /\ Posts(o, "committed", <<[id |-> i, deleted |-> FALSE]>>, TRUE)
                            /\ stamped[o] \in {NoId, i} /\ row'[i] # Gone
           /\ row' \in [Id -> Gone..Dead]
           /\ \A i \in Id : row[i] # Gone => row'[i] # Gone
           /\ UNCHANGED <<deleted, stamped, mu, counter, shut, sub, event, client>>
<1>1. PICK i \in RecordsOf(o), k \in 1..MaxKey :
        /\ Matches(row[i]) /\ k # row[i] /\ stamped[o] \in {NoId, i}
        /\ row' = [row EXCEPT ![i] = k]
        /\ Commit(o, <<[id |-> i, deleted |-> FALSE]>>, TRUE)
  BY DEF Stamp
<1> DEFINE rs == <<[id |-> i, deleted |-> FALSE]>>
<1>2. i \in Id /\ Owner[i] = o
  BY DEF RecordsOf
<1>3. row \in [Id -> Gone..Dead] /\ row' = [row EXCEPT ![i] = k] /\ k \in Gone..Dead /\ k # Gone
  BY <1>1, KeyFacts DEF EngineTyped
<1>4. /\ row' \in [Id -> Gone..Dead] /\ row'[i] # Gone
      /\ \A j \in Id \ {i} : row'[j] = row[j]
  BY <1>2, <1>3
<1>5. rs \in Seq(Record) /\ DOMAIN rs = {1} /\ rs[1].id = i /\ rs[1].deleted = FALSE
  <2>1. [id |-> i, deleted |-> FALSE] \in Record
    BY <1>2 DEF Record
  <2> QED BY <2>1
<1>6. apply' = [apply EXCEPT ![o] = [pc |-> "committed", records |-> rs, batch |-> TRUE]]
  BY <1>1 DEF Commit
<1>7. stamped[o] \in {NoId, i}
  BY <1>1
<1> HIDE DEF rs
<1>8. Of(o, rs, row')
  BY <1>2, <1>5 DEF Of
<1>9. Posts(o, "committed", rs, TRUE)
  BY <1>2, <1>4, <1>5, <1>6, <1>8 DEF Posts
<1>10. \A j \in Id : row[j] # Gone => row'[j] # Gone
  BY <1>4
<1>11. Posts(o, "committed", <<[id |-> i, deleted |-> FALSE]>>, TRUE)
  BY <1>9 DEF rs
<1> QED BY <1>2, <1>4, <1>7, <1>10, <1>11 DEF Stamp

LEMMA FlushIs ==
    ASSUME EngineTyped, Writes, NEW o \in Object, FlushStamps(o)
    PROVE  /\ apply[o].pc = "idle" /\ stamped[o] \in Id
           /\ stamped' = [stamped EXCEPT ![o] = NoId]
           /\ deleted[o] = "no"
           /\ \/ counter = 0 /\ UNCHANGED <<apply, missed>>
              \/ UNCHANGED apply /\ missed' = (missed \cup {stamped[o]})
              \/ /\ Posts(o, "event", <<[id |-> stamped[o], deleted |-> FALSE]>>, FALSE)
                 /\ UNCHANGED missed
           /\ UNCHANGED <<dataset, mu, counter, shut, sub, event, view, untold, strayed>>
<1>1. /\ apply[o].pc = "idle" /\ stamped[o] # NoId
      /\ stamped' = [stamped EXCEPT ![o] = NoId]
      /\ UNCHANGED <<dataset, mu, counter, shut, sub, event, view, untold, strayed>>
  BY DEF FlushStamps
<1>2. stamped[o] \in Id
  BY <1>1, WriterFacts
<1>3. Owner[stamped[o]] = o /\ row[stamped[o]] # Gone /\ deleted[o] = "no"
  BY <1>1 DEF Writes, Stamps
<1>4. CASE counter = 0
  <2>1. UNCHANGED <<apply, missed>>
    BY <1>4 DEF FlushStamps
  <2> QED BY <1>1, <1>2, <1>3, <1>4, <2>1
<1>5. CASE counter # 0
  <2> DEFINE rs == <<[id |-> stamped[o], deleted |-> FALSE]>>
  <2>1. PICK failed \in SUBSET {stamped[o]} :
           /\ missed' = missed \cup failed
           /\ IF failed # {} THEN UNCHANGED apply
              ELSE apply' = [apply EXCEPT ![o] = Due(<<[id |-> stamped[o], deleted |-> FALSE]>>)]
    BY <1>3, <1>5 DEF FlushStamps
  <2>2. CASE failed # {}
    <3>1. failed = {stamped[o]}
      BY <2>2
    <3> QED BY <1>1, <1>2, <1>3, <2>1, <2>2, <3>1
  <2> SUFFICES ASSUME failed = {} PROVE Posts(o, "event", rs, FALSE) /\ missed' = missed
    BY <1>1, <1>2, <1>3, <2>2
  <2>9. missed' = missed
    BY <2>1
  <2>3. apply' = [apply EXCEPT ![o] = [pc |-> "event", records |-> rs, batch |-> FALSE]]
    BY <2>1 DEF Due
  <2>4. rs \in Seq(Record) /\ DOMAIN rs = {1} /\ rs[1].id = stamped[o] /\ rs[1].deleted = FALSE
    <3>1. [id |-> stamped[o], deleted |-> FALSE] \in Record
      BY <1>2 DEF Record
    <3> QED BY <3>1
  <2> HIDE DEF rs
  <2>5. Of(o, rs, row')
    BY <1>3, <2>4 DEF Of
  <2>6. UNCHANGED row
    BY <1>1 DEF dataset
  <2>7. Posts(o, "event", rs, FALSE)
    BY <2>3, <2>4, <2>5, <2>6 DEF Posts
  <2> QED BY <2>7, <2>9
<1> QED BY <1>4, <1>5

\* The elements of a finite set, each once.
Numbered(S) == CHOOSE f \in [1..Cardinality(S) -> S] : Range(f) = S

LEMMA Numbering ==
    ASSUME NEW S, IsFiniteSet(S)
    PROVE  /\ Numbered(S) \in [1..Cardinality(S) -> S]
           /\ \A i \in S : \E a \in 1..Cardinality(S) : Numbered(S)[a] = i
           /\ \A a, b \in 1..Cardinality(S) : Numbered(S)[a] = Numbered(S)[b] => a = b
<1> DEFINE n == Cardinality(S)
           f == Numbered(S)
<1>1. n \in Nat /\ ExistsBijection(1..n, S)
  BY FS_CardinalityType
<1> HIDE DEF n
<1>2. PICK h \in [1..n -> S] : \A i \in S : \E a \in 1..n : h[a] = i
  BY <1>1 DEF ExistsBijection, Bijection, Injection, Surjection
<1>3. Range(h) = S
  BY <1>2 DEF Range
<1>4. f \in [1..n -> S] /\ Range(f) = S
  BY <1>3 DEF Numbered, n
<1> HIDE DEF f
<1>5. f \in Surjection(1..n, S)
  BY <1>4 DEF Surjection, Range
<1>6. IsFiniteSet(1..n) /\ Cardinality(1..n) = n
  BY <1>1, FS_Interval
<1>7. f \in Injection(1..n, S)
  BY <1>5, <1>6, FS_SurjSameCardinalityImpliesInj DEF n
<1>8. \A a, b \in 1..n : f[a] = f[b] => a = b
  BY <1>4, <1>7 DEF Injection, IsInjective
<1>9. \A i \in S : \E a \in 1..n : f[a] = i
  BY <1>5 DEF Surjection
<1> QED BY <1>4, <1>8, <1>9 DEF n, f

LEMMA PurgeIs ==
    ASSUME EngineTyped, Writes, NEW o \in Object, Purge(o)
    PROVE  /\ apply[o].pc = "idle" /\ deleted[o] = "marked" /\ stamped[o] = NoId
           /\ deleted' = [deleted EXCEPT ![o] = "purged"]
           /\ \/ UNCHANGED apply /\ UNCHANGED row
              \/ \E rs : Posts(o, "event", rs, FALSE)
           /\ row' \in [Id -> Gone..Dead]
           /\ \A i \in Id : row'[i] = IF Owner[i] = o THEN Gone ELSE row[i]
           /\ UNCHANGED <<stamped, mu, counter, shut, sub, event, client>>
<1> DEFINE rows == {i \in RecordsOf(o) : row[i] # Gone}
           ids  == CHOOSE f \in [1..Cardinality(rows) -> rows] : Range(f) = rows
           n    == Cardinality(rows)
           rs   == [a \in 1..n |-> [id |-> ids[a], deleted |-> TRUE]]
<1>1. /\ deleted[o] = "marked" /\ deleted' = [deleted EXCEPT ![o] = "purged"]
      /\ row' = [i \in Id |-> IF i \in rows THEN Gone ELSE row[i]]
      /\ UNCHANGED <<stamped, mu, counter, shut, sub, event, client>>
  BY DEF Purge
<1>2. IF rows = {} THEN UNCHANGED apply
      ELSE apply' = [apply EXCEPT ![o] = [pc |-> "event", records |-> rs, batch |-> FALSE]]
  BY DEF Purge, Due
<1>3. apply[o].pc = "idle" /\ stamped[o] = NoId
  BY <1>1 DEF Writes, Stamps, Deletes
<1>4. \A i \in Id : i \in rows <=> Owner[i] = o /\ row[i] # Gone
  BY DEF RecordsOf
<1>5. rows \in SUBSET Id
  BY DEF RecordsOf
<1>6. row \in [Id -> Gone..Dead] /\ Gone \in Gone..Dead
  BY KeyFacts DEF EngineTyped
<1>7. row' = [i \in Id |-> IF i \in rows THEN Gone ELSE row[i]]
  BY <1>1
<1>8. IsFiniteSet(rows)
  <2> HIDE DEF rows
  <2> QED BY <1>5, KeyFacts, FS_Subset
<1>9. /\ ids \in [1..n -> rows] /\ \A i \in rows : \E a \in 1..n : ids[a] = i
      /\ \A a, b \in 1..n : ids[a] = ids[b] => a = b
  <2>1. ids = Numbered(rows)
    BY DEF Numbered
  <2> HIDE DEF rows, ids
  <2> QED BY <1>8, <2>1, Numbering
<1>10. n \in Nat
  <2> HIDE DEF rows
  <2> QED BY <1>8, FS_CardinalityType
<1> HIDE DEF rows, ids, n
<1>11. /\ row' \in [Id -> Gone..Dead]
       /\ \A i \in Id : row'[i] = IF Owner[i] = o THEN Gone ELSE row[i]
  BY <1>4, <1>6, <1>7
<1>12. CASE rows = {}
  <2>1. UNCHANGED apply
    BY <1>2, <1>12
  <2>2. row' = row
    BY <1>6, <1>7, <1>12
  <2> QED BY <1>1, <1>3, <1>11, <2>1, <2>2
<1>13. CASE rows # {}
  <2>1. apply' = [apply EXCEPT ![o] = [pc |-> "event", records |-> rs, batch |-> FALSE]]
    BY <1>2, <1>13
  <2>2. \A a \in 1..n : ids[a] \in Id /\ Owner[ids[a]] = o /\ row'[ids[a]] = Gone
    BY <1>4, <1>5, <1>7, <1>9
  <2>3. DOMAIN rs = 1..n /\ \A a \in 1..n : rs[a].id = ids[a]
    OBVIOUS
  <2>4. rs \in Seq(Record)
    <3>1. \A a \in 1..n : [id |-> ids[a], deleted |-> TRUE] \in Record
      BY <2>2 DEF Record
    <3>2. rs \in [1..n -> Record]
      BY <3>1
    <3> QED BY <1>10, <3>2
  <2> HIDE DEF rs
  <2>5. Of(o, rs, row')
    BY <1>9, <2>2, <2>3 DEF Of
  <2>6. \A i \in Id : row'[i] = row[i] \/ \E a \in DOMAIN rs : rs[a].id = i
    BY <1>7, <1>9, <2>3
  <2>7. \A i \in Id : Owner[i] # o => row'[i] = row[i]
    BY <1>11
  <2>8. Posts(o, "event", rs, FALSE)
    BY <2>1, <2>4, <2>5, <2>6, <2>7 DEF Posts
  <2> QED BY <1>1, <1>3, <1>11, <2>8
<1> QED BY <1>12, <1>13

\* A writer has nothing more to tell, or goes on with what it has.
Rests(o) ==
    /\ apply' \in [Object -> Jobs] /\ apply'[o] = Idle
    /\ \A q \in Object \ {o} : apply'[q] = apply[q]
Turns(o, p) ==
    /\ apply' \in [Object -> Jobs]
    /\ apply'[o].pc = p /\ apply'[o].records = apply[o].records
    /\ \A q \in Object \ {o} : apply'[q] = apply[q]

LEMMA RestsIs ==
    ASSUME EngineTyped, NEW o \in Object, apply' = [apply EXCEPT ![o] = Idle]
    PROVE  Rests(o)
<1>1. Idle \in Jobs
  BY DEF Idle, Jobs
<1>2. apply \in [Object -> Jobs]
  BY DEF EngineTyped
<1> QED BY <1>1, <1>2 DEF Rests

LEMMA TurnsIs ==
    ASSUME EngineTyped, NEW o \in Object, NEW p \in {"event", "calling"},
           apply' = [apply EXCEPT ![o].pc = p]
    PROVE  Turns(o, p)
<1>1. apply \in [Object -> Jobs]
  BY DEF EngineTyped
<1>2. apply' = [apply EXCEPT ![o] = [apply[o] EXCEPT !.pc = p]]
  BY <1>1
<1>3. apply[o] \in Jobs
  BY <1>1
<1>4. /\ [apply[o] EXCEPT !.pc = p] \in Jobs
      /\ [apply[o] EXCEPT !.pc = p].pc = p
      /\ [apply[o] EXCEPT !.pc = p].records = apply[o].records
  BY <1>3 DEF Jobs
<1> QED BY <1>1, <1>2, <1>4 DEF Turns

LEMMA AnnounceIs ==
    ASSUME EngineTyped, NEW o \in Object, Announce(o)
    PROVE  /\ apply[o].pc = "committed"
           /\ \/ counter = 0 /\ Rests(o) /\ UNCHANGED stamped
              \/ /\ apply[o].batch /\ Rests(o)
                 /\ stamped' = [stamped EXCEPT ![o] = apply[o].records[1].id]
              \/ ~apply[o].batch /\ Turns(o, "event") /\ UNCHANGED stamped
           /\ UNCHANGED <<dataset, mu, counter, shut, sub, event, client>>
<1>1. /\ apply[o].pc = "committed"
      /\ UNCHANGED <<dataset, mu, counter, shut, sub, event, client>>
  BY DEF Announce
<1>2. CASE counter = 0
  <2>1. apply' = [apply EXCEPT ![o] = Idle] /\ UNCHANGED stamped
    BY <1>2 DEF Announce
  <2> QED BY <1>1, <1>2, <2>1, RestsIs
<1>3. CASE counter # 0 /\ apply[o].batch
  <2>1. /\ apply' = [apply EXCEPT ![o] = Idle]
        /\ stamped' = [stamped EXCEPT ![o] = apply[o].records[1].id]
    BY <1>3 DEF Announce
  <2> QED BY <1>1, <1>3, <2>1, RestsIs
<1>4. CASE counter # 0 /\ ~apply[o].batch
  <2>1. apply' = [apply EXCEPT ![o].pc = "event"] /\ UNCHANGED stamped
    BY <1>4 DEF Announce
  <2> QED BY <1>1, <1>4, <2>1, TurnsIs
<1> QED BY <1>2, <1>3, <1>4

\* The engine's event, as it begins.
Begins(o) ==
    /\ event' \in Events /\ event'.todo = apply[o].records
    /\ event'.set = <<>> /\ event'.removed = {} /\ event'.muddled = {}

LEMMA OnApplyIs ==
    ASSUME EngineTyped, NEW o \in Object, OnApply(o)
    PROVE  /\ apply[o].pc = "event"
           /\ \/ (counter = 0 \/ shut) /\ Rests(o) /\ UNCHANGED <<mu, event, missed>>
              \/ mu = Nobody /\ ~Concerned(o) /\ Rests(o) /\ UNCHANGED <<mu, event, missed>>
              \/ /\ mu = Nobody /\ ~shut /\ Concerned(o) /\ mu' = o
                 /\ Begins(o) /\ Turns(o, "calling")
                 /\ \A i \in missed \ missed' : \E a \in DOMAIN apply[o].records : apply[o].records[a].id = i
           /\ UNCHANGED <<dataset, stamped, counter, shut, sub, view, untold, strayed>>
<1>1. /\ apply[o].pc = "event"
      /\ UNCHANGED <<dataset, stamped, counter, shut, sub, view, untold, strayed>>
  BY DEF OnApply
<1>2. CASE Skip(o)
  <2>1. /\ apply' = [apply EXCEPT ![o] = Idle] /\ UNCHANGED <<mu, event, missed>>
        /\ counter = 0 \/ shut \/ (mu = Nobody /\ ~Concerned(o))
    BY <1>2 DEF Skip
  <2> QED BY <1>1, <2>1, RestsIs
<1>4. CASE Call(o)
  <2>1. /\ mu = Nobody /\ mu' = o /\ event' = [NoEvent EXCEPT !.todo = apply[o].records]
        /\ apply' = [apply EXCEPT ![o].pc = "calling"] /\ ~shut /\ Concerned(o)
    BY <1>4 DEF Call
  <2>2. apply[o].records \in Seq(Record)
    BY WriterFacts
  <2>3. NoEvent \in Events
    BY EmptyWindow DEF NoEvent, Events
  <2>4. Begins(o)
    BY <2>1, <2>2, <2>3 DEF Begins, NoEvent, Events
  <2>5. ASSUME NEW i \in missed \ missed'
        PROVE  \E a \in DOMAIN apply[o].records : apply[o].records[a].id = i
    <3>1. \E failed : missed' = (missed \ {r.id : r \in Range(apply[o].records)}) \cup failed
      BY <1>4 DEF Call
    <3>2. i \in {r.id : r \in Range(apply[o].records)}
      BY <2>5, <3>1
    <3> QED BY <3>2 DEF Range
  <2> QED BY <1>1, <2>1, <2>4, <2>5, TurnsIs
<1> QED BY <1>1, <1>2, <1>4 DEF OnApply

\* What the consumer shows once it has the event.
LEMMA PendingWindow ==
    ASSUME EngineTyped
    PROVE  /\ [i \in Coming |-> Pending(i)] \in Windows
           /\ Coming \subseteq Id
<1>1. view \in Windows /\ event.set \in Windows
  BY DEF EngineTyped, Events
<1>2. /\ DOMAIN view \subseteq Id /\ DOMAIN event.set \subseteq Id
      /\ \A i \in DOMAIN view : view[i] \in 0..MaxKey
      /\ \A i \in DOMAIN event.set : event.set[i] \in 0..MaxKey
  BY <1>1, WindowIs
<1>3. \A i \in Coming : i \in Id /\ Pending(i) \in 0..MaxKey
  BY <1>2 DEF Coming, Pending
<1>4. [i \in Coming |-> Pending(i)] \in [Coming -> 0..MaxKey]
  BY <1>3
<1> QED BY <1>3, <1>4 DEF Windows

LEMMA EndEventIs ==
    ASSUME EngineTyped, NEW o \in Object, EndEvent(o)
    PROVE  /\ mu = o /\ event.todo = <<>> /\ mu' = Nobody /\ event' = NoEvent
           /\ Rests(o)
           /\ sub' \in Subs /\ sub'.pc = sub.pc /\ sub'.limit = sub.limit
           /\ sub'.scope = sub.scope /\ sub'.entries = sub.entries /\ sub'.maxRef = sub.maxRef
           /\ sub'.lost = sub.lost /\ (sub'.closed \/ ~Drifted(sub))
           /\ view' \in Windows /\ untold' = untold \cup event.muddled
           /\ sub'.closed \/ view' = [i \in Coming |-> Pending(i)]
           /\ UNCHANGED <<dataset, stamped, counter, shut, strayed, missed>>
<1> DEFINE empty == DOMAIN event.set \cup event.removed = {}
           over  == ~empty /\ sub.queued = MailboxCap
<1>1. /\ mu = o /\ event.todo = <<>> /\ mu' = Nobody /\ event' = NoEvent
      /\ apply' = [apply EXCEPT ![o] = Idle] /\ untold' = untold \cup event.muddled
      /\ UNCHANGED <<dataset, stamped, counter, shut, strayed, missed>>
  BY DEF EndEvent
<1>2. sub \in Subs /\ view \in Windows
  BY DEF EngineTyped
<1>3. Rests(o)
  BY <1>1, RestsIs
<1>4. CASE over
  <2>1. sub' = [sub EXCEPT !.closed = TRUE] /\ view' = view
    BY <1>4 DEF EndEvent
  <2>2. /\ sub' \in Subs /\ sub'.pc = sub.pc /\ sub'.limit = sub.limit /\ sub'.closed
        /\ sub'.scope = sub.scope /\ sub'.entries = sub.entries /\ sub'.maxRef = sub.maxRef
        /\ sub'.lost = sub.lost
    BY <1>2, <2>1 DEF Subs
  <2> QED BY <1>1, <1>2, <1>3, <2>1, <2>2
<1>5. CASE ~over
  <2>1. /\ sub' = [sub EXCEPT !.closed = Drifted(sub), !.queued = IF empty THEN @ ELSE @ + 1]
        /\ view' = [i \in (DOMAIN view \ event.removed) \cup DOMAIN event.set |->
                              IF i \in DOMAIN event.set THEN event.set[i] ELSE view[i]]
    BY <1>5 DEF EndEvent
  <2>2. PICK d \in BOOLEAN : d = Drifted(sub)
    BY DEF Drifted
  <2>3. PICK n \in 0..MailboxCap : n = IF empty THEN sub.queued ELSE sub.queued + 1
    <3>1. sub.queued \in 0..MailboxCap /\ (empty \/ sub.queued # MailboxCap)
      BY <1>5, SubFields
    <3> HIDE DEF empty
    <3> QED BY <3>1, KeyFacts
  <2>4. sub' = [sub EXCEPT !.closed = d, !.queued = n]
    BY <2>1, <2>2, <2>3
  <2>5. /\ sub' \in Subs /\ sub'.pc = sub.pc /\ sub'.limit = sub.limit
        /\ sub'.scope = sub.scope /\ sub'.entries = sub.entries /\ sub'.maxRef = sub.maxRef
        /\ sub'.lost = sub.lost /\ sub'.closed = d
    BY <1>2, <2>4 DEF Subs
  <2>6. view' = [i \in Coming |-> Pending(i)]
    BY <2>1, Zenon DEF Coming, Pending
  <2> QED BY <1>1, <1>3, <2>2, <2>5, <2>6, PendingWindow
<1> QED BY <1>4, <1>5

LEMMA NoSubIs ==
    /\ NoSub \in Subs
    /\ NoSub.pc = "none" /\ NoSub.entries = <<>> /\ NoSub.maxRef = NoId /\ NoSub.lost = 0
BY EmptyWindow, KeyFacts DEF NoSub, Subs

LEMMA MarkDeletedIs ==
    ASSUME EngineTyped, NEW o \in Object, MarkDeleted(o)
    PROVE  /\ deleted[o] = "no" /\ apply[o].pc = "idle" /\ stamped[o] = NoId
           /\ deleted' = [deleted EXCEPT ![o] = "marked"]
           /\ UNCHANGED <<row, apply, stamped, mu, counter, shut, sub, event, client>>
BY DEF MarkDeleted

\* The engine lets go of the query.
Ends == sub' \in Subs /\ sub'.pc = sub.pc /\ sub'.limit = sub.limit /\ sub'.scope = sub.scope
        /\ sub'.closed /\ sub'.entries = <<>> /\ sub'.maxRef = NoId

LEMMA EndsIs ==
    ASSUME EngineTyped,
           sub' = [sub EXCEPT !.closed = TRUE, !.entries = <<>>, !.maxRef = NoId]
    PROVE  Ends
<1>1. sub \in Subs
  BY DEF EngineTyped
<1> QED BY <1>1, EmptyWindow DEF Subs, Ends

LEMMA CloseObjectIs ==
    ASSUME EngineTyped, NEW o \in Object, CloseObject(o)
    PROVE  /\ deleted[o] = "purged" /\ apply[o].pc = "idle"
           /\ counter = 0 \/ shut \/ mu = Nobody
           /\ deleted' = [deleted EXCEPT ![o] = "gone"]
           /\ \/ Registered /\ sub.scope = o /\ Ends
              \/ sub' = sub /\ ~(Open /\ sub.scope = o)
           /\ UNCHANGED <<row, apply, stamped, mu, counter, shut, event, client>>
<1>1. /\ deleted[o] = "purged" /\ apply[o].pc = "idle"
      /\ counter = 0 \/ shut \/ mu = Nobody
      /\ deleted' = [deleted EXCEPT ![o] = "gone"]
      /\ UNCHANGED <<row, apply, stamped, mu, counter, shut, event, client>>
  BY DEF CloseObject
<1>2. CASE Registered /\ sub.scope = o /\ ~sub.closed
  <2>1. sub' = [sub EXCEPT !.closed = TRUE, !.entries = <<>>, !.maxRef = NoId]
    BY <1>2 DEF CloseObject
  <2> QED BY <1>1, <1>2, <2>1, EndsIs
<1>3. CASE ~(Registered /\ sub.scope = o /\ ~sub.closed)
  <2>1. sub' = sub
    BY <1>3 DEF CloseObject
  <2> QED BY <1>1, <1>3, <2>1 DEF Open
<1> QED BY <1>2, <1>3

LEMMA ResolveIs ==
    ASSUME EngineTyped, Resolve
    PROVE  /\ sub.pc = "none"
           /\ sub' \in Subs /\ sub'.pc = "resolved" /\ ~sub'.closed
           /\ sub'.entries = <<>> /\ sub'.maxRef = NoId /\ sub'.lost = 0
           /\ UNCHANGED <<dataset, apply, stamped, mu, counter, shut, event, client>>
<1>1. PICK n \in Limits, s \in Scopes :
        sub' = [NoSub EXCEPT !.pc = "resolved", !.limit = n, !.scope = s]
  BY DEF Resolve
<1>2. n \in Nat /\ s \in Object \cup {All}
  BY KeyFacts
<1>3. /\ sub' \in Subs /\ sub'.pc = "resolved" /\ ~sub'.closed
      /\ sub'.entries = <<>> /\ sub'.maxRef = NoId /\ sub'.lost = 0
  BY <1>1, <1>2, NoSubIs DEF NoSub, Subs
<1> QED BY <1>3 DEF Resolve

\* Only the progress of the query changes.
Proceeds(p) == sub' \in Subs /\ sub'.pc = p /\ sub'.limit = sub.limit /\ sub'.scope = sub.scope
               /\ sub'.closed = sub.closed /\ sub'.entries = sub.entries
               /\ sub'.maxRef = sub.maxRef /\ sub'.lost = sub.lost

LEMMA ProceedsIs ==
    ASSUME EngineTyped, NEW p \in {"reading", "live", "checking"}, sub' = [sub EXCEPT !.pc = p]
    PROVE  Proceeds(p)
<1>1. sub \in Subs
  BY DEF EngineTyped
<1> QED BY <1>1 DEF Subs, Proceeds

LEMMA LockIs ==
    ASSUME EngineTyped, Lock
    PROVE  /\ sub.pc = "resolved" /\ mu = Nobody
           /\ \/ shut /\ sub' = NoSub /\ UNCHANGED <<mu, counter>>
              \/ ~shut /\ mu' = All /\ counter' = counter + 1 /\ Proceeds("reading")
           /\ UNCHANGED <<dataset, apply, stamped, shut, event, client>>
BY ProceedsIs DEF Lock

LEMMA SnapshotFailsIs ==
    ASSUME EngineTyped, SnapshotFails
    PROVE  /\ sub.pc = "reading" /\ counter' = counter - 1 /\ mu' = Nobody /\ sub' = NoSub
           /\ UNCHANGED <<dataset, apply, stamped, shut, event, client>>
BY DEF SnapshotFails

LEMMA RegisterIs ==
    ASSUME EngineTyped, Register
    PROVE  /\ sub.pc = "read" /\ mu' = Nobody
           /\ Proceeds(IF sub.scope = All THEN "live" ELSE "checking")
           /\ UNCHANGED <<dataset, apply, stamped, counter, shut, event, client>>
BY ProceedsIs DEF Register

\* The subscription gives its count back.
Leaves == /\ mu = Nobody /\ sub' = NoSub
          /\ counter' = IF shut THEN counter ELSE counter - 1

LEMMA CheckDeletedIs ==
    ASSUME EngineTyped, CheckDeleted
    PROVE  /\ sub.pc = "checking"
           /\ \/ Leaves
              \/ deleted[sub.scope] = "no" /\ Proceeds("live") /\ UNCHANGED counter
           /\ UNCHANGED <<dataset, apply, stamped, mu, shut, event, client>>
BY ProceedsIs DEF CheckDeleted, Release, Leaves

LEMMA TakeIs ==
    ASSUME EngineTyped, Take
    PROVE  /\ sub.pc = "live" /\ Proceeds("live")
           /\ UNCHANGED <<dataset, apply, stamped, mu, counter, shut, event, client>>
<1>1. /\ sub.pc = "live" /\ sub.queued > 0 /\ sub' = [sub EXCEPT !.queued = @ - 1]
      /\ UNCHANGED <<dataset, apply, stamped, mu, counter, shut, event, client>>
  BY DEF Take
<1>2. sub \in Subs
  BY DEF EngineTyped
<1>3. PICK n \in 0..MailboxCap : n = sub.queued - 1
  BY <1>1, SubFields, KeyFacts
<1>4. sub' = [sub EXCEPT !.queued = n]
  BY <1>1, <1>3
<1>5. Proceeds("live")
  BY <1>1, <1>2, <1>4 DEF Subs, Proceeds
<1> QED BY <1>1, <1>5

LEMMA UnsubscribeIs ==
    ASSUME EngineTyped, Unsubscribe
    PROVE  /\ sub.pc = "live" /\ Leaves
           /\ UNCHANGED <<dataset, apply, stamped, mu, shut, event, client>>
BY DEF Unsubscribe, Release, Leaves

LEMMA CloseEngineIs ==
    ASSUME EngineTyped, CloseEngine
    PROVE  /\ ~shut /\ mu = Nobody /\ shut' = TRUE /\ counter' = 0
           /\ \/ Registered /\ Ends
              \/ ~Registered /\ sub' = sub
           /\ UNCHANGED <<dataset, apply, stamped, mu, event, client>>
BY EndsIs DEF CloseEngine

\* What the snapshot holds, and what it hands to the caller.
Snaps(page) ==
    /\ page \in SUBSET Covered /\ page \cap missed' = {} /\ missed' \subseteq Covered
    /\ sub' \in Subs /\ sub'.pc = "read" /\ sub'.limit = sub.limit /\ sub'.scope = sub.scope
    /\ sub'.closed = sub.closed /\ sub'.lost = sub.lost
    /\ DOMAIN sub'.entries = page /\ \A i \in page : sub'.entries[i] = Kept(row[i])
    /\ Windowed => Cardinality(page) <= sub.limit + 1
    /\ Windowed => \A i \in Covered \ (page \cup missed') :
                      /\ Cardinality(page) = sub.limit + 1
                      /\ \A j \in page : row[j] <= row[i]
    /\ ~Windowed => page = Covered \ missed' /\ untold' = {}
    /\ sub'.maxRef \in page \cup {NoId}
    /\ Full(sub'.entries) => sub'.maxRef # NoId
    /\ sub'.maxRef # NoId => sub'.maxRef \in Largest(sub'.entries)
    /\ view' \in Windows /\ DOMAIN view' \subseteq page /\ \A i \in DOMAIN view' : view'[i] = row[i]
    /\ untold' \in SUBSET Id
    /\ \A i \in page \ untold' :
          i \in DOMAIN view' <=> i # Sentinel(sub'.entries, sub'.maxRef)

LEMMA SnapshotIs ==
    ASSUME EngineTyped, Snapshot
    PROVE  /\ sub.pc = "reading"
           /\ \E page : Snaps(page)
           /\ strayed' = 0
           /\ UNCHANGED <<dataset, apply, stamped, mu, counter, shut, event>>
<1>1. /\ sub.pc = "reading" /\ strayed' = 0
      /\ UNCHANGED <<dataset, apply, stamped, mu, counter, shut, event>>
  BY DEF Snapshot
<1>0. missed' = Covered \ Found /\ Found \subseteq Covered
  BY DEF Snapshot, Found
<1>2. PICK page \in SUBSET Found :
        /\ IF Windowed THEN IsPage(page, Found, sub.limit + 1) ELSE page = Found
        /\ LET entries == [i \in page |-> Kept(row[i])]
           IN  \E last, max \in IF page = {} THEN {NoId} ELSE Largest(entries) :
                /\ last = max => Cardinality(Largest(entries)) < 2
                /\ sub' = [sub EXCEPT !.pc = "read", !.entries = entries, !.maxRef = max]
                /\ view' = [i \in page \ {Sentinel(entries, last)} |-> row[i]]
                /\ untold' = IF Full(entries) /\ last # max THEN {last, max} ELSE {}
  BY DEF Snapshot
<1> DEFINE entries == [i \in page |-> Kept(row[i])]
<1>3. PICK last, max \in IF page = {} THEN {NoId} ELSE Largest(entries) :
                /\ sub' = [sub EXCEPT !.pc = "read", !.entries = entries, !.maxRef = max]
                /\ view' = [i \in page \ {Sentinel(entries, last)} |-> row[i]]
                /\ untold' = IF Full(entries) /\ last # max THEN {last, max} ELSE {}
  BY <1>2
<1>4. \A i \in Covered : i \in Id /\ row[i] \in 1..MaxKey
  BY KeyFacts DEF Covered
<1>5. \A i \in page : i \in Id /\ row[i] \in 1..MaxKey /\ Kept(row[i]) \in 0..MaxKey
  BY <1>0, <1>4, KeyFacts DEF Kept
<1>6. entries \in Windows /\ DOMAIN entries = page /\ \A i \in page : entries[i] = Kept(row[i])
  BY <1>5 DEF Windows
<1>7. DOMAIN view' \subseteq page /\ \A i \in DOMAIN view' : view'[i] = row[i]
  BY <1>3
<1>8. view' \in Windows
  <2> DEFINE D == page \ {Sentinel(entries, last)}
  <2>1. \A i \in D : row[i] \in 0..MaxKey
    BY <1>5
  <2>2. D \in SUBSET Id
    BY <1>5
  <2>3. view' = [i \in D |-> row[i]]
    BY <1>3
  <2> HIDE DEF D
  <2> QED BY <2>1, <2>2, <2>3 DEF Windows
<1>9. DOMAIN view' = page \ {Sentinel(entries, last)}
  BY <1>3
<1> HIDE DEF entries
<1>10. /\ last \in page \cup {NoId} /\ max \in page \cup {NoId}
       /\ page # {} => last \in page /\ max \in page
  BY <1>6, LargestIs
<1>11. Windowed => Cardinality(page) <= sub.limit + 1
  <2> SUFFICES ASSUME Windowed PROVE Cardinality(page) <= sub.limit + 1
    OBVIOUS
  <2>1. IsPage(page, Found, sub.limit + 1)
    BY <1>2
  <2>2. Found \in SUBSET Id
    BY <1>0, <1>4
  <2>3. IsFiniteSet(Found)
    BY <2>2, KeyFacts, FS_Subset
  <2>4. Cardinality(Found) \in Nat
    BY <2>3, FS_CardinalityType
  <2> QED BY <2>1, <2>4, SubFields DEF IsPage
<1>21. ASSUME Windowed, NEW i \in Covered \ (page \cup missed')
       PROVE  Cardinality(page) = sub.limit + 1 /\ \A j \in page : row[j] <= row[i]
  <2>0. i \in Found \ page
    BY <1>0, <1>21
  <2>1. IsPage(page, Found, sub.limit + 1)
    BY <1>2, <1>21
  <2>2. Found \in SUBSET Id
    BY <1>0, <1>4
  <2>3. IsFiniteSet(Found)
    BY <2>2, KeyFacts, FS_Subset
  <2>4. Cardinality(page) # Cardinality(Found)
    BY <1>2, <2>0, <2>3, FS_Subset
  <2> QED BY <2>0, <2>1, <2>4 DEF IsPage
<1>12. Full(entries) => page # {}
  BY <1>6, FS_EmptySet, SubFields DEF Full, Windowed
<1>13. sub \in Subs
  BY DEF EngineTyped
<1>14. /\ sub' \in Subs /\ sub'.pc = "read" /\ sub'.limit = sub.limit /\ sub'.scope = sub.scope
       /\ sub'.closed = sub.closed /\ sub'.lost = sub.lost /\ sub'.entries = entries /\ sub'.maxRef = max
  <2>1. max \in Id \cup {NoId}
    BY <1>5, <1>10
  <2> QED BY <1>3, <1>6, <1>13, <2>1 DEF Subs
<1>15. Full(entries) => max # NoId
  BY <1>5, <1>10, <1>12, KeyFacts
<1>20. max # NoId => max \in Largest(entries)
  BY <1>3
<1>16. untold' \in SUBSET Id
  BY <1>3, <1>5, <1>10, <1>12
<1>17. ~Windowed => page = Covered \ missed' /\ untold' = {}
  BY <1>0, <1>2, <1>3 DEF Full
<1>18. \A i \in page \ untold' : i \in DOMAIN view' <=> i # Sentinel(entries, max)
  BY <1>3, <1>9 DEF Sentinel
<1> HIDE DEF Covered
<1>19. Snaps(page)
  BY <1>0, <1>2, <1>6, <1>7, <1>8, <1>10, <1>11, <1>14, <1>15, <1>16, <1>17, <1>18, <1>20,
     <1>21 DEF Snaps
<1> QED BY <1>1, <1>19

-----------------------------------------------------------------------------
(* The inductive invariant, and what a step leaves of it.                  *)

\* What is held is stored, or about to be corrected.
Fresh(i) == \/ InFlight(i)
            \/ Matches(row[i]) /\ (Windowed => sub.entries[i] = row[i])
Held == Shown => \A i \in DOMAIN sub.entries : sub.scope \in {Owner[i], All} /\ Fresh(i)

\* What should be held is, or is about to be; an event of an unlimited query
\* speaks of a record once.
Whole ==
    Shown /\ ~Windowed =>
        /\ untold = {} /\ event.muddled = {}
        /\ \A a \in DOMAIN event.todo : event.todo[a].id \notin DOMAIN event.set \cup event.removed
        /\ \A i \in Covered : \/ InFlight(i)
                              \/ i \in DOMAIN sub.entries /\ Pending(i) = row[i]

Current == Open /\ sub.pc = "live" /\ sub.scope # All => deleted[sub.scope] # "gone"

\* Losses count from the snapshot on, and drift ends the query with the event.
Counts ==
    /\ sub.pc \in {"none", "resolved", "reading", "read"} => sub.lost = 0
    /\ Shown /\ mu \notin Object => ~Drifted(sub)

\* The window, had it lost no rows but those that are counted: each row it has
\* in addition is stored, or about to be told of, and a row it does not have is
\* told of too or comes behind a whole window.
UpTo(a, v)    == {j \in DOMAIN a : a[j] <= v}
Short         == IF sub.lost = 0 THEN 0 ELSE sub.lost - 1
Needed        == IF sub.lost = 0 THEN sub.limit + 1 ELSE sub.limit
Ahead(a, i)   == Cardinality(UpTo(a, row[i]))
Awaited(a, j) == /\ sub.scope \in {Owner[j], All}
                 /\ InFlight(j) \/ (Matches(row[j]) /\ a[j] = row[j])
Answers(a) ==
    /\ a \in Windows
    /\ \A j \in DOMAIN sub.entries : j \in DOMAIN a /\ a[j] = sub.entries[j]
    /\ \A j \in DOMAIN a \ DOMAIN sub.entries : Awaited(a, j)
    /\ Cardinality(DOMAIN a) <= Cardinality(DOMAIN sub.entries) + strayed + Short
    /\ \A i \in Covered \ DOMAIN a : InFlight(i) \/ Ahead(a, i) >= Needed
Lacks == Shown /\ Windowed => \E a : Answers(a)

EngineInv == /\ EngineTyped /\ Locked /\ Bounded /\ AllTold /\ Writes /\ Held /\ Whole /\ Current
             /\ Counts /\ Lacks

\* A step that leaves the window alone and tells no less.
Steady ==
    /\ Shown /\ sub'.limit = sub.limit /\ sub'.scope = sub.scope
    /\ sub'.entries = sub.entries /\ sub'.maxRef = sub.maxRef /\ sub'.lost = sub.lost
    /\ event'.set = event.set /\ event'.removed = event.removed /\ event'.muddled = event.muddled
    /\ view' = view /\ untold' = untold /\ strayed' = strayed
    /\ \A i \in Id : sub.scope \in {Owner[i], All} =>
          (InFlight(i) => InFlight(i)') /\ (row'[i] = row[i] \/ InFlight(i)')
    /\ \/ event'.todo = event.todo
       \/ event'.set = <<>> /\ event'.removed = {}

LEMMA SteadyFacts ==
    ASSUME Steady
    PROVE  /\ Windowed' = Windowed /\ Visible' = Visible /\ Coming' = Coming
           /\ \A i : Pending(i)' = Pending(i)
<1>1. Windowed' = Windowed
  BY DEF Steady, Windowed
<1>3. Visible' = Visible
  BY <1>1 DEF Steady, Visible, Sentinel, Full
<1>4. Coming' = Coming /\ \A i : Pending(i)' = Pending(i)
  BY DEF Steady, Coming, Pending
<1> QED BY <1>1, <1>3, <1>4

LEMMA LacksKept ==
    ASSUME EngineTyped, Lacks, Shown, sub'.limit = sub.limit, sub'.scope = sub.scope,
           sub'.entries = sub.entries, sub'.lost = sub.lost, strayed' = strayed,
           \A i \in Id : sub.scope \in {Owner[i], All} =>
              (InFlight(i) => InFlight(i)') /\ (row'[i] = row[i] \/ InFlight(i)')
    PROVE  Lacks'
<1> SUFFICES ASSUME Windowed PROVE \E a : Answers(a)'
  BY DEF Lacks, Windowed
<1>1. PICK a : Answers(a)
  BY DEF Lacks
<1>2. Short' = Short /\ Needed' = Needed
  BY DEF Short, Needed
<1>3. /\ a \in Windows /\ DOMAIN a \subseteq Id
      /\ \A j \in DOMAIN sub.entries : j \in DOMAIN a /\ a[j] = sub.entries[j]
      /\ \A j \in DOMAIN a \ DOMAIN sub.entries : Awaited(a, j)
      /\ Cardinality(DOMAIN a) <= Cardinality(DOMAIN sub.entries) + strayed + Short
      /\ \A i \in Covered \ DOMAIN a : InFlight(i) \/ Ahead(a, i) >= Needed
  BY <1>1, WindowIs DEF Answers
<1>4. ASSUME NEW j \in DOMAIN a \ DOMAIN sub.entries
      PROVE  Awaited(a, j)'
  <2>1. j \in Id /\ Awaited(a, j)
    BY <1>3
  <2>2. sub.scope \in {Owner[j], All}
    BY <2>1 DEF Awaited
  <2>3. (InFlight(j) => InFlight(j)') /\ (row'[j] = row[j] \/ InFlight(j)')
    BY <2>1, <2>2
  <2> QED BY <2>1, <2>3 DEF Awaited, Matches
<1>5. ASSUME NEW i \in Covered' \ DOMAIN a
      PROVE  InFlight(i)' \/ Ahead(a, i)' >= Needed'
  <2>1. i \in Id /\ Matches(row'[i]) /\ sub.scope \in {Owner[i], All}
    BY DEF Covered, Matches
  <2>2. (InFlight(i) => InFlight(i)') /\ (row'[i] = row[i] \/ InFlight(i)')
    BY <2>1
  <2>3. CASE row'[i] = row[i] /\ ~InFlight(i)
    <3>1. i \in Covered
      BY <2>1, <2>3 DEF Covered
    <3>2. Ahead(a, i) >= Needed
      BY <1>3, <1>5, <2>3, <3>1
    <3>3. Ahead(a, i)' = Ahead(a, i)
      BY <2>3 DEF Ahead, UpTo
    <3> QED BY <1>2, <3>2, <3>3
  <2> QED BY <2>2, <2>3
<1> QED BY <1>2, <1>3, <1>4, <1>5 DEF Answers

LEMMA SteadyTold ==
    ASSUME EngineTyped, AllTold, Held, Whole, Lacks, Shown' => Steady
    PROVE  AllTold' /\ Held' /\ Whole' /\ Lacks'
<1> SUFFICES ASSUME Shown' PROVE AllTold' /\ Held' /\ Whole' /\ Lacks'
  BY DEF AllTold, Held, Whole, Lacks
<1>1. Steady /\ Shown
  BY DEF Steady
<1>2. /\ Windowed' = Windowed /\ Visible' = Visible /\ Coming' = Coming
      /\ \A i : Pending(i)' = Pending(i)
  BY <1>1, SteadyFacts
<1>3. /\ sub'.entries = sub.entries /\ event'.muddled = event.muddled /\ untold' = untold
      /\ sub'.scope = sub.scope
  BY <1>1 DEF Steady
<1>4. AllTold'
  <2>1. \A i \in Id \ (untold \cup event.muddled) : Told(i)
    BY <1>1 DEF AllTold
  <2>2. \A i \in Id \ (untold \cup event.muddled) : Told(i)'
    BY <1>2, <1>3, <2>1 DEF Told
  <2> QED BY <1>3, <2>2 DEF AllTold
<1>5. Held'
  <2> SUFFICES ASSUME NEW i \in DOMAIN sub.entries
               PROVE  sub.scope \in {Owner[i], All} /\ Fresh(i)'
    BY <1>3 DEF Held
  <2>1. sub.scope \in {Owner[i], All} /\ Fresh(i)
    BY <1>1 DEF Held
  <2>2. i \in Id
    BY SubFields
  <2>3. (InFlight(i) => InFlight(i)') /\ (row'[i] = row[i] \/ InFlight(i)')
    BY <1>1, <2>1, <2>2 DEF Steady
  <2> QED BY <1>2, <1>3, <2>1, <2>3 DEF Fresh, Matches
<1>6. Whole'
  <2> SUFFICES ASSUME ~Windowed PROVE Whole'
    BY <1>2 DEF Whole
  <2>1. /\ untold = {} /\ event.muddled = {}
        /\ \A a \in DOMAIN event.todo : event.todo[a].id \notin DOMAIN event.set \cup event.removed
        /\ \A i \in Covered : InFlight(i) \/ (i \in DOMAIN sub.entries /\ Pending(i) = row[i])
    BY <1>1 DEF Whole
  <2>2. \A a \in DOMAIN event'.todo : event'.todo[a].id \notin DOMAIN event'.set \cup event'.removed
    <3>1. CASE event'.todo = event.todo
      BY <1>1, <2>1, <3>1 DEF Steady
    <3>2. CASE event'.set = <<>> /\ event'.removed = {}
      BY <3>2, EmptyWindow
    <3> QED BY <1>1, <3>1, <3>2 DEF Steady
  <2>3. ASSUME NEW i \in Covered'
        PROVE  InFlight(i)' \/ (i \in DOMAIN sub'.entries /\ Pending(i)' = row'[i])
    <3>1. i \in Id /\ Matches(row'[i]) /\ sub.scope \in {Owner[i], All}
      BY <1>3 DEF Covered, Matches
    <3>2. (InFlight(i) => InFlight(i)') /\ (row'[i] = row[i] \/ InFlight(i)')
      BY <1>1, <3>1 DEF Steady
    <3>3. CASE row'[i] = row[i] /\ ~InFlight(i)
      <4>1. i \in Covered
        BY <3>1, <3>3 DEF Covered
      <4> QED BY <1>2, <1>3, <2>1, <3>3, <4>1
    <3> QED BY <3>2, <3>3
  <2>4. untold' = {} /\ event'.muddled = {}
    BY <1>3, <2>1
  <2> HIDE DEF Covered
  <2> QED BY <2>2, <2>3, <2>4 DEF Whole
<1>7. Lacks'
  BY <1>1, LacksKept DEF Steady
<1> QED BY <1>4, <1>5, <1>6, <1>7

LEMMA BoundedKept ==
    ASSUME Bounded, sub'.limit = sub.limit, sub'.entries = sub.entries, sub'.maxRef = sub.maxRef
    PROVE  Bounded'
BY DEF Bounded, Full, Windowed, Largest

LEMMA BoundedEmpty ==
    ASSUME sub' \in Subs, sub'.entries = <<>>, sub'.maxRef = NoId
    PROVE  Bounded'
<1>1. DOMAIN sub'.entries = {} /\ Cardinality({}) = 0 /\ sub'.limit \in Nat
  BY EmptyWindow, FS_EmptySet DEF Subs
<1> QED BY <1>1 DEF Bounded, Full, Windowed

\* What an object's writer knows is left alone.
Still(q) ==
    /\ apply'[q] = apply[q] /\ stamped'[q] = stamped[q] /\ deleted'[q] = deleted[q]
    /\ \A i \in Id : Owner[i] = q => row'[i] = row[i]
    /\ apply[q].pc = "calling" => event'.todo = event.todo

WriterOk(q) == Of(q, Todo(q), row) /\ Batch(q) /\ Stamps(q) /\ Deletes(q)

LEMMA TodoStill ==
    ASSUME EngineTyped, NEW q \in Object, Still(q)
    PROVE  Todo(q)' = Todo(q)
BY DEF Still, Todo

LEMMA WriterStill ==
    ASSUME EngineTyped, NEW q \in Object, WriterOk(q), Still(q)
    PROVE  WriterOk(q)'
<1>1. Todo(q)' = Todo(q) /\ Todo(q) \in Seq(Record)
  BY TodoStill, WriterFacts
<1>2. \A a \in DOMAIN Todo(q) : Todo(q)[a].id \in Id
  <2>1. \A s \in Seq(Record) : \A a \in DOMAIN s : s[a] \in Record
    OBVIOUS
  <2>2. \A r \in Record : r.id \in Id
    BY DEF Record
  <2> QED BY <1>1, <2>1, <2>2
<1>3. /\ apply'[q] = apply[q] /\ stamped'[q] = stamped[q] /\ deleted'[q] = deleted[q]
      /\ \A i \in Id : Owner[i] = q => row'[i] = row[i]
  BY DEF Still
<1>4. Of(q, Todo(q), row)
  BY DEF WriterOk
<1>5. Of(q, Todo(q), row')
  BY <1>2, <1>3, <1>4 DEF Of
<1>6. Of(q, Todo(q), row)'
  BY <1>1, <1>5
<1>7. Batch(q)'
  <2> SUFFICES ASSUME apply[q].pc = "committed" /\ apply[q].batch PROVE Batch(q)'
    BY <1>3 DEF Batch
  <2>1. /\ Len(apply[q].records) = 1 /\ ~apply[q].records[1].deleted
        /\ stamped[q] \in {NoId, apply[q].records[1].id} /\ row[apply[q].records[1].id] # Gone
    BY DEF WriterOk, Batch
  <2>2. Todo(q) = apply[q].records
    BY DEF Todo
  <2>3. 1 \in DOMAIN Todo(q)
    BY <1>1, <2>1, <2>2
  <2>4. apply[q].records[1].id \in Id /\ Owner[apply[q].records[1].id] = q
    BY <1>2, <1>4, <2>2, <2>3 DEF Of
  <2>5. row'[apply[q].records[1].id] # Gone
    BY <1>3, <2>1, <2>4
  <2> QED BY <1>3, <2>1, <2>5 DEF Batch
<1>8. Stamps(q)'
  <2>1. stamped[q] # NoId => stamped[q] \in Id /\ Owner[stamped[q]] = q
                             /\ row[stamped[q]] # Gone /\ deleted[q] = "no"
    BY WriterFacts DEF WriterOk, Stamps
  <2> QED BY <1>3, <2>1 DEF Stamps
<1>9. Deletes(q)'
  BY <1>3 DEF WriterOk, Deletes, RecordsOf
<1> QED BY <1>6, <1>7, <1>8, <1>9 DEF WriterOk

LEMMA WritesIs == Writes <=> \A q \in Object : WriterOk(q)
BY DEF Writes, WriterOk

LEMMA InFlightStill ==
    ASSUME EngineTyped, NEW i \in Id, Still(Owner[i]), i \in missed' <=> i \in missed
    PROVE  InFlight(i)' <=> InFlight(i)
<1>1. Owner[i] \in Object
  BY KeyFacts
<1>2. Todo(Owner[i])' = Todo(Owner[i]) /\ stamped'[Owner[i]] = stamped[Owner[i]]
  BY <1>1, TodoStill DEF Still
<1> QED BY <1>2 DEF InFlight

-----------------------------------------------------------------------------
(* Steps of the subscriber.                                                *)

LEMMA WritersAside ==
    ASSUME EngineTyped, Writes, UNCHANGED <<dataset, apply, stamped, event>>
    PROVE  /\ Writes'
           /\ missed' = missed => \A i \in Id : InFlight(i)' <=> InFlight(i)
<1>1. \A q \in Object : Still(q)
  BY DEF Still, dataset
<1>2. \A q \in Object : WriterOk(q)'
  BY <1>1, WritesIs, WriterStill
<1>3. Writes'
  BY <1>2 DEF Writes, WriterOk
<1>4. missed' = missed => \A i \in Id : InFlight(i)' <=> InFlight(i)
  BY <1>1, InFlightStill, KeyFacts
<1> QED BY <1>3, <1>4

LEMMA TypedFrame ==
    ASSUME EngineTyped, UNCHANGED <<dataset, apply, stamped, event, client>>,
           sub' \in Subs, mu' \in Object \cup {Nobody, All}, counter' \in 0..1, shut' \in BOOLEAN
    PROVE  EngineTyped'
BY DEF EngineTyped, dataset, client

LEMMA SteadyAside ==
    ASSUME EngineInv, UNCHANGED <<dataset, apply, stamped, event, client>>,
           Shown' => \E p : Proceeds(p) /\ Shown
    PROVE  AllTold' /\ Held' /\ Whole' /\ Lacks'
<1>1. EngineTyped /\ Writes /\ AllTold /\ Held /\ Whole /\ Lacks
  BY DEF EngineInv
<1>2. \A i \in Id : InFlight(i)' <=> InFlight(i)
  BY <1>1, WritersAside DEF client
<1>3. /\ row' = row /\ event' = event /\ view' = view /\ untold' = untold /\ strayed' = strayed
  BY DEF dataset, client
<1>4. Shown' => Steady
  BY <1>2, <1>3 DEF Steady, Proceeds
<1> QED BY <1>1, <1>4, SteadyTold

LEMMA ResolveInv ==
    ASSUME EngineInv, Resolve
    PROVE  EngineInv'
<1> USE DEF EngineInv
<1>1. /\ sub.pc = "none"
      /\ sub' \in Subs /\ sub'.pc = "resolved" /\ ~sub'.closed
      /\ sub'.entries = <<>> /\ sub'.maxRef = NoId /\ sub'.lost = 0
      /\ UNCHANGED <<dataset, apply, stamped, mu, counter, shut, event, client>>
  BY ResolveIs
<1>2. EngineTyped'
  <2>1. mu' \in Object \cup {Nobody, All} /\ counter' \in 0..1 /\ shut' \in BOOLEAN
    BY <1>1 DEF EngineTyped
  <2> QED BY <1>1, <2>1, TypedFrame
<1>3. Locked'
  BY <1>1 DEF Locked, Counting, Open, Registered
<1>4. Bounded'
  BY <1>1, BoundedEmpty
<1>5. ~Shown'
  BY <1>1 DEF Shown, Open, Registered
<1>6. AllTold' /\ Held' /\ Whole' /\ Lacks'
  BY <1>1, <1>5, SteadyAside
<1>7. Writes'
  BY <1>1, WritersAside
<1>8. Current'
  BY <1>5 DEF Current, Shown
<1>9. Counts'
  BY <1>1, <1>5 DEF Counts
<1> QED BY <1>2, <1>3, <1>4, <1>6, <1>7, <1>8, <1>9

LEMMA LockInv ==
    ASSUME EngineInv, Lock
    PROVE  EngineInv'
<1> USE DEF EngineInv
<1>1. /\ sub.pc = "resolved" /\ mu = Nobody
      /\ \/ shut /\ sub' = NoSub /\ UNCHANGED <<mu, counter>>
         \/ ~shut /\ mu' = All /\ counter' = counter + 1 /\ Proceeds("reading")
      /\ UNCHANGED <<dataset, apply, stamped, shut, event, client>>
  BY LockIs
<1>2. counter = 0
  BY <1>1 DEF Locked, Counting
<1>3. EngineTyped'
  <2>1. sub' \in Subs
    BY <1>1, NoSubIs DEF Proceeds
  <2>2. mu' \in Object \cup {Nobody, All} /\ counter' \in 0..1 /\ shut' \in BOOLEAN
    BY <1>1, <1>2 DEF EngineTyped
  <2> QED BY <1>1, <2>1, <2>2, TypedFrame
<1>4. sub'.pc \in {"none", "reading"} /\ (sub'.pc = "reading" <=> ~shut)
  BY <1>1 DEF Proceeds, NoSub
<1>5. Locked'
  <2>1. CASE shut
    BY <1>1, <1>2, <1>4, <2>1, KeyFacts DEF Locked, Counting, Open, Registered
  <2>2. CASE ~shut
    BY <1>1, <1>2, <1>4, <2>2, KeyFacts DEF Locked, Counting, Open, Registered
  <2> QED BY <2>1, <2>2
<1>6. Bounded'
  <2>1. CASE shut
    <3>1. sub' \in Subs /\ sub'.entries = <<>> /\ sub'.maxRef = NoId
      <4>1. sub' = NoSub
        BY <1>1, <2>1
      <4> QED BY <4>1, NoSubIs
    <3> QED BY <3>1, BoundedEmpty
  <2>2. CASE ~shut
    BY <1>1, <2>2, BoundedKept DEF Proceeds
  <2> QED BY <2>1, <2>2
<1>7. ~Shown'
  BY <1>4 DEF Shown, Open, Registered
<1>8. AllTold' /\ Held' /\ Whole' /\ Lacks'
  BY <1>1, <1>7, SteadyAside
<1>9. Writes'
  BY <1>1, WritersAside
<1>10. Current'
  BY <1>7 DEF Current, Shown
<1>11. Counts'
  BY <1>1, <1>7, NoSubIs DEF Counts, Proceeds
<1> QED BY <1>3, <1>5, <1>6, <1>8, <1>9, <1>10, <1>11

LEMMA SnapshotFailsInv ==
    ASSUME EngineInv, SnapshotFails
    PROVE  EngineInv'
<1> USE DEF EngineInv
<1>1. /\ sub.pc = "reading" /\ counter' = counter - 1 /\ mu' = Nobody /\ sub' = NoSub
      /\ UNCHANGED <<dataset, apply, stamped, shut, event, client>>
  BY SnapshotFailsIs
<1>2. ~shut /\ counter = 1 /\ mu = All
  BY <1>1 DEF Locked, Counting
<1>3. EngineTyped'
  <2>1. mu' \in Object \cup {Nobody, All} /\ counter' \in 0..1 /\ shut' \in BOOLEAN
    BY <1>1, <1>2 DEF EngineTyped
  <2> QED BY <1>1, <2>1, NoSubIs, TypedFrame
<1>4. sub'.pc = "none"
  BY <1>1 DEF NoSub
<1>5. Locked'
  BY <1>1, <1>2, <1>4, KeyFacts DEF Locked, Counting, Open, Registered
<1>6. Bounded'
  BY <1>1, NoSubIs, BoundedEmpty DEF NoSub
<1>7. ~Shown'
  BY <1>4 DEF Shown, Open, Registered
<1>8. AllTold' /\ Held' /\ Whole' /\ Lacks'
  BY <1>1, <1>7, SteadyAside
<1>9. Writes'
  BY <1>1, WritersAside
<1>10. Current'
  BY <1>7 DEF Current, Shown
<1>11. Counts'
  BY <1>1, <1>7, NoSubIs DEF Counts
<1> QED BY <1>3, <1>5, <1>6, <1>8, <1>9, <1>10, <1>11

LEMMA LeavesInv ==
    ASSUME EngineInv, sub.pc \in {"checking", "live"}, Leaves,
           UNCHANGED <<dataset, apply, stamped, mu, shut, event, client>>
    PROVE  EngineInv'
<1> USE DEF EngineInv
<1>1. /\ mu = Nobody /\ sub' = NoSub /\ counter' = IF shut THEN counter ELSE counter - 1
  BY DEF Leaves
<1>2. counter = IF shut THEN 0 ELSE 1
  BY DEF Locked, Counting
<1>3. EngineTyped'
  <2>1. mu' \in Object \cup {Nobody, All} /\ counter' \in 0..1 /\ shut' \in BOOLEAN
    BY <1>1, <1>2 DEF EngineTyped
  <2> QED BY <1>1, <2>1, NoSubIs, TypedFrame
<1>4. sub'.pc = "none"
  BY <1>1 DEF NoSub
<1>5. Locked'
  BY <1>1, <1>2, <1>4, KeyFacts DEF Locked, Counting, Open, Registered
<1>6. Bounded'
  BY <1>1, NoSubIs, BoundedEmpty DEF NoSub
<1>7. ~Shown'
  BY <1>4 DEF Shown, Open, Registered
<1>8. AllTold' /\ Held' /\ Whole' /\ Lacks'
  BY <1>7, SteadyAside
<1>9. Writes'
  BY WritersAside
<1>10. Current'
  BY <1>7 DEF Current, Shown
<1>11. Counts'
  BY <1>1, <1>7, NoSubIs DEF Counts
<1> QED BY <1>3, <1>5, <1>6, <1>8, <1>9, <1>10, <1>11

LEMMA ProceedsInv ==
    ASSUME EngineInv, NEW p \in {"checking", "live"}, Proceeds(p),
           sub.pc \in {"read", "checking", "live"},
           UNCHANGED <<dataset, apply, stamped, counter, shut, event, client>>,
           mu' = IF sub.pc = "read" THEN Nobody ELSE mu,
           p = "live" /\ sub.scope # All => deleted[sub.scope] = "no" \/ sub.pc = "live"
    PROVE  EngineInv'
<1> USE DEF EngineInv
<1>1. /\ sub' \in Subs /\ sub'.pc = p /\ sub'.limit = sub.limit /\ sub'.scope = sub.scope
      /\ sub'.closed = sub.closed /\ sub'.entries = sub.entries /\ sub'.maxRef = sub.maxRef
      /\ sub'.lost = sub.lost
  BY DEF Proceeds
<1>2. EngineTyped'
  <2>1. mu' \in Object \cup {Nobody, All} /\ counter' \in 0..1 /\ shut' \in BOOLEAN
    BY DEF EngineTyped
  <2> QED BY <1>1, <2>1, TypedFrame
<1>3. Locked'
  <2>1. sub.pc = "read" => ~shut /\ mu = All
    BY DEF Locked
  <2>2. mu' # All
    BY <2>1, KeyFacts DEF Locked
  <2>3. shut' => ~Open'
    BY <1>1, <2>1 DEF Locked, Open, Registered
  <2>4. mu' \in Object => mu = mu' /\ Open' /\ ~shut' /\ apply'[mu'].pc = "calling"
                         /\ sub'.scope \in {mu', All}
    BY <1>1, <2>1, KeyFacts DEF Locked, Open, Registered
  <2>5. \A o \in Object : apply'[o].pc = "calling" => mu' = o
    BY <2>1, KeyFacts DEF Locked
  <2>6. counter' = IF Counting' THEN 1 ELSE 0
    BY <1>1 DEF Locked, Counting
  <2>7. mu' \notin Object => event' = NoEvent
    BY <2>1, KeyFacts DEF Locked
  <2> QED BY <1>1, <2>2, <2>3, <2>4, <2>5, <2>6, <2>7 DEF Locked
<1>4. Bounded'
  BY <1>1, BoundedKept
<1>5. Shown' => Shown
  BY <1>1 DEF Shown, Open, Registered
<1>6. AllTold' /\ Held' /\ Whole' /\ Lacks'
  BY <1>5, SteadyAside
<1>7. Writes'
  BY WritersAside
<1>8. Current'
  BY <1>1 DEF Current, Open, Registered, dataset
<1>9. Counts'
  <2>1. mu' \notin Object => mu \notin Object
    BY KeyFacts DEF Locked
  <2>2. Drifted(sub') <=> Drifted(sub)
    BY <1>1 DEF Drifted
  <2> QED BY <1>1, <1>5, <2>1, <2>2 DEF Counts, Drifted
<1> QED BY <1>2, <1>3, <1>4, <1>6, <1>7, <1>8, <1>9

LEMMA RegisterInv ==
    ASSUME EngineInv, Register
    PROVE  EngineInv'
<1>1. EngineTyped
  BY DEF EngineInv
<1> QED BY <1>1, RegisterIs, ProceedsInv

LEMMA CheckDeletedInv ==
    ASSUME EngineInv, CheckDeleted
    PROVE  EngineInv'
<1>1. EngineTyped
  BY DEF EngineInv
<1> QED BY <1>1, CheckDeletedIs, ProceedsInv, LeavesInv

LEMMA TakeInv ==
    ASSUME EngineInv, Take
    PROVE  EngineInv'
<1>1. EngineTyped
  BY DEF EngineInv
<1> QED BY <1>1, TakeIs, ProceedsInv

LEMMA UnsubscribeInv ==
    ASSUME EngineInv, Unsubscribe
    PROVE  EngineInv'
<1>1. EngineTyped
  BY DEF EngineInv
<1> QED BY <1>1, UnsubscribeIs, LeavesInv

LEMMA CloseEngineInv ==
    ASSUME EngineInv, CloseEngine
    PROVE  EngineInv'
<1> USE DEF EngineInv
<1>1. /\ ~shut /\ mu = Nobody /\ shut' = TRUE /\ counter' = 0
      /\ \/ Registered /\ Ends
         \/ ~Registered /\ sub' = sub
      /\ UNCHANGED <<dataset, apply, stamped, mu, event, client>>
  BY CloseEngineIs
<1>2. sub' \in Subs
  BY <1>1 DEF Ends, EngineTyped
<1>3. EngineTyped'
  <2>1. mu' \in Object \cup {Nobody, All} /\ counter' \in 0..1 /\ shut' \in BOOLEAN
    BY <1>1 DEF EngineTyped
  <2> QED BY <1>1, <1>2, <2>1, TypedFrame
<1>4. sub.pc \notin {"reading", "read"} /\ sub'.pc = sub.pc
  BY <1>1, KeyFacts DEF Locked, Ends
<1>5. ~Shown'
  BY <1>1, <1>4 DEF Shown, Open, Registered, Ends
<1>6. Locked'
  BY <1>1, <1>4, <1>5, KeyFacts DEF Locked, Counting, Shown
<1>7. Bounded'
  BY <1>1, <1>2, BoundedKept, BoundedEmpty DEF Ends
<1>8. AllTold' /\ Held' /\ Whole' /\ Lacks'
  BY <1>1, <1>5, SteadyAside
<1>9. Writes'
  BY <1>1, WritersAside
<1>10. Current'
  BY <1>5 DEF Current, Shown
<1>11. Counts'
  BY <1>1, <1>4, <1>5 DEF Counts, Registered
<1> QED BY <1>3, <1>6, <1>7, <1>8, <1>9, <1>10, <1>11

LEMMA NoEventIs ==
    /\ NoEvent \in Events /\ NoEvent.todo = <<>> /\ NoEvent.set = <<>> /\ NoEvent.removed = {}
    /\ NoEvent.muddled = {} /\ DOMAIN NoEvent.set = {}
BY EmptyWindow DEF NoEvent, Events

LEMMA SnapshotInv ==
    ASSUME EngineInv, Snapshot
    PROVE  EngineInv'
<1> USE DEF EngineInv
<1>1. /\ sub.pc = "reading" /\ strayed' = 0
      /\ UNCHANGED <<dataset, apply, stamped, mu, counter, shut, event>>
  BY SnapshotIs
<1>2. PICK page : Snaps(page)
  BY SnapshotIs
<1>3. mu = All /\ ~shut
  BY <1>1 DEF Locked
<1>4. event = NoEvent
  BY <1>3, KeyFacts DEF Locked
<1>5. event'.set = <<>> /\ event'.removed = {} /\ event'.muddled = {} /\ event'.todo = <<>>
      /\ DOMAIN event'.set = {}
  BY <1>1, <1>4, NoEventIs
<1>6. /\ page \in SUBSET Covered
      /\ sub' \in Subs /\ sub'.pc = "read" /\ sub'.limit = sub.limit /\ sub'.scope = sub.scope
      /\ sub'.closed = sub.closed /\ sub'.lost = sub.lost
      /\ DOMAIN sub'.entries = page
  BY <1>2 DEF Snaps
<1>24. \A i \in missed' : InFlight(i)'
  BY DEF InFlight
<1>7. Windowed' = Windowed
  BY <1>6 DEF Windowed
<1>8. /\ view' \in Windows /\ DOMAIN view' \subseteq page /\ \A i \in DOMAIN view' : view'[i] = row[i]
      /\ untold' \in SUBSET Id
      /\ \A i \in page \ untold' : i \in DOMAIN view' <=> i # Sentinel(sub'.entries, sub'.maxRef)
      /\ ~Windowed => page = Covered \ missed' /\ untold' = {}
      /\ \A i \in page : sub'.entries[i] = Kept(row[i])
  BY <1>2 DEF Snaps
<1>9. \A i \in page : i \in Id /\ Matches(row[i]) /\ sub.scope \in {Owner[i], All}
  BY <1>6 DEF Covered
<1>10. EngineTyped'
  BY <1>1, <1>6, <1>8 DEF EngineTyped, dataset
<1>11. ~Open'
  BY <1>6 DEF Open, Registered
<1>12. Locked'
  BY <1>1, <1>3, <1>4, <1>6, <1>11, KeyFacts DEF Locked, Counting
<1>13. Visible' = page \ {Sentinel(sub'.entries, sub'.maxRef)}
  BY <1>6, <1>7 DEF Visible, Sentinel, Full
<1>14. Bounded'
  BY <1>2, <1>6, <1>7 DEF Bounded, Full, Snaps, Largest
<1>15. Coming' = DOMAIN view' /\ \A i : Pending(i)' = view'[i]
  BY <1>5 DEF Coming, Pending
<1>16. AllTold'
  <2> SUFFICES ASSUME NEW i \in Id \ untold' PROVE Told(i)'
    BY <1>5 DEF AllTold
  <2>1. i \in Coming' <=> i \in Visible'
    BY <1>8, <1>13, <1>15
  <2>2. i \in Visible' /\ Windowed' => Pending(i)' = sub'.entries[i]
    BY <1>7, <1>8, <1>13, <1>15, <2>1 DEF Kept
  <2> QED BY <2>1, <2>2 DEF Told
<1>17. Held'
  <2>1. \A i \in page : Fresh(i)'
    BY <1>1, <1>7, <1>8, <1>9 DEF Fresh, Kept, Matches, dataset
  <2> QED BY <1>6, <1>9, <2>1 DEF Held
<1>18. Whole'
  <2> SUFFICES ASSUME ~Windowed PROVE Whole'
    BY <1>7 DEF Whole
  <2>1. Covered' \subseteq page \cup missed' /\ untold' = {}
    BY <1>1, <1>6, <1>8 DEF Covered, Matches, dataset
  <2>2. \A i \in page : i \in DOMAIN sub'.entries /\ Pending(i)' = row'[i]
    <3> TAKE i \in page
    <3>1. i # Sentinel(sub'.entries, sub'.maxRef)
      BY <1>9, KeyFacts DEF Sentinel, Full
    <3>2. i \in DOMAIN view'
      BY <1>8, <2>1, <3>1
    <3> QED BY <1>1, <1>6, <1>8, <1>15, <3>2 DEF dataset
  <2>3. \A a \in DOMAIN event'.todo : event'.todo[a].id \notin DOMAIN event'.set \cup event'.removed
    BY <1>5, EmptyWindow
  <2> HIDE DEF Covered
  <2> QED BY <1>5, <1>24, <2>1, <2>2, <2>3 DEF Whole
<1>19. Writes'
  BY <1>1, WritersAside
<1>20. Current'
  BY <1>11 DEF Current
<1>21. sub.lost = 0
  BY <1>1 DEF Counts
<1>22. Counts'
  <2>1. Windowed => sub.limit * Budget > 0
    <3>1. Budget \in Nat \ {0} /\ sub.limit \in Nat
      BY SubFields, SubscriptionsAssumption DEF SubscriptionsAssumption
    <3>2. \A x, y \in Nat \ {0} : x * y > 0
      OBVIOUS
    <3> QED BY <3>1, <3>2 DEF Windowed
  <2>2. ~Drifted(sub')
    <3>1. Windowed => sub.limit * Budget \in Nat
      <4>1. Budget \in Nat /\ sub.limit \in Nat
        BY SubFields, SubscriptionsAssumption DEF SubscriptionsAssumption
      <4> QED BY <4>1
    <3> QED BY <1>6, <1>21, <2>1, <3>1 DEF Drifted, Windowed
  <2> QED BY <1>6, <1>21, <2>2 DEF Counts, Drifted
<1>23. Lacks'
  <2> SUFFICES ASSUME Windowed, NEW a, a = sub'.entries PROVE Answers(a)'
    BY <1>7 DEF Lacks
  <2>1. Short' = 0 /\ Needed' = sub.limit + 1 /\ strayed' = 0
    BY <1>1, <1>6, <1>21 DEF Short, Needed
  <2>2. a \in Windows /\ DOMAIN a = page
    BY <1>6 DEF Subs
  <2>3. Cardinality(DOMAIN a) \in Nat
    BY <2>2, WindowSize
  <2>4. row' = row /\ Covered' = Covered
    BY <1>1, <1>6 DEF dataset, Covered, Matches
  <2>5. ASSUME NEW i \in Covered \ page
        PROVE  InFlight(i)' \/ Ahead(a, i)' >= Needed'
    <3> SUFFICES ASSUME i \notin missed' PROVE Ahead(a, i)' >= Needed'
      BY <1>24
    <3>1. Cardinality(page) = sub.limit + 1 /\ \A j \in page : row[j] <= row[i]
      BY <1>2 DEF Snaps
    <3>2. {j \in DOMAIN a : a[j] <= row[i]} = page
      BY <1>8, <2>2, <3>1 DEF Kept
    <3>3. Ahead(a, i)' = Cardinality({j \in DOMAIN a : a[j] <= row[i]})
      BY <2>4 DEF Ahead, UpTo
    <3>4. Ahead(a, i)' = Cardinality(page)
      BY <3>2, <3>3, Zenon
    <3> QED BY <2>1, <3>1, <3>4, SubFields
  <2> HIDE DEF Covered
  <2> QED BY <2>1, <2>2, <2>3, <2>4, <2>5 DEF Answers
<1> QED BY <1>10, <1>12, <1>14, <1>16, <1>17, <1>18, <1>19, <1>20, <1>22, <1>23

-----------------------------------------------------------------------------
(* Steps of a writer outside the engine.                                   *)

\* The records of an object that a step leaves to be told, if anybody asks.
Carries(o) ==
    Shown /\ sub.scope \in {o, All} =>
        \A i \in Id : Owner[i] = o =>
            (InFlight(i) => InFlight(i)') /\ (row'[i] = row[i] \/ InFlight(i)')

WriterOnly(o) ==
    /\ apply' \in [Object -> Jobs] /\ row' \in [Id -> Gone..Dead]
    /\ deleted' \in [Object -> {"no", "marked", "purged", "gone"}]
    /\ stamped' \in [Object -> Id \cup {NoId}]
    /\ UNCHANGED <<mu, counter, shut, sub, event, view, untold, strayed>>
    /\ \A i \in Id : Owner[i] # o => (i \in missed' <=> i \in missed)
    /\ apply[o].pc # "calling" /\ apply'[o].pc # "calling"
    /\ \A q \in Object \ {o} : apply'[q] = apply[q] /\ stamped'[q] = stamped[q]
                               /\ deleted'[q] = deleted[q]
    /\ \A i \in Id : Owner[i] # o => row'[i] = row[i]
    /\ deleted'[o] = "gone" => deleted[o] = "gone"

LEMMA WriterInv ==
    ASSUME EngineInv, NEW o \in Object, WriterOnly(o), WriterOk(o)', Carries(o)
    PROVE  EngineInv'
<1> USE DEF EngineInv
<1>1. UNCHANGED <<mu, counter, shut, sub, event, view, untold, strayed>>
  BY DEF WriterOnly, client
<1>2. EngineTyped'
  BY <1>1 DEF EngineTyped, WriterOnly
<1>3. Locked'
  <2>1. mu \in Object => mu # o
    BY DEF Locked, WriterOnly
  <2>2. mu \in Object => apply'[mu].pc = "calling"
    BY <2>1 DEF Locked, WriterOnly
  <2>3. \A q \in Object : apply'[q].pc = "calling" => mu = q
    <3> TAKE q \in Object
    <3>1. CASE q = o
      BY <3>1 DEF WriterOnly, client
    <3>2. CASE q # o
      BY <3>2 DEF WriterOnly, Locked
    <3> QED BY <3>1, <3>2
  <2> QED BY <1>1, <2>2, <2>3 DEF Locked, Counting, Open, Registered
<1>4. Bounded'
  BY <1>1, BoundedKept
<1>5. \A q \in Object \ {o} : Still(q)
  BY <1>1 DEF Still, WriterOnly
<1>6. Writes'
  <2>1. \A q \in Object \ {o} : WriterOk(q)'
    BY <1>5, WritesIs, WriterStill
  <2>2. \A q \in Object : WriterOk(q)'
    BY <2>1
  <2> QED BY <2>2 DEF Writes, WriterOk
<1>7. Shown' => Steady
  <2> SUFFICES ASSUME Shown' PROVE Steady
    OBVIOUS
  <2>1. Shown
    BY <1>1 DEF Shown, Open, Registered
  <2>2. ASSUME NEW i \in Id, sub.scope \in {Owner[i], All}
        PROVE  (InFlight(i) => InFlight(i)') /\ (row'[i] = row[i] \/ InFlight(i)')
    <3>1. CASE Owner[i] = o
      BY <2>1, <2>2, <3>1 DEF Carries
    <3>2. CASE Owner[i] # o
      <4>1. Owner[i] \in Object \ {o}
        BY <3>2, KeyFacts
      <4>2. InFlight(i)' <=> InFlight(i)
        BY <1>5, <3>2, <4>1, InFlightStill DEF WriterOnly
      <4> QED BY <3>2, <4>2 DEF WriterOnly, client
    <3> QED BY <3>1, <3>2
  <2> QED BY <1>1, <2>1, <2>2 DEF Steady
<1>8. AllTold' /\ Held' /\ Whole' /\ Lacks'
  BY <1>7, SteadyTold
<1>9. Current'
  <2>1. \A q \in Object : deleted'[q] = "gone" => deleted[q] = "gone"
    BY DEF WriterOnly, client
  <2>2. sub.scope # All => sub.scope \in Object
    BY SubFields
  <2> QED BY <1>1, <2>1, <2>2 DEF Current, Open, Registered
<1>10. Counts'
  BY <1>1 DEF Counts, Shown, Open, Registered, Drifted
<1> QED BY <1>2, <1>3, <1>4, <1>6, <1>8, <1>9, <1>10

\* Records posted are in flight, and so are those that were.
LEMMA PostsCarry ==
    ASSUME EngineTyped, NEW o \in Object, NEW p \in {"committed", "event"}, NEW rs,
           NEW b \in BOOLEAN, Posts(o, p, rs, b), apply[o].pc = "idle",
           \/ stamped'[o] = stamped[o]
           \/ \E a \in DOMAIN rs : rs[a].id = stamped[o],
           missed' = missed
    PROVE  /\ Carries(o) /\ Todo(o)' = rs /\ Of(o, Todo(o), row)'
           /\ apply'[o].pc = p /\ apply'[o].records = rs /\ apply'[o].batch = b
           /\ apply' \in [Object -> Jobs]
           /\ \A q \in Object \ {o} : apply'[q] = apply[q]
           /\ \A i \in Id : Owner[i] # o => row'[i] = row[i]
<1>1. /\ apply' \in [Object -> Jobs]
      /\ apply'[o].pc = p /\ apply'[o].records = rs /\ apply'[o].batch = b
      /\ \A q \in Object \ {o} : apply'[q] = apply[q]
  BY PostsTyped
<1>2. Todo(o)' = rs
  BY <1>1 DEF Todo
<1>3. Of(o, rs, row') /\ \A i \in Id : row'[i] = row[i] \/ \E a \in DOMAIN rs : rs[a].id = i
  BY DEF Posts
<1>4. Of(o, Todo(o), row)'
  BY <1>2, <1>3
<1>5. Todo(o) = <<>> /\ DOMAIN <<>> = {}
  BY EmptyWindow DEF Todo
<1>6. ASSUME NEW i \in Id, Owner[i] = o
      PROVE  (InFlight(i) => InFlight(i)') /\ (row'[i] = row[i] \/ InFlight(i)')
  <2>1. InFlight(i) => stamped[o] = i \/ i \in missed
    BY <1>5, <1>6 DEF InFlight
  <2>4. i \in missed => InFlight(i)'
    BY DEF InFlight
  <2>2. (\E a \in DOMAIN rs : rs[a].id = i) => InFlight(i)'
    BY <1>2, <1>6 DEF InFlight
  <2>3. stamped'[o] = i => InFlight(i)'
    BY <1>6 DEF InFlight
  <2> QED BY <1>3, <2>1, <2>2, <2>3, <2>4
<1>7. Carries(o)
  BY <1>6 DEF Carries
<1> QED BY <1>1, <1>2, <1>4, <1>7 DEF Posts

LEMMA WriteInv ==
    ASSUME EngineInv, NEW o \in Object, Write(o)
    PROVE  EngineInv'
<1> USE DEF EngineInv
<1>1. /\ apply[o].pc = "idle" /\ deleted[o] = "no"
      /\ \E rs : Posts(o, "committed", rs, FALSE)
      /\ row' \in [Id -> Gone..Dead]
      /\ \A i \in Id : row[i] # Gone => row'[i] # Gone
      /\ UNCHANGED <<deleted, stamped, mu, counter, shut, sub, event, client>>
  BY WriteIs
<1>2. PICK rs : Posts(o, "committed", rs, FALSE)
  BY <1>1
<1>3. /\ Carries(o) /\ Of(o, Todo(o), row)'
      /\ apply'[o].pc = "committed" /\ apply'[o].batch = FALSE
      /\ apply' \in [Object -> Jobs]
      /\ \A q \in Object \ {o} : apply'[q] = apply[q]
      /\ \A i \in Id : Owner[i] # o => row'[i] = row[i]
  BY <1>1, <1>2, PostsCarry DEF client
<1>4. WriterOnly(o)
  BY <1>1, <1>3 DEF WriterOnly, client, EngineTyped
<1>5. WriterOk(o)'
  <2>1. Batch(o)'
    BY <1>3 DEF Batch
  <2>2. Stamps(o)'
    <3>1. stamped[o] # NoId => stamped[o] \in Id /\ Owner[stamped[o]] = o
                               /\ row[stamped[o]] # Gone /\ deleted[o] = "no"
      BY WriterFacts DEF Writes, Stamps
    <3> QED BY <1>1, <3>1 DEF Stamps
  <2>3. Deletes(o)'
    BY <1>1, <1>3 DEF Deletes
  <2> QED BY <1>3, <2>1, <2>2, <2>3 DEF WriterOk
<1> QED BY <1>3, <1>4, <1>5, WriterInv

LEMMA StampInv ==
    ASSUME EngineInv, NEW o \in Object, Stamp(o)
    PROVE  EngineInv'
<1> USE DEF EngineInv
<1>1. /\ apply[o].pc = "idle" /\ deleted[o] = "no"
      /\ \E i \in Id : /\ Posts(o, "committed", <<[id |-> i, deleted |-> FALSE]>>, TRUE)
                       /\ stamped[o] \in {NoId, i} /\ row'[i] # Gone
      /\ row' \in [Id -> Gone..Dead]
      /\ \A i \in Id : row[i] # Gone => row'[i] # Gone
      /\ UNCHANGED <<deleted, stamped, mu, counter, shut, sub, event, client>>
  BY StampIs
<1>2. PICK i \in Id : /\ Posts(o, "committed", <<[id |-> i, deleted |-> FALSE]>>, TRUE)
                      /\ stamped[o] \in {NoId, i} /\ row'[i] # Gone
  BY <1>1
<1> DEFINE rs == <<[id |-> i, deleted |-> FALSE]>>
<1>3. Len(rs) = 1 /\ rs[1].id = i /\ ~rs[1].deleted
  OBVIOUS
<1>4. Posts(o, "committed", rs, TRUE)
  BY <1>2
<1> HIDE DEF rs
<1>5. /\ Carries(o) /\ Of(o, Todo(o), row)'
      /\ apply'[o].pc = "committed" /\ apply'[o].records = rs
      /\ apply' \in [Object -> Jobs]
      /\ \A q \in Object \ {o} : apply'[q] = apply[q]
      /\ \A j \in Id : Owner[j] # o => row'[j] = row[j]
  BY <1>1, <1>4, PostsCarry DEF client
<1>6. WriterOnly(o)
  BY <1>1, <1>5 DEF WriterOnly, client, EngineTyped
<1>7. WriterOk(o)'
  <2>1. Batch(o)'
    BY <1>1, <1>2, <1>3, <1>5 DEF Batch
  <2>2. Stamps(o)'
    <3>1. stamped[o] # NoId => stamped[o] \in Id /\ Owner[stamped[o]] = o
                               /\ row[stamped[o]] # Gone /\ deleted[o] = "no"
      BY WriterFacts DEF Writes, Stamps
    <3> QED BY <1>1, <3>1 DEF Stamps
  <2>3. Deletes(o)'
    BY <1>1, <1>5 DEF Deletes
  <2> QED BY <1>5, <2>1, <2>2, <2>3 DEF WriterOk
<1> QED BY <1>5, <1>6, <1>7, WriterInv

LEMMA RestsCarry ==
    ASSUME EngineTyped, NEW o \in Object, Rests(o)
    PROVE  /\ apply'[o].pc = "idle" /\ Todo(o)' = <<>>
           /\ Of(o, Todo(o), row)' /\ Batch(o)'
<1>1. apply'[o].pc = "idle"
  BY DEF Rests, Idle
<1>2. Todo(o)' = <<>>
  BY <1>1 DEF Todo
<1>3. Of(o, <<>>, row')
  BY EmptyWindow DEF Of
<1> QED BY <1>1, <1>2, <1>3 DEF Batch

LEMMA AnnounceInv ==
    ASSUME EngineInv, NEW o \in Object, Announce(o)
    PROVE  EngineInv'
<1> USE DEF EngineInv
<1>1. /\ apply[o].pc = "committed"
      /\ \/ counter = 0 /\ Rests(o) /\ UNCHANGED stamped
         \/ /\ apply[o].batch /\ Rests(o)
            /\ stamped' = [stamped EXCEPT ![o] = apply[o].records[1].id]
         \/ ~apply[o].batch /\ Turns(o, "event") /\ UNCHANGED stamped
      /\ UNCHANGED <<dataset, mu, counter, shut, sub, event, client>>
  BY AnnounceIs
<1>2. row' = row /\ deleted' = deleted
  BY <1>1 DEF dataset
<1>3. WriterOk(o)
  BY WritesIs
<1>4. deleted[o] = "no" /\ Todo(o) = apply[o].records
  BY <1>1, <1>3 DEF WriterOk, Deletes, Todo
<1>5. stamped \in [Object -> Id \cup {NoId}] /\ row \in [Id -> Gone..Dead]
      /\ deleted \in [Object -> {"no", "marked", "purged", "gone"}]
  BY DEF EngineTyped
<1>6. CASE counter = 0 /\ Rests(o) /\ UNCHANGED stamped
  <2>1. ~Shown
    BY <1>6 DEF Locked, Counting, Shown, Open, Registered
  <2>2. /\ apply'[o].pc = "idle" /\ Of(o, Todo(o), row)' /\ Batch(o)'
    BY <1>6, RestsCarry
  <2>3. Stamps(o)' /\ Deletes(o)'
    BY <1>2, <1>3, <1>4, <1>6, <2>2 DEF WriterOk, Stamps, Deletes
  <2>4. WriterOnly(o)
    BY <1>1, <1>2, <1>5, <1>6, <2>2 DEF WriterOnly, client, Rests
  <2>5. WriterOk(o)' /\ Carries(o)
    BY <2>1, <2>2, <2>3 DEF WriterOk, Carries
  <2> QED BY <2>4, <2>5, WriterInv
<1>7. CASE /\ apply[o].batch /\ Rests(o)
           /\ stamped' = [stamped EXCEPT ![o] = apply[o].records[1].id]
  <2> DEFINE k == apply[o].records[1].id
  <2>1. /\ Len(apply[o].records) = 1 /\ ~apply[o].records[1].deleted
        /\ stamped[o] \in {NoId, k} /\ row[k] # Gone
    BY <1>1, <1>3, <1>7 DEF WriterOk, Batch
  <2>2. DOMAIN apply[o].records = {1} /\ k \in Id
    <3>1. apply[o].records \in Seq(Record)
      BY WriterFacts
    <3>2. DOMAIN apply[o].records = {1} /\ apply[o].records[1] \in Record
      BY <2>1, <3>1
    <3> QED BY <3>2 DEF Record
  <2>3. Owner[k] = o
    BY <1>3, <1>4, <2>2 DEF WriterOk, Of
  <2>4. /\ apply'[o].pc = "idle" /\ Of(o, Todo(o), row)' /\ Batch(o)'
    BY <1>7, RestsCarry
  <2>5. stamped' \in [Object -> Id \cup {NoId}] /\ stamped'[o] = k
        /\ \A q \in Object \ {o} : stamped'[q] = stamped[q]
    BY <1>5, <1>7, <2>2
  <2> HIDE DEF k
  <2>6. Stamps(o)' /\ Deletes(o)'
    BY <1>2, <1>3, <1>4, <2>1, <2>3, <2>4, <2>5 DEF WriterOk, Stamps, Deletes
  <2>7. WriterOnly(o)
    BY <1>1, <1>2, <1>5, <1>7, <2>4, <2>5 DEF WriterOnly, client, Rests
  <2>8. ASSUME NEW i \in Id, Owner[i] = o
        PROVE  InFlight(i) => InFlight(i)'
    <3>0. missed' = missed
      BY <1>1 DEF client
    <3> SUFFICES ASSUME InFlight(i), i \notin missed PROVE InFlight(i)'
      BY <3>0 DEF InFlight
    <3>1. i = k
      <4>1. CASE stamped[o] = i
        BY <2>1, <4>1, KeyFacts
      <4>2. CASE \E a \in DOMAIN Todo(o) : Todo(o)[a].id = i
        BY <1>4, <2>2, <4>2 DEF k
      <4> QED BY <2>8, <4>1, <4>2 DEF InFlight
    <3> QED BY <2>5, <2>8, <3>1 DEF InFlight
  <2>9. WriterOk(o)' /\ Carries(o)
    BY <1>2, <2>4, <2>6, <2>8 DEF WriterOk, Carries
  <2> QED BY <2>7, <2>9, WriterInv
<1>8. CASE ~apply[o].batch /\ Turns(o, "event") /\ UNCHANGED stamped
  <2>1. apply'[o].pc = "event" /\ Todo(o)' = Todo(o)
    BY <1>4, <1>8 DEF Turns, Todo
  <2>2. Of(o, Todo(o), row)'
    BY <1>2, <1>3, <2>1 DEF WriterOk
  <2>3. Batch(o)' /\ Stamps(o)' /\ Deletes(o)'
    BY <1>2, <1>3, <1>4, <1>8, <2>1 DEF WriterOk, Batch, Stamps, Deletes
  <2>4. WriterOnly(o)
    BY <1>1, <1>2, <1>5, <1>8, <2>1 DEF WriterOnly, client, Turns
  <2>5. \A i \in Id : Owner[i] = o => (InFlight(i) => InFlight(i)')
    BY <1>1, <1>8, <2>1 DEF InFlight, client
  <2>6. WriterOk(o)' /\ Carries(o)
    BY <1>2, <2>2, <2>3, <2>5 DEF WriterOk, Carries
  <2> QED BY <2>4, <2>6, WriterInv
<1> QED BY <1>1, <1>6, <1>7, <1>8

LEMMA FlushStampsInv ==
    ASSUME EngineInv, NEW o \in Object, FlushStamps(o)
    PROVE  EngineInv'
<1> USE DEF EngineInv
<1>1. /\ apply[o].pc = "idle" /\ stamped[o] \in Id
      /\ stamped' = [stamped EXCEPT ![o] = NoId]
      /\ deleted[o] = "no"
      /\ \/ counter = 0 /\ UNCHANGED <<apply, missed>>
         \/ UNCHANGED apply /\ missed' = missed \cup {stamped[o]}
         \/ /\ Posts(o, "event", <<[id |-> stamped[o], deleted |-> FALSE]>>, FALSE)
            /\ UNCHANGED missed
      /\ UNCHANGED <<dataset, mu, counter, shut, sub, event, view, untold, strayed>>
  BY FlushIs
<1>2. row' = row /\ deleted' = deleted
  BY <1>1 DEF dataset
<1>3. /\ stamped' \in [Object -> Id \cup {NoId}] /\ stamped'[o] = NoId
      /\ \A q \in Object \ {o} : stamped'[q] = stamped[q]
  BY <1>1 DEF EngineTyped
<1>4. /\ row \in [Id -> Gone..Dead]
      /\ deleted \in [Object -> {"no", "marked", "purged", "gone"}]
      /\ apply \in [Object -> Jobs]
  BY DEF EngineTyped
<1>5. CASE UNCHANGED apply /\ ((counter = 0 /\ UNCHANGED missed) \/ missed' = missed \cup {stamped[o]})
  <2>0. Owner[stamped[o]] = o
    BY <1>1, KeyFacts DEF Writes, Stamps
  <2>1. ~Shown \/ stamped[o] \in missed'
    BY <1>5 DEF Locked, Counting, Shown, Open, Registered
  <2>8. missed \subseteq missed' /\ \A i \in Id : Owner[i] # o => (i \in missed' <=> i \in missed)
    BY <1>5, <2>0
  <2>2. WriterOk(o)
    BY WritesIs
  <2>3. Todo(o)' = Todo(o)
    BY <1>1, <1>5 DEF Todo
  <2>4. Of(o, Todo(o), row)'
    BY <1>2, <2>2, <2>3 DEF WriterOk
  <2>5. Batch(o)' /\ Stamps(o)' /\ Deletes(o)'
    BY <1>1, <1>2, <1>3, <1>5 DEF Batch, Stamps, Deletes
  <2>6. WriterOnly(o)
    BY <1>1, <1>2, <1>3, <1>4, <1>5, <2>8 DEF WriterOnly
  <2>9. Carries(o)
    <3> SUFFICES ASSUME Shown, NEW i \in Id, Owner[i] = o, InFlight(i) PROVE InFlight(i)'
      BY <1>2 DEF Carries
    <3>1. i = stamped[o] \/ i \in missed \/ \E a \in DOMAIN Todo(o) : Todo(o)[a].id = i
      BY DEF InFlight
    <3> QED BY <2>1, <2>3, <2>8, <3>1 DEF InFlight
  <2>7. WriterOk(o)'
    BY <2>4, <2>5 DEF WriterOk
  <2> QED BY <2>6, <2>7, <2>9, WriterInv
<1>6. CASE /\ Posts(o, "event", <<[id |-> stamped[o], deleted |-> FALSE]>>, FALSE)
           /\ UNCHANGED missed
  <2>0. PICK rs : rs = <<[id |-> stamped[o], deleted |-> FALSE]>>
    OBVIOUS
  <2>1. 1 \in DOMAIN rs /\ rs[1].id = stamped[o]
    BY <2>0
  <2>2. Posts(o, "event", rs, FALSE)
    BY <1>6, <2>0
  <2>3. /\ Carries(o) /\ Of(o, Todo(o), row)'
        /\ apply'[o].pc = "event"
        /\ apply' \in [Object -> Jobs]
        /\ \A q \in Object \ {o} : apply'[q] = apply[q]
        /\ \A i \in Id : Owner[i] # o => row'[i] = row[i]
    BY <1>1, <1>6, <2>1, <2>2, PostsCarry
  <2>4. Batch(o)' /\ Stamps(o)' /\ Deletes(o)'
    BY <1>1, <1>2, <1>3, <2>3 DEF Batch, Stamps, Deletes
  <2>5. WriterOnly(o)
    BY <1>1, <1>2, <1>3, <1>4, <1>6, <2>3 DEF WriterOnly
  <2>6. WriterOk(o)'
    BY <2>3, <2>4 DEF WriterOk
  <2> QED BY <2>3, <2>5, <2>6, WriterInv
<1> QED BY <1>1, <1>5, <1>6

LEMMA MarkDeletedInv ==
    ASSUME EngineInv, NEW o \in Object, MarkDeleted(o)
    PROVE  EngineInv'
<1> USE DEF EngineInv
<1>1. /\ deleted[o] = "no" /\ apply[o].pc = "idle" /\ stamped[o] = NoId
      /\ deleted' = [deleted EXCEPT ![o] = "marked"]
      /\ UNCHANGED <<row, apply, stamped, mu, counter, shut, sub, event, client>>
  BY MarkDeletedIs
<1>2. /\ deleted' \in [Object -> {"no", "marked", "purged", "gone"}] /\ deleted'[o] = "marked"
      /\ \A q \in Object \ {o} : deleted'[q] = deleted[q]
  BY <1>1 DEF EngineTyped
<1>3. WriterOnly(o)
  BY <1>1, <1>2 DEF WriterOnly, client, EngineTyped
<1>4. Todo(o)' = Todo(o)
  BY <1>1 DEF Todo
<1>5. WriterOk(o)'
  <2>1. Of(o, Todo(o), row)'
    BY <1>1, <1>4 DEF Writes
  <2>2. Batch(o)' /\ Stamps(o)' /\ Deletes(o)'
    BY <1>1, <1>2 DEF Batch, Stamps, Deletes
  <2> QED BY <2>1, <2>2 DEF WriterOk
<1>6. Carries(o)
  BY <1>1, <1>4 DEF Carries, InFlight, client
<1> QED BY <1>3, <1>5, <1>6, WriterInv

LEMMA PurgeInv ==
    ASSUME EngineInv, NEW o \in Object, Purge(o)
    PROVE  EngineInv'
<1> USE DEF EngineInv
<1>1. /\ apply[o].pc = "idle" /\ deleted[o] = "marked" /\ stamped[o] = NoId
      /\ deleted' = [deleted EXCEPT ![o] = "purged"]
      /\ \/ UNCHANGED apply /\ UNCHANGED row
         \/ \E rs : Posts(o, "event", rs, FALSE)
      /\ row' \in [Id -> Gone..Dead]
      /\ \A i \in Id : row'[i] = IF Owner[i] = o THEN Gone ELSE row[i]
      /\ UNCHANGED <<stamped, mu, counter, shut, sub, event, client>>
  BY PurgeIs
<1>2. /\ deleted' \in [Object -> {"no", "marked", "purged", "gone"}] /\ deleted'[o] = "purged"
      /\ \A q \in Object \ {o} : deleted'[q] = deleted[q]
  BY <1>1 DEF EngineTyped
<1>3. Stamps(o)'
  BY <1>1 DEF Stamps
<1>4. \A i \in RecordsOf(o) : row'[i] = Gone
  BY <1>1 DEF RecordsOf
<1>5. CASE UNCHANGED apply /\ UNCHANGED row
  <2>1. WriterOnly(o)
    BY <1>1, <1>2, <1>5 DEF WriterOnly, client, EngineTyped
  <2>2. Todo(o)' = Todo(o)
    BY <1>1, <1>5 DEF Todo
  <2>3. Of(o, Todo(o), row)'
    BY <1>5, <2>2 DEF Writes
  <2>4. Batch(o)' /\ Deletes(o)'
    BY <1>1, <1>2, <1>4, <1>5 DEF Batch, Deletes, RecordsOf
  <2>5. WriterOk(o)'
    BY <1>3, <2>3, <2>4 DEF WriterOk
  <2>6. Carries(o)
    BY <1>1, <1>5, <2>2 DEF Carries, InFlight, client
  <2> QED BY <2>1, <2>5, <2>6, WriterInv
<1>6. CASE \E rs : Posts(o, "event", rs, FALSE)
  <2>1. PICK rs : Posts(o, "event", rs, FALSE)
    BY <1>6
  <2>2. /\ Carries(o) /\ Of(o, Todo(o), row)'
        /\ apply'[o].pc = "event"
        /\ apply' \in [Object -> Jobs]
        /\ \A q \in Object \ {o} : apply'[q] = apply[q]
        /\ \A i \in Id : Owner[i] # o => row'[i] = row[i]
    BY <1>1, <2>1, PostsCarry DEF client
  <2>3. WriterOnly(o)
    BY <1>1, <1>2, <2>2 DEF WriterOnly, client, EngineTyped
  <2>4. Batch(o)' /\ Deletes(o)'
    BY <1>1, <1>2, <1>4, <2>2 DEF Batch, Deletes, RecordsOf
  <2>5. WriterOk(o)'
    BY <1>3, <2>2, <2>4 DEF WriterOk
  <2> QED BY <2>2, <2>3, <2>5, WriterInv
<1> QED BY <1>1, <1>5, <1>6

LEMMA OnApplyInv ==
    ASSUME EngineInv, NEW o \in Object, OnApply(o)
    PROVE  EngineInv'
<1> USE DEF EngineInv
<1>1. /\ apply[o].pc = "event"
      /\ \/ (counter = 0 \/ shut) /\ Rests(o) /\ UNCHANGED <<mu, event, missed>>
         \/ mu = Nobody /\ ~Concerned(o) /\ Rests(o) /\ UNCHANGED <<mu, event, missed>>
         \/ /\ mu = Nobody /\ ~shut /\ Concerned(o) /\ mu' = o
            /\ Begins(o) /\ Turns(o, "calling")
            /\ \A i \in missed \ missed' : \E a \in DOMAIN apply[o].records : apply[o].records[a].id = i
      /\ UNCHANGED <<dataset, stamped, counter, shut, sub, view, untold, strayed>>
  BY OnApplyIs
<1>2. row' = row /\ deleted' = deleted /\ view' = view /\ untold' = untold /\ strayed' = strayed
  BY <1>1 DEF dataset
<1>3. WriterOk(o)
  BY WritesIs
<1>4. Todo(o) = apply[o].records
  BY <1>1 DEF Todo
<1>5. CASE Rests(o) /\ UNCHANGED <<mu, event, missed>>
           /\ (counter = 0 \/ shut \/ (mu = Nobody /\ ~Concerned(o)))
  <2>1. ~(Shown /\ sub.scope \in {o, All})
    <3>1. CASE counter = 0 \/ shut
      BY <3>1 DEF Locked, Counting, Shown, Open, Registered
    <3>2. CASE mu = Nobody /\ ~Concerned(o)
      BY <3>2, KeyFacts DEF Locked, Shown, Open, Registered, Concerned
    <3> QED BY <1>5, <3>1, <3>2
  <2>2. /\ apply'[o].pc = "idle" /\ Of(o, Todo(o), row)' /\ Batch(o)'
    BY <1>5, RestsCarry
  <2>3. Stamps(o)' /\ Deletes(o)'
    BY <1>1, <1>2, <1>3, <2>2 DEF WriterOk, Stamps, Deletes
  <2>4. WriterOnly(o)
    BY <1>1, <1>2, <1>5, <2>2 DEF WriterOnly, Rests, EngineTyped
  <2>5. WriterOk(o)' /\ Carries(o)
    BY <2>1, <2>2, <2>3 DEF WriterOk, Carries
  <2> QED BY <2>4, <2>5, WriterInv
<1>6. CASE /\ mu = Nobody /\ ~shut /\ Concerned(o) /\ mu' = o
           /\ Begins(o) /\ Turns(o, "calling")
           /\ \A i \in missed \ missed' : \E a \in DOMAIN apply[o].records : apply[o].records[a].id = i
  <2>1. event = NoEvent
    BY <1>6, KeyFacts DEF Locked
  <2>2. /\ event' \in Events /\ event'.set = event.set /\ event'.removed = event.removed
        /\ event'.muddled = event.muddled /\ event'.todo = apply[o].records
        /\ event'.set = <<>> /\ event'.removed = {}
    BY <1>6, <2>1, NoEventIs DEF Begins
  <2>3. EngineTyped'
    BY <1>1, <1>2, <1>6, <2>2 DEF EngineTyped, Turns
  <2>4. Open /\ sub.scope \in {o, All}
    BY <1>6 DEF Concerned, Open
  <2>5. \A q \in Object : apply[q].pc # "calling"
    BY <1>6, KeyFacts DEF Locked
  <2>6. Locked'
    <3>1. \A q \in Object : apply'[q].pc = "calling" => q = o
      BY <1>6, <2>5 DEF Turns
    <3>2. apply'[o].pc = "calling" /\ mu' = o /\ o # All /\ mu # All
      BY <1>6, KeyFacts DEF Turns
    <3>3. Open' /\ sub'.scope \in {o, All}
      BY <1>1, <2>4 DEF Open, Registered
    <3>4. /\ mu = All <=> sub.pc \in {"reading", "read"}
          /\ counter = IF Counting THEN 1 ELSE 0
      BY DEF Locked
    <3>5. counter' = IF Counting' THEN 1 ELSE 0
      BY <1>1, <3>4 DEF Counting
    <3> QED BY <1>1, <1>6, <3>1, <3>2, <3>3, <3>4, <3>5 DEF Locked
  <2>7. Bounded'
    BY <1>1, BoundedKept
  <2>8. Todo(o)' = Todo(o)
    BY <1>4, <1>6, <2>2 DEF Turns, Todo
  <2>9. \A q \in Object \ {o} : Still(q)
    BY <1>1, <1>2, <1>6, <2>5 DEF Still, Turns
  <2>10. Writes'
    <3>1. \A q \in Object \ {o} : WriterOk(q)'
      BY <2>9, WritesIs, WriterStill
    <3>2. Of(o, Todo(o), row)'
      BY <1>2, <1>3, <2>8 DEF WriterOk
    <3>3. Batch(o)' /\ Stamps(o)' /\ Deletes(o)'
      BY <1>1, <1>2, <1>3, <1>6 DEF WriterOk, Batch, Stamps, Deletes, Turns
    <3>4. \A q \in Object : WriterOk(q)'
      BY <3>1, <3>2, <3>3 DEF WriterOk
    <3> QED BY <3>4 DEF Writes, WriterOk
  <2>11. ASSUME NEW i \in Id, InFlight(i)
         PROVE  InFlight(i)'
    <3>1. CASE i \in missed \ missed'
      <4>1. PICK a \in DOMAIN Todo(o) : Todo(o)[a].id = i
        BY <1>4, <1>6, <3>1
      <4>2. Owner[i] = o
        BY <1>3, <4>1 DEF WriterOk, Of
      <4> QED BY <2>8, <4>1, <4>2 DEF InFlight
    <3>2. CASE i \in missed'
      BY <3>2 DEF InFlight
    <3>3. CASE i \notin missed
      <4>1. stamped[Owner[i]] = i \/ \E a \in DOMAIN Todo(Owner[i]) : Todo(Owner[i])[a].id = i
        BY <2>11, <3>3 DEF InFlight
      <4>2. Todo(Owner[i])' = Todo(Owner[i])
        <5>1. CASE Owner[i] = o
          BY <2>8, <5>1
        <5>2. CASE Owner[i] # o
          <6>1. Owner[i] \in Object \ {o}
            BY <5>2, KeyFacts
          <6> QED BY <2>9, <6>1, TodoStill
        <5> QED BY <5>1, <5>2
      <4> QED BY <1>1, <4>1, <4>2 DEF InFlight
    <3> QED BY <3>1, <3>2, <3>3
  <2>12. Steady
    BY <1>1, <1>2, <2>2, <2>4, <2>11 DEF Steady, Shown
  <2>13. AllTold' /\ Held' /\ Whole' /\ Lacks'
    BY <2>12, SteadyTold
  <2>14. Current'
    BY <1>1, <1>2 DEF Current, Open, Registered
  <2>15. Counts'
    BY <1>1, <1>6, <2>4 DEF Counts, Open, Registered
  <2> QED BY <2>3, <2>6, <2>7, <2>10, <2>13, <2>14, <2>15
<1> QED BY <1>1, <1>5, <1>6

LEMMA CloseObjectInv ==
    ASSUME EngineInv, NEW o \in Object, CloseObject(o)
    PROVE  EngineInv'
<1> USE DEF EngineInv
<1>1. /\ deleted[o] = "purged" /\ apply[o].pc = "idle"
      /\ counter = 0 \/ shut \/ mu = Nobody
      /\ deleted' = [deleted EXCEPT ![o] = "gone"]
      /\ \/ Registered /\ sub.scope = o /\ Ends
         \/ sub' = sub /\ ~(Open /\ sub.scope = o)
      /\ UNCHANGED <<row, apply, stamped, mu, counter, shut, event, client>>
  BY CloseObjectIs
<1>2. /\ deleted' \in [Object -> {"no", "marked", "purged", "gone"}] /\ deleted'[o] = "gone"
      /\ \A q \in Object \ {o} : deleted'[q] = deleted[q]
  BY <1>1 DEF EngineTyped
<1>3. /\ sub' \in Subs /\ sub'.pc = sub.pc /\ sub'.limit = sub.limit /\ sub'.scope = sub.scope
      /\ (sub'.closed \/ sub' = sub)
  BY <1>1 DEF Ends, EngineTyped
<1>4. EngineTyped'
  BY <1>1, <1>2, <1>3 DEF EngineTyped, client
<1>5. mu \notin Object
  BY <1>1, KeyFacts DEF Locked, Counting, Open, Registered
<1>6. Open' => Open /\ sub' = sub
  BY <1>3 DEF Open, Registered
<1>7. Locked'
  BY <1>1, <1>3, <1>5, <1>6 DEF Locked, Counting
<1>8. Bounded'
  BY <1>1, <1>3, BoundedKept, BoundedEmpty DEF Ends
<1>9. \A q \in Object \ {o} : Still(q)
  BY <1>1, <1>2 DEF Still
<1>10. Todo(o)' = Todo(o) /\ \A i \in Id : InFlight(i)' <=> InFlight(i)
  <2>1. Todo(o)' = Todo(o)
    BY <1>1 DEF Todo
  <2>2. \A i \in Id : InFlight(i)' <=> InFlight(i)
    <3> TAKE i \in Id
    <3>1. CASE Owner[i] = o
      BY <1>1, <2>1, <3>1 DEF InFlight, client
    <3>2. CASE Owner[i] # o
      <4>1. Owner[i] \in Object \ {o}
        BY <3>2, KeyFacts
      <4> QED BY <1>1, <1>9, <4>1, InFlightStill DEF client
    <3> QED BY <3>1, <3>2
  <2> QED BY <2>1, <2>2
<1>11. Writes'
  <2>1. WriterOk(o)
    BY WritesIs
  <2>2. \A q \in Object \ {o} : WriterOk(q)'
    BY <1>9, WritesIs, WriterStill
  <2>3. Of(o, Todo(o), row)'
    BY <1>1, <1>10, <2>1 DEF WriterOk
  <2>4. Batch(o)' /\ Stamps(o)' /\ Deletes(o)'
    <3>1. stamped[o] = NoId
      BY <1>1, <2>1 DEF WriterOk, Stamps
    <3>2. \A i \in RecordsOf(o) : row[i] = Gone
      BY <1>1, <2>1 DEF WriterOk, Deletes
    <3> QED BY <1>1, <1>2, <3>1, <3>2 DEF Batch, Stamps, Deletes, RecordsOf
  <2>5. \A q \in Object : WriterOk(q)'
    BY <2>2, <2>3, <2>4 DEF WriterOk
  <2> QED BY <2>5 DEF Writes, WriterOk
<1>12. Shown' => Shown /\ sub' = sub
  <2>1. sub.pc = "read" => sub' = sub
    BY <1>1 DEF Registered
  <2> QED BY <1>3, <1>6, <2>1 DEF Shown
<1>13. Shown' => Steady
  BY <1>1, <1>10, <1>12 DEF Steady, client
<1>14. AllTold' /\ Held' /\ Whole' /\ Lacks'
  BY <1>13, SteadyTold
<1>15. Current'
  <2> SUFFICES ASSUME Open', sub'.pc = "live", sub'.scope # All
               PROVE  deleted'[sub'.scope] # "gone"
    BY DEF Current
  <2>1. Open /\ sub' = sub
    BY <1>6
  <2>2. sub.scope # o
    BY <1>1, <2>1 DEF Ends, Open
  <2>3. sub.scope \in Object \ {o}
    BY <2>1, <2>2, SubFields
  <2> QED BY <1>2, <2>1, <2>3 DEF Current
<1>16. Counts'
  BY <1>1, <1>3, <1>12 DEF Counts, Ends, Registered, Drifted
<1> QED BY <1>4, <1>7, <1>8, <1>11, <1>14, <1>15, <1>16

-----------------------------------------------------------------------------
(* Steps of the engine.                                                    *)

\* What an event says once it has told of a record.
Says(e, old, new) ==
    LET id    == Rec.id
        was   == id \in DOMAIN sub.entries /\ id # old
        is    == id \in DOMAIN e /\ id # new
        seen  == event.seen \cup {id}
        risen == Risen(old, new, e)
        sunk  == {new} \ {old, id, NoId}
    IN  \A i :
        /\ i \in DOMAIN event'.set <=>
              i \in DOMAIN event.set \/ (i = id /\ is) \/ (i \in risen /\ i \notin seen)
        /\ i \in DOMAIN event'.set =>
              event'.set[i] = IF i = id /\ is THEN Post
                              ELSE IF i \in risen /\ i \notin seen THEN e[i] ELSE event.set[i]
        /\ i \in event'.removed <=>
              i \in event.removed \/ (i = id /\ was /\ ~is) \/ (i \in sunk /\ i \notin seen)
        /\ i \in event'.muddled <=>
              \/ i \in event.muddled
              \/ i \in risen \cup sunk /\ i \in seen
              \/ i \in DOMAIN event.set /\ ((i = id /\ was /\ ~is) \/ (i \in sunk /\ i \notin seen))
              \/ i \in event.removed /\ ((i = id /\ is) \/ (i \in risen /\ i \notin seen))

LEMMA ClassifySays ==
    ASSUME NEW e, NEW old, NEW new, Classify(old, new, e)
    PROVE  Says(e, old, new)
<1> DEFINE id    == Rec.id
           was   == id \in DOMAIN sub.entries /\ id # old
           is    == id \in DOMAIN e /\ id # new
           seen  == event.seen \cup {id}
           risen == Risen(old, new, e)
           sunk  == {new} \ {old, id, NoId}
           D     == (IF is THEN {id} ELSE {}) \cup (risen \ seen)
           set   == [i \in D |-> IF i = id THEN Post ELSE e[i]]
           both  == [i \in DOMAIN event.set \cup DOMAIN set |->
                         IF i \in DOMAIN set THEN set[i] ELSE event.set[i]]
           gone  == (IF was /\ ~is THEN {id} ELSE {}) \cup (sunk \ seen)
           muddle == event.muddled \cup ((risen \cup sunk) \cap seen)
                        \cup (DOMAIN event.set \cap gone) \cup (DOMAIN set \cap event.removed)
<1>1. event' = [todo |-> Tail(event.todo), seen |-> seen \cup risen \cup sunk, set |-> both,
                removed |-> event.removed \cup gone, muddled |-> muddle]
  BY DEF Classify
<1>2. event'.set = both /\ event'.removed = event.removed \cup gone /\ event'.muddled = muddle
  <2> HIDE DEF both, gone, muddle, seen, risen, sunk
  <2> QED BY <1>1
<1>3. id \in seen
  OBVIOUS
<1>4. \A i : i \in D <=> (i = id /\ is) \/ (i \in risen /\ i \notin seen)
  <2> HIDE DEF is, risen, seen
  <2> QED OBVIOUS
<1>5. \A i : i \in gone <=> (i = id /\ was /\ ~is) \/ (i \in sunk /\ i \notin seen)
  <2> HIDE DEF is, was, sunk, seen
  <2> QED OBVIOUS
<1>6. DOMAIN set = D /\ \A i \in D : set[i] = IF i = id THEN Post ELSE e[i]
  <2> HIDE DEF D
  <2> QED OBVIOUS
<1>7. DOMAIN both = DOMAIN event.set \cup D
      /\ \A i \in DOMAIN both : both[i] = IF i \in D THEN set[i] ELSE event.set[i]
  <2> HIDE DEF D, set
  <2> QED BY <1>6
<1> HIDE DEF both, set
<1>8. \A i : i \in DOMAIN both <=>
               i \in DOMAIN event.set \/ (i = id /\ is) \/ (i \in risen /\ i \notin seen)
  <2> HIDE DEF D, is, risen, seen
  <2> QED BY <1>4, <1>7
<1>9. \A i : i \in DOMAIN both =>
               both[i] = IF i = id /\ is THEN Post
                         ELSE IF i \in risen /\ i \notin seen THEN e[i] ELSE event.set[i]
  <2> TAKE i
  <2> HIDE DEF D, is, risen, seen
  <2>1. CASE i \in D
    BY <1>3, <1>4, <1>6, <1>7, <2>1
  <2>2. CASE i \notin D
    BY <1>4, <1>7, <2>2
  <2> QED BY <2>1, <2>2
<1>10. \A i : i \in event.removed \cup gone <=>
               i \in event.removed \/ (i = id /\ was /\ ~is) \/ (i \in sunk /\ i \notin seen)
  <2> HIDE DEF gone, is, was, sunk, seen
  <2> QED BY <1>5
<1>11. \A i : i \in muddle <=>
               \/ i \in event.muddled
               \/ i \in risen \cup sunk /\ i \in seen
               \/ i \in DOMAIN event.set /\ ((i = id /\ was /\ ~is) \/ (i \in sunk /\ i \notin seen))
               \/ i \in event.removed /\ ((i = id /\ is) \/ (i \in risen /\ i \notin seen))
  <2> HIDE DEF gone, is, was, sunk, risen, seen, D
  <2> QED BY <1>4, <1>5, <1>6
<1> HIDE DEF muddle, gone
<1>12. ASSUME NEW i
       PROVE  /\ i \in DOMAIN event'.set <=>
                   i \in DOMAIN event.set \/ (i = id /\ is) \/ (i \in risen /\ i \notin seen)
              /\ i \in DOMAIN event'.set =>
                   event'.set[i] = IF i = id /\ is THEN Post
                                   ELSE IF i \in risen /\ i \notin seen THEN e[i] ELSE event.set[i]
  <2> HIDE DEF is, risen, seen
  <2> QED BY <1>2, <1>8, <1>9
<1> QED BY <1>2, <1>10, <1>11, <1>12 DEF Says

\* The event adds up to the window, record by record.
LEMMA MovesTold ==
    ASSUME EngineTyped, AllTold, Shown, Moves, event.todo # <<>>, view' = view, untold' = untold
    PROVE  AllTold'
<1> DEFINE id  == Rec.id
           e   == sub'.entries
           old == Sentinel(sub.entries, sub.maxRef)
           new == Sentinel(sub'.entries, sub'.maxRef)
           seen  == event.seen \cup {id}
           risen == Risen(old, new, e)
           sunk  == {new} \ {old, id, NoId}
           was   == id \in DOMAIN sub.entries /\ id # old
           is    == id \in DOMAIN e /\ id # new
<1>1. /\ Alike(sub') /\ Moved(sub.maxRef, sub'.entries, sub'.maxRef)
      /\ Says(e, old, new)
  BY ClassifySays DEF Moves
<1>2. /\ id \in DOMAIN e => Matches(Post) /\ e[id] = Kept(Post)
      /\ \A j \in DOMAIN e \ {id} : j \in DOMAIN sub.entries /\ e[j] = sub.entries[j]
      /\ \A j \in DOMAIN sub.entries \ {id} : j \in DOMAIN e \/ j = old
  BY <1>1 DEF Moved
<1>3. Windowed' = Windowed /\ Visible = DOMAIN sub.entries \ {old} /\ Visible' = DOMAIN e \ {new}
  BY <1>1 DEF Alike, Windowed, Visible, Sentinel, Full
<1>4. risen = IF new = old THEN {} ELSE {old} \cap (DOMAIN e \ {id})
  BY DEF Risen
<1>5. \A i : /\ i \in DOMAIN event'.set <=>
                  i \in DOMAIN event.set \/ (i = id /\ is) \/ (i \in risen /\ i \notin seen)
             /\ i \in DOMAIN event'.set =>
                  event'.set[i] = IF i = id /\ is THEN Post
                                  ELSE IF i \in risen /\ i \notin seen THEN e[i] ELSE event.set[i]
             /\ i \in event'.removed <=>
                  i \in event.removed \/ (i = id /\ was /\ ~is) \/ (i \in sunk /\ i \notin seen)
             /\ i \in event'.muddled <=>
                  \/ i \in event.muddled
                  \/ i \in risen \cup sunk /\ i \in seen
                  \/ i \in DOMAIN event.set /\ ((i = id /\ was /\ ~is) \/ (i \in sunk /\ i \notin seen))
                  \/ i \in event.removed /\ ((i = id /\ is) \/ (i \in risen /\ i \notin seen))
  BY <1>1 DEF Says
<1> SUFFICES ASSUME NEW i \in Id, i \notin untold, i \notin event'.muddled
             PROVE  Told(i)'
  BY DEF AllTold
<1>6. Windowed => Kept(Post) = Post
  BY DEF Kept
<1> HIDE DEF id, e, old, new, seen, risen, sunk, was, is
<1>7. /\ i \in DOMAIN event'.set <=>
            i \in DOMAIN event.set \/ (i = id /\ is) \/ (i \in risen /\ i \notin seen)
      /\ i \in DOMAIN event'.set =>
            event'.set[i] = IF i = id /\ is THEN Post
                            ELSE IF i \in risen /\ i \notin seen THEN e[i] ELSE event.set[i]
      /\ i \in event'.removed <=>
            i \in event.removed \/ (i = id /\ was /\ ~is) \/ (i \in sunk /\ i \notin seen)
      /\ i \notin event.muddled
      /\ ~(i \in risen \cup sunk /\ i \in seen)
      /\ ~(i \in DOMAIN event.set /\ ((i = id /\ was /\ ~is) \/ (i \in sunk /\ i \notin seen)))
  BY <1>5
<1>8. Told(i)
  BY <1>7 DEF AllTold
<1>9. /\ (i \in DOMAIN view /\ i \notin event.removed) \/ i \in DOMAIN event.set <=> i \in Visible
      /\ i \in Visible /\ Windowed => Pending(i) = sub.entries[i]
  BY <1>8 DEF Told, Coming
<1>10. i \in Coming' <=> (i \in DOMAIN view /\ i \notin event'.removed) \/ i \in DOMAIN event'.set
  BY DEF Coming
<1>11. /\ Pending(i) = IF i \in DOMAIN event.set THEN event.set[i] ELSE view[i]
       /\ Pending(i)' = IF i \in DOMAIN event'.set THEN event'.set[i] ELSE view[i]
  BY DEF Pending
<1>12. CASE i = id
  <2>1. i \notin risen /\ i \notin sunk
    BY <1>4, <1>12 DEF sunk
  <2>2. was <=> i \in Visible
    BY <1>3, <1>12 DEF was
  <2>3. is <=> i \in Visible'
    BY <1>3, <1>12 DEF is
  <2>4. i \in Coming' <=> i \in Visible'
    BY <1>7, <1>9, <1>10, <1>12, <2>1, <2>2, <2>3
  <2>5. i \in Visible' /\ Windowed' => Pending(i)' = sub'.entries[i]
    <3> SUFFICES ASSUME i \in Visible', Windowed PROVE Pending(i)' = sub'.entries[i]
      BY <1>3
    <3>1. i \in DOMAIN e /\ e[id] = Kept(Post)
      BY <1>2, <1>3, <1>12
    <3>2. event'.set[i] = Post /\ i \in DOMAIN event'.set
      BY <1>7, <1>12, <2>3
    <3> QED BY <1>6, <1>11, <1>12, <3>1, <3>2 DEF e
  <2> QED BY <2>4, <2>5 DEF Told
<1>13. CASE i # id /\ i = old
  <2>1. i \notin Visible /\ i \notin sunk
    BY <1>3, <1>13 DEF sunk
  <2>2. i \in risen <=> i # new /\ i \in DOMAIN e
    BY <1>4, <1>13
  <2>3. i \in Visible' <=> i \in risen
    BY <1>3, <2>2
  <2>4. i \in Coming' <=> i \in Visible'
    BY <1>7, <1>9, <1>10, <1>13, <2>1, <2>3
  <2>5. i \in Visible' => Pending(i)' = sub'.entries[i]
    <3> SUFFICES ASSUME i \in Visible' PROVE Pending(i)' = e[i]
      BY DEF e
    <3>1. i \in DOMAIN event'.set /\ event'.set[i] = e[i]
      BY <1>7, <1>13, <2>3
    <3> QED BY <1>11, <3>1
  <2> QED BY <2>4, <2>5 DEF Told
<1>14. CASE i # id /\ i # old /\ i = new
  <2>1. i \notin risen /\ i \in sunk
    BY <1>4, <1>14, KeyFacts DEF sunk
  <2>2. i \notin Visible'
    BY <1>3, <1>14
  <2>3. i \notin Coming'
    BY <1>7, <1>10, <1>14, <2>1
  <2> QED BY <2>2, <2>3 DEF Told
<1>15. CASE i # id /\ i # old /\ i # new
  <2>1. i \notin risen /\ i \notin sunk
    BY <1>4, <1>15 DEF sunk
  <2>2. i \in Visible' <=> i \in Visible
    BY <1>2, <1>3, <1>15
  <2>3. i \in Coming' <=> i \in Visible'
    BY <1>7, <1>9, <1>10, <1>15, <2>1, <2>2
  <2>4. i \in Visible' /\ Windowed' => Pending(i)' = sub'.entries[i]
    <3> SUFFICES ASSUME i \in Visible', Windowed PROVE Pending(i)' = e[i]
      BY <1>3 DEF e
    <3>1. i \in DOMAIN e /\ e[i] = sub.entries[i]
      BY <1>2, <1>3, <1>15
    <3>2. Pending(i)' = Pending(i)
      BY <1>7, <1>11, <1>15, <2>1
    <3> QED BY <1>9, <2>2, <3>1, <3>2
  <2> QED BY <2>3, <2>4 DEF Told
<1> QED BY <1>12, <1>13, <1>14, <1>15

-----------------------------------------------------------------------------
(* The window, had it lost nothing.                                        *)

LEMMA Fewer ==
    ASSUME NEW S, NEW T, IsFiniteSet(T), NEW r, S \subseteq T \cup {r}
    PROVE  /\ IsFiniteSet(S) /\ Cardinality(S) \in Nat /\ Cardinality(T) \in Nat
           /\ Cardinality(S) <= Cardinality(T) + 1
           /\ S \subseteq T => Cardinality(S) <= Cardinality(T)
<1>1. /\ IsFiniteSet(T \cup {r})
      /\ Cardinality(T \cup {r}) = IF r \in T THEN Cardinality(T) ELSE Cardinality(T) + 1
  BY FS_AddElement
<1>2. IsFiniteSet(S) /\ Cardinality(S) <= Cardinality(T \cup {r})
  BY <1>1, FS_Subset
<1>3. Cardinality(S) \in Nat /\ Cardinality(T) \in Nat
  BY <1>2, FS_CardinalityType
<1>4. S \subseteq T => Cardinality(S) <= Cardinality(T)
  BY FS_Subset
<1> QED BY <1>1, <1>2, <1>3, <1>4

LEMMA UpToIs ==
    ASSUME NEW a \in Windows, NEW v
    PROVE  /\ UpTo(a, v) \subseteq DOMAIN a /\ IsFiniteSet(UpTo(a, v))
           /\ Cardinality(UpTo(a, v)) \in Nat
<1>1. UpTo(a, v) \subseteq DOMAIN a
  BY DEF UpTo
<1>2. IsFiniteSet(UpTo(a, v))
  BY <1>1, WindowSize, FS_Subset
<1> QED BY <1>1, <1>2, FS_CardinalityType

\* Of some records, one is stored first.
LEMMA FirstRow ==
    ASSUME EngineTyped, NEW S \in SUBSET Id, S # {}
    PROVE  \E x \in S : \A y \in S : row[x] <= row[y]
<1> DEFINE Before(x) == {y \in S : row[y] < row[x]}
           Befores == {Before(x) : x \in S}
<1>0. \A x \in S : row[x] \in Nat
  BY KeyFacts DEF EngineTyped
<1>1. IsFiniteSet(S)
  BY KeyFacts, FS_Subset
<1>2. IsWellFoundedOn(StrictSubsetOrdering(S), SUBSET S)
  BY <1>1, FS_StrictSubsetOrderingWellFounded, FS_FiniteSubsetsOfFinite
<1>3. Befores \subseteq SUBSET S /\ Befores # {}
  OBVIOUS
<1>4. PICK m \in Befores : \A a \in Befores : <<a, m>> \notin StrictSubsetOrdering(S)
  <2> HIDE DEF Befores
  <2> QED BY <1>2, <1>3, WFMin
<1>5. PICK x \in S : m = Before(x)
  OBVIOUS
<1>6. ASSUME NEW y \in S, row[y] < row[x]
      PROVE  FALSE
  <2>1. Before(y) \in Befores
    OBVIOUS
  <2>2. Before(y) \subseteq Before(x) /\ y \in Before(x) /\ y \notin Before(y)
    BY <1>0, <1>6
  <2>3. <<Before(y), Before(x)>> \in StrictSubsetOrdering(S)
    BY <2>2 DEF StrictSubsetOrdering
  <2> QED BY <1>4, <1>5, <2>1, <2>3
<1> QED BY <1>0, <1>6

\* One row more in a window.
LEMMA OneMore ==
    ASSUME NEW a \in Windows, NEW i \in Id \ DOMAIN a, NEW k \in 0..MaxKey
    PROVE  /\ IsWith(a, i, k, With(a, i, k))
           /\ Cardinality(DOMAIN With(a, i, k)) = Cardinality(DOMAIN a) + 1
           /\ \A v : UpTo(With(a, i, k), v) = UpTo(a, v) \cup (IF k <= v THEN {i} ELSE {})
           /\ \A v : Cardinality(UpTo(With(a, i, k), v))
                       = Cardinality(UpTo(a, v)) + (IF k <= v THEN 1 ELSE 0)
<1> DEFINE b == With(a, i, k)
<1>1. IsWith(a, i, k, b)
  BY WithIs
<1> HIDE DEF b
<1>2. DOMAIN b = DOMAIN a \cup {i} /\ b[i] = k /\ \A j \in DOMAIN a : b[j] = a[j]
  BY <1>1 DEF IsWith
<1>3. Cardinality(DOMAIN b) = Cardinality(DOMAIN a) + 1
  BY <1>2, WindowSize, FS_AddElement
<1>4. \A v : UpTo(b, v) = UpTo(a, v) \cup (IF k <= v THEN {i} ELSE {})
  BY <1>2 DEF UpTo
<1>5. ASSUME NEW v
      PROVE  Cardinality(UpTo(b, v)) = Cardinality(UpTo(a, v)) + (IF k <= v THEN 1 ELSE 0)
  <2>1. /\ i \notin UpTo(a, v) /\ IsFiniteSet(UpTo(a, v)) /\ Cardinality(UpTo(a, v)) \in Nat
    BY UpToIs
  <2>2. CASE k <= v
    <3>1. UpTo(b, v) = UpTo(a, v) \cup {i}
      BY <1>4, <2>2
    <3>2. Cardinality(UpTo(a, v) \cup {i}) = Cardinality(UpTo(a, v)) + 1
      BY <2>1, FS_AddElement
    <3> QED BY <2>2, <3>1, <3>2
  <2>3. CASE ~(k <= v)
    <3>1. UpTo(b, v) = UpTo(a, v)
      BY <1>4, <2>3
    <3> QED BY <2>1, <2>3, <3>1
  <2> QED BY <2>2, <2>3
<1> QED BY <1>1, <1>3, <1>4, <1>5 DEF b

\* A window that one row behind too few of its own is put into: nothing else
\* is behind too few then.
Outside(a, r) == {i \in Covered \ (DOMAIN a \cup {r}) : ~InFlight(i)}
Repairs(a, b, r, n) ==
    /\ b \in Windows
    /\ \/ b = a
       \/ \E i \in Outside(a, r) : Ahead(a, i) < n /\ b = With(a, i, row[i])
    /\ \A i \in Outside(b, r) : Ahead(b, i) >= n

LEMMA Repaired ==
    ASSUME EngineTyped, NEW a \in Windows, NEW r, NEW n \in Nat,
           \A i \in Outside(a, r) : Ahead(a, i) + 1 >= n
    PROVE  \E b : Repairs(a, b, r, n)
<1> DEFINE S == {i \in Outside(a, r) : Ahead(a, i) < n}
<1>1. \A i \in Outside(a, r) : i \in Id \ DOMAIN a /\ row[i] \in 0..MaxKey /\ Ahead(a, i) \in Nat
  BY KeyFacts, UpToIs DEF Outside, Covered, Ahead
<1>2. CASE S = {}
  <2>1. \A i \in Outside(a, r) : Ahead(a, i) >= n
    BY <1>1, <1>2
  <2> QED BY <2>1 DEF Repairs
<1>3. CASE S # {}
  <2>1. PICK x \in S : \A y \in S : row[x] <= row[y]
    <3>1. S \in SUBSET Id
      BY <1>1
    <3> HIDE DEF S
    <3> QED BY <1>3, <3>1, FirstRow
  <2> DEFINE b == With(a, x, row[x])
  <2>2. x \in Outside(a, r) /\ x \in Id \ DOMAIN a /\ row[x] \in 0..MaxKey /\ Ahead(a, x) < n
    BY <1>1
  <2>3. /\ IsWith(a, x, row[x], b)
        /\ \A v : Cardinality(UpTo(b, v))
                       = Cardinality(UpTo(a, v)) + (IF row[x] <= v THEN 1 ELSE 0)
    BY <2>2, OneMore
  <2> HIDE DEF b
  <2>4. ASSUME NEW i \in Outside(b, r)
        PROVE  Ahead(b, i) >= n
    <3>1. i \in Outside(a, r)
      BY <2>3 DEF Outside, IsWith
    <3>2. Ahead(a, i) \in Nat /\ Ahead(a, i) + 1 >= n
      BY <1>1, <3>1
    <3>3. Ahead(b, i) = Ahead(a, i) + (IF row[x] <= row[i] THEN 1 ELSE 0)
      BY <2>3 DEF Ahead
    <3>4. Ahead(a, i) < n => row[x] <= row[i]
      BY <2>1, <3>1
    <3> QED BY <3>2, <3>3, <3>4
  <2>5. b \in Windows /\ b = With(a, x, row[x])
    BY <2>3 DEF IsWith, b
  <2> QED BY <2>2, <2>4, <2>5 DEF Repairs
<1> QED BY <1>2, <1>3

\* What the event tells of the record is how it is stored, if it could be read.
Tells == /\ Rec.id \in Id
         /\ Matches(Post) => Post = row[Rec.id]
         /\ Matches(row[Rec.id]) => Matches(Post) \/ Rec.id \in missed

\* The record set aside: a window of the other records that lacks no more.
Spare(b) ==
    /\ b \in Windows /\ Rec.id \notin DOMAIN b
    /\ \A j \in DOMAIN sub.entries \ {Rec.id} : j \in DOMAIN b /\ b[j] = sub.entries[j]
    /\ \A j \in DOMAIN b \ DOMAIN sub.entries : Awaited(b, j)
    /\ Cardinality(DOMAIN b) <= Cardinality(DOMAIN sub.entries) + strayed + Short
    /\ \A i \in Outside(b, Rec.id) : Ahead(b, i) >= Needed

\* A window that answers the query once `e' is held, with so many rows more.
Serves(b, e, most, n) ==
    /\ b \in Windows
    /\ \A j \in DOMAIN e : j \in DOMAIN b /\ b[j] = e[j]
    /\ \A j \in DOMAIN b \ DOMAIN e : j # Rec.id /\ Awaited(b, j)
    /\ Cardinality(DOMAIN b) <= Cardinality(DOMAIN e) + most
    /\ \A i \in Outside(b, Rec.id) : Ahead(b, i) >= n
    /\ Rec.id \in Covered \ DOMAIN b => Rec.id \in missed \/ Ahead(b, Rec.id) >= n

LEMMA CountFacts ==
    ASSUME EngineTyped
    PROVE  /\ Short \in Nat /\ Needed \in Nat /\ sub.limit <= Needed /\ Needed <= sub.limit + 1
           /\ sub.limit \in Nat /\ sub.lost \in Nat /\ strayed \in Nat
           /\ sub.entries \in Windows /\ DOMAIN sub.entries \subseteq Id
           /\ Cardinality(DOMAIN sub.entries) \in Nat
BY SubFields, WindowSize DEF Short, Needed, EngineTyped

LEMMA AnswersIs ==
    ASSUME EngineTyped, NEW a, Answers(a), NEW r
    PROVE  /\ a \in Windows /\ DOMAIN a \subseteq Id /\ Cardinality(DOMAIN a) \in Nat
           /\ \A j \in DOMAIN a : a[j] \in 0..MaxKey
           /\ \A j \in DOMAIN sub.entries : j \in DOMAIN a /\ a[j] = sub.entries[j]
           /\ \A j \in DOMAIN a \ DOMAIN sub.entries : Awaited(a, j)
           /\ Cardinality(DOMAIN a) <= Cardinality(DOMAIN sub.entries) + strayed + Short
           /\ \A i \in Outside(a, r) : Ahead(a, i) >= Needed
<1>1. a \in Windows
  BY DEF Answers
<1>2. \A i \in Outside(a, r) : Ahead(a, i) >= Needed
  BY DEF Answers, Outside
<1> QED BY <1>1, <1>2, WindowIs, WindowSize DEF Answers

\* A row out of a window.
LEMMA OneLess ==
    ASSUME EngineTyped, NEW a \in Windows, NEW r \in DOMAIN a
    PROVE  /\ Without(a, {r}) \in Windows
           /\ DOMAIN Without(a, {r}) = DOMAIN a \ {r}
           /\ \A j \in DOMAIN a \ {r} : Without(a, {r})[j] = a[j]
           /\ Cardinality(DOMAIN Without(a, {r})) = Cardinality(DOMAIN a) - 1
           /\ \A i : /\ Ahead(a, i) \in Nat /\ Ahead(Without(a, {r}), i) \in Nat
                     /\ Ahead(Without(a, {r}), i) + 1 >= Ahead(a, i)
           /\ \A i : ~(a[r] <= row[i]) => Ahead(Without(a, {r}), i) = Ahead(a, i)
<1> DEFINE c == Without(a, {r})
<1>1. c \in Windows /\ DOMAIN c = DOMAIN a \ {r} /\ \A j \in DOMAIN a \ {r} : c[j] = a[j]
  BY WithoutIs
<1> HIDE DEF c
<1>2. Cardinality(DOMAIN c) = Cardinality(DOMAIN a) - 1
  BY <1>1, WindowSize, FS_RemoveElement
<1>3. ASSUME NEW i
      PROVE  /\ Ahead(a, i) \in Nat /\ Ahead(c, i) \in Nat /\ Ahead(c, i) + 1 >= Ahead(a, i)
             /\ ~(a[r] <= row[i]) => Ahead(c, i) = Ahead(a, i)
  <2>1. UpTo(a, row[i]) \subseteq UpTo(c, row[i]) \cup {r}
    BY <1>1 DEF UpTo
  <2>2. IsFiniteSet(UpTo(c, row[i]))
    BY <1>1, UpToIs
  <2>3. ~(a[r] <= row[i]) => UpTo(c, row[i]) = UpTo(a, row[i])
    BY <1>1 DEF UpTo
  <2>4. /\ Cardinality(UpTo(a, row[i])) \in Nat /\ Cardinality(UpTo(c, row[i])) \in Nat
        /\ Cardinality(UpTo(a, row[i])) <= Cardinality(UpTo(c, row[i])) + 1
    BY <2>1, <2>2, Fewer
  <2> QED BY <2>3, <2>4 DEF Ahead
<1> QED BY <1>1, <1>2, <1>3 DEF c

LEMMA SpareIs ==
    ASSUME EngineTyped, Rec.id \in Id, NEW a, Answers(a)
    PROVE  \E b : Spare(b)
<1>1. /\ a \in Windows /\ DOMAIN a \subseteq Id /\ Cardinality(DOMAIN a) \in Nat
      /\ \A j \in DOMAIN sub.entries : j \in DOMAIN a /\ a[j] = sub.entries[j]
      /\ \A j \in DOMAIN a \ DOMAIN sub.entries : Awaited(a, j)
      /\ Cardinality(DOMAIN a) <= Cardinality(DOMAIN sub.entries) + strayed + Short
      /\ \A i \in Outside(a, Rec.id) : Ahead(a, i) >= Needed
  BY AnswersIs
<1>2. CASE Rec.id \notin DOMAIN a
  BY <1>1, <1>2 DEF Spare
<1>3. CASE Rec.id \in DOMAIN a
  <2> DEFINE c == Without(a, {Rec.id})
  <2>1. /\ c \in Windows /\ DOMAIN c = DOMAIN a \ {Rec.id}
        /\ \A j \in DOMAIN a \ {Rec.id} : c[j] = a[j]
        /\ Cardinality(DOMAIN c) = Cardinality(DOMAIN a) - 1
        /\ \A i : Ahead(a, i) \in Nat /\ Ahead(c, i) \in Nat /\ Ahead(c, i) + 1 >= Ahead(a, i)
    BY <1>1, <1>3, OneLess
  <2> HIDE DEF c
  <2>2. Outside(c, Rec.id) \subseteq Outside(a, Rec.id)
    BY <2>1 DEF Outside
  <2>3. \A i \in Outside(c, Rec.id) : Ahead(c, i) + 1 >= Needed
    BY <1>1, <2>1, <2>2, CountFacts
  <2>4. PICK b : Repairs(c, b, Rec.id, Needed)
    BY <2>1, <2>3, CountFacts, Repaired
  <2>5. b \in Windows /\ \A i \in Outside(b, Rec.id) : Ahead(b, i) >= Needed
    BY <2>4 DEF Repairs
  <2>6. CASE b = c
    <3>1. \A j \in DOMAIN b \ DOMAIN sub.entries : Awaited(b, j)
      BY <1>1, <2>1, <2>6 DEF Awaited
    <3> QED BY <1>1, <2>1, <2>5, <2>6, <3>1, CountFacts DEF Spare
  <2>7. CASE b # c
    <3>1. PICK i \in Outside(c, Rec.id) : b = With(c, i, row[i])
      BY <2>4, <2>7 DEF Repairs
    <3>2. /\ i \in Id \ DOMAIN c /\ i # Rec.id /\ row[i] \in 0..MaxKey
          /\ Matches(row[i]) /\ sub.scope \in {Owner[i], All}
      BY KeyFacts DEF Outside, Covered
    <3>3. /\ IsWith(c, i, row[i], b)
          /\ Cardinality(DOMAIN b) = Cardinality(DOMAIN c) + 1
      BY <2>1, <3>1, <3>2, OneMore
    <3>4. DOMAIN b = DOMAIN c \cup {i} /\ b[i] = row[i] /\ \A j \in DOMAIN c : b[j] = c[j]
      BY <3>2, <3>3 DEF IsWith
    <3>5. ASSUME NEW j \in DOMAIN b \ DOMAIN sub.entries
          PROVE  Awaited(b, j)
      <4>1. CASE j = i
        BY <3>2, <3>4, <4>1 DEF Awaited
      <4>2. CASE j # i
        <5>1. j \in DOMAIN a \ DOMAIN sub.entries /\ b[j] = a[j]
          BY <2>1, <3>4, <4>2
        <5>2. Awaited(a, j)
          BY <1>1, <5>1
        <5> QED BY <5>1, <5>2 DEF Awaited
      <4> QED BY <4>1, <4>2
    <3>6. Cardinality(DOMAIN b) = Cardinality(DOMAIN a)
      BY <1>1, <2>1, <3>3
    <3>7. Rec.id \notin DOMAIN b /\ \A j \in DOMAIN sub.entries \ {Rec.id} : j \in DOMAIN b /\ b[j] = sub.entries[j]
      BY <1>1, <2>1, <3>2, <3>4
    <3> QED BY <1>1, <2>5, <3>5, <3>6, <3>7 DEF Spare
  <2> QED BY <2>6, <2>7
<1> QED BY <1>2, <1>3

\* A record that changes nothing is not owed, or comes behind a full window.
LEMMA SkipServes ==
    ASSUME EngineTyped, Bounded, Windowed, Tells, NEW b, Spare(b), Ignored(sub.maxRef)
    PROVE  Serves(b, sub.entries, strayed + Short, Needed)
<1>1. /\ b \in Windows /\ Rec.id \notin DOMAIN b
      /\ \A j \in DOMAIN sub.entries \ {Rec.id} : j \in DOMAIN b /\ b[j] = sub.entries[j]
      /\ \A j \in DOMAIN b \ DOMAIN sub.entries : Awaited(b, j)
      /\ Cardinality(DOMAIN b) <= Cardinality(DOMAIN sub.entries) + strayed + Short
      /\ \A i \in Outside(b, Rec.id) : Ahead(b, i) >= Needed
  BY DEF Spare
<1>2. Rec.id \in Id /\ Rec.id \notin DOMAIN sub.entries
  BY DEF Tells, Ignored
<1>3. ASSUME Rec.id \in Covered, Rec.id \notin missed
      PROVE  Ahead(b, Rec.id) >= Needed
  <2>1. Matches(row[Rec.id]) /\ Post = row[Rec.id] /\ Full(sub.entries)
        /\ Post >= sub.entries[sub.maxRef]
    BY <1>3 DEF Covered, Tells, Ignored
  <2>2. /\ sub.maxRef \in DOMAIN sub.entries
        /\ \A j \in DOMAIN sub.entries : sub.entries[j] <= sub.entries[sub.maxRef]
    BY <2>1 DEF Bounded, Largest
  <2>3. \A j \in DOMAIN sub.entries : sub.entries[j] \in Nat
    BY CountFacts, WindowIs, KeyFacts
  <2>4. row[Rec.id] \in Nat
    BY <2>1, KeyFacts
  <2>5. DOMAIN sub.entries \subseteq UpTo(b, row[Rec.id])
    BY <1>1, <1>2, <2>1, <2>2, <2>3, <2>4 DEF UpTo
  <2>6. IsFiniteSet(UpTo(b, row[Rec.id])) /\ Cardinality(UpTo(b, row[Rec.id])) \in Nat
    BY <1>1, UpToIs
  <2>7. Cardinality(DOMAIN sub.entries) <= Ahead(b, Rec.id)
    BY <2>5, <2>6, FS_Subset DEF Ahead
  <2>8. Cardinality(DOMAIN sub.entries) = sub.limit + 1
    BY <2>1 DEF Full
  <2> QED BY <2>6, <2>7, <2>8, CountFacts DEF Ahead
<1>4. \A j \in DOMAIN sub.entries : j \in DOMAIN b /\ b[j] = sub.entries[j]
  BY <1>1, <1>2
<1>5. Cardinality(DOMAIN b) <= Cardinality(DOMAIN sub.entries) + (strayed + Short)
  BY <1>1, CountFacts, WindowSize
<1>6. \A j \in DOMAIN b \ DOMAIN sub.entries : j # Rec.id /\ Awaited(b, j)
  BY <1>1
<1> QED BY <1>1, <1>3, <1>4, <1>5, <1>6 DEF Serves

\* A held record moves: if the window lacks a row then, the record passed it.
LEMMA UpdateServes ==
    ASSUME EngineTyped, Windowed, Tells, NEW a, Answers(a), Rec.id \in DOMAIN sub.entries,
           Matches(Post)
    PROVE  \E b : Serves(b, With(sub.entries, Rec.id, Post),
                         strayed + (IF Passed(Rec.id, Post) THEN 1 ELSE 0) + Short, Needed)
<1> DEFINE r == Rec.id
           e == With(sub.entries, r, Post)
           c == With(a, r, Post)
<1>1. /\ a \in Windows /\ DOMAIN a \subseteq Id /\ Cardinality(DOMAIN a) \in Nat
      /\ \A j \in DOMAIN a : a[j] \in 0..MaxKey
      /\ \A j \in DOMAIN sub.entries : j \in DOMAIN a /\ a[j] = sub.entries[j]
      /\ \A j \in DOMAIN a \ DOMAIN sub.entries : Awaited(a, j)
      /\ Cardinality(DOMAIN a) <= Cardinality(DOMAIN sub.entries) + strayed + Short
      /\ \A i \in Outside(a, r) : Ahead(a, i) >= Needed
  BY AnswersIs
<1>2. r \in Id /\ Post = row[r] /\ Post \in 0..MaxKey /\ Post \in Nat /\ r \in DOMAIN a
  BY <1>1, KeyFacts DEF Tells
<1>3. /\ e \in Windows /\ DOMAIN e = DOMAIN sub.entries /\ e[r] = Post
      /\ \A j \in DOMAIN sub.entries \ {r} : e[j] = sub.entries[j]
  <2>1. IsWith(sub.entries, r, Post, e)
    BY <1>2, CountFacts, WithIs
  <2>2. DOMAIN sub.entries \cup {r} = DOMAIN sub.entries
    OBVIOUS
  <2> HIDE DEF e
  <2> QED BY <2>1, <2>2 DEF IsWith
<1>4. /\ c \in Windows /\ DOMAIN c = DOMAIN a /\ c[r] = Post
      /\ \A j \in DOMAIN a \ {r} : c[j] = a[j]
  <2>1. IsWith(a, r, Post, c)
    BY <1>1, <1>2, WithIs
  <2>2. DOMAIN a \cup {r} = DOMAIN a
    BY <1>2
  <2> HIDE DEF c
  <2> QED BY <2>1, <2>2 DEF IsWith
<1> HIDE DEF e, c
<1>5. Outside(c, r) = Outside(a, r)
  BY <1>4 DEF Outside
<1>6. ASSUME NEW i \in Outside(a, r)
      PROVE  /\ Ahead(a, i) \in Nat /\ Ahead(c, i) \in Nat /\ Ahead(c, i) + 1 >= Ahead(a, i)
             /\ Ahead(c, i) >= Ahead(a, i) \/ (a[r] <= row[i] /\ ~(Post <= row[i]))
  <2>1. UpTo(a, row[i]) \subseteq UpTo(c, row[i]) \cup {r}
    BY <1>4 DEF UpTo
  <2>2. IsFiniteSet(UpTo(c, row[i]))
    BY <1>4, UpToIs
  <2>3. UpTo(a, row[i]) \subseteq UpTo(c, row[i]) \/ (a[r] <= row[i] /\ ~(Post <= row[i]))
    BY <1>4, <1>2 DEF UpTo
  <2>4. /\ Cardinality(UpTo(a, row[i])) \in Nat /\ Cardinality(UpTo(c, row[i])) \in Nat
        /\ Cardinality(UpTo(a, row[i])) <= Cardinality(UpTo(c, row[i])) + 1
        /\ UpTo(a, row[i]) \subseteq UpTo(c, row[i])
             => Cardinality(UpTo(a, row[i])) <= Cardinality(UpTo(c, row[i]))
    BY <2>1, <2>2, Fewer
  <2> QED BY <2>3, <2>4 DEF Ahead
<1>7. \A i \in Outside(c, r) : Ahead(c, i) + 1 >= Needed
  BY <1>1, <1>5, <1>6, CountFacts
<1>8. PICK b : Repairs(c, b, r, Needed)
  BY <1>4, <1>7, CountFacts, Repaired
<1>9. b \in Windows /\ \A i \in Outside(b, r) : Ahead(b, i) >= Needed
  BY <1>8 DEF Repairs
<1>10. CASE b = c
  <2>1. \A j \in DOMAIN e : j \in DOMAIN b /\ b[j] = e[j]
    BY <1>1, <1>3, <1>4, <1>10
  <2>2. \A j \in DOMAIN b \ DOMAIN e : j # r /\ Awaited(b, j)
    BY <1>1, <1>3, <1>4, <1>10 DEF Awaited
  <2>3. Cardinality(DOMAIN b) <= Cardinality(DOMAIN e) + (strayed + (IF Passed(r, Post) THEN 1 ELSE 0) + Short)
    BY <1>1, <1>3, <1>4, <1>10, CountFacts
  <2>4. r \in DOMAIN b
    BY <1>2, <1>4, <1>10
  <2> QED BY <1>9, <2>1, <2>2, <2>3, <2>4 DEF Serves, e
<1>11. CASE b # c
  <2>1. PICK x \in Outside(c, r) : Ahead(c, x) < Needed /\ b = With(c, x, row[x])
    BY <1>8, <1>11 DEF Repairs
  <2>2. /\ x \in Id \ DOMAIN c /\ x # r /\ row[x] \in 0..MaxKey
        /\ Matches(row[x]) /\ sub.scope \in {Owner[x], All}
    BY KeyFacts DEF Outside, Covered
  <2>3. /\ IsWith(c, x, row[x], b)
        /\ Cardinality(DOMAIN b) = Cardinality(DOMAIN c) + 1
    BY <1>4, <2>1, <2>2, OneMore
  <2>4. DOMAIN b = DOMAIN c \cup {x} /\ b[x] = row[x] /\ \A j \in DOMAIN c : b[j] = c[j]
    BY <2>2, <2>3 DEF IsWith
  <2>5. a[r] <= row[x] /\ ~(Post <= row[x])
    <3>1. x \in Outside(a, r) /\ Ahead(a, x) >= Needed
      BY <1>1, <1>5
    <3>2. /\ Ahead(a, x) \in Nat /\ Ahead(c, x) \in Nat
          /\ Ahead(c, x) >= Ahead(a, x) \/ (a[r] <= row[x] /\ ~(Post <= row[x]))
      BY <1>6, <3>1
    <3> QED BY <2>1, <3>1, <3>2, CountFacts
  <2>6. Passed(r, Post)
    <3>1. x \in Id \ DOMAIN sub.entries
      BY <1>1, <1>4, <2>2
    <3>2. sub.entries[r] <= row[x] /\ row[x] <= Post
      BY <1>1, <1>2, <2>2, <2>5
    <3> QED BY <2>2, <3>1, <3>2 DEF Passed
  <2>7. \A j \in DOMAIN e : j \in DOMAIN b /\ b[j] = e[j]
    BY <1>1, <1>3, <1>4, <2>4
  <2>8. ASSUME NEW j \in DOMAIN b \ DOMAIN e
        PROVE  j # r /\ Awaited(b, j)
    <3>1. CASE j = x
      BY <2>2, <2>4, <3>1 DEF Awaited
    <3>2. CASE j # x
      <4>1. j \in DOMAIN a \ DOMAIN sub.entries /\ j # r /\ b[j] = a[j]
        BY <1>3, <1>4, <2>4, <3>2
      <4>2. Awaited(a, j)
        BY <1>1, <4>1
      <4> QED BY <4>1, <4>2 DEF Awaited
    <3> QED BY <3>1, <3>2
  <2>9. Cardinality(DOMAIN b) <= Cardinality(DOMAIN e) + (strayed + (IF Passed(r, Post) THEN 1 ELSE 0) + Short)
    BY <1>1, <1>3, <1>4, <2>3, <2>6, CountFacts
  <2>10. r \in DOMAIN b
    BY <1>2, <1>4, <2>4
  <2> QED BY <1>9, <2>7, <2>8, <2>9, <2>10 DEF Serves, e
<1> QED BY <1>10, <1>11

\* A record leaves: the first loss takes the row a window holds beyond its
\* limit, and each further one is counted.
LEMMA LeaveServes ==
    ASSUME EngineTyped, Windowed, Tells, NEW a, Answers(a), Rec.id \in DOMAIN sub.entries,
           ~Matches(Post)
    PROVE  \E b : Serves(b, Without(sub.entries, {Rec.id}), strayed + sub.lost, sub.limit)
<1> DEFINE r == Rec.id
           e == Without(sub.entries, {r})
<1>1. /\ a \in Windows /\ DOMAIN a \subseteq Id /\ Cardinality(DOMAIN a) \in Nat
      /\ \A j \in DOMAIN a : a[j] \in 0..MaxKey
      /\ \A j \in DOMAIN sub.entries : j \in DOMAIN a /\ a[j] = sub.entries[j]
      /\ \A j \in DOMAIN a \ DOMAIN sub.entries : Awaited(a, j)
      /\ Cardinality(DOMAIN a) <= Cardinality(DOMAIN sub.entries) + strayed + Short
      /\ \A i \in Outside(a, r) : Ahead(a, i) >= Needed
  BY AnswersIs
<1>2. r \in Id /\ (r \in Covered => r \in missed)
  BY DEF Tells, Covered
<1>3. /\ e \in Windows /\ DOMAIN e = DOMAIN sub.entries \ {r}
      /\ \A j \in DOMAIN sub.entries \ {r} : e[j] = sub.entries[j]
      /\ Cardinality(DOMAIN e) = Cardinality(DOMAIN sub.entries) - 1
  BY CountFacts, OneLess
<1> HIDE DEF e
<1>4. CASE sub.lost = 0
  <2> DEFINE b == Without(a, {r})
  <2>1. /\ b \in Windows /\ DOMAIN b = DOMAIN a \ {r}
        /\ \A j \in DOMAIN a \ {r} : b[j] = a[j]
        /\ Cardinality(DOMAIN b) = Cardinality(DOMAIN a) - 1
        /\ \A i : Ahead(a, i) \in Nat /\ Ahead(b, i) \in Nat /\ Ahead(b, i) + 1 >= Ahead(a, i)
    BY <1>1, OneLess
  <2> HIDE DEF b
  <2>2. \A j \in DOMAIN e : j \in DOMAIN b /\ b[j] = e[j]
    BY <1>1, <1>3, <2>1
  <2>3. \A j \in DOMAIN b \ DOMAIN e : j # r /\ Awaited(b, j)
    BY <1>1, <1>3, <2>1 DEF Awaited
  <2>4. Short = 0 /\ Needed = sub.limit + 1
    BY <1>4 DEF Short, Needed
  <2>5. Cardinality(DOMAIN b) <= Cardinality(DOMAIN e) + (strayed + sub.lost)
    BY <1>1, <1>3, <1>4, <2>1, <2>4, CountFacts
  <2>6. ASSUME NEW i \in Outside(b, r) PROVE Ahead(b, i) >= sub.limit
    <3>1. i \in Outside(a, r)
      BY <2>1 DEF Outside
    <3>2. Ahead(a, i) >= sub.limit + 1
      BY <1>1, <2>4, <3>1
    <3> QED BY <2>1, <3>2, CountFacts
  <2> QED BY <1>2, <2>1, <2>2, <2>3, <2>5, <2>6 DEF Serves, e
<1>5. CASE sub.lost # 0
  <2>1. PICK b : Spare(b)
    BY <1>2, SpareIs
  <2>2. /\ b \in Windows /\ r \notin DOMAIN b
        /\ \A j \in DOMAIN sub.entries \ {r} : j \in DOMAIN b /\ b[j] = sub.entries[j]
        /\ \A j \in DOMAIN b \ DOMAIN sub.entries : Awaited(b, j)
        /\ Cardinality(DOMAIN b) <= Cardinality(DOMAIN sub.entries) + strayed + Short
        /\ \A i \in Outside(b, r) : Ahead(b, i) >= Needed
    BY <2>1 DEF Spare
  <2>3. Short = sub.lost - 1 /\ Needed = sub.limit
    BY <1>5 DEF Short, Needed
  <2>4. \A j \in DOMAIN e : j \in DOMAIN b /\ b[j] = e[j]
    BY <1>3, <2>2
  <2>5. \A j \in DOMAIN b \ DOMAIN e : j # r /\ Awaited(b, j)
    BY <1>3, <2>2
  <2>6. Cardinality(DOMAIN b) <= Cardinality(DOMAIN e) + (strayed + sub.lost)
    BY <1>3, <2>2, <2>3, CountFacts, WindowSize
  <2>7. \A i \in Outside(b, r) : Ahead(b, i) >= sub.limit
    BY <2>2, <2>3
  <2> QED BY <1>2, <2>2, <2>4, <2>5, <2>6, <2>7 DEF Serves, e
<1> QED BY <1>4, <1>5

\* A record enters; at capacity the sentinel it puts out is behind a window.
LEMMA JoinServes ==
    ASSUME EngineTyped, Bounded, Held, Shown, Windowed, Tells, NEW s, Spare(s),
           Rec.id \notin DOMAIN sub.entries, Matches(Post), ~Ignored(sub.maxRef)
    PROVE  \E b : Serves(b, With(IF Full(sub.entries) THEN Without(sub.entries, {sub.maxRef})
                                 ELSE sub.entries, Rec.id, Post),
                         strayed + Short, Needed)
<1> DEFINE r == Rec.id
           m == sub.maxRef
           rest == IF Full(sub.entries) THEN Without(sub.entries, {m}) ELSE sub.entries
           e == With(rest, r, Post)
           d == With(s, r, Post)
<1>1. /\ s \in Windows /\ r \notin DOMAIN s
      /\ \A j \in DOMAIN sub.entries : j \in DOMAIN s /\ s[j] = sub.entries[j]
      /\ \A j \in DOMAIN s \ DOMAIN sub.entries : Awaited(s, j)
      /\ Cardinality(DOMAIN s) <= Cardinality(DOMAIN sub.entries) + strayed + Short
      /\ \A i \in Outside(s, r) : Ahead(s, i) >= Needed
  BY DEF Spare
<1>2. r \in Id /\ Post = row[r] /\ Post \in 0..MaxKey /\ Post \in Nat
  BY KeyFacts DEF Tells
<1>3. Cardinality(DOMAIN s) \in Nat
  BY <1>1, WindowSize
<1>4. /\ d \in Windows /\ DOMAIN d = DOMAIN s \cup {r} /\ d[r] = Post
      /\ \A j \in DOMAIN s : d[j] = s[j]
      /\ Cardinality(DOMAIN d) = Cardinality(DOMAIN s) + 1
      /\ \A v : Cardinality(UpTo(d, v)) = Cardinality(UpTo(s, v)) + (IF Post <= v THEN 1 ELSE 0)
  <2>1. r \in Id \ DOMAIN s
    BY <1>1, <1>2
  <2>2. /\ IsWith(s, r, Post, d)
        /\ Cardinality(DOMAIN d) = Cardinality(DOMAIN s) + 1
        /\ \A v : Cardinality(UpTo(d, v)) = Cardinality(UpTo(s, v)) + (IF Post <= v THEN 1 ELSE 0)
    BY <1>1, <1>2, <2>1, OneMore
  <2> HIDE DEF d
  <2> QED BY <1>1, <2>2 DEF IsWith
<1>5. \A i : Ahead(s, i) \in Nat
  BY <1>1, UpToIs DEF Ahead
<1>6. CASE ~Full(sub.entries)
  <2>1. rest = sub.entries
    BY <1>6
  <2> HIDE DEF d
  <2>2. /\ e \in Windows /\ DOMAIN e = DOMAIN sub.entries \cup {r} /\ e[r] = Post
        /\ \A j \in DOMAIN sub.entries : e[j] = sub.entries[j]
        /\ Cardinality(DOMAIN e) = Cardinality(DOMAIN sub.entries) + 1
    <3>1. IsWith(sub.entries, r, Post, With(sub.entries, r, Post))
          /\ Cardinality(DOMAIN With(sub.entries, r, Post)) = Cardinality(DOMAIN sub.entries) + 1
      BY <1>2, CountFacts, OneMore
    <3> QED BY <2>1, <3>1 DEF IsWith
  <2> HIDE DEF e
  <2>3. \A j \in DOMAIN e : j \in DOMAIN d /\ d[j] = e[j]
    BY <1>1, <1>4, <2>2
  <2>4. \A j \in DOMAIN d \ DOMAIN e : j # r /\ Awaited(d, j)
    BY <1>1, <1>4, <2>2 DEF Awaited
  <2>5. Cardinality(DOMAIN d) <= Cardinality(DOMAIN e) + (strayed + Short)
    BY <1>1, <1>3, <1>4, <2>2, CountFacts
  <2>6. ASSUME NEW i \in Outside(d, r) PROVE Ahead(d, i) >= Needed
    <3>1. i \in Outside(s, r)
      BY <1>4 DEF Outside
    <3>2. Ahead(d, i) = Ahead(s, i) + (IF Post <= row[i] THEN 1 ELSE 0)
      BY <1>4 DEF Ahead
    <3> QED BY <1>1, <1>5, <3>1, <3>2, CountFacts
  <2>7. r \in DOMAIN d
    BY <1>4
  <2> QED BY <1>4, <2>3, <2>4, <2>5, <2>6, <2>7 DEF Serves, e
<1>7. CASE Full(sub.entries)
  <2> DEFINE b == Without(d, {m})
  <2>1. /\ m \in DOMAIN sub.entries /\ \A j \in DOMAIN sub.entries : sub.entries[j] <= sub.entries[m]
        /\ \A j \in DOMAIN sub.entries : sub.entries[j] \in Nat
        /\ Post < sub.entries[m] /\ m # r /\ m \in Id
        /\ Cardinality(DOMAIN sub.entries) = sub.limit + 1
    <3>1. m \in DOMAIN sub.entries /\ \A j \in DOMAIN sub.entries : sub.entries[j] <= sub.entries[m]
      BY <1>7 DEF Bounded, Largest
    <3>2. \A j \in DOMAIN sub.entries : sub.entries[j] \in Nat
      BY CountFacts, WindowIs, KeyFacts
    <3>3. ~(Post >= sub.entries[m])
      BY <1>7 DEF Ignored
    <3> QED BY <1>2, <1>7, <3>1, <3>2, <3>3, CountFacts DEF Full
  <2>2. /\ rest = Without(sub.entries, {m}) /\ rest \in Windows /\ DOMAIN rest = DOMAIN sub.entries \ {m}
        /\ \A j \in DOMAIN sub.entries \ {m} : rest[j] = sub.entries[j]
        /\ Cardinality(DOMAIN rest) = sub.limit
    <3>1. rest = Without(sub.entries, {m})
      BY <1>7
    <3> HIDE DEF rest
    <3>2. /\ Without(sub.entries, {m}) \in Windows
          /\ DOMAIN Without(sub.entries, {m}) = DOMAIN sub.entries \ {m}
          /\ \A j \in DOMAIN sub.entries \ {m} : Without(sub.entries, {m})[j] = sub.entries[j]
          /\ Cardinality(DOMAIN Without(sub.entries, {m})) = Cardinality(DOMAIN sub.entries) - 1
      BY <2>1, CountFacts, OneLess
    <3>3. Cardinality(DOMAIN Without(sub.entries, {m})) = sub.limit
      BY <2>1, <3>2, CountFacts
    <3> QED BY <3>1, <3>2, <3>3, Zenon
  <2> HIDE DEF rest, d
  <2>3. /\ e \in Windows /\ DOMAIN e = (DOMAIN sub.entries \ {m}) \cup {r} /\ e[r] = Post
        /\ \A j \in DOMAIN sub.entries \ {m} : e[j] = sub.entries[j]
        /\ Cardinality(DOMAIN e) = sub.limit + 1
    <3>1. r \in Id \ DOMAIN rest
      BY <1>2, <2>2
    <3>2. IsWith(rest, r, Post, e) /\ Cardinality(DOMAIN e) = Cardinality(DOMAIN rest) + 1
      BY <1>2, <2>2, <3>1, OneMore
    <3> HIDE DEF e
    <3> QED BY <2>2, <3>1, <3>2 DEF IsWith
  <2> HIDE DEF e
  <2>4. m \in DOMAIN d /\ d[m] = sub.entries[m]
    BY <1>1, <1>4, <2>1
  <2>5. /\ b \in Windows /\ DOMAIN b = DOMAIN d \ {m}
        /\ \A j \in DOMAIN d \ {m} : b[j] = d[j]
        /\ Cardinality(DOMAIN b) = Cardinality(DOMAIN d) - 1
        /\ \A i : Ahead(d, i) \in Nat /\ Ahead(b, i) \in Nat /\ Ahead(b, i) + 1 >= Ahead(d, i)
        /\ \A i : ~(d[m] <= row[i]) => Ahead(b, i) = Ahead(d, i)
    BY <1>4, <2>4, OneLess
  <2> HIDE DEF b
  <2>6. \A j \in DOMAIN e : j \in DOMAIN b /\ b[j] = e[j]
    BY <1>1, <1>4, <2>1, <2>3, <2>5
  <2>7. ASSUME NEW j \in DOMAIN b \ DOMAIN e
        PROVE  j # r /\ Awaited(b, j)
    <3>1. j \in DOMAIN s \ DOMAIN sub.entries /\ j # r /\ b[j] = s[j]
      BY <1>4, <2>3, <2>5, <2>7
    <3>2. Awaited(s, j)
      BY <1>1, <3>1
    <3> QED BY <3>1, <3>2 DEF Awaited
  <2>8. Cardinality(DOMAIN b) <= Cardinality(DOMAIN e) + (strayed + Short)
    BY <1>1, <1>3, <1>4, <2>1, <2>3, <2>5, CountFacts
  <2>9. ASSUME NEW i \in Outside(b, r) PROVE Ahead(b, i) >= Needed
    <3>0. i \in Id /\ row[i] \in Nat /\ i \in Covered /\ ~InFlight(i) /\ i \notin DOMAIN b /\ i # r
      BY KeyFacts DEF Outside, Covered
    <3>1. CASE i # m
      <4>1. i \in Outside(s, r)
        BY <1>4, <2>5, <3>0, <3>1 DEF Outside
      <4>2. Ahead(d, i) = Ahead(s, i) + (IF Post <= row[i] THEN 1 ELSE 0)
        BY <1>4 DEF Ahead
      <4>3. Ahead(s, i) >= Needed
        BY <1>1, <4>1
      <4>4. CASE sub.entries[m] <= row[i]
        <5>1. Post <= row[i]
          BY <1>2, <2>1, <3>0, <4>4
        <5>2. Ahead(d, i) = Ahead(s, i) + 1 /\ Ahead(b, i) + 1 >= Ahead(d, i)
          BY <2>5, <4>2, <5>1
        <5> QED BY <1>5, <2>5, <4>3, <5>2, CountFacts
      <4>5. CASE ~(sub.entries[m] <= row[i])
        <5>1. Ahead(b, i) = Ahead(d, i)
          BY <2>4, <2>5, <4>5
        <5> QED BY <1>5, <4>2, <4>3, <5>1, CountFacts
      <4> QED BY <4>4, <4>5
    <3>2. CASE i = m
      <4>1. row[m] = sub.entries[m]
        BY <2>1, <3>0, <3>2 DEF Held, Fresh
      <4>2. DOMAIN e \subseteq UpTo(b, row[m])
        BY <1>2, <2>1, <2>3, <2>6, <4>1 DEF UpTo
      <4>3. IsFiniteSet(UpTo(b, row[m]))
        BY <2>5, UpToIs
      <4>4. Cardinality(DOMAIN e) <= Ahead(b, m)
        BY <4>2, <4>3, FS_Subset DEF Ahead
      <4> QED BY <2>3, <2>5, <3>2, <4>4, CountFacts
    <3> QED BY <3>1, <3>2
  <2>10. r \in DOMAIN b
    BY <1>4, <2>1, <2>5
  <2> QED BY <2>5, <2>6, <2>7, <2>8, <2>9, <2>10 DEF Serves, e, rest
<1> QED BY <1>6, <1>7

\* Once the event is past the record, such a window is an answer.
LEMMA ServesNext ==
    ASSUME EngineTyped, NEW b, NEW n, NEW most, NEW e, Serves(b, e, most, n),
           sub'.entries = e, e \in Windows, strayed' \in Nat, Short' \in Nat,
           most = strayed' + Short', Needed' = n,
           row' = row, sub'.scope = sub.scope, missed' = missed,
           \A i \in Id \ {Rec.id} : InFlight(i) => InFlight(i)'
    PROVE  Answers(b)'
<1>1. /\ b \in Windows /\ DOMAIN b \subseteq Id
      /\ \A j \in DOMAIN e : j \in DOMAIN b /\ b[j] = e[j]
      /\ \A j \in DOMAIN b \ DOMAIN e : j # Rec.id /\ Awaited(b, j)
      /\ \A i \in Outside(b, Rec.id) : Ahead(b, i) >= n
      /\ Rec.id \in Covered \ DOMAIN b => Rec.id \in missed \/ Ahead(b, Rec.id) >= n
      /\ Cardinality(DOMAIN b) <= Cardinality(DOMAIN e) + strayed' + Short'
  <2>1. Cardinality(DOMAIN e) + most = Cardinality(DOMAIN e) + strayed' + Short'
    BY WindowSize
  <2> QED BY <2>1, WindowIs DEF Serves
<1>2. Covered' = Covered /\ \A i : Ahead(b, i)' = Ahead(b, i)
  BY DEF Covered, Matches, Ahead, UpTo
<1>3. ASSUME NEW j \in DOMAIN b \ DOMAIN e PROVE Awaited(b, j)'
  <2>1. j \in Id \ {Rec.id} /\ Awaited(b, j)
    BY <1>1
  <2>2. InFlight(j) => InFlight(j)'
    BY <2>1
  <2> QED BY <2>1, <2>2 DEF Awaited, Matches
<1>4. ASSUME NEW i \in Covered \ DOMAIN b PROVE InFlight(i)' \/ Ahead(b, i) >= n
  <2>1. CASE i = Rec.id
    BY <1>1, <2>1 DEF InFlight
  <2>2. CASE i # Rec.id
    <3>1. i \in Id \ {Rec.id}
      BY <2>2 DEF Covered
    <3>2. InFlight(i) => InFlight(i)'
      BY <3>1
    <3>3. ~InFlight(i) => i \in Outside(b, Rec.id)
      BY <2>2 DEF Outside
    <3> QED BY <1>1, <3>2, <3>3
  <2> QED BY <2>1, <2>2
<1> QED
  <2> HIDE DEF Covered
  <2> SUFFICES /\ b \in Windows
               /\ \A j \in DOMAIN sub'.entries : j \in DOMAIN b /\ b[j] = sub'.entries[j]
               /\ \A j \in DOMAIN b \ DOMAIN sub'.entries : Awaited(b, j)'
               /\ Cardinality(DOMAIN b) <= Cardinality(DOMAIN sub'.entries) + strayed' + Short'
               /\ \A i \in Covered' \ DOMAIN b : InFlight(i)' \/ Ahead(b, i)' >= Needed'
    BY DEF Answers
  <2> QED BY <1>1, <1>2, <1>3, <1>4

\* What a limited query makes of a record.
Skipped == /\ Ignored(sub.maxRef)
           /\ sub' = sub /\ strayed' = strayed
Changed == /\ Rec.id \in DOMAIN sub.entries /\ Matches(Post)
           /\ sub'.entries = With(sub.entries, Rec.id, Post) /\ sub'.lost = sub.lost
           /\ strayed' = strayed + (IF Passed(Rec.id, Post) THEN 1 ELSE 0)
Parted  == /\ Rec.id \in DOMAIN sub.entries /\ ~Matches(Post)
           /\ sub'.entries = Without(sub.entries, {Rec.id}) /\ sub'.lost = sub.lost + 1
           /\ strayed' = strayed
Joined  == /\ Rec.id \notin DOMAIN sub.entries /\ Matches(Post) /\ ~Ignored(sub.maxRef)
           /\ sub'.entries = With(IF Full(sub.entries) THEN Without(sub.entries, {sub.maxRef})
                                  ELSE sub.entries, Rec.id, Post)
           /\ sub'.lost = sub.lost /\ strayed' = strayed

LEMMA ApplyWays ==
    ASSUME EngineTyped, Bounded, Windowed, NEW o \in Object, ApplyRecord(o)
    PROVE  Skipped \/ Changed \/ Parted \/ Joined
<1>1. strayed \in Nat /\ sub \in Subs
  BY DEF EngineTyped
<1>2. PICK m \in Looked(sub.entries, sub.maxRef) :
        \/ /\ Ignored(m)
           /\ event' = [event EXCEPT !.todo = Tail(@), !.seen = @ \cup {Rec.id}]
           /\ sub' = [sub EXCEPT !.maxRef = m]
           /\ UNCHANGED strayed
        \/ /\ ~Ignored(m)
           /\ LET t == Transition(m)
              IN  \E x \in t.maxRefs : \E m2 \in Looked(t.entries, x) :
                    /\ Classify(Sentinel(sub.entries, m), Sentinel(t.entries, m2), t.entries)
                    /\ sub' = [sub EXCEPT !.entries = t.entries, !.maxRef = m2, !.lost = t.lost]
           /\ strayed' = IF /\ Windowed /\ Rec.id \in DOMAIN sub.entries /\ Matches(Post)
                            /\ Passed(Rec.id, Post)
                         THEN strayed + 1 ELSE strayed
  BY DEF ApplyRecord
<1>3. m = sub.maxRef
  BY LookedNow
<1>4. CASE Ignored(m)
  <2>1. sub' = [sub EXCEPT !.maxRef = m] /\ strayed' = strayed
    BY <1>2, <1>4
  <2>2. sub' = sub
    BY <1>1, <1>3, <2>1 DEF Subs
  <2> QED BY <1>3, <1>4, <2>1, <2>2 DEF Skipped
<1>5. CASE ~Ignored(m)
  <2> DEFINE t == Transition(m)
  <2>1. \E x \in t.maxRefs : \E m2 \in Looked(t.entries, x) :
           sub' = [sub EXCEPT !.entries = t.entries, !.maxRef = m2, !.lost = t.lost]
    BY <1>2, <1>5
  <2>2. strayed' = IF /\ Windowed /\ Rec.id \in DOMAIN sub.entries /\ Matches(Post)
                      /\ Passed(Rec.id, Post)
                   THEN strayed + 1 ELSE strayed
    BY <1>2, <1>5, Zenon
  <2> HIDE DEF t
  <2>3. PICK m2 : sub' = [sub EXCEPT !.entries = t.entries, !.maxRef = m2, !.lost = t.lost]
    BY <2>1
  <2>4. sub'.entries = t.entries /\ sub'.lost = t.lost
    BY <1>1, <2>3 DEF Subs
  <2>5. CASE Rec.id \in DOMAIN sub.entries /\ Matches(Post)
    <3>1. t = Updated(m)
      BY <2>5 DEF t, Transition
    <3>2. Kept(Post) = Post
      BY DEF Kept
    <3>3. t.entries = With(sub.entries, Rec.id, Post) /\ t.lost = sub.lost
      BY <3>1, <3>2 DEF Updated
    <3>4. strayed' = strayed + (IF Passed(Rec.id, Post) THEN 1 ELSE 0)
      <4>1. CASE Passed(Rec.id, Post)
        BY <2>2, <2>5, <4>1
      <4>2. CASE ~Passed(Rec.id, Post)
        BY <1>1, <2>2, <4>2
      <4> QED BY <4>1, <4>2
    <3> QED BY <2>4, <2>5, <3>3, <3>4 DEF Changed
  <2>6. CASE Rec.id \in DOMAIN sub.entries /\ ~Matches(Post)
    <3>1. t = Left(m)
      BY <2>6 DEF t, Transition
    <3>2. t.entries = Without(sub.entries, {Rec.id}) /\ t.lost = sub.lost + 1
      BY <3>1 DEF Left
    <3>3. strayed' = strayed
      BY <2>2, <2>6
    <3> QED BY <2>4, <2>6, <3>2, <3>3 DEF Parted
  <2>7. CASE Rec.id \notin DOMAIN sub.entries
    <3>1. t = Entered(m)
      BY <2>7 DEF t, Transition
    <3>2. Kept(Post) = Post
      BY DEF Kept
    <3>3. t.entries = With(IF Full(sub.entries) THEN Without(sub.entries, {m})
                           ELSE sub.entries, Rec.id, Post) /\ t.lost = sub.lost
      BY <3>1, <3>2 DEF Entered
    <3>4. strayed' = strayed
      BY <2>2, <2>7
    <3>5. Matches(Post)
      BY <1>5, <2>7 DEF Ignored
    <3> QED BY <1>3, <1>5, <2>4, <2>7, <3>3, <3>4, <3>5 DEF Joined
  <2> QED BY <2>5, <2>6, <2>7
<1> QED BY <1>4, <1>5

LEMMA ApplyLacks ==
    ASSUME EngineTyped, EngineTyped', Bounded, Held, Lacks, Shown, Tells,
           NEW o \in Object, ApplyRecord(o),
           row' = row, sub'.limit = sub.limit, sub'.scope = sub.scope, missed' = missed,
           \A i \in Id \ {Rec.id} : InFlight(i) => InFlight(i)'
    PROVE  Lacks'
<1> SUFFICES ASSUME Windowed PROVE \E b : Answers(b)'
  BY DEF Lacks, Windowed
<1>1. PICK a : Answers(a)
  BY DEF Lacks
<1>2. PICK s : Spare(s)
  BY <1>1, SpareIs DEF Tells
<1>3. sub'.entries \in Windows /\ strayed' \in Nat /\ Short' \in Nat
  <2>1. sub' \in Subs /\ strayed' \in Nat
    BY DEF EngineTyped
  <2>2. sub'.lost \in Nat /\ sub'.entries \in Windows
    BY <2>1 DEF Subs
  <2> QED BY <2>1, <2>2 DEF Short
<1>4. sub.lost \in Nat /\ strayed \in Nat /\ Short \in Nat /\ sub.limit \in Nat
  BY CountFacts
<1>5. Skipped \/ Changed \/ Parted \/ Joined
  BY ApplyWays
<1>6. CASE Skipped
  <2>1. Serves(s, sub.entries, strayed + Short, Needed)
    BY <1>2, <1>6, SkipServes DEF Skipped
  <2>2. sub'.entries = sub.entries /\ strayed' = strayed /\ Short' = Short /\ Needed' = Needed
    BY <1>6 DEF Skipped, Short, Needed
  <2>3. Answers(s)'
    BY <1>3, <2>1, <2>2, ServesNext
  <2> QED BY <2>3
<1>7. CASE Changed
  <2>1. PICK b : Serves(b, With(sub.entries, Rec.id, Post),
                        strayed + (IF Passed(Rec.id, Post) THEN 1 ELSE 0) + Short, Needed)
    BY <1>1, <1>7, UpdateServes DEF Changed
  <2>2. /\ sub'.entries = With(sub.entries, Rec.id, Post)
        /\ strayed' = strayed + (IF Passed(Rec.id, Post) THEN 1 ELSE 0)
        /\ Short' = Short /\ Needed' = Needed
    BY <1>7 DEF Changed, Short, Needed
  <2>3. Serves(b, sub'.entries, strayed' + Short', Needed')
    BY <2>1, <2>2
  <2>4. Answers(b)'
    BY <1>3, <2>3, ServesNext
  <2> QED BY <2>4
<1>8. CASE Parted
  <2>1. PICK b : Serves(b, Without(sub.entries, {Rec.id}), strayed + sub.lost, sub.limit)
    BY <1>1, <1>8, LeaveServes DEF Parted
  <2>2. /\ sub'.entries = Without(sub.entries, {Rec.id}) /\ strayed' = strayed
        /\ Short' = sub.lost /\ Needed' = sub.limit
    BY <1>4, <1>8 DEF Parted, Short, Needed
  <2>3. Serves(b, sub'.entries, strayed' + Short', Needed')
    BY <2>1, <2>2
  <2>4. Answers(b)'
    BY <1>3, <2>3, ServesNext
  <2> QED BY <2>4
<1>9. CASE Joined
  <2>1. PICK b : Serves(b, With(IF Full(sub.entries) THEN Without(sub.entries, {sub.maxRef})
                                ELSE sub.entries, Rec.id, Post),
                        strayed + Short, Needed)
    BY <1>2, <1>9, JoinServes DEF Joined
  <2>2. /\ sub'.entries = With(IF Full(sub.entries) THEN Without(sub.entries, {sub.maxRef})
                               ELSE sub.entries, Rec.id, Post)
        /\ strayed' = strayed /\ Short' = Short /\ Needed' = Needed
    BY <1>9 DEF Joined, Short, Needed
  <2>3. Serves(b, sub'.entries, strayed' + Short', Needed')
    BY <2>1, <2>2
  <2>4. Answers(b)'
    BY <1>3, <2>3, ServesNext
  <2> QED BY <2>4
<1> QED BY <1>5, <1>6, <1>7, <1>8, <1>9

-----------------------------------------------------------------------------
(* The record applied, and the end of an event.                            *)

\* What is behind the first record of an event.
LEMMA TailFacts ==
    ASSUME NEW s \in Seq(Record), s # <<>>
    PROVE  /\ 1 \in DOMAIN s /\ Head(s) = s[1]
           /\ \A a \in DOMAIN Tail(s) : a + 1 \in DOMAIN s /\ Tail(s)[a] = s[a + 1] /\ a + 1 # 1
           /\ \A a \in DOMAIN s : a # 1 => a - 1 \in DOMAIN Tail(s) /\ Tail(s)[a - 1] = s[a]
           /\ \A a, b \in DOMAIN Tail(s) : a + 1 = b + 1 => a = b
OBVIOUS

LEMMA ApplyRecordInv ==
    ASSUME EngineInv, NEW o \in Object, ApplyRecord(o)
    PROVE  EngineInv'
<1> USE DEF EngineInv
<1>1. /\ mu = o /\ event.todo # <<>>
      /\ UNCHANGED <<row, deleted, apply, stamped, mu, counter, shut, view, untold, missed>>
      /\ Skips \/ Moves
      /\ event'.todo = Tail(event.todo) /\ event' \in Events
      /\ strayed' \in Nat
  BY ApplyRecordIs
<1>2. Open /\ ~shut /\ apply[o].pc = "calling" /\ sub.scope \in {o, All}
      /\ \A q \in Object : apply[q].pc = "calling" => q = o
  BY <1>1 DEF Locked
<1>3. Alike(sub')
  BY <1>1 DEF Skips, Moves, Alike, EngineTyped
<1>4. /\ sub' \in Subs /\ sub'.pc = sub.pc /\ sub'.limit = sub.limit /\ sub'.scope = sub.scope
      /\ sub'.closed = sub.closed
  BY <1>3 DEF Alike
<1>5. Windowed' = Windowed /\ Open' = Open /\ Shown' = Shown
  BY <1>4 DEF Windowed, Open, Shown, Registered
<1>6. EngineTyped'
  BY <1>1, <1>4 DEF EngineTyped
<1>7. Locked'
  BY <1>1, <1>2, <1>4, <1>5 DEF Locked, Counting
<1>8. event.todo \in Seq(Record) /\ WriterOk(o)
  BY WriterFacts, WritesIs
<1>9. Todo(o) = event.todo /\ Todo(o)' = Tail(event.todo)
  BY <1>1, <1>2 DEF Todo
<1>10. /\ 1 \in DOMAIN event.todo /\ Rec = event.todo[1] /\ Rec.id \in Id
       /\ \A a \in DOMAIN Tail(event.todo) :
             a + 1 \in DOMAIN event.todo /\ Tail(event.todo)[a] = event.todo[a + 1] /\ a + 1 # 1
       /\ \A a \in DOMAIN event.todo : a # 1 =>
             a - 1 \in DOMAIN Tail(event.todo) /\ Tail(event.todo)[a - 1] = event.todo[a]
       /\ \A a, b \in DOMAIN Tail(event.todo) : a + 1 = b + 1 => a = b
  BY <1>1, <1>8, TailFacts, HeadFacts DEF Rec
<1>11. /\ \A a \in DOMAIN event.todo :
             /\ Owner[event.todo[a].id] = o
             /\ event.todo[a].deleted => row[event.todo[a].id] \in {Gone, Dead}
             /\ \A b \in DOMAIN event.todo : event.todo[a].id = event.todo[b].id => a = b
  BY <1>8, <1>9 DEF WriterOk, Of
<1>12. Owner[Rec.id] = o /\ (Rec.deleted => ~Matches(row[Rec.id]))
  BY <1>10, <1>11, KeyFacts
<1>13. /\ Matches(Post) => Post = row[Rec.id]
       /\ Matches(row[Rec.id]) => Matches(Post) \/ Rec.id \in missed
  BY <1>12, KeyFacts DEF Post
<1>m. \A i \in missed : InFlight(i)'
  BY <1>1 DEF InFlight, client
<1>14. Of(o, Tail(event.todo), row)
  <2> SUFFICES ASSUME NEW a \in DOMAIN Tail(event.todo)
               PROVE  /\ Owner[Tail(event.todo)[a].id] = o
                      /\ Tail(event.todo)[a].deleted => row[Tail(event.todo)[a].id] \in {Gone, Dead}
                      /\ \A b \in DOMAIN Tail(event.todo) :
                             Tail(event.todo)[a].id = Tail(event.todo)[b].id => a = b
    BY DEF Of
  <2>1. a + 1 \in DOMAIN event.todo /\ Tail(event.todo)[a] = event.todo[a + 1]
    BY <1>10
  <2> QED BY <1>10, <1>11, <2>1
<1>15. \A q \in Object \ {o} : Still(q)
  BY <1>1, <1>2 DEF Still
<1>16. Writes'
  <2>1. \A q \in Object \ {o} : WriterOk(q)'
    BY <1>15, WritesIs, WriterStill
  <2>2. Of(o, Todo(o), row)'
    BY <1>1, <1>9, <1>14
  <2>3. Batch(o)' /\ Stamps(o)' /\ Deletes(o)'
    BY <1>1, <1>8 DEF WriterOk, Batch, Stamps, Deletes
  <2>4. \A q \in Object : WriterOk(q)'
    BY <2>1, <2>2, <2>3 DEF WriterOk
  <2> QED BY <2>4 DEF Writes, WriterOk
<1>17. \A i \in Id \ {Rec.id} : InFlight(i) => InFlight(i)'
  <2> TAKE i \in Id \ {Rec.id}
  <2> SUFFICES ASSUME InFlight(i) PROVE InFlight(i)'
    OBVIOUS
  <2>1. CASE Owner[i] = o
    <3>1. CASE stamped[o] = i
      BY <1>1, <2>1, <3>1 DEF InFlight
    <3>2. CASE \E a \in DOMAIN event.todo : event.todo[a].id = i
      <4>1. PICK a \in DOMAIN event.todo : event.todo[a].id = i
        BY <3>2
      <4>2. a - 1 \in DOMAIN Tail(event.todo) /\ Tail(event.todo)[a - 1].id = i
        BY <1>10, <4>1
      <4> QED BY <1>9, <2>1, <4>2 DEF InFlight
    <3>3. CASE i \in missed
      BY <1>1, <3>3 DEF InFlight
    <3> QED BY <1>9, <2>1, <3>1, <3>2, <3>3 DEF InFlight
  <2>2. CASE Owner[i] # o
    <3>1. Owner[i] \in Object \ {o}
      BY <2>2, KeyFacts
    <3> QED BY <1>1, <1>15, <3>1, InFlightStill
  <2> QED BY <2>1, <2>2
<1>18. Current'
  BY <1>1, <1>4, <1>5 DEF Current
<1>19. Shown
  BY <1>2 DEF Shown
<1>20. Counts'
  BY <1>1, <1>2, <1>4, KeyFacts DEF Counts, Open, Registered
<1>21. Lacks'
  <2>1. Tells
    BY <1>10, <1>13 DEF Tells
  <2> QED BY <1>1, <1>4, <1>6, <1>17, <1>19, <2>1, ApplyLacks
<1>22. CASE Skips
  <2>1. /\ Rec.id \notin DOMAIN sub.entries /\ (Matches(Post) => Windowed) /\ sub' = sub
        /\ event'.set = event.set /\ event'.removed = event.removed
        /\ event'.muddled = event.muddled
    BY <1>22 DEF Skips
  <2>2. Bounded'
    BY <2>1, BoundedKept
  <2>3. Coming' = Coming /\ (\A i : Pending(i)' = Pending(i)) /\ Visible' = Visible
    BY <1>1, <1>5, <2>1 DEF Coming, Pending, Visible, Sentinel, Full
  <2>4. AllTold'
    <3>1. \A i \in Id \ (untold \cup event.muddled) : Told(i)
      BY <1>19 DEF AllTold
    <3>2. \A i \in Id \ (untold \cup event.muddled) : Told(i)'
      BY <1>5, <2>1, <2>3, <3>1 DEF Told
    <3> QED BY <1>1, <2>1, <3>2 DEF AllTold
  <2>5. Held'
    <3> SUFFICES ASSUME NEW i \in DOMAIN sub.entries
                 PROVE  sub.scope \in {Owner[i], All} /\ Fresh(i)'
      BY <2>1 DEF Held
    <3>1. sub.scope \in {Owner[i], All} /\ Fresh(i)
      BY <1>19 DEF Held
    <3>2. i \in Id \ {Rec.id}
      BY <2>1, SubFields
    <3>3. InFlight(i) => InFlight(i)'
      BY <1>17, <3>2
    <3> QED BY <1>1, <1>5, <2>1, <3>1, <3>3 DEF Fresh, Matches
  <2>6. Whole'
    <3> SUFFICES ASSUME ~Windowed PROVE Whole'
      BY <1>5 DEF Whole
    <3>1. /\ untold = {} /\ event.muddled = {}
          /\ \A a \in DOMAIN event.todo : event.todo[a].id \notin DOMAIN event.set \cup event.removed
          /\ \A i \in Covered : InFlight(i) \/ (i \in DOMAIN sub.entries /\ Pending(i) = row[i])
      BY <1>19 DEF Whole
    <3>2. \A a \in DOMAIN event'.todo : event'.todo[a].id \notin DOMAIN event'.set \cup event'.removed
      BY <1>1, <1>10, <2>1, <3>1
    <3>3. Covered' = Covered
      BY <1>1, <2>1 DEF Covered, Matches
    <3>4. ASSUME NEW i \in Covered
          PROVE  InFlight(i)' \/ (i \in DOMAIN sub'.entries /\ Pending(i)' = row'[i])
      <4>1. i \in Id \ {Rec.id} \/ (i = Rec.id /\ i \in missed)
        BY <1>13, <2>1 DEF Covered
      <4>2. InFlight(i) => InFlight(i)'
        BY <1>m, <1>17, <4>1
      <4> QED BY <1>1, <1>m, <2>1, <2>3, <3>1, <4>1, <4>2
    <3> HIDE DEF Covered
    <3> QED BY <1>1, <2>1, <3>1, <3>2, <3>3, <3>4 DEF Whole
  <2> QED BY <1>6, <1>7, <1>16, <1>18, <1>20, <1>21, <2>2, <2>4, <2>5, <2>6
<1>23. CASE Moves
  <2> DEFINE e   == sub'.entries
             old == Sentinel(sub.entries, sub.maxRef)
             new == Sentinel(sub'.entries, sub'.maxRef)
  <2>1. Moved(sub.maxRef, e, sub'.maxRef) /\ Says(e, old, new)
    BY <1>23, ClassifySays DEF Moves
  <2>2. /\ Rec.id \in DOMAIN e <=> Matches(Post)
        /\ Rec.id \in DOMAIN e => e[Rec.id] = Kept(Post)
        /\ \A j \in DOMAIN e \ {Rec.id} : j \in DOMAIN sub.entries /\ e[j] = sub.entries[j]
        /\ \A j \in DOMAIN sub.entries \ {Rec.id} : j \in DOMAIN e \/ j = old
        /\ e \in Windows
    BY <2>1 DEF Moved
  <2>3. Bounded'
    BY <1>4, <2>1 DEF Bounded, Moved, Full, Windowed, Largest
  <2>4. AllTold'
    BY <1>1, <1>19, <1>23, MovesTold
  <2>5. Held'
    <3> SUFFICES ASSUME NEW i \in DOMAIN e
                 PROVE  sub.scope \in {Owner[i], All} /\ Fresh(i)'
      BY <1>4 DEF Held
    <3>1. CASE i = Rec.id
      <4>1. Matches(row'[i]) /\ (Windowed => e[i] = row'[i])
        BY <1>1, <1>13, <2>2, <3>1 DEF Kept
      <4> QED BY <1>2, <1>5, <1>12, <3>1, <4>1 DEF Fresh, Matches
    <3>2. CASE i # Rec.id
      <4>1. i \in DOMAIN sub.entries /\ e[i] = sub.entries[i]
        BY <2>2, <3>2
      <4>2. sub.scope \in {Owner[i], All} /\ Fresh(i)
        BY <1>19, <4>1 DEF Held
      <4>3. i \in Id \ {Rec.id}
        BY <3>2, <4>1, SubFields
      <4>4. InFlight(i) => InFlight(i)'
        BY <1>17, <4>3
      <4> QED BY <1>1, <1>5, <4>1, <4>2, <4>4 DEF Fresh, Matches
    <3> QED BY <3>1, <3>2
  <2>6. Whole'
    <3> SUFFICES ASSUME ~Windowed PROVE Whole'
      BY <1>5 DEF Whole
    <3>1. /\ untold = {} /\ event.muddled = {}
          /\ \A a \in DOMAIN event.todo : event.todo[a].id \notin DOMAIN event.set \cup event.removed
          /\ \A i \in Covered : InFlight(i) \/ (i \in DOMAIN sub.entries /\ Pending(i) = row[i])
      BY <1>19 DEF Whole
    <3>2. old = NoId /\ new = NoId
      BY DEF Sentinel, Full
    <3>3. \A i : i \notin Risen(old, new, e)
      BY <3>2 DEF Risen
    <3>4. Rec.id # NoId /\ Rec.id \notin DOMAIN event.set /\ Rec.id \notin event.removed
      BY <1>10, <3>1, KeyFacts
    <3>5. /\ \A i : i \in DOMAIN event'.set <=>
                        i \in DOMAIN event.set \/ (i = Rec.id /\ Rec.id \in DOMAIN e)
          /\ \A i \in DOMAIN event'.set :
                event'.set[i] = IF i = Rec.id /\ Rec.id \in DOMAIN e THEN Post ELSE event.set[i]
          /\ \A i \in event'.removed : i \in event.removed \/ i = Rec.id
          /\ \A i : i \notin event'.muddled
      <4> HIDE DEF e, old, new
      <4> QED BY <2>1, <3>1, <3>2, <3>3, <3>4 DEF Says
    <3>6. \A a \in DOMAIN event'.todo : event'.todo[a].id \notin DOMAIN event'.set \cup event'.removed
      <4> TAKE a \in DOMAIN event'.todo
      <4>1. a + 1 \in DOMAIN event.todo /\ event'.todo[a] = event.todo[a + 1] /\ a + 1 # 1
        BY <1>1, <1>10
      <4>2. event'.todo[a].id # Rec.id
        BY <1>10, <1>11, <4>1
      <4> QED BY <3>1, <3>5, <4>1, <4>2
    <3>7. Covered' = Covered
      BY <1>1, <1>4 DEF Covered, Matches
    <3>8. ASSUME NEW i \in Covered
          PROVE  InFlight(i)' \/ (i \in DOMAIN sub'.entries /\ Pending(i)' = row'[i])
      <4>0. i \in Id /\ Matches(row[i])
        BY DEF Covered
      <4>1. CASE i = Rec.id
        <5> SUFFICES ASSUME i \notin missed PROVE i \in DOMAIN sub'.entries /\ Pending(i)' = row'[i]
          BY <1>m
        <5>1. Matches(Post) /\ Post = row[i] /\ i \in DOMAIN e
          BY <1>13, <2>2, <4>0, <4>1
        <5>2. i \in DOMAIN event'.set /\ event'.set[i] = Post
          BY <3>5, <4>1, <5>1
        <5> QED BY <1>1, <5>1, <5>2 DEF Pending
      <4>2. CASE i # Rec.id
        <5>1. InFlight(i) => InFlight(i)'
          BY <1>17, <4>0, <4>2
        <5>2. i \in DOMAIN sub.entries => i \in DOMAIN e
          BY <2>2, <3>2, <4>0, <4>2, KeyFacts
        <5>3. Pending(i)' = Pending(i)
          BY <1>1, <3>5, <4>2 DEF Pending
        <5> QED BY <1>1, <3>1, <5>1, <5>2, <5>3
      <4> QED BY <4>1, <4>2
    <3>9. untold' = {} /\ event'.muddled = {}
      BY <1>1, <3>1, <3>5
    <3> HIDE DEF Covered
    <3> QED BY <3>6, <3>7, <3>8, <3>9 DEF Whole
  <2> QED BY <1>6, <1>7, <1>16, <1>18, <1>20, <1>21, <2>3, <2>4, <2>5, <2>6
<1> QED BY <1>1, <1>22, <1>23

LEMMA EndEventInv ==
    ASSUME EngineInv, NEW o \in Object, EndEvent(o)
    PROVE  EngineInv'
<1> USE DEF EngineInv
<1>1. /\ mu = o /\ event.todo = <<>> /\ mu' = Nobody /\ event' = NoEvent
      /\ Rests(o)
      /\ sub' \in Subs /\ sub'.pc = sub.pc /\ sub'.limit = sub.limit
      /\ sub'.scope = sub.scope /\ sub'.entries = sub.entries /\ sub'.maxRef = sub.maxRef
      /\ sub'.lost = sub.lost /\ (sub'.closed \/ ~Drifted(sub))
      /\ view' \in Windows /\ untold' = untold \cup event.muddled
      /\ sub'.closed \/ view' = [i \in Coming |-> Pending(i)]
      /\ UNCHANGED <<dataset, stamped, counter, shut, strayed, missed>>
  BY EndEventIs
<1>2. row' = row /\ deleted' = deleted
  BY <1>1 DEF dataset
<1>3. Open /\ ~shut /\ apply[o].pc = "calling" /\ sub.pc \notin {"reading", "read"}
      /\ \A q \in Object : apply[q].pc = "calling" => q = o
  BY <1>1, KeyFacts DEF Locked
<1>4. /\ event'.todo = <<>> /\ event'.set = <<>> /\ event'.removed = {} /\ event'.muddled = {}
      /\ DOMAIN event'.set = {} /\ event' \in Events
  BY <1>1, NoEventIs
<1>5. event.muddled \in SUBSET Id
  BY DEF EngineTyped, Events
<1>6. EngineTyped'
  BY <1>1, <1>2, <1>4, <1>5 DEF EngineTyped, Rests
<1>7. /\ apply'[o].pc = "idle" /\ Todo(o)' = <<>> /\ Of(o, Todo(o), row)' /\ Batch(o)'
  BY <1>1, RestsCarry
<1>8. Locked'
  <2>1. \A q \in Object : apply'[q].pc # "calling"
    BY <1>1, <1>3, <1>7 DEF Rests
  <2>2. counter' = IF Counting' THEN 1 ELSE 0
    BY <1>1 DEF Locked, Counting
  <2> QED BY <1>1, <1>3, <2>1, <2>2, KeyFacts DEF Locked
<1>9. Bounded'
  BY <1>1, BoundedKept
<1>10. Windowed' = Windowed /\ Visible' = Visible
  BY <1>1 DEF Windowed, Visible, Sentinel, Full
<1>11. \A q \in Object \ {o} : Still(q)
  BY <1>1, <1>2, <1>3 DEF Still, Rests
<1>12. \A i \in Id : InFlight(i) => InFlight(i)'
  <2> TAKE i \in Id
  <2>1. CASE Owner[i] = o
    <3>1. Todo(o) = <<>> /\ DOMAIN <<>> = {}
      BY <1>1, <1>3, EmptyWindow DEF Todo
    <3> QED BY <1>1, <2>1, <3>1 DEF InFlight
  <2>2. CASE Owner[i] # o
    <3>1. Owner[i] \in Object \ {o}
      BY <2>2, KeyFacts
    <3> QED BY <1>1, <1>11, <3>1, InFlightStill
  <2> QED BY <2>1, <2>2
<1>13. Writes'
  <2>1. \A q \in Object \ {o} : WriterOk(q)'
    BY <1>11, WritesIs, WriterStill
  <2>2. WriterOk(o)
    BY WritesIs
  <2>3. Stamps(o)' /\ Deletes(o)'
    BY <1>1, <1>2, <1>7, <2>2 DEF WriterOk, Stamps, Deletes
  <2>4. \A q \in Object : WriterOk(q)'
    BY <1>7, <2>1, <2>3 DEF WriterOk
  <2> QED BY <2>4 DEF Writes, WriterOk
<1>16. Counts'
  BY <1>1, <1>3 DEF Counts, Open, Registered, Shown, Drifted
<1>14. CASE sub'.closed
  <2>1. ~Shown' /\ ~Open'
    BY <1>1, <1>3, <1>14 DEF Shown, Open
  <2>2. AllTold' /\ Held' /\ Whole' /\ Lacks' /\ Current'
    BY <2>1 DEF AllTold, Held, Whole, Lacks, Current
  <2> QED BY <1>6, <1>8, <1>9, <1>13, <1>16, <2>2
<1>15. CASE ~sub'.closed
  <2>1. Shown
    BY <1>3 DEF Shown
  <2>2. DOMAIN view' = Coming /\ \A i \in Coming : view'[i] = Pending(i)
    BY <1>1, <1>15
  <2>3. Coming' = Coming /\ \A i \in Coming : Pending(i)' = Pending(i)
    <3>1. Coming' = DOMAIN view'
      BY <1>4 DEF Coming
    <3>2. \A i : Pending(i)' = view'[i]
      BY <1>4 DEF Pending
    <3> QED BY <2>2, <3>1, <3>2
  <2>4. AllTold'
    <3>1. \A i \in Id \ (untold \cup event.muddled) : Told(i)
      BY <2>1 DEF AllTold
    <3>2. \A i \in Id \ (untold \cup event.muddled) : Told(i)'
      BY <1>1, <1>10, <2>3, <3>1 DEF Told
    <3> QED BY <1>1, <1>4, <3>2 DEF AllTold
  <2>5. Held'
    <3> SUFFICES ASSUME NEW i \in DOMAIN sub.entries
                 PROVE  sub.scope \in {Owner[i], All} /\ Fresh(i)'
      BY <1>1 DEF Held
    <3>1. sub.scope \in {Owner[i], All} /\ Fresh(i)
      BY <2>1 DEF Held
    <3>2. i \in Id
      BY SubFields
    <3> QED BY <1>1, <1>2, <1>10, <1>12, <3>1, <3>2 DEF Fresh, Matches
  <2>6. Whole'
    <3> SUFFICES ASSUME ~Windowed PROVE Whole'
      BY <1>10 DEF Whole
    <3>1. /\ untold = {} /\ event.muddled = {}
          /\ \A i \in Covered : InFlight(i) \/ (i \in DOMAIN sub.entries /\ Pending(i) = row[i])
      BY <2>1 DEF Whole
    <3>2. \A a \in DOMAIN event'.todo : event'.todo[a].id \notin DOMAIN event'.set \cup event'.removed
      BY <1>4, EmptyWindow
    <3>3. Covered' = Covered
      BY <1>1, <1>2 DEF Covered, Matches
    <3>4. ASSUME NEW i \in Covered
          PROVE  InFlight(i)' \/ (i \in DOMAIN sub'.entries /\ Pending(i)' = row'[i])
      <4>1. i \in Id
        BY DEF Covered
      <4>2. i \in DOMAIN sub.entries => i \in Coming
        <5>1. Told(i)
          BY <2>1, <3>1, <4>1 DEF AllTold
        <5>2. i \in DOMAIN sub.entries => i \in Visible
          BY <4>1, KeyFacts DEF Visible, Sentinel, Full
        <5> QED BY <5>1, <5>2 DEF Told
      <4> QED BY <1>1, <1>2, <1>12, <2>3, <3>1, <4>1, <4>2
    <3> HIDE DEF Covered
    <3> QED BY <1>1, <1>4, <3>1, <3>2, <3>3, <3>4 DEF Whole
  <2>7. Current'
    BY <1>1, <1>2, <1>3 DEF Current
  <2>8. Lacks'
    BY <1>1, <1>2, <1>12, <2>1, LacksKept
  <2> QED BY <1>6, <1>8, <1>9, <1>13, <1>16, <2>4, <2>5, <2>6, <2>7, <2>8
<1> QED BY <1>14, <1>15

-----------------------------------------------------------------------------
(* The invariant holds, and what it says.                                  *)

LEMMA EngineInvInit == EngineInit => EngineInv
<1> SUFFICES ASSUME EngineInit PROVE EngineInv
  OBVIOUS
<1>0. FirstRows \subseteq [Id -> Gone..Dead]
  BY SubscriptionsAssumption DEF SubscriptionsAssumption, Gone, Dead
<1>1. /\ row \in [Id -> Gone..Dead]
      /\ deleted = [o \in Object |-> "no"]
      /\ apply = [o \in Object |-> Idle]
      /\ stamped = [o \in Object |-> NoId]
      /\ mu = Nobody /\ counter = 0 /\ shut = FALSE
      /\ sub = NoSub /\ event = NoEvent
      /\ view = <<>> /\ untold = {} /\ strayed = 0
  BY <1>0 DEF EngineInit
<1>2. Idle \in Jobs /\ Idle.pc = "idle"
  BY DEF Idle, Jobs
<1>3. sub \in Subs /\ sub.pc = "none" /\ sub.entries = <<>> /\ sub.maxRef = NoId /\ event \in Events
  BY <1>1, NoSubIs, NoEventIs
<1>4. EngineTyped
  <2>1. deleted \in [Object -> {"no", "marked", "purged", "gone"}]
    BY <1>1
  <2>2. apply \in [Object -> Jobs] /\ stamped \in [Object -> Id \cup {NoId}]
    BY <1>1, <1>2
  <2>3. mu \in Object \cup {Nobody, All} /\ counter \in 0..1
    BY <1>1
  <2>4. shut \in BOOLEAN
    <3>1. shut = FALSE
      BY <1>1
    <3> QED BY <3>1
  <2>5. view \in Windows
    BY <1>1, EmptyWindow
  <2>6. untold \in SUBSET Id /\ strayed \in Nat
    BY <1>1
  <2> QED BY <1>1, <1>3, <2>1, <2>2, <2>3, <2>4, <2>5, <2>6 DEF EngineTyped
<1>5. ~Shown /\ ~Open
  BY <1>3 DEF Shown, Open, Registered
<1>6. \A o \in Object : apply[o].pc = "idle" /\ stamped[o] = NoId /\ deleted[o] = "no"
  BY <1>1, <1>2
<1>7. Locked
  BY <1>1, <1>3, <1>5, <1>6, KeyFacts DEF Locked, Counting
<1>8. Bounded
  <2>1. DOMAIN sub.entries = {} /\ Cardinality({}) = 0 /\ sub.limit \in Nat
    BY <1>3, EmptyWindow, FS_EmptySet DEF Subs
  <2> QED BY <1>3, <2>1 DEF Bounded, Full, Windowed
<1>9. Writes
  <2>1. \A o \in Object : Of(o, <<>>, row)
    BY EmptyWindow DEF Of
  <2>2. \A o \in Object : Todo(o) = <<>>
    BY <1>6 DEF Todo
  <2> QED BY <1>6, <2>1, <2>2 DEF Writes, Batch, Stamps, Deletes
<1>10. AllTold /\ Held /\ Whole /\ Current
  BY <1>5 DEF AllTold, Held, Whole, Current
<1>11. Counts /\ Lacks
  BY <1>1, <1>5, NoSubIs DEF Counts, Lacks
<1> QED BY <1>4, <1>7, <1>8, <1>9, <1>10, <1>11 DEF EngineInv

LEMMA EngineInvNext == EngineInv /\ [EngineNext]_engineVars => EngineInv'
<1> SUFFICES ASSUME EngineInv, [EngineNext]_engineVars PROVE EngineInv'
  OBVIOUS
<1>1. CASE EngineNext
  <2>1. ASSUME NEW o \in Object, Writer(o) PROVE EngineInv'
    BY <2>1, WriteInv, StampInv, AnnounceInv, FlushStampsInv, MarkDeletedInv, PurgeInv,
       CloseObjectInv, OnApplyInv, ApplyRecordInv, EndEventInv DEF Writer
  <2>2. ASSUME Subscriber PROVE EngineInv'
    BY <2>2, ResolveInv, LockInv, SnapshotInv, SnapshotFailsInv, RegisterInv, CheckDeletedInv,
       TakeInv, UnsubscribeInv DEF Subscriber
  <2> QED BY <1>1, <2>1, <2>2, CloseEngineInv DEF EngineNext
<1>2. CASE UNCHANGED engineVars
  <2>1. UNCHANGED <<row, deleted, apply, stamped, mu, counter, shut, sub, event, view, untold, strayed>>
    BY <1>2 DEF engineVars, dataset, client
  <2>9. missed' = missed
    BY <1>2 DEF engineVars, client
  <2>2. EngineTyped' /\ Locked' /\ Bounded'
    BY <2>1 DEF EngineInv, EngineTyped, Locked, Counting, Bounded, Windowed, Full, Largest, Open,
         Registered
  <2>3. AllTold'
    BY <2>1 DEF EngineInv, AllTold, Told, Coming, Pending, Visible, Sentinel, Full, Windowed,
         Shown, Open, Registered
  <2>4. Writes'
    BY <2>1 DEF EngineInv, Writes, Of, Todo, Batch, Stamps, Deletes
  <2>5. Held'
    BY <2>1, <2>9 DEF EngineInv, Held, Fresh, InFlight, Todo, Matches, Shown, Open, Registered, Windowed
  <2>6. Whole' /\ Current'
    BY <2>1, <2>9 DEF EngineInv, Whole, Current, Covered, InFlight, Todo, Matches, Pending, Shown, Open,
         Registered, Windowed
  <2>7. Counts'
    BY <2>1 DEF EngineInv, Counts, Shown, Open, Registered, Drifted
  <2>8. Lacks'
    <3>1. Shown' => Shown
      BY <2>1 DEF Shown, Open, Registered
    <3>2. \A i \in Id : InFlight(i)' <=> InFlight(i)
      BY <2>1, <2>9 DEF InFlight, Todo
    <3>3. CASE Shown
      BY <2>1, <3>2, <3>3, LacksKept DEF EngineInv
    <3> QED BY <3>1, <3>3 DEF Lacks
  <2> QED BY <2>2, <2>3, <2>4, <2>5, <2>6, <2>7, <2>8 DEF EngineInv
<1> QED BY <1>1, <1>2

LEMMA EngineInvHolds == EngineSpec => []EngineInv
BY EngineInvInit, EngineInvNext, PTL DEF EngineSpec

\* The reads have a small invariant of their own.
ReadsTyped == absent \in BOOLEAN /\ missed \subseteq Id

LEMMA ReadsTypedHolds == EngineSpec => []ReadsTyped
<1>1. EngineInit => ReadsTyped
  BY DEF EngineInit, ReadsTyped
<1>2. EngineInv /\ ReadsTyped /\ [EngineNext]_engineVars => ReadsTyped'
  <2> SUFFICES ASSUME EngineInv, ReadsTyped, [EngineNext]_engineVars PROVE ReadsTyped'
    OBVIOUS
  <2>1. EngineTyped
    BY DEF EngineInv
  <2>2. ASSUME NEW o \in Object, FlushStamps(o) PROVE ReadsTyped'
    <3>1. missed' = missed \/ missed' = missed \cup {stamped[o]}
      BY <2>1, <2>2, FlushIs DEF EngineInv
    <3>2. stamped[o] \in Id /\ absent' = absent
      BY <2>1, <2>2, FlushIs DEF EngineInv, FlushStamps
    <3> QED BY <3>1, <3>2 DEF ReadsTyped
  <2>3. ASSUME NEW o \in Object, OnApply(o) PROVE ReadsTyped'
    <3>1. absent' = absent
      BY <2>3 DEF OnApply
    <3>2. CASE Skip(o)
      BY <3>1, <3>2 DEF Skip, ReadsTyped
    <3>3. CASE Call(o)
      <4>1. PICK failed \in SUBSET {r.id : r \in {x \in Range(apply[o].records) : ~x.deleted}} :
              missed' = (missed \ {r.id : r \in Range(apply[o].records)}) \cup failed
        BY <3>3 DEF Call
      <4>2. \A a \in DOMAIN apply[o].records : apply[o].records[a] \in Record
        <5>1. apply[o].records \in Seq(Record)
          BY <2>1, WriterFacts
        <5> QED BY <5>1
      <4>3. \A x \in Range(apply[o].records) : x.id \in Id
        BY <4>2 DEF Range, Record
      <4>4. failed \subseteq Id
        BY <4>3
      <4>5. missed' \subseteq missed \cup failed
        BY <4>1
      <4> QED BY <3>1, <4>4, <4>5 DEF ReadsTyped
    <3> QED BY <2>3, <3>2, <3>3 DEF OnApply
  <2>4. ASSUME Snapshot PROVE ReadsTyped'
    BY <2>4 DEF Snapshot, ReadsTyped, Covered, reads
  <2>5. ASSUME Resolve PROVE ReadsTyped'
    BY <2>5 DEF Resolve, ReadsTyped, NotLocal, client
  <2>6. ASSUME NEW o \in Object, Write(o) \/ Stamp(o) \/ Announce(o) \/ MarkDeleted(o)
        PROVE  ReadsTyped'
    BY <2>6 DEF Write, Stamp, Announce, MarkDeleted, ReadsTyped, client, reads
  <2>7. ASSUME NEW o \in Object, Purge(o) \/ CloseObject(o) \/ ApplyRecord(o) \/ EndEvent(o)
        PROVE  ReadsTyped'
    BY <2>7 DEF Purge, CloseObject, ApplyRecord, EndEvent, ReadsTyped, client, reads
  <2>8. ASSUME Lock \/ SnapshotFails \/ Register \/ CheckDeleted \/ Take \/ Unsubscribe \/ CloseEngine
        PROVE  ReadsTyped'
    BY <2>8 DEF Lock, SnapshotFails, Register, CheckDeleted, Take, Unsubscribe, CloseEngine,
         ReadsTyped, client, reads
  <2>9. CASE UNCHANGED engineVars
    BY <2>9 DEF engineVars, client, reads, ReadsTyped
  <2> QED BY <2>2, <2>3, <2>4, <2>5, <2>6, <2>7, <2>8, <2>9 DEF EngineNext, Writer, Subscriber
<1> QED BY <1>1, <1>2, EngineInvHolds, PTL DEF EngineSpec

LEMMA InvView == EngineInv => ViewIsWindow
<1> SUFFICES ASSUME EngineInv, Open, mu = Nobody, NEW i \in Id \ untold
             PROVE  /\ (i \in DOMAIN view) = (i \in Visible)
                    /\ i \in Visible /\ Windowed => view[i] = sub.entries[i]
  BY DEF ViewIsWindow
<1>1. event.set = <<>> /\ event.removed = {} /\ event.muddled = {} /\ DOMAIN event.set = {}
  BY KeyFacts, NoEventIs DEF EngineInv, Locked
<1>2. Told(i)
  BY <1>1 DEF EngineInv, AllTold, Shown
<1>3. Coming = DOMAIN view /\ Pending(i) = view[i]
  BY <1>1 DEF Coming, Pending
<1> QED BY <1>2, <1>3 DEF Told

LEMMA InvTypes == EngineInv /\ ReadsTyped => EngineTypeOK
<1> SUFFICES ASSUME EngineInv, ReadsTyped PROVE EngineTypeOK
  OBVIOUS
<1>1. EngineTyped /\ Bounded
  BY DEF EngineInv
<1>2. \A o \in Object : /\ apply[o].pc \in {"idle", "committed", "event", "calling"}
                        /\ apply[o].records \in Seq(Record)
  BY <1>1, WriterFacts
<1>3. /\ sub.pc \in {"none", "resolved", "reading", "read", "checking", "live"}
      /\ DOMAIN sub.entries \subseteq Id /\ sub.maxRef \in Id \cup {NoId}
      /\ sub.queued \in 0..MailboxCap /\ sub.lost \in Nat
  BY <1>1, SubFields
<1>4. sub.limit > 0 => /\ Cardinality(DOMAIN sub.entries) <= sub.limit + 1
                       /\ sub.maxRef # NoId => sub.maxRef \in DOMAIN sub.entries
  BY <1>1 DEF Bounded, Windowed
<1>5. DOMAIN view \subseteq Id /\ untold \subseteq Id /\ strayed \in Nat
  BY <1>1, WindowIs DEF EngineTyped
<1>6. /\ row \in [Id -> Gone..Dead]
      /\ deleted \in [Object -> {"no", "marked", "purged", "gone"}]
      /\ stamped \in [Object -> Id \cup {NoId}]
      /\ mu \in Object \cup {Nobody, All} /\ counter \in 0..1 /\ shut \in BOOLEAN
  BY <1>1 DEF EngineTyped
<1> QED BY <1>2, <1>3, <1>4, <1>5, <1>6 DEF EngineTypeOK, ReadsTyped

LEMMA InvStored == EngineInv /\ ReadsTyped => LiveIsStored
<1>1. EngineInv /\ ReadsTyped => EngineTypeOK
  BY InvTypes
<1> SUFFICES ASSUME EngineInv, Open, Quiet
             PROVE  /\ \A i \in DOMAIN sub.entries \ missed :
                          i \in Covered /\ (Windowed => sub.entries[i] = row[i])
                    /\ ~Windowed => \A i \in Id \ missed :
                          /\ i \in DOMAIN view <=> i \in Covered
                          /\ i \in Covered => view[i] = row[i]
                    /\ sub.pc = "live" /\ sub.scope # All => deleted[sub.scope] = "no"
  BY <1>1 DEF LiveIsStored
<1>2. EngineTyped /\ Held /\ Whole /\ AllTold /\ Locked /\ Current /\ Shown
  BY DEF EngineInv, Shown
<1>3. \A o \in Object : Todo(o) = <<>> /\ stamped[o] = NoId /\ deleted[o] \in {"no", "gone"}
  BY DEF Quiet, Todo
<1>4. \A i \in Id \ missed : ~InFlight(i)
  BY <1>3, KeyFacts, EmptyWindow DEF InFlight
<1>5. event.set = <<>> /\ event.removed = {} /\ event.muddled = {} /\ DOMAIN event.set = {}
  BY <1>2, KeyFacts, NoEventIs DEF Locked, Quiet
<1>6. ASSUME NEW i \in DOMAIN sub.entries \ missed
      PROVE  i \in Covered /\ (Windowed => sub.entries[i] = row[i])
  <2>1. i \in Id
    BY <1>2, SubFields
  <2> QED BY <1>2, <1>4, <2>1 DEF Held, Fresh, Covered
<1>7. ASSUME ~Windowed, NEW i \in Id \ missed
      PROVE  /\ i \in DOMAIN view <=> i \in Covered
             /\ i \in Covered => view[i] = row[i]
  <2>1. untold = {} /\ (i \in Covered => i \in DOMAIN sub.entries /\ Pending(i) = row[i])
    BY <1>2, <1>4, <1>7 DEF Whole
  <2>2. Visible = DOMAIN sub.entries
    <3>1. NoId \notin DOMAIN sub.entries
      BY <1>2, SubFields, KeyFacts
    <3> QED BY <1>7, <3>1 DEF Visible, Sentinel, Full
  <2>3. i \in DOMAIN view <=> i \in DOMAIN sub.entries
    BY <1>2, <1>5, <2>1, <2>2 DEF AllTold, Told, Coming
  <2>4. i \in Covered => view[i] = row[i]
    BY <1>5, <2>1 DEF Pending
  <2> HIDE DEF Covered
  <2> QED BY <1>6, <2>1, <2>3, <2>4
<1>8. sub.pc = "live" /\ sub.scope # All => deleted[sub.scope] = "no"
  BY <1>2, <1>3, SubFields DEF Current
<1> QED BY <1>6, <1>7, <1>8

LEMMA InvDrift == EngineInv => DriftIsBounded
<1> DEFINE hidden == Cardinality(Missing) - strayed
           nearer(i) == {j \in Covered \ {i} : row[j] <= row[i]}
<1> SUFFICES ASSUME EngineInv, Open, Quiet, Windowed, missed = {}, hidden > 0
             PROVE  (hidden + 1) * 100 < sub.limit * Budget
  BY DEF DriftIsBounded
<1>1. EngineTyped /\ Held /\ Bounded /\ Counts /\ Lacks /\ Shown
  BY DEF EngineInv, Shown
<1>2. \A o \in Object : Todo(o) = <<>> /\ stamped[o] = NoId
  BY DEF Quiet, Todo
<1>3. \A i \in Id : ~InFlight(i)
  BY <1>2, KeyFacts, EmptyWindow DEF InFlight
<1>4. PICK a : Answers(a)
  BY <1>1 DEF Lacks
<1>5. /\ a \in Windows /\ DOMAIN a \subseteq Id /\ Cardinality(DOMAIN a) \in Nat
      /\ \A j \in DOMAIN sub.entries : j \in DOMAIN a /\ a[j] = sub.entries[j]
      /\ \A j \in DOMAIN a \ DOMAIN sub.entries : Awaited(a, j)
      /\ Cardinality(DOMAIN a) <= Cardinality(DOMAIN sub.entries) + strayed + Short
      /\ \A i \in Covered \ DOMAIN a : Ahead(a, i) >= Needed
  <2>1. \A i \in Covered : ~InFlight(i)
    BY <1>3 DEF Covered
  <2> HIDE DEF Covered
  <2> QED BY <1>1, <1>4, <2>1, AnswersIs DEF Answers
<1>6. ASSUME NEW j \in DOMAIN a PROVE j \in Covered /\ a[j] = row[j]
  <2>1. j \in Id /\ ~InFlight(j)
    BY <1>3, <1>5
  <2>2. CASE j \in DOMAIN sub.entries
    BY <1>1, <1>5, <2>1, <2>2 DEF Held, Fresh, Covered
  <2>3. CASE j \notin DOMAIN sub.entries
    BY <1>5, <2>1, <2>3 DEF Awaited, Covered
  <2> QED BY <2>2, <2>3
<1>7. Covered \subseteq Id /\ \A i : IsFiniteSet(nearer(i)) /\ Cardinality(nearer(i)) \in Nat
  <2>1. \A i : nearer(i) \subseteq Id
    BY DEF Covered
  <2> HIDE DEF nearer
  <2>2. \A i : IsFiniteSet(nearer(i))
    BY <2>1, KeyFacts, FS_Subset
  <2> QED BY <2>2, FS_CardinalityType DEF Covered
<1> HIDE DEF Covered
\* A row the answer lacks comes behind a whole window.
<1>8. ASSUME NEW i \in Missing PROVE i \in DOMAIN a
  <2> SUFFICES ASSUME i \notin DOMAIN a PROVE FALSE
    OBVIOUS
  <2>1. i \in Covered /\ Cardinality(nearer(i)) < sub.limit
    BY DEF Missing
  <2>2. UpTo(a, row[i]) \subseteq nearer(i)
    BY <1>6 DEF UpTo
  <2>3. Ahead(a, i) <= Cardinality(nearer(i))
    BY <1>7, <2>2, FS_Subset DEF Ahead
  <2>4. Ahead(a, i) \in Nat
    BY <1>5, UpToIs DEF Ahead
  <2> HIDE DEF nearer
  <2> QED BY <1>1, <1>5, <1>7, <2>1, <2>3, <2>4, CountFacts
\* So does the sentinel.
<1>9. ASSUME NEW i \in Missing PROVE i \notin DOMAIN sub.entries
  <2> SUFFICES ASSUME i \in DOMAIN sub.entries PROVE FALSE
    OBVIOUS
  <2>1. i \in Covered \ Visible /\ Cardinality(nearer(i)) < sub.limit
    BY DEF Missing
  <2>2. i = Sentinel(sub.entries, sub.maxRef) /\ i \in Id
    BY <1>7, <2>1 DEF Visible
  <2>3. Full(sub.entries) /\ i = sub.maxRef
    BY <2>2, KeyFacts DEF Sentinel
  <2>4. \A j \in DOMAIN sub.entries : sub.entries[j] <= sub.entries[i]
    BY <1>1, <2>2, <2>3, KeyFacts DEF Bounded, Largest
  <2>5. DOMAIN sub.entries \ {i} \subseteq nearer(i)
    BY <1>5, <1>6, <2>4
  <2>6. Cardinality(DOMAIN sub.entries \ {i}) <= Cardinality(nearer(i))
    BY <1>7, <2>5, FS_Subset
  <2>7. Cardinality(DOMAIN sub.entries \ {i}) = Cardinality(DOMAIN sub.entries) - 1
    BY <1>1, CountFacts, WindowSize, FS_RemoveElement
  <2>8. Cardinality(DOMAIN sub.entries) = sub.limit + 1
    BY <2>3 DEF Full
  <2> HIDE DEF nearer
  <2> QED BY <1>1, <1>7, <2>1, <2>6, <2>7, <2>8, CountFacts
<1>10. Cardinality(Missing) <= strayed + Short /\ Cardinality(Missing) \in Nat
  <2>1. Missing \subseteq DOMAIN a \ DOMAIN sub.entries
    BY <1>8, <1>9
  <2>2. DOMAIN a \cap DOMAIN sub.entries = DOMAIN sub.entries
    BY <1>5
  <2>3. /\ IsFiniteSet(DOMAIN a \ DOMAIN sub.entries)
        /\ Cardinality(DOMAIN a \ DOMAIN sub.entries)
             = Cardinality(DOMAIN a) - Cardinality(DOMAIN sub.entries)
    BY <1>5, <2>2, WindowSize, FS_Difference
  <2>4. /\ IsFiniteSet(Missing)
        /\ Cardinality(Missing) <= Cardinality(DOMAIN a \ DOMAIN sub.entries)
    BY <2>1, <2>3, FS_Subset
  <2>5. Cardinality(Missing) \in Nat
    BY <2>4, FS_CardinalityType
  <2> QED BY <1>1, <1>5, <2>3, <2>4, <2>5, CountFacts
<1>11. hidden + 1 <= sub.lost /\ hidden \in Nat
  <2>1. hidden <= Short
    BY <1>1, <1>10, CountFacts
  <2>2. hidden \in Nat
    BY <1>1, <1>10, CountFacts
  <2> HIDE DEF hidden
  <2> QED BY <1>1, <2>1, <2>2, CountFacts DEF Short
<1>12. ~(sub.lost * 100 >= sub.limit * Budget)
  BY <1>1, KeyFacts DEF Counts, Drifted, Quiet, Windowed
<1>13. sub.limit * Budget \in Nat
  <2>1. Budget \in Nat
    BY SubscriptionsAssumption DEF SubscriptionsAssumption
  <2> QED BY <1>1, <2>1, CountFacts
<1> HIDE DEF hidden
<1>14. \A n \in Nat : hidden + 1 <= sub.lost /\ ~(sub.lost * 100 >= n) => (hidden + 1) * 100 < n
  BY <1>1, <1>11, CountFacts
<1> QED BY <1>11, <1>12, <1>13, <1>14

\* Between events the consumer shows exactly the rows the engine takes for
\* visible, with their last keys, but for the records set apart in `untold':
\* for any writers, limits and moves of the boundary.
THEOREM ConsumerShowsWindow == EngineSpec => []ViewIsWindow
BY EngineInvHolds, InvView, PTL

\* Once every writer is through, what an open query holds is what is stored, an
\* unlimited one shows all of it, and none is open on a deleted object: no
\* event falls between a snapshot and its registration, or is held back with a
\* replay's stamps.  Apart are the records in `missed', whose last read, of an
\* object not local in time or of a row that failed to load, found nothing.
THEOREM NothingMissedLive == EngineSpec => []LiveIsStored
BY EngineInvHolds, ReadsTypedHolds, InvStored, PTL

\* A limited query that is still open lacks fewer rows of its answer than its
\* drift budget, but for those its held records moved past: the sentinel makes
\* up for the first record that leaves, and the query is closed before the others
\* exhaust the budget, for every limit, budget and order of the events, as long
\* as no record's last read came to nothing.
THEOREM DriftStaysInBudget == EngineSpec => []DriftIsBounded
BY EngineInvHolds, InvDrift, PTL
=============================================================================
