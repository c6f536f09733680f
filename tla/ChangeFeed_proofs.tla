-------------------------- MODULE ChangeFeed_proofs --------------------------
(***************************************************************************)
(* Proofs about ChangeFeed, for any objects, goroutines and bounds: its    *)
(* type invariant, that a deleted object stays gone, and that no consumer  *)
(* skips a row.                                                            *)
(***************************************************************************)
EXTENDS ChangeFeed, TLAPS, FiniteSetTheorems

\* The maximum of a bounded set of numbers is one of them, and bounds them:
\* of the sets of what exceeds a member, a smallest one is empty.
LEMMA MaxFacts ==
    ASSUME NEW n \in Nat, NEW S \in SUBSET (0..n), S # {}
    PROVE  Max(S) \in S /\ \A x \in S : x <= Max(S)
<1>. DEFINE Above(x) == {y \in S : y > x}
            Aboves == {Above(x) : x \in S}
<1>1. IsFiniteSet(S)
  <2>1. IsFiniteSet(0..n)
    BY FS_Interval
  <2>. QED
    BY <2>1, FS_Subset
<1>2. IsWellFoundedOn(StrictSubsetOrdering(S), SUBSET S)
  BY <1>1, FS_StrictSubsetOrderingWellFounded, FS_FiniteSubsetsOfFinite
<1>3. Aboves \subseteq SUBSET S /\ Aboves # {}
  OBVIOUS
<1>4. PICK m \in Aboves : \A a \in Aboves : <<a, m>> \notin StrictSubsetOrdering(S)
  <2>. HIDE DEF Aboves
  <2>. QED
    BY <1>2, <1>3, WFMin
<1>5. PICK x \in S : m = Above(x)
  OBVIOUS
<1>6. Above(x) = {}
  <2>. SUFFICES ASSUME NEW y \in Above(x) PROVE FALSE
    OBVIOUS
  <2>0. y \in S /\ y > x /\ x \in S
    OBVIOUS
  <2>1. Above(y) \in Aboves
    BY <2>0
  <2>2. Above(y) \subseteq Above(x) /\ y \in Above(x) /\ y \notin Above(y)
    <3>1. \A z \in S : z \in Int
      OBVIOUS
    <3>2. \A z \in S : z > y => z > x
      BY <2>0, <3>1
    <3>3. ~(y > y)
      BY <2>0, <3>1
    <3>. QED
      BY <2>0, <3>2, <3>3
  <2>3. <<Above(y), Above(x)>> \in StrictSubsetOrdering(S)
    BY <2>2 DEF StrictSubsetOrdering
  <2>. QED
    BY <1>4, <1>5, <2>1, <2>3
<1>7. \A y \in S : x >= y
  BY <1>6
<1>8. Max(S) \in S /\ \A y \in S : Max(S) >= y
  BY <1>7 DEF Max
<1>. QED
  BY <1>8

----------------------------------------------------------------------------
(* The inductive invariant.                                                *)

\* A transaction is of an operation of an object, and its number, taken in it,
\* is above every number persisted.  Without a seeded allocator none runs.
WriterInv ==
    /\ ~alloc.seeded => \A w \in Writer : writer[w].step = "idle"
    /\ \A w \in Writer :
          /\ writer[w].step # "idle" => writer[w].kind \in Kind /\ writer[w].obj \in Object
          /\ writer[w].step \in {"idle", "wait"} => writer[w].seq = 0
          /\ writer[w].seq <= alloc.last
          /\ writer[w].step = "write" /\ writer[w].seq # 0 =>
                \A o \in Object : meta[o].seq < writer[w].seq /\ reads[o] < writer[w].seq

\* A deleted object has refused every write before its rows were purged, and
\* had none in flight by then.
DeleteInv ==
    /\ \A o \in Object : meta[o].del => life[o] = "purged" /\ o \notin rows
    /\ \A o \in Object : life[o] \in {"refused", "purged"} => ~InFlight(o)
    /\ \A w \in Writer : writer[w].step \in {"wait", "write"} /\ writer[w].kind = "purge" =>
                            life[writer[w].obj] \in {"refused", "purged"}

\* An awake consumer is on the axis of the database.
AxisInv ==
    /\ reader.gen <= gen
    /\ reader.step # "start" => reader.gen = gen
    /\ reader.step \in {"index", "save"} => reader.page # {}

\* What is in the feed of reads is in the other one, so that a purge that is
\* not announced takes no number away.
AnnouncedInv ==
    /\ \A o \in Object : reads[o] # 0 => Announced(o)
    /\ \A w \in Writer : writer[w].step \in {"wait", "write"} /\ writer[w].kind = "mark" =>
                            Announced(writer[w].obj)

\* A number that some row has reached.
Reached(n) == n = 0 \/ \E o \in Object : meta[o].seq >= n \/ reads[o] >= n

\* The cursor and the page are behind what is persisted, and what is behind
\* them was seen, or is on the page.
SeenInv ==
    reader.gen = gen =>
        /\ Reached(reader.cursor)
        /\ \A o \in Object : SeqOf(o) <= reader.cursor => SeqOf(o) <= reader.seen[o]
        /\ reader.step \in {"index", "save"} =>
              \A e \in reader.page :
                 /\ Reached(e[2])
                 /\ \A o \in Object : SeqOf(o) <= e[2] =>
                       \/ SeqOf(o) <= reader.seen[o]
                       \/ reader.step = "index" /\ <<o, SeqOf(o)>> \in reader.page

StoreInv == TypeOK /\ WriterInv /\ DeleteInv
FeedInv == StoreInv /\ AxisInv /\ AnnouncedInv /\ SeenInv

----------------------------------------------------------------------------
(* What the steps do to the tables and the goroutines, row by row.         *)

Step == {"idle", "wait", "write", "notify"}
MetaRow == [seq : 0..MaxSeq, del : BOOLEAN]
WriterRow == [step : Step, kind : Kind \cup {"none"}, obj : Object \cup {"none"}, seq : 0..MaxSeq]
ReaderRow == [feed : Feed, step : {"start", "sleep", "pull", "index", "save"},
              page : SUBSET (Object \X (1..MaxSeq)), cursor : 0..MaxSeq,
              seen : [Object -> 0..MaxSeq], gen : Nat]

\* The values of a state, field by field.
LEMMA Values ==
    ASSUME TypeOK
    PROVE  /\ meta \in [Object -> MetaRow] /\ reads \in [Object -> 0..MaxSeq]
           /\ writer \in [Writer -> WriterRow] /\ reader \in ReaderRow
           /\ \A o \in Object : /\ meta[o].seq \in 0..MaxSeq /\ meta[o].del \in BOOLEAN
                                /\ reads[o] \in 0..MaxSeq
           /\ \A w \in Writer : writer[w].step \in Step /\ writer[w].seq \in 0..MaxSeq
           /\ alloc.seeded \in BOOLEAN /\ alloc.last \in 0..MaxSeq
           /\ MaxSeq \in Nat
<1>1. /\ meta \in [Object -> MetaRow] /\ reads \in [Object -> 0..MaxSeq]
      /\ writer \in [Writer -> WriterRow] /\ reader \in ReaderRow
      /\ alloc \in [seeded : BOOLEAN, last : 0..MaxSeq]
  BY DEF TypeOK, MetaRow, WriterRow, ReaderRow, Step
<1>2. \A o \in Object : /\ meta[o].seq \in 0..MaxSeq /\ meta[o].del \in BOOLEAN
                        /\ reads[o] \in 0..MaxSeq
  BY <1>1 DEF MetaRow
<1>3. \A w \in Writer : writer[w].step \in Step /\ writer[w].seq \in 0..MaxSeq
  BY <1>1 DEF WriterRow
<1>. QED
  BY <1>1, <1>2, <1>3, BoundAssumption

\* The consumer, field by field.
LEMMA ReaderValues ==
    ASSUME TypeOK
    PROVE  /\ reader.feed \in Feed /\ reader.page \in SUBSET (Object \X (1..MaxSeq))
           /\ reader.step \in {"start", "sleep", "pull", "index", "save"}
           /\ reader.cursor \in 0..MaxSeq /\ reader.seen \in [Object -> 0..MaxSeq]
           /\ reader.gen \in Nat /\ gen \in Nat /\ MaxSeq \in Nat
           /\ \A o \in Object : SeqOf(o) \in 0..MaxSeq
<1>1. reader \in ReaderRow /\ gen \in Nat
  BY DEF TypeOK, ReaderRow
<1>2. \A o \in Object : SeqOf(o) \in 0..MaxSeq
  BY Values DEF SeqOf
<1>. QED
  BY <1>1, <1>2, BoundAssumption DEF ReaderRow

\* A goroutine goes on to another step of its operation.
Moves(w, s) == writer' = [writer EXCEPT ![w].step = s]

LEMMA MoveFacts ==
    ASSUME TypeOK, NEW w \in Writer, NEW s \in Step, Moves(w, s)
    PROVE  /\ writer' \in [Writer -> WriterRow]
           /\ writer'[w].step = s /\ writer'[w].kind = writer[w].kind
           /\ writer'[w].obj = writer[w].obj /\ writer'[w].seq = writer[w].seq
           /\ \A v \in Writer \ {w} : writer'[v] = writer[v]
<1>1. writer \in [Writer -> WriterRow]
  BY Values
<1>. QED
  BY <1>1 DEF Moves, WriterRow

\* It takes a number.
Takes(w, n) == writer' = [writer EXCEPT ![w].seq = n]

LEMMA TakeFacts ==
    ASSUME TypeOK, NEW w \in Writer, NEW n \in 0..MaxSeq, Takes(w, n)
    PROVE  /\ writer' \in [Writer -> WriterRow]
           /\ writer'[w].step = writer[w].step /\ writer'[w].kind = writer[w].kind
           /\ writer'[w].obj = writer[w].obj /\ writer'[w].seq = n
           /\ \A v \in Writer \ {w} : writer'[v] = writer[v]
<1>1. writer \in [Writer -> WriterRow]
  BY Values
<1>. QED
  BY <1>1 DEF Takes, WriterRow

\* It begins an operation, or is done with it.
Sets(w, r) == writer' = [writer EXCEPT ![w] = r]

LEMMA SetFacts ==
    ASSUME TypeOK, NEW w \in Writer, NEW r \in WriterRow, Sets(w, r)
    PROVE  /\ writer' \in [Writer -> WriterRow] /\ writer'[w] = r
           /\ \A v \in Writer \ {w} : writer'[v] = writer[v]
<1>1. writer \in [Writer -> WriterRow]
  BY Values
<1>. QED
  BY <1>1 DEF Sets

LEMMA IdleFacts ==
    /\ Idle \in WriterRow /\ Idle.step = "idle" /\ Idle.kind = "none" /\ Idle.seq = 0
BY BoundAssumption DEF Idle, WriterRow, Step

\* The larger of a number and a new one.
LEMMA MaxNew ==
    ASSUME NEW a \in 0..MaxSeq, NEW b \in 0..MaxSeq, a < b PROVE Max({a, b}) = b
<1>1. MaxSeq \in Nat /\ {a, b} \in SUBSET (0..MaxSeq) /\ {a, b} # {}
  BY BoundAssumption
<1>2. Max({a, b}) \in {a, b} /\ b <= Max({a, b})
  BY <1>1, MaxFacts
<1>. QED
  BY <1>2

\* The rows a commit leaves.
LEMMA CommitFacts ==
    ASSUME TypeOK, WriterInv, NEW w \in Writer, Commit(w),
           NEW o, o = writer[w].obj, NEW n, n = writer[w].seq
    PROVE  /\ o \in Object /\ n \in 0..MaxSeq /\ writer[w].kind \in Kind
           /\ writer[w].step = "write" /\ Moves(w, "notify")
           /\ meta' \in [Object -> MetaRow] /\ reads' \in [Object -> 0..MaxSeq]
           /\ rows' \subseteq Object
           /\ \A p \in Object \ {o} : /\ meta'[p] = meta[p] /\ reads'[p] = reads[p]
                                      /\ p \in rows' <=> p \in rows
           /\ writer[w].kind = "apply" =>
                 /\ n # 0 /\ meta'[o].seq = n /\ meta'[o].del = meta[o].del /\ o \in rows'
                 /\ reads'[o] = (IF o \in Tracked THEN n ELSE reads[o])
           /\ writer[w].kind = "mark" =>
                 n # 0 /\ meta' = meta /\ rows' = rows /\ reads'[o] = n
           /\ writer[w].kind = "purge" =>
                 /\ o \notin rows' /\ reads'[o] = 0
                 /\ IF n = 0 THEN meta' = meta /\ ~Announced(o)
                    ELSE meta'[o].seq = n /\ meta'[o].del
           /\ life' = (IF writer[w].kind = "purge" THEN [life EXCEPT ![o] = "purged"] ELSE life)
           /\ UNCHANGED <<gen, alloc, reader, faults>>
<1>1. /\ writer[w].step = "write" /\ (n # 0 \/ ~Stamps(w)) /\ Write(writer[w].kind, o, n)
      /\ life' = (IF writer[w].kind = "purge" THEN [life EXCEPT ![o] = "purged"] ELSE life)
      /\ Moves(w, "notify") /\ UNCHANGED <<gen, alloc, reader, faults>>
  BY DEF Commit, Moves
<1>2. /\ o \in Object /\ n \in 0..MaxSeq /\ writer[w].kind \in Kind
      /\ n # 0 => meta[o].seq < n /\ reads[o] < n
  BY <1>1, Values DEF WriterInv
<1>3. /\ meta \in [Object -> MetaRow] /\ reads \in [Object -> 0..MaxSeq] /\ rows \subseteq Object
      /\ meta[o].seq \in 0..MaxSeq /\ reads[o] \in 0..MaxSeq /\ 0 \in 0..MaxSeq
  BY <1>2, Values, BoundAssumption DEF TypeOK
<1>4. n # 0 => Max({meta[o].seq, n}) = n /\ Max({reads[o], n}) = n
  BY <1>2, <1>3, MaxNew
<1>5. CASE writer[w].kind = "apply"
  <2>1. n # 0
    BY <1>1, <1>5 DEF Stamps
  <2>2. /\ meta' = [meta EXCEPT ![o].seq = n] /\ rows' = rows \cup {o}
        /\ reads' = IF o \in Tracked THEN [reads EXCEPT ![o] = n] ELSE reads
    BY <1>1, <1>4, <1>5, <2>1 DEF Write
  <2>3. /\ meta' \in [Object -> MetaRow] /\ meta'[o].seq = n /\ meta'[o].del = meta[o].del
        /\ \A p \in Object \ {o} : meta'[p] = meta[p]
    BY <1>2, <1>3, <2>2 DEF MetaRow
  <2>4. /\ reads' \in [Object -> 0..MaxSeq]
        /\ reads'[o] = (IF o \in Tracked THEN n ELSE reads[o])
        /\ \A p \in Object \ {o} : reads'[p] = reads[p]
    BY <1>2, <1>3, <2>2
  <2>. QED
    BY <1>1, <1>2, <1>3, <1>5, <2>1, <2>2, <2>3, <2>4
<1>6. CASE writer[w].kind = "mark"
  <2>1. n # 0
    BY <1>1, <1>6 DEF Stamps
  <2>2. reads' = [reads EXCEPT ![o] = n] /\ meta' = meta /\ rows' = rows
    BY <1>1, <1>4, <1>6, <2>1 DEF Write
  <2>3. /\ reads' \in [Object -> 0..MaxSeq] /\ reads'[o] = n
        /\ \A p \in Object \ {o} : reads'[p] = reads[p]
    BY <1>2, <1>3, <2>2
  <2>. QED
    BY <1>1, <1>2, <1>3, <1>6, <2>1, <2>2, <2>3
<1>7. CASE writer[w].kind = "purge"
  <2>1. /\ meta' = (IF n = 0 THEN meta ELSE [meta EXCEPT ![o] = [seq |-> n, del |-> TRUE]])
        /\ rows' = rows \ {o} /\ reads' = [reads EXCEPT ![o] = 0]
    BY <1>1, <1>7 DEF Write
  <2>2. /\ reads' \in [Object -> 0..MaxSeq] /\ reads'[o] = 0
        /\ \A p \in Object \ {o} : reads'[p] = reads[p]
    BY <1>2, <1>3, <2>1
  <2>3. /\ meta' \in [Object -> MetaRow] /\ \A p \in Object \ {o} : meta'[p] = meta[p]
        /\ IF n = 0 THEN meta' = meta ELSE meta'[o].seq = n /\ meta'[o].del
    <3>1. CASE n = 0
      BY <1>3, <2>1, <3>1
    <3>2. CASE n # 0
      <4>1. meta' = [meta EXCEPT ![o] = [seq |-> n, del |-> TRUE]]
        BY <2>1, <3>2
      <4>2. [seq |-> n, del |-> TRUE] \in MetaRow
        BY <1>2 DEF MetaRow
      <4>. QED
        BY <1>2, <1>3, <3>2, <4>1, <4>2
    <3>. QED
      BY <3>1, <3>2
  <2>4. n = 0 => ~Announced(o)
    BY <1>1, <1>7 DEF Stamps
  <2>. QED
    BY <1>1, <1>2, <1>3, <1>7, <2>1, <2>2, <2>3, <2>4
<1>. QED
  BY <1>2, <1>5, <1>6, <1>7 DEF Kind

----------------------------------------------------------------------------
(* What the steps do to the consumer.                                      *)

\* Fields of the consumer that a step of another kind leaves.
SameAxis == reader'.feed = reader.feed /\ reader'.gen = reader.gen
SameSeen == reader'.cursor = reader.cursor /\ reader'.seen = reader.seen

LEMMA WakeFacts ==
    ASSUME TypeOK, NEW fs, Wake(fs)
    PROVE  /\ reader' \in ReaderRow /\ SameAxis /\ SameSeen /\ reader'.page = reader.page
           /\ reader'.step = reader.step \/ (reader.step = "sleep" /\ reader'.step = "pull")
<1>1. reader \in ReaderRow
  BY Values
<1>2. reader' = reader \/ (reader' = [reader EXCEPT !.step = "pull"] /\ reader.step = "sleep")
  BY DEF Wake
<1>. QED
  BY <1>1, <1>2 DEF ReaderRow, SameAxis, SameSeen

LEMMA StopFacts ==
    ASSUME TypeOK, reader' = [reader EXCEPT !.step = "start", !.page = {}]
    PROVE  /\ reader' \in ReaderRow /\ SameAxis /\ SameSeen
           /\ reader'.step = "start" /\ reader'.page = {}
<1>1. reader \in ReaderRow
  BY Values
<1>. QED
  BY <1>1 DEF ReaderRow, SameAxis, SameSeen

LEMMA StartFacts ==
    ASSUME TypeOK, Start
    PROVE  /\ reader' \in ReaderRow /\ reader'.feed = reader.feed /\ reader'.step = "pull"
           /\ reader'.gen = gen
           /\ SameSeen \/ (reader'.cursor = 0 /\ \A o \in Object : reader'.seen[o] = 0)
           /\ reader.gen = gen => SameSeen
<1>1. reader \in ReaderRow /\ gen \in Nat
  BY Values DEF TypeOK
<1>2. CASE reader.gen = gen
  <2>1. reader' = [reader EXCEPT !.step = "pull"]
    BY <1>2 DEF Start
  <2>. QED
    BY <1>1, <1>2, <2>1 DEF ReaderRow, SameSeen
<1>3. CASE reader.gen # gen
  <2>. DEFINE new == NewReader(reader.feed)
  <2>1. /\ new \in ReaderRow /\ new.feed = reader.feed /\ new.cursor = 0
        /\ \A o \in Object : new.seen[o] = 0
    BY <1>1, BoundAssumption DEF NewReader, ReaderRow, Unseen
  <2>2. reader' = [new EXCEPT !.step = "pull", !.gen = gen]
    BY <1>3 DEF Start
  <2>. HIDE DEF new
  <2>3. /\ reader' \in ReaderRow /\ reader'.feed = new.feed /\ reader'.step = "pull"
        /\ reader'.gen = gen /\ reader'.cursor = new.cursor /\ reader'.seen = new.seen
    BY <1>1, <2>1, <2>2 DEF ReaderRow
  <2>. QED
    BY <1>3, <2>1, <2>3
<1>. QED
  BY <1>2, <1>3

\* A page holds rows above the cursor, with every row before one of its own.
LEMMA PageFacts ==
    ASSUME TypeOK
    PROVE  /\ Page \in SUBSET (Object \X (1..MaxSeq))
           /\ \A e \in Page : e[1] \in Object /\ e[2] = SeqOf(e[1])
           /\ \A e \in Page : \A o \in Object :
                 reader.cursor < SeqOf(o) /\ SeqOf(o) <= e[2] => <<o, SeqOf(o)>> \in Page
<1>. DEFINE later == {o \in Object : SeqOf(o) > reader.cursor}
            before(o) == {p \in later : SeqOf(p) < SeqOf(o)}
            kept == {p \in later : Cardinality(before(p)) < PageSize}
<1>1. Page = {<<o, SeqOf(o)>> : o \in kept}
  BY DEF Page
<1>2. /\ \A o \in Object : SeqOf(o) \in 0..MaxSeq
      /\ reader.cursor \in 0..MaxSeq /\ MaxSeq \in Nat /\ PageSize \in Nat
  BY ReaderValues, BoundAssumption
<1>3. \A o \in later : SeqOf(o) \in 1..MaxSeq
  BY <1>2
<1>4. ASSUME NEW p \in kept, NEW o \in Object, reader.cursor < SeqOf(o), SeqOf(o) <= SeqOf(p)
      PROVE  o \in kept
  <2>1. o \in later /\ p \in later /\ Cardinality(before(p)) < PageSize
    BY <1>2, <1>4
  <2>2. before(o) \in SUBSET before(p)
    <3>1. \A q \in later : SeqOf(q) < SeqOf(o) => SeqOf(q) < SeqOf(p)
      BY <1>2, <1>4
    <3>. QED
      BY <3>1
  <2>3. IsFiniteSet(before(p))
    <3>1. before(p) \in SUBSET Object
      OBVIOUS
    <3>. QED
      BY <3>1, ObjectAssumption, FS_Subset
  <2>4. /\ Cardinality(before(o)) \in Nat /\ Cardinality(before(p)) \in Nat
        /\ Cardinality(before(o)) <= Cardinality(before(p))
    <3>. HIDE DEF before, later
    <3>. QED
      BY <2>2, <2>3, FS_Subset, FS_CardinalityType
  <2>5. Cardinality(before(o)) < PageSize
    <3>. HIDE DEF before, later
    <3>. QED
      BY <1>2, <2>1, <2>4
  <2>. QED
    BY <2>1, <2>5
<1>5. kept \subseteq later /\ later \subseteq Object
  OBVIOUS
<1>. HIDE DEF kept, later, before
<1>6. Page \in SUBSET (Object \X (1..MaxSeq))
  BY <1>1, <1>3, <1>5
<1>7. \A e \in Page : e[1] \in Object /\ e[2] = SeqOf(e[1])
  BY <1>1, <1>5
<1>8. ASSUME NEW e \in Page, NEW o \in Object, reader.cursor < SeqOf(o), SeqOf(o) <= e[2]
      PROVE  <<o, SeqOf(o)>> \in Page
  <2>1. PICK p \in kept : e = <<p, SeqOf(p)>>
    BY <1>1
  <2>2. o \in kept
    BY <1>4, <1>8, <2>1
  <2>. QED
    BY <1>1, <2>2
<1>. QED
  BY <1>6, <1>7, <1>8

LEMMA PullFacts ==
    ASSUME TypeOK, Pull
    PROVE  /\ reader.step = "pull" /\ reader' \in ReaderRow /\ SameAxis /\ SameSeen
           /\ reader'.page = Page /\ Page \in SUBSET (Object \X (1..MaxSeq))
           /\ (reader'.step = "index" /\ Page # {}) \/ reader'.step = "sleep"
<1>1. reader \in ReaderRow /\ Page \in SUBSET (Object \X (1..MaxSeq))
  BY Values, PageFacts
<1>2. reader.step = "pull"
      /\ reader' = [reader EXCEPT !.page = Page, !.step = IF Page = {} THEN "sleep" ELSE "index"]
  BY DEF Pull
<1>3. CASE Page = {}
  BY <1>1, <1>2, <1>3 DEF ReaderRow, SameAxis, SameSeen
<1>4. CASE Page # {}
  BY <1>1, <1>2, <1>4 DEF ReaderRow, SameAxis, SameSeen
<1>. QED
  BY <1>3, <1>4

LEMMA IndexFacts ==
    ASSUME TypeOK, Index
    PROVE  /\ reader.step = "index" /\ reader' \in ReaderRow /\ SameAxis
           /\ reader'.cursor = reader.cursor /\ reader'.page = reader.page
           /\ reader'.step = "save"
           /\ \A o \in Object : reader.seen[o] <= reader'.seen[o]
           /\ \A o \in Object, n \in 1..MaxSeq : <<o, n>> \in reader.page => n <= reader'.seen[o]
<1>. DEFINE told(o) == {reader.seen[o]} \cup {n \in 1..MaxSeq : <<o, n>> \in reader.page}
            s == [o \in Object |-> Max(told(o))]
<1>1. reader \in ReaderRow /\ reader.seen \in [Object -> 0..MaxSeq] /\ MaxSeq \in Nat
  BY Values, ReaderValues
<1>2. reader.step = "index" /\ reader' = [reader EXCEPT !.step = "save", !.seen = s]
  BY DEF Index
<1>3. \A o \in Object : told(o) \in SUBSET (0..MaxSeq) /\ told(o) # {}
  BY <1>1
<1>4. \A o \in Object : /\ Max(told(o)) \in 0..MaxSeq
                        /\ \A x \in told(o) : x <= Max(told(o))
  <2>. HIDE DEF told
  <2>. QED
    BY <1>1, <1>3, MaxFacts
<1>5. s \in [Object -> 0..MaxSeq] /\ \A o \in Object : s[o] = Max(told(o))
  BY <1>4
<1>6. \A o \in Object : /\ reader.seen[o] <= s[o]
                        /\ \A n \in 1..MaxSeq : <<o, n>> \in reader.page => n <= s[o]
  <2>1. \A o \in Object : /\ reader.seen[o] \in told(o)
                          /\ \A n \in 1..MaxSeq : <<o, n>> \in reader.page => n \in told(o)
    OBVIOUS
  <2>. HIDE DEF told, s
  <2>. QED
    BY <1>4, <1>5, <2>1
<1>. HIDE DEF told, s
<1>7. /\ reader' \in ReaderRow /\ SameAxis /\ reader'.cursor = reader.cursor
      /\ reader'.page = reader.page /\ reader'.step = "save" /\ reader'.seen = s
  BY <1>1, <1>2, <1>5 DEF ReaderRow, SameAxis
<1>. QED
  BY <1>2, <1>6, <1>7

LEMMA SaveFacts ==
    ASSUME TypeOK, AxisInv, Save
    PROVE  /\ reader.step = "save" /\ reader' \in ReaderRow /\ SameAxis
           /\ reader'.seen = reader.seen /\ reader'.page = {} /\ reader'.step = "pull"
           /\ \E e \in reader.page : reader'.cursor = e[2]
<1>. DEFINE S == {e[2] : e \in reader.page}
<1>1. /\ reader \in ReaderRow /\ reader.page \in SUBSET (Object \X (1..MaxSeq))
      /\ MaxSeq \in Nat
  BY Values, ReaderValues
<1>2. /\ reader.step = "save"
      /\ reader' = [reader EXCEPT !.step = "pull", !.page = {}, !.cursor = Max(S)]
  BY DEF Save
<1>3. S \in SUBSET (0..MaxSeq) /\ S # {}
  <2>1. reader.page # {}
    BY <1>2 DEF AxisInv
  <2>2. \A e \in reader.page : e[2] \in 0..MaxSeq
    BY <1>1
  <2>. QED
    BY <2>1, <2>2
<1>4. Max(S) \in S /\ Max(S) \in 0..MaxSeq
  <2>. HIDE DEF S
  <2>. QED
    BY <1>1, <1>3, MaxFacts
<1>5. \E e \in reader.page : Max(S) = e[2]
  BY <1>4
<1>. HIDE DEF S
<1>6. /\ reader' \in ReaderRow /\ SameAxis /\ reader'.seen = reader.seen
      /\ reader'.page = {} /\ reader'.step = "pull" /\ reader'.cursor = Max(S)
  BY <1>1, <1>2, <1>4 DEF ReaderRow, SameAxis
<1>. QED
  BY <1>2, <1>5, <1>6

----------------------------------------------------------------------------
(* The tables, the allocator and the deletion.                             *)

\* The type invariant by the names of the rows.
OneWrites ==
    \A v, w \in Writer : writer[v].step = "write" /\ writer[w].step = "write" => v = w
SeededAbove ==
    alloc.seeded => \A o \in Object : meta[o].seq <= alloc.last /\ reads[o] <= alloc.last
Life == {"live", "deleting", "refused", "purged"}
Alloc == [seeded : BOOLEAN, last : 0..MaxSeq]

Typed ==
    /\ meta \in [Object -> MetaRow] /\ reads \in [Object -> 0..MaxSeq] /\ rows \subseteq Object
    /\ gen \in Nat /\ faults \in 0..MaxFaults /\ life \in [Object -> Life]
    /\ alloc \in Alloc /\ writer \in [Writer -> WriterRow] /\ OneWrites /\ SeededAbove
    /\ reader \in ReaderRow

LEMMA TypeNames == (TypeOK <=> Typed) /\ (TypeOK' <=> Typed')
BY DEF TypeOK, Typed, MetaRow, WriterRow, ReaderRow, Step, OneWrites, SeededAbove, Life, Alloc

\* The seed is above every number persisted.
LEMMA SeedFacts ==
    ASSUME TypeOK, alloc' = Seed
    PROVE  /\ alloc' \in Alloc /\ alloc'.seeded
           /\ \A o \in Object : meta[o].seq <= alloc'.last /\ reads[o] <= alloc'.last
<1>. DEFINE S == {0} \cup {meta[o].seq : o \in Object} \cup {reads[o] : o \in Object}
<1>1. S \in SUBSET (0..MaxSeq) /\ S # {} /\ MaxSeq \in Nat
  BY Values
<1>2. Max(S) \in 0..MaxSeq /\ \A x \in S : x <= Max(S)
  <2>. HIDE DEF S
  <2>. QED
    BY <1>1, MaxFacts
<1>3. \A o \in Object : meta[o].seq <= Max(S) /\ reads[o] <= Max(S)
  BY <1>2
<1>4. alloc' = [seeded |-> TRUE, last |-> Max(S)]
  BY DEF Seed
<1>. HIDE DEF S
<1>. QED
  BY <1>2, <1>3, <1>4 DEF Alloc

LEMMA LoadStoreKeeps ==
    ASSUME StoreInv, LoadStore PROVE StoreInv'
<1>1. /\ ~alloc.seeded /\ alloc' = Seed
      /\ UNCHANGED <<meta, reads, rows, gen, life, writer, reader, faults>>
  BY DEF LoadStore, tables
<1>2. /\ alloc' \in Alloc /\ alloc'.seeded
      /\ \A o \in Object : meta[o].seq <= alloc'.last /\ reads[o] <= alloc'.last
  BY <1>1, SeedFacts DEF StoreInv
<1>3. TypeOK'
  BY <1>1, <1>2, TypeNames DEF StoreInv, Typed, OneWrites, SeededAbove
<1>4. \A w \in Writer : writer[w].step = "idle" /\ writer[w].seq = 0
  BY <1>1 DEF StoreInv, WriterInv
<1>5. WriterInv'
  BY <1>1, <1>2, <1>4 DEF StoreInv, WriterInv, Alloc
<1>6. DeleteInv'
  BY <1>1 DEF StoreInv, DeleteInv, InFlight
<1>. QED
  BY <1>3, <1>5, <1>6 DEF StoreInv

\* A goroutine that stays within its operation, or ends it, adds nothing in
\* flight and no purge.
LEMMA FlightShrinks ==
    ASSUME DeleteInv, NEW w \in Writer,
           \A v \in Writer \ {w} : writer'[v] = writer[v],
           writer'[w].step \in {"wait", "write"} =>
              /\ writer[w].step \in {"wait", "write"}
              /\ writer'[w].obj = writer[w].obj /\ writer'[w].kind = writer[w].kind
    PROVE  /\ \A o \in Object : InFlight(o)' => InFlight(o)
           /\ \A v \in Writer : writer'[v].step \in {"wait", "write"} /\ writer'[v].kind = "purge" =>
                                   life[writer'[v].obj] \in {"refused", "purged"}
BY DEF DeleteInv, InFlight

LEMMA BeginKeeps ==
    ASSUME StoreInv, NEW w \in Writer, NEW k \in Kind, NEW o \in Object, Begin(w, k, o)
    PROVE  StoreInv'
<1>. DEFINE r == [step |-> "wait", kind |-> k, obj |-> o, seq |-> 0]
<1>1. r \in WriterRow /\ r.step = "wait" /\ r.kind = k /\ r.obj = o /\ r.seq = 0
  BY BoundAssumption DEF WriterRow, Step
<1>2. /\ alloc.seeded /\ writer[w].step = "idle" /\ Admits(k, o) /\ Sets(w, r)
      /\ UNCHANGED <<meta, reads, rows, gen, life, alloc, reader, faults>>
  BY DEF Begin, Sets, tables
<1>. HIDE DEF r
<1>3. /\ writer' \in [Writer -> WriterRow] /\ writer'[w] = r
      /\ \A v \in Writer \ {w} : writer'[v] = writer[v]
  BY <1>1, <1>2, SetFacts DEF StoreInv
<1>4. TypeOK'
  BY <1>1, <1>2, <1>3, TypeNames DEF StoreInv, Typed, OneWrites, SeededAbove
<1>5. WriterInv'
  <2>1. 0 <= alloc.last
    BY Values DEF StoreInv
  <2>. QED
    BY <1>1, <1>2, <1>3, <2>1 DEF StoreInv, WriterInv
<1>6. DeleteInv'
  <2>1. \A p \in Object : life[p] \in {"refused", "purged"} => ~InFlight(p)'
    <3>1. k = "apply" => life[o] \in {"live", "deleting"}
      BY <1>2 DEF Admits
    <3>. QED
      BY <1>1, <1>3, <3>1 DEF StoreInv, DeleteInv, InFlight
  <2>2. k = "purge" => life[o] \in {"refused", "purged"}
    BY <1>2 DEF Admits
  <2>. QED
    BY <1>1, <1>2, <1>3, <2>1, <2>2 DEF StoreInv, DeleteInv
<1>. QED
  BY <1>4, <1>5, <1>6 DEF StoreInv

LEMMA EnterKeeps ==
    ASSUME StoreInv, NEW w \in Writer, Enter(w) PROVE StoreInv'
<1>1. /\ writer[w].step = "wait" /\ (\A v \in Writer : writer[v].step # "write")
      /\ Moves(w, "write")
      /\ UNCHANGED <<meta, reads, rows, gen, life, alloc, reader, faults>>
  BY DEF Enter, Moves, tables
<1>2. /\ writer' \in [Writer -> WriterRow]
      /\ writer'[w].step = "write" /\ writer'[w].kind = writer[w].kind
      /\ writer'[w].obj = writer[w].obj /\ writer'[w].seq = writer[w].seq
      /\ \A v \in Writer \ {w} : writer'[v] = writer[v]
  BY <1>1, MoveFacts DEF StoreInv, Step
<1>3. TypeOK'
  BY <1>1, <1>2, TypeNames DEF StoreInv, Typed, OneWrites, SeededAbove
<1>4. WriterInv'
  BY <1>1, <1>2 DEF StoreInv, WriterInv
<1>5. DeleteInv'
  BY <1>1, <1>2, FlightShrinks DEF StoreInv, DeleteInv
<1>. QED
  BY <1>3, <1>4, <1>5 DEF StoreInv

LEMMA AllocateKeeps ==
    ASSUME StoreInv, NEW w \in Writer, Allocate(w) PROVE StoreInv'
<1>1. /\ writer[w].step = "write" /\ alloc.last < MaxSeq
      /\ alloc' = [alloc EXCEPT !.last = @ + 1] /\ Takes(w, alloc'.last)
      /\ UNCHANGED <<meta, reads, rows, gen, life, reader, faults>>
  BY DEF Allocate, MayAllocate, Takes, tables
<1>2. /\ alloc' \in Alloc /\ alloc'.last = alloc.last + 1 /\ alloc'.seeded = alloc.seeded
      /\ alloc'.last \in 0..MaxSeq /\ alloc.last \in 0..MaxSeq
  <2>1. alloc \in Alloc
    BY TypeNames DEF StoreInv, Typed
  <2>. QED
    BY <1>1, <2>1, BoundAssumption DEF Alloc
<1>3. alloc.seeded
  BY <1>1 DEF StoreInv, WriterInv
<1>4. /\ writer' \in [Writer -> WriterRow]
      /\ writer'[w].step = writer[w].step /\ writer'[w].kind = writer[w].kind
      /\ writer'[w].obj = writer[w].obj /\ writer'[w].seq = alloc'.last
      /\ \A v \in Writer \ {w} : writer'[v] = writer[v]
  BY <1>1, <1>2, TakeFacts DEF StoreInv
<1>5. \A o \in Object : meta[o].seq <= alloc.last /\ reads[o] <= alloc.last
  BY <1>3 DEF StoreInv, TypeOK
<1>6. \A o \in Object : /\ meta[o].seq < alloc'.last /\ reads[o] < alloc'.last
                        /\ meta[o].seq <= alloc'.last /\ reads[o] <= alloc'.last
  BY <1>2, <1>5, Values DEF StoreInv
<1>7. TypeOK'
  <2>1. SeededAbove'
    BY <1>1, <1>6 DEF SeededAbove
  <2>. QED
    BY <1>1, <1>2, <1>4, <2>1, TypeNames DEF StoreInv, Typed, OneWrites
<1>8. WriterInv'
  <2>1. \A v \in Writer : writer'[v].seq <= alloc'.last
    <3>1. \A v \in Writer : writer[v].seq \in Int /\ writer[v].seq <= alloc.last
      BY Values DEF StoreInv, WriterInv
    <3>2. \A v \in Writer \ {w} : writer'[v].seq <= alloc'.last
      BY <1>2, <1>4, <3>1
    <3>. QED
      BY <1>2, <1>4, <3>2
  <2>2. \A v \in Writer \ {w} : writer[v].step # "write"
    BY <1>1 DEF StoreInv, TypeOK
  <2>. QED
    BY <1>1, <1>2, <1>3, <1>4, <1>6, <2>1, <2>2 DEF StoreInv, WriterInv
<1>9. DeleteInv'
  BY <1>1, <1>4, FlightShrinks DEF StoreInv, DeleteInv
<1>. QED
  BY <1>7, <1>8, <1>9 DEF StoreInv

\* The number of a commit is above what was persisted, and no number that the
\* allocator gives again.
LEMMA CommitKeeps ==
    ASSUME StoreInv, NEW w \in Writer, Commit(w) PROVE StoreInv'
<1>. DEFINE o == writer[w].obj
            n == writer[w].seq
<1>1. /\ o \in Object /\ n \in 0..MaxSeq /\ writer[w].kind \in Kind
      /\ writer[w].step = "write" /\ Moves(w, "notify")
      /\ meta' \in [Object -> MetaRow] /\ reads' \in [Object -> 0..MaxSeq] /\ rows' \subseteq Object
      /\ \A p \in Object \ {o} : /\ meta'[p] = meta[p] /\ reads'[p] = reads[p]
                                 /\ p \in rows' <=> p \in rows
      /\ writer[w].kind = "apply" =>
            /\ n # 0 /\ meta'[o].seq = n /\ meta'[o].del = meta[o].del /\ o \in rows'
            /\ reads'[o] = (IF o \in Tracked THEN n ELSE reads[o])
      /\ writer[w].kind = "mark" =>
            n # 0 /\ meta' = meta /\ rows' = rows /\ reads'[o] = n
      /\ writer[w].kind = "purge" =>
            /\ o \notin rows' /\ reads'[o] = 0
            /\ IF n = 0 THEN meta' = meta /\ ~Announced(o)
               ELSE meta'[o].seq = n /\ meta'[o].del
      /\ life' = (IF writer[w].kind = "purge" THEN [life EXCEPT ![o] = "purged"] ELSE life)
      /\ UNCHANGED <<gen, alloc, reader, faults>>
  BY CommitFacts DEF StoreInv
<1>. HIDE DEF o, n
<1>2. /\ writer' \in [Writer -> WriterRow]
      /\ writer'[w].step = "notify" /\ writer'[w].kind = writer[w].kind
      /\ writer'[w].obj = o /\ writer'[w].seq = n
      /\ \A v \in Writer \ {w} : writer'[v] = writer[v]
  BY <1>1, MoveFacts DEF StoreInv, Step, o, n
<1>3. /\ alloc.seeded /\ n <= alloc.last /\ alloc.last \in 0..MaxSeq
      /\ \A p \in Object : meta[p].seq <= alloc.last /\ reads[p] <= alloc.last
  BY <1>1, Values DEF StoreInv, WriterInv, TypeOK, n
<1>4. /\ life' \in [Object -> Life]
      /\ \A p \in Object : life'[p] = IF p = o /\ writer[w].kind = "purge" THEN "purged"
                                      ELSE life[p]
  <2>1. life \in [Object -> Life]
    BY TypeNames DEF StoreInv, Typed
  <2>. QED
    BY <1>1, <2>1 DEF Life
<1>5. \A p \in Object : meta'[p].seq <= alloc.last /\ reads'[p] <= alloc.last
  <2>1. meta'[o].seq <= alloc.last
    BY <1>1, <1>3 DEF Kind
  <2>2. reads'[o] <= alloc.last
    BY <1>1, <1>3 DEF Kind
  <2>. QED
    BY <1>1, <1>3, <2>1, <2>2
<1>6. TypeOK'
  <2>1. SeededAbove'
    BY <1>1, <1>5 DEF SeededAbove
  <2>2. OneWrites'
    BY <1>2 DEF OneWrites, StoreInv, TypeOK
  <2>. QED
    BY <1>1, <1>2, <1>4, <2>1, <2>2, TypeNames DEF StoreInv, Typed
<1>7. WriterInv'
  <2>1. \A v \in Writer \ {w} : writer[v].step # "write"
    BY <1>1 DEF StoreInv, TypeOK
  <2>. QED
    BY <1>1, <1>2, <1>3, <2>1 DEF StoreInv, WriterInv
<1>8. DeleteInv'
  <2>1. /\ \A p \in Object : InFlight(p)' => InFlight(p)
        /\ \A v \in Writer : writer'[v].step \in {"wait", "write"} /\ writer'[v].kind = "purge" =>
                                life[writer'[v].obj] \in {"refused", "purged"}
    BY <1>2, FlightShrinks DEF StoreInv
  <2>2. writer[w].kind = "purge" => life[o] \in {"refused", "purged"}
    BY <1>1 DEF StoreInv, DeleteInv, o
  <2>3. \A p \in Object : life'[p] \in {"refused", "purged"} => life[p] \in {"refused", "purged"}
    BY <1>4, <2>2
  <2>4. \A p \in Object : life[p] = "purged" => life'[p] = "purged"
    BY <1>4
  <2>5. \A p \in Object : life'[p] \in {"refused", "purged"} => ~InFlight(p)'
    BY <2>1, <2>3 DEF StoreInv, DeleteInv
  <2>6. \A p \in Object : life[p] \in {"refused", "purged"} => life'[p] \in {"refused", "purged"}
    BY <1>4
  <2>7. \A v \in Writer : writer'[v].step \in {"wait", "write"} /\ writer'[v].kind = "purge" =>
                             life'[writer'[v].obj] \in {"refused", "purged"}
    <3>1. \A v \in Writer : writer'[v].step \in {"wait", "write"} => writer'[v].obj \in Object
      BY <1>2 DEF StoreInv, WriterInv
    <3>. QED
      BY <2>1, <2>6, <3>1
  <2>8. \A p \in Object : meta'[p].del => life'[p] = "purged" /\ p \notin rows'
    <3>1. \A p \in Object \ {o} : meta'[p].del => life'[p] = "purged" /\ p \notin rows'
      BY <1>1, <2>4 DEF StoreInv, DeleteInv
    <3>2. CASE writer[w].kind = "apply"
      <4>1. InFlight(o)
        BY <1>1, <3>2 DEF InFlight, o
      <4>2. ~meta[o].del
        BY <1>1, <4>1 DEF StoreInv, DeleteInv
      <4>. QED
        BY <1>1, <3>1, <3>2, <4>2
    <3>3. CASE writer[w].kind = "mark"
      BY <1>1, <2>4, <3>1, <3>3 DEF StoreInv, DeleteInv
    <3>4. CASE writer[w].kind = "purge"
      BY <1>1, <1>4, <3>1, <3>4
    <3>. QED
      BY <1>1, <3>2, <3>3, <3>4 DEF Kind
  <2>. QED
    BY <2>5, <2>7, <2>8 DEF DeleteInv
<1>. QED
  BY <1>6, <1>7, <1>8 DEF StoreInv

\* A goroutine that is done, or gives up, is idle.
LEMMA EndKeeps ==
    ASSUME StoreInv, NEW w \in Writer, Notify(w) \/ Rollback(w) PROVE StoreInv'
<1>1. /\ Sets(w, Idle) /\ reader' \in ReaderRow
      /\ UNCHANGED <<meta, reads, rows, gen, life, alloc>> /\ faults' \in 0..MaxFaults
  <2>1. CASE Notify(w)
    BY <2>1, WakeFacts DEF Notify, Sets, tables, StoreInv, TypeOK
  <2>2. CASE Rollback(w)
    <3>1. /\ Sets(w, Idle) /\ UNCHANGED <<meta, reads, rows, gen, life, alloc, reader>>
          /\ faults' = faults \/ (faults < MaxFaults /\ faults' = faults + 1)
      BY <2>2 DEF Rollback, Sets, tables, Fault
    <3>2. reader \in ReaderRow /\ faults \in 0..MaxFaults
      BY TypeNames DEF StoreInv, Typed
    <3>. QED
      BY <3>1, <3>2, BoundAssumption
  <2>. QED
    BY <2>1, <2>2
<1>2. /\ writer' \in [Writer -> WriterRow] /\ writer'[w] = Idle
      /\ \A v \in Writer \ {w} : writer'[v] = writer[v]
  BY <1>1, IdleFacts, SetFacts DEF StoreInv
<1>3. TypeOK'
  BY <1>1, <1>2, IdleFacts, TypeNames DEF StoreInv, Typed, OneWrites, SeededAbove
<1>4. WriterInv'
  <2>1. 0 <= alloc.last
    BY Values DEF StoreInv
  <2>. QED
    BY <1>1, <1>2, <2>1, IdleFacts DEF StoreInv, WriterInv
<1>5. DeleteInv'
  BY <1>1, <1>2, IdleFacts, FlightShrinks DEF StoreInv, DeleteInv
<1>. QED
  BY <1>3, <1>4, <1>5 DEF StoreInv

\* The consumer touches nothing of the store.
LEMMA ReaderKeeps ==
    ASSUME StoreInv, AxisInv, ReaderStep PROVE StoreInv'
<1>1. UNCHANGED <<meta, reads, rows, gen, life, alloc, writer, faults>>
  BY DEF ReaderStep, Start, Pull, Index, Save, tables
<1>2. reader' \in ReaderRow
  BY StartFacts, PullFacts, IndexFacts, SaveFacts DEF ReaderStep, StoreInv
<1>3. TypeOK'
  BY <1>1, <1>2, TypeNames DEF StoreInv, Typed, OneWrites, SeededAbove
<1>4. WriterInv' /\ DeleteInv'
  BY <1>1 DEF StoreInv, WriterInv, DeleteInv, InFlight
<1>. QED
  BY <1>3, <1>4 DEF StoreInv

LEMMA DeletionKeeps ==
    ASSUME StoreInv, NEW o \in Object, DeleteTree(o) \/ Refuse(o) PROVE StoreInv'
<1>1. /\ UNCHANGED <<meta, reads, rows, gen, alloc, writer, reader, faults>>
      /\ \/ life[o] = "live" /\ life' = [life EXCEPT ![o] = "deleting"]
         \/ life[o] = "deleting" /\ ~InFlight(o) /\ life' = [life EXCEPT ![o] = "refused"]
  BY DEF DeleteTree, Refuse, tables
<1>2. /\ life' \in [Object -> Life] /\ \A p \in Object \ {o} : life'[p] = life[p]
      /\ \/ life[o] = "live" /\ life'[o] = "deleting"
         \/ life[o] = "deleting" /\ ~InFlight(o) /\ life'[o] = "refused"
  <2>1. life \in [Object -> Life]
    BY TypeNames DEF StoreInv, Typed
  <2>. QED
    BY <1>1, <2>1 DEF Life
<1>3. TypeOK'
  BY <1>1, <1>2, TypeNames DEF StoreInv, Typed, OneWrites, SeededAbove
<1>4. WriterInv'
  BY <1>1 DEF StoreInv, WriterInv
<1>5. DeleteInv'
  <2>1. \A p \in Object : InFlight(p)' <=> InFlight(p)
    BY <1>1 DEF InFlight
  <2>2. \A v \in Writer : writer[v].step \in {"wait", "write"} => writer[v].obj \in Object
    BY DEF StoreInv, WriterInv
  <2>. QED
    BY <1>1, <1>2, <2>1, <2>2 DEF StoreInv, DeleteInv
<1>. QED
  BY <1>3, <1>4, <1>5 DEF StoreInv

\* What a crash leaves: no goroutine, no allocator, no tree half deleted.
LEMMA CrashFacts ==
    ASSUME TypeOK, NEW wipe \in BOOLEAN, Crash(wipe)
    PROVE  /\ faults' \in 0..MaxFaults /\ alloc' \in Alloc /\ ~alloc'.seeded /\ alloc'.last = 0
           /\ writer' \in [Writer -> WriterRow] /\ \A w \in Writer : writer'[w] = Idle
           /\ reader' = [reader EXCEPT !.step = "start", !.page = {}]
           /\ life' \in [Object -> Life]
           /\ \A o \in Object : life'[o] = IF life[o] = "deleting" THEN "refused" ELSE life[o]
           /\ \/ /\ meta' = NoMeta /\ reads' = Unseen /\ rows' = {} /\ gen' = gen + 1
              \/ UNCHANGED <<meta, reads, rows, gen>>
<1>1. faults' \in 0..MaxFaults
  BY BoundAssumption, TypeNames DEF Crash, Fault, Typed
<1>2. alloc' \in Alloc /\ ~alloc'.seeded /\ alloc'.last = 0
  <2>1. alloc' = [seeded |-> FALSE, last |-> 0]
    BY DEF Crash
  <2>. QED
    BY <2>1, BoundAssumption DEF Alloc
<1>3. writer' \in [Writer -> WriterRow] /\ \A w \in Writer : writer'[w] = Idle
  BY IdleFacts DEF Crash
<1>4. /\ life' \in [Object -> Life]
      /\ \A o \in Object : life'[o] = IF life[o] = "deleting" THEN "refused" ELSE life[o]
  <2>1. life \in [Object -> Life]
    BY TypeNames DEF Typed
  <2>2. life' = [o \in Object |-> IF life[o] = "deleting" THEN "refused" ELSE life[o]]
    BY DEF Crash
  <2>. QED
    BY <2>1, <2>2 DEF Life
<1>5. /\ reader' = [reader EXCEPT !.step = "start", !.page = {}]
      /\ \/ meta' = NoMeta /\ reads' = Unseen /\ rows' = {} /\ gen' = gen + 1
         \/ UNCHANGED <<meta, reads, rows, gen>>
  BY DEF Crash, tables
<1>. QED
  BY <1>1, <1>2, <1>3, <1>4, <1>5

LEMMA EmptyFacts ==
    /\ NoMeta \in [Object -> MetaRow] /\ Unseen \in [Object -> 0..MaxSeq]
    /\ \A o \in Object : NoMeta[o].seq = 0 /\ ~NoMeta[o].del /\ Unseen[o] = 0
BY BoundAssumption DEF NoMeta, Unseen, MetaRow

LEMMA CrashKeeps ==
    ASSUME StoreInv, NEW wipe \in BOOLEAN, Crash(wipe) PROVE StoreInv'
<1>1. TypeOK /\ Typed
  BY TypeNames DEF StoreInv
<1>2. /\ faults' \in 0..MaxFaults /\ alloc' \in Alloc /\ ~alloc'.seeded /\ alloc'.last = 0
      /\ writer' \in [Writer -> WriterRow] /\ \A w \in Writer : writer'[w] = Idle
      /\ life' \in [Object -> Life]
      /\ \A o \in Object : life'[o] = IF life[o] = "deleting" THEN "refused" ELSE life[o]
      /\ \/ meta' = NoMeta /\ reads' = Unseen /\ rows' = {} /\ gen' = gen + 1
         \/ UNCHANGED <<meta, reads, rows, gen>>
  BY <1>1, CrashFacts
<1>3. reader' \in ReaderRow
  BY <1>1, CrashFacts, StopFacts
<1>4. /\ meta' \in [Object -> MetaRow] /\ reads' \in [Object -> 0..MaxSeq]
      /\ rows' \subseteq Object /\ gen' \in Nat
  BY <1>1, <1>2, EmptyFacts DEF Typed
<1>5. TypeOK'
  BY <1>2, <1>3, <1>4, IdleFacts, TypeNames DEF Typed, OneWrites, SeededAbove
<1>6. WriterInv'
  BY <1>2, IdleFacts DEF WriterInv
<1>7. DeleteInv'
  <2>1. \A o \in Object : meta'[o].del => life'[o] = "purged" /\ o \notin rows'
    BY <1>2, EmptyFacts DEF StoreInv, DeleteInv
  <2>. QED
    BY <1>2, <2>1, IdleFacts DEF DeleteInv, InFlight
<1>. QED
  BY <1>5, <1>6, <1>7 DEF StoreInv

----------------------------------------------------------------------------
(* The store's part of the invariant, with any foreseen objects.           *)

LEMMA StoreInit == Init => StoreInv /\ AxisInv
<1>. SUFFICES ASSUME Init PROVE StoreInv /\ AxisInv
  OBVIOUS
<1>1. PICK f \in Feed : reader = NewReader(f)
  BY DEF Init
<1>2. /\ reader \in ReaderRow /\ reader.gen = 0 /\ reader.step = "start"
      /\ reader.cursor = 0 /\ \A o \in Object : reader.seen[o] = 0
  BY <1>1, BoundAssumption DEF NewReader, ReaderRow, Unseen
<1>3. /\ meta = NoMeta /\ reads = Unseen /\ rows = {} /\ gen = 1 /\ faults = 0
      /\ life = [o \in Object |-> "live"] /\ writer = [w \in Writer |-> Idle]
      /\ alloc = [seeded |-> FALSE, last |-> 0]
  BY DEF Init
<1>4. alloc \in Alloc /\ ~alloc.seeded /\ alloc.last = 0
  BY <1>3, BoundAssumption DEF Alloc
<1>5. TypeOK
  BY <1>2, <1>3, <1>4, EmptyFacts, IdleFacts, BoundAssumption, TypeNames
     DEF Typed, Life, OneWrites, SeededAbove
<1>6. WriterInv
  BY <1>3, <1>4, IdleFacts DEF WriterInv
<1>7. DeleteInv
  BY <1>3, EmptyFacts, IdleFacts DEF DeleteInv, InFlight
<1>8. AxisInv
  BY <1>2, <1>3 DEF AxisInv
<1>. QED
  BY <1>5, <1>6, <1>7, <1>8 DEF StoreInv

LEMMA AxisStep ==
    ASSUME StoreInv, AxisInv, [Next]_vars PROVE AxisInv'
<1>0. reader.gen \in Nat /\ gen \in Nat
  BY ReaderValues DEF StoreInv
<1>1. CASE UNCHANGED <<reader, gen>>
  BY <1>1 DEF AxisInv
<1>2. ASSUME NEW wipe \in BOOLEAN, Crash(wipe) PROVE AxisInv'
  <2>1. reader'.step = "start" /\ reader'.gen = reader.gen
    BY <1>2, CrashFacts, StopFacts DEF StoreInv, SameAxis
  <2>2. gen' = gen \/ gen' = gen + 1
    BY <1>2, CrashFacts DEF StoreInv
  <2>. QED
    BY <1>0, <2>1, <2>2 DEF AxisInv
<1>3. ASSUME NEW w \in Writer, Notify(w) PROVE AxisInv'
  <2>1. /\ reader'.gen = reader.gen /\ gen' = gen /\ reader'.page = reader.page
        /\ reader'.step = reader.step \/ (reader.step = "sleep" /\ reader'.step = "pull")
    BY <1>3, WakeFacts DEF Notify, StoreInv, SameAxis
  <2>. QED
    BY <2>1 DEF AxisInv
<1>4. CASE ReaderStep
  <2>1. gen' = gen
    BY <1>4 DEF ReaderStep, Start, Pull, Index, Save
  <2>2. CASE Start
    BY <1>0, <2>1, <2>2, StartFacts DEF AxisInv, StoreInv
  <2>3. CASE Pull
    BY <2>1, <2>3, PullFacts DEF AxisInv, StoreInv, SameAxis
  <2>4. CASE Index
    BY <2>1, <2>4, IndexFacts DEF AxisInv, StoreInv, SameAxis
  <2>5. CASE Save
    BY <2>1, <2>5, SaveFacts DEF AxisInv, StoreInv, SameAxis
  <2>. QED
    BY <1>4, <2>2, <2>3, <2>4, <2>5 DEF ReaderStep
<1>. QED
  <2>1. LoadStore => UNCHANGED <<reader, gen>>
    BY DEF LoadStore
  <2>2. ASSUME NEW w \in Writer, NEW k \in Kind, NEW o \in Object, Begin(w, k, o)
        PROVE  UNCHANGED <<reader, gen>>
    BY <2>2 DEF Begin
  <2>3. ASSUME NEW w \in Writer, Enter(w) \/ Allocate(w) \/ Commit(w) \/ Rollback(w)
        PROVE  UNCHANGED <<reader, gen>>
    BY <2>3 DEF Enter, Allocate, Commit, Rollback
  <2>4. ASSUME NEW o \in Object, DeleteTree(o) \/ Refuse(o) PROVE UNCHANGED <<reader, gen>>
    BY <2>4 DEF DeleteTree, Refuse
  <2>5. UNCHANGED vars => UNCHANGED <<reader, gen>>
    BY DEF vars
  <2>. QED
    BY <1>1, <1>2, <1>3, <1>4, <2>1, <2>2, <2>3, <2>4, <2>5 DEF Next, WriterStep

LEMMA StoreStep ==
    ASSUME StoreInv, AxisInv, [Next]_vars PROVE StoreInv'
<1>1. CASE UNCHANGED vars
  <2>1. UNCHANGED <<meta, reads, rows, gen, life, alloc, writer, reader, faults>>
    BY <1>1 DEF vars
  <2>2. TypeOK'
    BY <2>1, TypeNames DEF StoreInv, Typed, OneWrites, SeededAbove
  <2>. QED
    BY <2>1, <2>2 DEF StoreInv, WriterInv, DeleteInv, InFlight
<1>2. CASE Next
  <2>1. ASSUME NEW w \in Writer, WriterStep(w) \/ Rollback(w) PROVE StoreInv'
    BY <2>1, EnterKeeps, AllocateKeeps, CommitKeeps, EndKeeps DEF WriterStep
  <2>. QED
    BY <1>2, <2>1, LoadStoreKeeps, CrashKeeps, BeginKeeps, ReaderKeeps, DeletionKeeps DEF Next
<1>. QED
  BY <1>1, <1>2

LEMMA StoreHolds == Spec => [](StoreInv /\ AxisInv)
BY StoreInit, StoreStep, AxisStep, PTL DEF Spec

\* The tables, the allocator, the goroutines and the consumer keep their types:
\* one goroutine writes at a time, and no number that is persisted is given
\* out again, whatever was rolled back, lost or wiped.
THEOREM TypeCorrect == Spec => []TypeOK
BY StoreHolds, PTL DEF StoreInv

\* No row of an object comes back after its deletion was announced.
THEOREM DeletedGone == Spec => []DeletedStaysGone
<1>1. StoreInv => DeletedStaysGone
  BY DEF StoreInv, DeleteInv, DeletedStaysGone
<1>. QED
  BY <1>1, StoreHolds, PTL

----------------------------------------------------------------------------
(* The consumer, when marks reach only what was applied here before.       *)

LEMMA AnnouncedStep ==
    ASSUME Foreseen = {}, StoreInv, AxisInv, AnnouncedInv, [Next]_vars PROVE AnnouncedInv'
<1>1. \A o \in Object : Announced(o)' <=> (o \in rows' \/ meta'[o].seq # 0)
  BY DEF Announced
<1>2. CASE UNCHANGED <<tables, writer>>
  BY <1>2 DEF AnnouncedInv, Announced, tables
<1>3. ASSUME NEW w \in Writer, UNCHANGED tables, \A v \in Writer \ {w} : writer'[v] = writer[v],
             writer'[w].step \in {"wait", "write"} =>
                /\ writer[w].step \in {"wait", "write"}
                /\ writer'[w].obj = writer[w].obj /\ writer'[w].kind = writer[w].kind
      PROVE  AnnouncedInv'
  BY <1>3 DEF AnnouncedInv, Announced, tables
<1>4. ASSUME NEW wipe \in BOOLEAN, Crash(wipe) PROVE AnnouncedInv'
  <2>1. /\ \A w \in Writer : writer'[w] = Idle
        /\ \/ reads' = Unseen
           \/ UNCHANGED <<meta, reads, rows>>
    BY <1>4, CrashFacts DEF StoreInv
  <2>. QED
    BY <1>1, <2>1, IdleFacts, EmptyFacts DEF AnnouncedInv, Announced
<1>5. ASSUME NEW w \in Writer, NEW k \in Kind, NEW o \in Object, Begin(w, k, o)
      PROVE  AnnouncedInv'
  <2>. DEFINE r == [step |-> "wait", kind |-> k, obj |-> o, seq |-> 0]
  <2>1. r \in WriterRow /\ r.step = "wait" /\ r.kind = k /\ r.obj = o /\ r.seq = 0
    BY BoundAssumption DEF WriterRow, Step
  <2>2. Sets(w, r) /\ Admits(k, o) /\ UNCHANGED tables
    BY <1>5 DEF Begin, Sets
  <2>. HIDE DEF r
  <2>3. writer'[w] = r /\ \A v \in Writer \ {w} : writer'[v] = writer[v]
    BY <2>1, <2>2, SetFacts DEF StoreInv
  <2>4. k = "mark" => o \in rows
    BY <2>2 DEF Admits
  <2>. QED
    BY <2>1, <2>2, <2>3, <2>4 DEF AnnouncedInv, Announced, tables
<1>6. ASSUME NEW w \in Writer, Commit(w) PROVE AnnouncedInv'
  <2>. DEFINE o == writer[w].obj
              n == writer[w].seq
  <2>1. /\ o \in Object /\ n \in 0..MaxSeq /\ writer[w].kind \in Kind
        /\ writer[w].step = "write" /\ Moves(w, "notify")
        /\ \A p \in Object \ {o} : /\ meta'[p] = meta[p] /\ reads'[p] = reads[p]
                                   /\ p \in rows' <=> p \in rows
        /\ writer[w].kind = "apply" => n # 0 /\ meta'[o].seq = n /\ o \in rows'
        /\ writer[w].kind = "mark" => meta' = meta /\ rows' = rows
        /\ writer[w].kind = "purge" =>
              /\ reads'[o] = 0
              /\ IF n = 0 THEN meta' = meta /\ ~Announced(o)
                 ELSE meta'[o].seq = n /\ meta'[o].del
    <3>1. TypeOK /\ WriterInv
      BY DEF StoreInv
    <3>. QED
      BY <1>6, <3>1, CommitFacts
  <2>2. /\ writer'[w].step = "notify" /\ \A v \in Writer \ {w} : writer'[v] = writer[v]
    BY <2>1, MoveFacts DEF StoreInv, Step
  <2>. HIDE DEF n
  <2>3. writer[w].kind = "mark" => Announced(o)
    BY <2>1 DEF AnnouncedInv
  <2>. HIDE DEF o
  <2>4. \A p \in Object : Announced(p) => Announced(p)'
    <3>1. \A p \in Object \ {o} : Announced(p) => Announced(p)'
      BY <2>1 DEF Announced
    <3>2. Announced(o) => o \in rows' \/ meta'[o].seq # 0
      BY <2>1 DEF Announced, Kind
    <3>3. \A p \in Object : p = o /\ Announced(p) => Announced(p)'
      BY <3>2 DEF Announced
    <3>. QED
      BY <3>1, <3>3
  <2>5. \A p \in Object : p = o /\ reads'[p] # 0 => Announced(p)'
    <3>1. CASE writer[w].kind = "apply"
      BY <2>1, <3>1 DEF Announced
    <3>2. CASE writer[w].kind = "mark"
      BY <2>1, <2>3, <2>4, <3>2
    <3>3. CASE writer[w].kind = "purge"
      BY <2>1, <3>3
    <3>. QED
      BY <2>1, <3>1, <3>2, <3>3 DEF Kind
  <2>6. \A p \in Object \ {o} : reads'[p] # 0 => Announced(p)'
    BY <2>1, <2>4 DEF AnnouncedInv
  <2>7. \A v \in Writer : writer'[v].step \in {"wait", "write"} =>
           writer'[v] = writer[v] /\ writer[v].obj \in Object
    BY <2>2 DEF StoreInv, WriterInv
  <2>8. \A v \in Writer : writer'[v].step \in {"wait", "write"} /\ writer'[v].kind = "mark" =>
                             Announced(writer[v].obj)'
    <3>1. ASSUME NEW v \in Writer, writer'[v].step \in {"wait", "write"}, writer'[v].kind = "mark"
          PROVE  writer'[v].obj \in rows' \/ meta'[writer'[v].obj].seq # 0
      <4>1. Announced(writer[v].obj) /\ writer[v].obj \in Object /\ writer'[v] = writer[v]
        BY <2>7, <3>1 DEF AnnouncedInv
      <4>2. \A p \in Object : Announced(p) => p \in rows' \/ meta'[p].seq # 0
        BY <2>4 DEF Announced
      <4>. QED
        BY <4>1, <4>2
    <3>. QED
      BY <3>1 DEF Announced
  <2>. QED
    BY <2>5, <2>6, <2>8 DEF AnnouncedInv
<1>. QED
  <2>1. LoadStore \/ ReaderStep => UNCHANGED <<tables, writer>>
    BY DEF LoadStore, ReaderStep, Start, Pull, Index, Save
  <2>2. ASSUME NEW o \in Object, DeleteTree(o) \/ Refuse(o) PROVE UNCHANGED <<tables, writer>>
    BY <2>2 DEF DeleteTree, Refuse
  <2>3. UNCHANGED vars => UNCHANGED <<tables, writer>>
    BY DEF vars, tables
  <2>4. ASSUME NEW w \in Writer, Enter(w) PROVE AnnouncedInv'
    <3>1. writer[w].step = "wait" /\ Moves(w, "write") /\ UNCHANGED tables
      BY <2>4 DEF Enter, Moves
    <3>. QED
      BY <1>3, <3>1, MoveFacts DEF StoreInv, Step
  <2>5. ASSUME NEW w \in Writer, Allocate(w) PROVE AnnouncedInv'
    <3>1. Takes(w, alloc'.last) /\ UNCHANGED tables /\ alloc'.last \in 0..MaxSeq
      <4>1. alloc' = [alloc EXCEPT !.last = @ + 1] /\ alloc.last < MaxSeq /\ alloc \in Alloc
        BY <2>5, TypeNames DEF Allocate, StoreInv, Typed
      <4>2. alloc'.last \in 0..MaxSeq
        BY <4>1, BoundAssumption DEF Alloc
      <4>. QED
        BY <2>5, <4>2 DEF Allocate, Takes
    <3>. QED
      BY <1>3, <3>1, TakeFacts DEF StoreInv
  <2>6. ASSUME NEW w \in Writer, Notify(w) \/ Rollback(w) PROVE AnnouncedInv'
    <3>1. Sets(w, Idle) /\ UNCHANGED tables
      BY <2>6 DEF Notify, Rollback, Sets
    <3>2. writer'[w] = Idle /\ \A v \in Writer \ {w} : writer'[v] = writer[v]
      BY <3>1, IdleFacts, SetFacts DEF StoreInv
    <3>. QED
      BY <1>3, <3>1, <3>2, IdleFacts
  <2>. QED
    BY <1>2, <1>4, <1>5, <1>6, <2>1, <2>2, <2>3, <2>4, <2>5, <2>6 DEF Next, WriterStep

\* A number taken in a transaction is above every number that is reached.
LEMMA FreshAbove ==
    ASSUME StoreInv, NEW w \in Writer, writer[w].step = "write", writer[w].seq # 0,
           NEW m \in 0..MaxSeq, Reached(m)
    PROVE  m < writer[w].seq
<1>1. /\ writer[w].seq \in 0..MaxSeq /\ MaxSeq \in Nat
      /\ \A o \in Object : /\ meta[o].seq \in Nat /\ reads[o] \in Nat
                           /\ meta[o].seq < writer[w].seq /\ reads[o] < writer[w].seq
  BY Values DEF StoreInv, WriterInv
<1>. QED
  BY <1>1 DEF Reached

\* What a commit does to the feeds: a row keeps its number, loses it, or has
\* the new one; and no number that was reached is out of reach.
LEMMA CommitSeq ==
    ASSUME StoreInv, AnnouncedInv, NEW w \in Writer, Commit(w)
    PROVE  /\ writer[w].step = "write" /\ UNCHANGED <<reader, gen>>
           /\ \A p \in Object : \/ SeqOf(p)' \in {SeqOf(p), 0}
                                \/ writer[w].seq # 0 /\ SeqOf(p)' = writer[w].seq
           /\ \A m \in 0..MaxSeq : Reached(m) => Reached(m)'
<1>. DEFINE o == writer[w].obj
            n == writer[w].seq
<1>0. TypeOK /\ WriterInv
  BY DEF StoreInv
<1>1. /\ o \in Object /\ n \in 0..MaxSeq /\ writer[w].kind \in Kind /\ writer[w].step = "write"
      /\ \A p \in Object \ {o} : meta'[p] = meta[p] /\ reads'[p] = reads[p]
      /\ writer[w].kind = "apply" => n # 0 /\ meta'[o].seq = n /\ reads'[o] \in {n, reads[o]}
      /\ writer[w].kind = "mark" => n # 0 /\ meta' = meta /\ reads'[o] = n
      /\ writer[w].kind = "purge" =>
            /\ reads'[o] = 0
            /\ IF n = 0 THEN meta' = meta /\ ~Announced(o) ELSE meta'[o].seq = n
      /\ UNCHANGED <<reader, gen>>
  BY <1>0, CommitFacts
<1>2. n # 0 => \A m \in 0..MaxSeq : Reached(m) => m < n
  BY <1>1, FreshAbove
<1>. HIDE DEF o, n
<1>3. meta'[o].seq \in {meta[o].seq, n} /\ reads'[o] \in {reads[o], n, 0}
  BY <1>1 DEF Kind
<1>4. \A p \in Object : \/ SeqOf(p)' \in {SeqOf(p), 0} \/ (n # 0 /\ SeqOf(p)' = n)
  <2>1. reader' = reader
    BY <1>1
  <2>2. \A p \in Object \ {o} : SeqOf(p)' = SeqOf(p)
    BY <1>1, <2>1 DEF SeqOf
  <2>3. ASSUME NEW p \in Object, p = o
        PROVE  SeqOf(p)' \in {SeqOf(p), 0} \/ (n # 0 /\ SeqOf(p)' = n)
    BY <1>3, <2>1, <2>3 DEF SeqOf
  <2>. QED
    BY <2>2, <2>3
<1>5. ASSUME NEW m \in 0..MaxSeq, Reached(m) PROVE Reached(m)'
  <2>0. \A p \in Object : meta[p].seq \in Nat /\ reads[p] \in Nat
    BY <1>0, Values
  <2>1. CASE m = 0
    BY <2>1 DEF Reached
  <2>2. CASE m # 0 /\ n # 0
    <3>1. m < n
      BY <1>2, <1>5, <2>2
    <3>2. meta'[o].seq = n \/ reads'[o] = n
      BY <1>1, <2>2 DEF Kind
    <3>3. m <= n
      BY <1>1, <1>5, <3>1
    <3>. QED
      BY <1>1, <3>2, <3>3 DEF Reached
  <2>3. CASE m # 0 /\ n = 0
    <3>1. writer[w].kind = "purge" /\ meta' = meta /\ ~Announced(o) /\ reads'[o] = 0
      BY <1>1, <2>3 DEF Kind
    <3>2. reads[o] = 0
      BY <1>1, <3>1 DEF AnnouncedInv
    <3>3. \A p \in Object : reads'[p] = reads[p]
      BY <1>1, <3>1, <3>2
    <3>. QED
      BY <1>5, <3>1, <3>3 DEF Reached
  <2>. QED
    BY <2>1, <2>2, <2>3
<1>. QED
  BY <1>1, <1>4, <1>5 DEF n

\* Nothing moves for the consumer but, perhaps, its step.
LEMMA SeenQuiet ==
    ASSUME StoreInv, SeenInv, UNCHANGED <<meta, reads, gen>>, SameAxis, SameSeen,
           reader'.page = reader.page,
           reader'.step = reader.step \/ reader'.step \notin {"index", "save"}
    PROVE  SeenInv'
<1>1. \A o \in Object : SeqOf(o)' = SeqOf(o)
  BY DEF SeqOf, SameAxis
<1>2. \A m \in 0..MaxSeq : Reached(m)' <=> Reached(m)
  BY DEF Reached
<1>3. \A e \in reader.page : e[2] \in 0..MaxSeq
  BY ReaderValues DEF StoreInv
<1>4. reader.cursor \in 0..MaxSeq
  BY ReaderValues DEF StoreInv
<1>5. reader'.cursor = reader.cursor /\ reader'.seen = reader.seen /\ reader'.gen = reader.gen
  BY DEF SameAxis, SameSeen
<1>. QED
  <2>. SUFFICES ASSUME reader'.gen = gen' PROVE SeenInv'
    BY DEF SeenInv
  <2>1. Reached(reader.cursor)' /\ \A o \in Object : SeqOf(o)' <= reader'.cursor => SeqOf(o)' <= reader'.seen[o]
    BY <1>1, <1>5 DEF SeenInv, Reached
  <2>2. reader'.step \in {"index", "save"} =>
           \A e \in reader'.page :
              /\ Reached(e[2])
              /\ \A o \in Object : SeqOf(o)' <= e[2] =>
                    \/ SeqOf(o)' <= reader'.seen[o]
                    \/ reader'.step = "index" /\ <<o, SeqOf(o)'>> \in reader'.page
    BY <1>1, <1>5 DEF SeenInv
  <2>. QED
    BY <1>5, <2>1, <2>2 DEF SeenInv, Reached

\* A row that changes under the consumer goes past what it has reached.
LEMMA SeenCommit ==
    ASSUME StoreInv, AnnouncedInv, SeenInv, NEW w \in Writer, Commit(w) PROVE SeenInv'
<1>1. /\ writer[w].step = "write" /\ reader' = reader /\ gen' = gen
      /\ \A p \in Object : \/ SeqOf(p)' \in {SeqOf(p), 0}
                           \/ writer[w].seq # 0 /\ SeqOf(p)' = writer[w].seq
      /\ \A m \in 0..MaxSeq : Reached(m) => Reached(m)'
  BY CommitSeq
<1>2. /\ reader.cursor \in 0..MaxSeq /\ MaxSeq \in Nat
      /\ \A e \in reader.page : e[2] \in 0..MaxSeq
      /\ \A o \in Object : SeqOf(o) \in 0..MaxSeq /\ reader.seen[o] \in 0..MaxSeq
      /\ writer[w].seq \in 0..MaxSeq
  BY ReaderValues, Values DEF StoreInv
<1>3. ASSUME NEW m \in 0..MaxSeq, Reached(m), NEW p \in Object, SeqOf(p)' <= m
      PROVE  SeqOf(p)' = SeqOf(p) \/ SeqOf(p)' <= reader.seen[p]
  <2>1. writer[w].seq # 0 => m < writer[w].seq
    BY <1>1, <1>3, FreshAbove
  <2>. QED
    BY <1>1, <1>2, <1>3, <2>1
<1>4. SUFFICES ASSUME reader.gen = gen PROVE SeenInv'
  BY <1>1 DEF SeenInv
<1>5. Reached(reader.cursor) /\ Reached(reader.cursor)'
  <2>1. Reached(reader.cursor)
    BY <1>4 DEF SeenInv
  <2>2. \A m \in 0..MaxSeq : m = reader.cursor => Reached(m)'
    BY <1>1, <2>1
  <2>3. ASSUME NEW m \in 0..MaxSeq, m = reader.cursor PROVE Reached(reader.cursor)'
    BY <1>1, <2>2, <2>3 DEF Reached
  <2>. QED
    BY <1>2, <2>1, <2>3
<1>6. \A o \in Object : SeqOf(o)' <= reader.cursor => SeqOf(o)' <= reader.seen[o]
  BY <1>2, <1>3, <1>4, <1>5 DEF SeenInv
<1>7. ASSUME reader.step \in {"index", "save"}, NEW e \in reader.page
      PROVE  /\ Reached(e[2])'
             /\ \A o \in Object : SeqOf(o)' <= e[2] =>
                   \/ SeqOf(o)' <= reader.seen[o]
                   \/ reader.step = "index" /\ <<o, SeqOf(o)'>> \in reader.page
  <2>1. e[2] \in 0..MaxSeq /\ Reached(e[2])
    BY <1>2, <1>4, <1>7 DEF SeenInv
  <2>2. Reached(e[2])'
    BY <1>1, <2>1
  <2>3. ASSUME NEW o \in Object, SeqOf(o)' <= e[2]
        PROVE  \/ SeqOf(o)' <= reader.seen[o]
               \/ reader.step = "index" /\ <<o, SeqOf(o)'>> \in reader.page
    <3>1. SeqOf(o)' = SeqOf(o) \/ SeqOf(o)' <= reader.seen[o]
      BY <1>3, <2>1, <2>3
    <3>. QED
      BY <1>4, <1>7, <2>3, <3>1 DEF SeenInv
  <2>. QED
    BY <2>2, <2>3
<1>. QED
  BY <1>1, <1>5, <1>6, <1>7 DEF SeenInv

LEMMA SeenStart ==
    ASSUME StoreInv, SeenInv, Start PROVE SeenInv'
<1>1. /\ reader' \in ReaderRow /\ reader'.feed = reader.feed /\ reader'.step = "pull"
      /\ reader'.gen = gen /\ UNCHANGED <<meta, reads, gen>>
      /\ SameSeen \/ (reader'.cursor = 0 /\ \A o \in Object : reader'.seen[o] = 0)
      /\ reader.gen = gen => SameSeen
  BY StartFacts DEF StoreInv, Start, tables
<1>2. \A o \in Object : SeqOf(o)' = SeqOf(o) /\ SeqOf(o) \in 0..MaxSeq
  BY <1>1, ReaderValues DEF SeqOf, StoreInv
<1>3. CASE reader.gen = gen
  <2>1. reader'.cursor = reader.cursor /\ reader'.seen = reader.seen
    BY <1>1, <1>3 DEF SameSeen
  <2>. QED
    BY <1>1, <1>2, <1>3, <2>1 DEF SeenInv, Reached
<1>4. CASE reader'.cursor = 0 /\ \A o \in Object : reader'.seen[o] = 0
  BY <1>1, <1>2, <1>4 DEF SeenInv, Reached
<1>. QED
  <2>1. CASE reader.gen # gen /\ SameSeen
    <3>1. reader' = [NewReader(reader.feed) EXCEPT !.step = "pull", !.gen = gen]
      BY <2>1 DEF Start
    <3>2. reader'.cursor = 0 /\ \A o \in Object : reader'.seen[o] = 0
      BY <3>1 DEF NewReader, Unseen
    <3>. QED
      BY <1>4, <3>2
  <2>. QED
    BY <1>1, <1>3, <1>4, <2>1

\* What is before a row of a page and not seen is on the page.
LEMMA SeenPull ==
    ASSUME StoreInv, AxisInv, SeenInv, Pull PROVE SeenInv'
<1>1. /\ reader.step = "pull" /\ SameAxis /\ SameSeen /\ reader'.page = Page
      /\ Page \in SUBSET (Object \X (1..MaxSeq))
      /\ reader'.step = "index" \/ reader'.step = "sleep"
      /\ UNCHANGED <<meta, reads, gen>>
  BY PullFacts DEF StoreInv, Pull, tables
<1>2. /\ reader.gen = gen /\ reader'.gen = gen /\ reader'.cursor = reader.cursor
      /\ reader'.seen = reader.seen
  BY <1>1 DEF AxisInv, SameAxis, SameSeen
<1>3. /\ \A o \in Object : SeqOf(o)' = SeqOf(o) /\ SeqOf(o) \in 0..MaxSeq
      /\ reader.cursor \in 0..MaxSeq
  BY <1>1, ReaderValues DEF SeqOf, SameAxis, StoreInv
<1>4. Reached(reader.cursor) /\ \A o \in Object : SeqOf(o) <= reader.cursor => SeqOf(o) <= reader.seen[o]
  BY <1>2 DEF SeenInv
<1>5. ASSUME NEW e \in Page
      PROVE  /\ Reached(e[2])
             /\ \A o \in Object : SeqOf(o) <= e[2] =>
                   SeqOf(o) <= reader.seen[o] \/ <<o, SeqOf(o)>> \in Page
  <2>1. e[1] \in Object /\ e[2] = SeqOf(e[1])
    BY PageFacts DEF StoreInv
  <2>2. Reached(e[2])
    <3>1. \A o \in Object : meta[o].seq \in Nat /\ reads[o] \in Nat
      BY Values DEF StoreInv
    <3>2. meta[e[1]].seq >= e[2] \/ reads[e[1]] >= e[2]
      BY <2>1, <3>1 DEF SeqOf
    <3>. QED
      BY <2>1, <3>2 DEF Reached
  <2>3. ASSUME NEW o \in Object, SeqOf(o) <= e[2]
        PROVE  SeqOf(o) <= reader.seen[o] \/ <<o, SeqOf(o)>> \in Page
    <3>1. CASE SeqOf(o) <= reader.cursor
      BY <1>4, <3>1
    <3>2. CASE reader.cursor < SeqOf(o)
      BY <2>3, <3>2, PageFacts DEF StoreInv
    <3>. QED
      BY <1>3, <3>1, <3>2
  <2>. QED
    BY <2>2, <2>3
<1>. QED
  BY <1>1, <1>2, <1>3, <1>4, <1>5 DEF SeenInv, Reached

\* What the page has of a row is seen.
LEMMA SeenIndex ==
    ASSUME StoreInv, AxisInv, SeenInv, Index PROVE SeenInv'
<1>1. /\ reader.step = "index" /\ SameAxis /\ reader'.cursor = reader.cursor
      /\ reader'.page = reader.page /\ reader'.step = "save" /\ reader' \in ReaderRow
      /\ \A o \in Object : reader.seen[o] <= reader'.seen[o]
      /\ \A o \in Object, n \in 1..MaxSeq : <<o, n>> \in reader.page => n <= reader'.seen[o]
      /\ UNCHANGED <<meta, reads, gen>>
  BY IndexFacts DEF StoreInv, Index, tables
<1>2. /\ \A o \in Object : SeqOf(o)' = SeqOf(o) /\ SeqOf(o) \in Nat /\ reader.seen[o] \in Nat
      /\ reader.page \in SUBSET (Object \X (1..MaxSeq)) /\ reader.cursor \in Nat
  BY <1>1, ReaderValues DEF SeqOf, SameAxis, StoreInv
<1>3. \A o \in Object : reader'.seen[o] \in Nat
  BY <1>1 DEF ReaderRow
<1>4. reader.gen = gen /\ reader'.gen = gen
  BY <1>1 DEF AxisInv, SameAxis
<1>5. \A o \in Object : SeqOf(o) <= reader.seen[o] => SeqOf(o) <= reader'.seen[o]
  BY <1>1, <1>2, <1>3
<1>6. \A o \in Object : <<o, SeqOf(o)>> \in reader.page => SeqOf(o) <= reader'.seen[o]
  BY <1>1, <1>2
<1>. QED
  BY <1>1, <1>2, <1>4, <1>5, <1>6 DEF SeenInv, Reached

\* The cursor goes to a row of the page, and everything before it is seen.
LEMMA SeenSave ==
    ASSUME StoreInv, AxisInv, SeenInv, Save PROVE SeenInv'
<1>1. /\ reader.step = "save" /\ SameAxis /\ reader'.seen = reader.seen
      /\ reader'.step = "pull" /\ UNCHANGED <<meta, reads, gen>>
  BY SaveFacts DEF StoreInv, Save, tables
<1>2. PICK e \in reader.page : reader'.cursor = e[2]
  BY SaveFacts DEF StoreInv
<1>3. \A o \in Object : SeqOf(o)' = SeqOf(o)
  BY <1>1 DEF SeqOf, SameAxis
<1>4. reader.gen = gen /\ reader'.gen = gen
  BY <1>1 DEF AxisInv, SameAxis
<1>5. Reached(e[2]) /\ \A o \in Object : SeqOf(o) <= e[2] => SeqOf(o) <= reader.seen[o]
  BY <1>1, <1>4 DEF SeenInv
<1>. QED
  BY <1>1, <1>2, <1>3, <1>4, <1>5 DEF SeenInv, Reached

LEMMA SeenStep ==
    ASSUME StoreInv, AxisInv, AnnouncedInv, SeenInv, [Next]_vars PROVE SeenInv'
<1>1. CASE UNCHANGED <<meta, reads, gen, reader>>
  BY <1>1, SeenQuiet DEF SameAxis, SameSeen
<1>2. ASSUME NEW wipe \in BOOLEAN, Crash(wipe) PROVE SeenInv'
  <2>1. /\ reader'.gen = reader.gen /\ SameAxis /\ SameSeen /\ reader'.step = "start"
    BY <1>2, CrashFacts, StopFacts DEF StoreInv, SameAxis
  <2>2. CASE gen' = gen + 1
    BY <2>1, <2>2, ReaderValues DEF SeenInv, AxisInv, StoreInv
  <2>3. CASE UNCHANGED <<meta, reads, gen>>
    <3>1. \A o \in Object : SeqOf(o)' = SeqOf(o)
      BY <2>1, <2>3 DEF SeqOf, SameAxis
    <3>. QED
      BY <2>1, <2>3, <3>1 DEF SeenInv, Reached, SameSeen
  <2>. QED
    BY <1>2, <2>2, <2>3, CrashFacts DEF StoreInv
<1>3. ASSUME NEW w \in Writer, Notify(w) PROVE SeenInv'
  <2>1. UNCHANGED <<meta, reads, gen>>
    BY <1>3 DEF Notify, tables
  <2>2. /\ SameAxis /\ SameSeen /\ reader'.page = reader.page
        /\ reader'.step = reader.step \/ (reader.step = "sleep" /\ reader'.step = "pull")
    BY <1>3, WakeFacts DEF Notify, StoreInv
  <2>. QED
    BY <2>1, <2>2, SeenQuiet
<1>. QED
  <2>1. LoadStore \/ UNCHANGED vars => UNCHANGED <<meta, reads, gen, reader>>
    BY DEF LoadStore, vars, tables
  <2>2. ASSUME NEW w \in Writer, NEW k \in Kind, NEW o \in Object, Begin(w, k, o)
        PROVE  UNCHANGED <<meta, reads, gen, reader>>
    BY <2>2 DEF Begin, tables
  <2>3. ASSUME NEW w \in Writer, Enter(w) \/ Allocate(w) \/ Rollback(w)
        PROVE  UNCHANGED <<meta, reads, gen, reader>>
    BY <2>3 DEF Enter, Allocate, Rollback, tables
  <2>4. ASSUME NEW o \in Object, DeleteTree(o) \/ Refuse(o)
        PROVE  UNCHANGED <<meta, reads, gen, reader>>
    BY <2>4 DEF DeleteTree, Refuse, tables
  <2>5. ReaderStep => SeenInv'
    BY SeenStart, SeenPull, SeenIndex, SeenSave DEF ReaderStep
  <2>. QED
    BY <1>1, <1>2, <1>3, <2>1, <2>2, <2>3, <2>4, <2>5, SeenCommit DEF Next, WriterStep

LEMMA FeedInit == Init => FeedInv
<1>. SUFFICES ASSUME Init PROVE FeedInv
  OBVIOUS
<1>1. StoreInv /\ AxisInv
  BY StoreInit
<1>2. AnnouncedInv
  BY EmptyFacts, IdleFacts DEF Init, AnnouncedInv
<1>3. SeenInv
  <2>1. PICK f \in Feed : reader = NewReader(f)
    BY DEF Init
  <2>2. reader.gen = 0 /\ gen = 1
    BY <2>1 DEF NewReader, Init
  <2>. QED
    BY <2>2 DEF SeenInv
<1>. QED
  BY <1>1, <1>2, <1>3 DEF FeedInv

\* Where every mark is of an object that has been applied here, no consumer's
\* cursor passes a row that it has not seen, and what the feed has told stands.
\* A mark of a foreseen object breaks it, as its run shows.
THEOREM FeedTrue == Foreseen = {} => (Spec => []FeedIsTrue)
<1>. SUFFICES ASSUME Foreseen = {} PROVE Spec => []FeedIsTrue
  OBVIOUS
<1>1. FeedInv /\ [Next]_vars => FeedInv'
  BY StoreStep, AxisStep, AnnouncedStep, SeenStep DEF FeedInv
<1>2. FeedInv => FeedIsTrue
  <2>. SUFFICES ASSUME FeedInv PROVE FeedIsTrue
    OBVIOUS
  <2>1. \A o \in Object : SeqOf(o) \in Nat /\ reader.seen[o] \in Nat
    BY ReaderValues DEF FeedInv, StoreInv
  <2>2. NothingSkipped
    BY <2>1 DEF FeedInv, SeenInv, NothingSkipped
  <2>. QED
    BY <2>2 DEF FeedIsTrue, FeedInv, StoreInv, DeleteInv, DeletedStaysGone
<1>. QED
  BY <1>1, <1>2, FeedInit, PTL DEF Spec

=============================================================================
