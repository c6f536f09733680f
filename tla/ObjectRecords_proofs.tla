------------------------ MODULE ObjectRecords_proofs ------------------------
(***************************************************************************)
(* Proofs about the two halves of what becomes of an object's changes:     *)
(* how they get to its controller (ObjectApply) and what this makes of its *)
(* records (RecordMerge).                                                  *)
(*                                                                         *)
(* ObjectApply, for any set of changes, any definitions they name and any  *)
(* bounds: its type invariant, that no change is lost below the watermark  *)
(* or behind an open object, that an applied change is never parked again, *)
(* and that no wake-up of the drainer is lost.                             *)
(*                                                                         *)
(* RecordMerge, for any tree of changes, any fields and keys and any order *)
(* of delivery and replay: it implements the registers of LeafMerge; and   *)
(* what the registers do not see, shape, marker and compaction, is a       *)
(* function of the changes applied too.                                    *)
(***************************************************************************)
EXTENDS ObjectApply, RecordMerge, TLAPS


AccountedUpTo(n) == \A i \in 1..n : Accounted(dag[i])

\* The tree stores a change once; what was applied lies at or below the
\* watermark, and what was parked is stored.
DagInv ==
    /\ \A i, j \in DOMAIN dag : dag[i] = dag[j] => i = j
    /\ applied \subseteq {dag[i] : i \in 1..maxAddSeq}
    /\ detached \subseteq Stored
    /\ AccountedUpTo(maxAddSeq)

\* A replay has accounted for everything before its position, and the
\* watermark is behind it.
ReplayInv ==
    replay.pc # "idle" =>
        /\ maxAddSeq < replay.next /\ replay.next <= Len(dag) + 1
        /\ AccountedUpTo(replay.next - 1)
        /\ replay.pc # "gate" => replay.next <= Len(dag)
        /\ replay.pc = "recheck" => Accounted(Item)

\* A local write appends to a tree that was caught up.
LocalInv == lock = "local" => Len(dag) > 0 /\ AccountedUpTo(Len(dag) - 1)

\* The pass works on stored changes, and holds the object only while that
\* is open.
DrainInv ==
    /\ drainer.ready \subseteq Stored
    /\ drainer.pc \notin {"wait", "scan", "pick"} => drainer.row \in Stored
    /\ drainer.pc = "unpark" => drainer.row \in applied
    /\ drainer.object = "held" => cached = "open"

\* The inductive invariant.
ApplyInv == TypeOK /\ DagInv /\ ReplayInv /\ LocalInv /\ DrainInv /\ OpenIsCaughtUp

----------------------------------------------------------------------------

\* The AddSeq of a stored change is its position.
LEMMA AddSeqOfStored ==
    ASSUME DagInv, TypeOK, NEW c \in Stored
    PROVE  /\ AddSeq(c) \in DOMAIN dag /\ dag[AddSeq(c)] = c
           /\ \A i \in DOMAIN dag : dag[i] = c => i = AddSeq(c)
<1>1. \E i \in DOMAIN dag : dag[i] = c
  BY DEF Stored
<1>2. AddSeq(c) \in DOMAIN dag /\ dag[AddSeq(c)] = c
  BY <1>1 DEF AddSeq
<1>. QED
  BY <1>2 DEF DagInv

\* What the commit of a stored change does, whoever applies it.
LEMMA ApplyChangeFacts ==
    ASSUME DagInv, TypeOK, NEW c \in Stored, ApplyChange(c), dag' = dag
    PROVE  /\ applied' = applied \cup {c} /\ applied' \in SUBSET Change
           /\ exists' \in BOOLEAN /\ effect' \in [Change -> 0..2]
           /\ maxAddSeq' \in 0..Len(dag)
           /\ maxAddSeq' = (IF AddSeq(c) > maxAddSeq THEN AddSeq(c) ELSE maxAddSeq)
           /\ applied' \subseteq {dag[i] : i \in 1..maxAddSeq'}
<1>1. /\ AddSeq(c) \in 1..Len(dag) /\ dag[AddSeq(c)] = c /\ c \in Change
      /\ maxAddSeq \in 0..Len(dag) /\ Len(dag) \in Nat
  BY AddSeqOfStored DEF TypeOK
<1>2. /\ maxAddSeq' = (IF AddSeq(c) > maxAddSeq THEN AddSeq(c) ELSE maxAddSeq)
      /\ applied' = applied \cup {c} /\ exists' = (exists \/ Kind[c] = "create")
  BY DEF ApplyChange
<1>3. maxAddSeq' \in 0..Len(dag) /\ maxAddSeq <= maxAddSeq' /\ AddSeq(c) <= maxAddSeq'
  BY <1>1, <1>2
<1>4. effect' \in [Change -> 0..2]
  BY <1>1 DEF TypeOK, ApplyChange
<1>5. applied' \subseteq {dag[i] : i \in 1..maxAddSeq'}
  <2>. SUFFICES ASSUME NEW a \in applied' PROVE \E i \in 1..maxAddSeq' : a = dag[i]
    OBVIOUS
  <2>1. CASE a = c
    BY <2>1, <1>1, <1>3
  <2>2. CASE a \in applied
    BY <2>2, <1>1, <1>3 DEF DagInv
  <2>. QED
    BY <1>2, <2>1, <2>2
<1>6. exists' \in BOOLEAN
  BY <1>2 DEF TypeOK
<1>. QED
  BY <1>1, <1>2, <1>3, <1>4, <1>5, <1>6 DEF TypeOK

LEMMA ApplyInvInit == Init => ApplyInv
<1>. SUFFICES ASSUME Init PROVE ApplyInv
  OBVIOUS
<1>1. replay \in Replay /\ drainer \in Drainer
  BY BoundAssumption DEF Init, Replay, Drainer, NoReplay, NoPass
<1>2. /\ 0 \in 0..MaxRev /\ 1 \in 0..QueueSize /\ 0 \in 0..MaxFaults
      /\ [c \in Change |-> 0] \in [Change -> 0..2]
      /\ <<>> \in Seq(Change) /\ 0 \in 0..Len(<<>>)
  BY BoundAssumption
<1>3. TypeOK
  BY <1>1, <1>2 DEF Init, TypeOK, NoReplay
<1>4. DagInv /\ ReplayInv /\ LocalInv /\ OpenIsCaughtUp
  BY DEF Init, DagInv, ReplayInv, LocalInv, OpenIsCaughtUp, AccountedUpTo, Stored, NoReplay
<1>5. DrainInv
  BY DEF Init, DrainInv, NoPass
<1>. QED
  BY <1>3, <1>4, <1>5 DEF ApplyInv

\* A step that leaves the tree, the records, the lock and the replay alone,
\* and unparks applied changes at most, disturbs neither of these parts.
LEMMA QuietStep ==
    ASSUME ApplyInv,
           UNCHANGED <<dag, maxAddSeq, applied, aborted, unwritten, lock, replay>>,
           detached' \subseteq detached, detached \ detached' \subseteq applied,
           cached' = "open" => cached = "open"
    PROVE  DagInv' /\ ReplayInv' /\ LocalInv' /\ OpenIsCaughtUp'
<1>1. Stored' = Stored /\ \A c : Accounted(c) => Accounted(c)'
  BY DEF Stored, Accounted
<1>2. \A n : AccountedUpTo(n) => AccountedUpTo(n)'
  BY <1>1 DEF AccountedUpTo
<1>3. DagInv'
  BY <1>1, <1>2 DEF ApplyInv, DagInv
<1>4. ReplayInv'
  BY <1>1, <1>2 DEF ApplyInv, ReplayInv, Item
<1>5. LocalInv' /\ OpenIsCaughtUp'
  BY <1>1, <1>2 DEF ApplyInv, LocalInv, OpenIsCaughtUp
<1>. QED
  BY <1>3, <1>4, <1>5

\* Applying a definition touches no change.
LEMMA DefinitionsKeep ==
    ASSUME ApplyInv, Definitions PROVE ApplyInv'
<1>1. UNCHANGED <<record, rows, history, dag, up, cached, handlers, lock, replay, drainer,
                  faults>>
  BY DEF Definitions, DefineShortId, NotifyShortId, DefineDataset, RefreshCatalog, NotifyDataset
<1>2. degraded' \in BOOLEAN
  <2>1. degraded' = degraded \/ degraded' = FALSE
    BY DEF Definitions, DefineShortId, NotifyShortId, DefineDataset, RefreshCatalog, NotifyDataset
  <2>. QED
    BY <2>1 DEF ApplyInv, TypeOK
<1>5. /\ known' \in SUBSET Def /\ wake' \in SUBSET Def
      /\ schema' \in 0..MaxRev /\ catalog' \in 0..MaxRev /\ queue' \in 0..QueueSize
      /\ schemaPc' \in {"idle", "refresh", "notify"}
  BY BoundAssumption DEF ApplyInv, TypeOK, Definitions, DefineShortId, NotifyShortId,
     DefineDataset, RefreshCatalog, NotifyDataset, Notify
<1>3. TypeOK'
  BY <1>1, <1>2, <1>5 DEF ApplyInv, TypeOK, record, rows, history
<1>4. DrainInv'
  BY <1>1 DEF ApplyInv, DrainInv, record, Stored
<1>. QED
  BY <1>1, <1>3, <1>4, QuietStep DEF ApplyInv, record, rows, history

LEMMA EvictKeeps ==
    ASSUME ApplyInv, Evict PROVE ApplyInv'
<1>1. drainer' \in Drainer
  BY DEF ApplyInv, TypeOK, Evict, Close, Drainer
<1>2. TypeOK'
  BY <1>1, BoundAssumption DEF ApplyInv, TypeOK, Evict, Close, definitions, record, rows, history
<1>3. DrainInv'
  BY DEF ApplyInv, TypeOK, DrainInv, Evict, Close, record, Stored, Drainer
<1>. QED
  BY <1>2, <1>3, QuietStep DEF ApplyInv, Evict, Close, record, rows, history

LEMMA RestartKeeps ==
    ASSUME ApplyInv, Restart \/ RestartDegraded PROVE ApplyInv'
<1>1. /\ UNCHANGED <<known, schema, wake, schemaPc, record, rows, history, dag, cached, handlers,
                     lock, replay, drainer>>
      /\ up' \in BOOLEAN /\ degraded' \in BOOLEAN
      /\ (cached # "none" => up) /\ up'
  BY DEF ApplyInv, TypeOK, Restart, RestartDegraded
<1>2. catalog' \in 0..MaxRev /\ queue' \in 0..QueueSize /\ faults' \in 0..MaxFaults
  <2>1. catalog' \in {0, schema} /\ Notify /\ (faults' = faults \/ Fault)
    BY DEF Restart, RestartDegraded
  <2>. QED
    BY <2>1, BoundAssumption DEF ApplyInv, TypeOK, Notify, Fault
<1>3. TypeOK'
  BY <1>1, <1>2 DEF ApplyInv, TypeOK, record, rows, history
<1>4. DrainInv'
  BY <1>1 DEF ApplyInv, DrainInv, record, Stored
<1>. QED
  BY <1>1, <1>3, <1>4, QuietStep DEF ApplyInv, record, rows, history

\* A failed recompile changes nothing but what is known of it.
LEMMA RefreshFailsKeeps ==
    ASSUME ApplyInv, RefreshFails PROVE ApplyInv'
<1>1. TypeOK'
  BY BoundAssumption DEF ApplyInv, TypeOK, RefreshFails, Fault, record, rows, history
<1>2. DrainInv'
  BY DEF ApplyInv, DrainInv, RefreshFails, record, Stored
<1>. QED
  BY <1>1, <1>2, QuietStep DEF ApplyInv, RefreshFails, record, rows, history

\* A load has accounted for what lies below the watermark.
LEMMA LoadKeeps ==
    ASSUME ApplyInv, Load PROVE ApplyInv'
<1>1. maxAddSeq \in Nat /\ maxAddSeq <= Len(dag) /\ Len(dag) \in Nat
  BY DEF ApplyInv, TypeOK
<1>2. replay' = [pc |-> "gate", next |-> maxAddSeq + 1, missing |-> {}]
  BY DEF Load, NoReplay
<1>3. replay' \in Replay
  BY <1>1, <1>2 DEF Replay
<1>4. TypeOK'
  BY <1>2, <1>3 DEF ApplyInv, TypeOK, Load, definitions, record, rows, history
<1>5. Stored' = Stored /\ \A c : Accounted(c)' <=> Accounted(c)
  BY DEF Load, Stored, Accounted, record, rows, history
<1>6. DagInv' /\ DrainInv'
  BY <1>5 DEF ApplyInv, DagInv, DrainInv, AccountedUpTo, Load, record, rows
<1>7. ReplayInv'
  BY <1>1, <1>2, <1>5 DEF ApplyInv, DagInv, ReplayInv, AccountedUpTo, Load, record
<1>8. LocalInv' /\ OpenIsCaughtUp'
  BY DEF LocalInv, OpenIsCaughtUp, Load
<1>. QED
  BY <1>4, <1>6, <1>7, <1>8 DEF ApplyInv

\* A change is appended to a tree that is caught up; what was stored stays.
LEMMA AppendFacts ==
    ASSUME ApplyInv, NEW c \in Change \ Stored, cached = "open", lock = "none",
           dag' = Append(dag, c),
           UNCHANGED <<maxAddSeq, applied, detached, aborted, unwritten, drainer, cached>>
    PROVE  /\ dag' \in Seq(Change) /\ Len(dag') = Len(dag) + 1 /\ Len(dag) \in Nat
           /\ maxAddSeq' \in 0..Len(dag')
           /\ \A i \in 1..Len(dag) : Accounted(dag[i])'
           /\ DagInv' /\ DrainInv'
<1>1. /\ dag \in Seq(Change) /\ dag' \in Seq(Change) /\ Len(dag') = Len(dag) + 1
      /\ Len(dag) \in Nat /\ DOMAIN dag = 1..Len(dag) /\ DOMAIN dag' = 1..(Len(dag) + 1)
      /\ \A i \in 1..Len(dag) : dag'[i] = dag[i]
      /\ dag'[Len(dag) + 1] = c /\ maxAddSeq \in 0..Len(dag)
  BY DEF ApplyInv, TypeOK
<1>2. \A i \in 1..Len(dag) : Accounted(dag[i])'
  BY <1>1 DEF ApplyInv, OpenIsCaughtUp, Stored, Accounted
<1>3. Stored \subseteq Stored'
  BY <1>1 DEF Stored
<1>4. \A i, j \in DOMAIN dag' : dag'[i] = dag'[j] => i = j
  <2>. SUFFICES ASSUME NEW i \in DOMAIN dag', NEW j \in DOMAIN dag', dag'[i] = dag'[j]
       PROVE i = j
    OBVIOUS
  <2>1. \A k \in 1..Len(dag) : dag[k] # c
    BY <1>1 DEF Stored
  <2>. QED
    BY <1>1, <2>1 DEF ApplyInv, DagInv
<1>5. applied' \subseteq {dag'[i] : i \in 1..maxAddSeq'}
  BY <1>1 DEF ApplyInv, DagInv
<1>6. DagInv'
  BY <1>1, <1>2, <1>3, <1>4, <1>5 DEF ApplyInv, DagInv, AccountedUpTo
<1>7. DrainInv'
  BY <1>3 DEF ApplyInv, DrainInv
<1>. QED
  BY <1>1, <1>2, <1>6, <1>7

LEMMA ReceiveKeeps ==
    ASSUME ApplyInv, NEW c \in Change, Receive(c) PROVE ApplyInv'
<1>1. /\ dag' \in Seq(Change) /\ Len(dag') = Len(dag) + 1 /\ Len(dag) \in Nat
      /\ maxAddSeq' \in 0..Len(dag') /\ maxAddSeq \in 0..Len(dag)
      /\ \A i \in 1..Len(dag) : Accounted(dag[i])'
      /\ DagInv' /\ DrainInv'
  BY AppendFacts DEF Receive, record, rows, history, ApplyInv, TypeOK
<1>2. replay' = [pc |-> "gate", next |-> maxAddSeq + 1, missing |-> {}]
  BY DEF Receive, NoReplay
<1>3. replay' \in Replay
  BY <1>1, <1>2 DEF Replay
<1>4. TypeOK'
  BY <1>1, <1>2, <1>3 DEF ApplyInv, TypeOK, Receive, definitions, record, rows, history
<1>5. ReplayInv'
  BY <1>1, <1>2 DEF ReplayInv, AccountedUpTo, Receive, record
<1>6. LocalInv' /\ OpenIsCaughtUp'
  BY DEF LocalInv, OpenIsCaughtUp, Receive
<1>. QED
  BY <1>1, <1>4, <1>5, <1>6 DEF ApplyInv

LEMMA AddContentKeeps ==
    ASSUME ApplyInv, NEW c \in Change, AddContent(c) PROVE ApplyInv'
<1>1. /\ dag' \in Seq(Change) /\ Len(dag') = Len(dag) + 1 /\ Len(dag) \in Nat
      /\ maxAddSeq' \in 0..Len(dag')
      /\ \A i \in 1..Len(dag) : Accounted(dag[i])'
      /\ DagInv' /\ DrainInv'
  BY AppendFacts DEF AddContent, record, rows, history
<1>2. TypeOK'
  BY <1>1 DEF ApplyInv, TypeOK, AddContent, definitions, record, rows, history
<1>3. ReplayInv'
  BY DEF ApplyInv, TypeOK, ReplayInv, AddContent
<1>4. LocalInv' /\ OpenIsCaughtUp'
  BY <1>1 DEF LocalInv, AccountedUpTo, OpenIsCaughtUp, AddContent
<1>. QED
  BY <1>1, <1>2, <1>3, <1>4 DEF ApplyInv

LEMMA LocalApplyKeeps ==
    ASSUME ApplyInv, LocalApply PROVE ApplyInv'
<1>. DEFINE c == dag[Len(dag)]
<1>1. lock = "local" /\ cached = "open" /\ Len(dag) > 0 /\ AccountedUpTo(Len(dag) - 1)
  BY DEF ApplyInv, TypeOK, LocalApply, LocalInv
<1>2. /\ Len(dag) \in Nat /\ DOMAIN dag = 1..Len(dag) /\ c \in Stored /\ c \in Change
  BY <1>1 DEF ApplyInv, TypeOK, Stored
<1>3. /\ applied' = applied \cup {c} /\ applied' \in SUBSET Change
      /\ exists' \in BOOLEAN /\ effect' \in [Change -> 0..2]
      /\ maxAddSeq' \in 0..Len(dag)
      /\ applied' \subseteq {dag[i] : i \in 1..maxAddSeq'}
  BY <1>2, ApplyChangeFacts DEF ApplyInv, LocalApply
<1>4. Stored' = Stored /\ \A b : Accounted(b)' <=> (Accounted(b) \/ b = c)
  BY <1>3 DEF LocalApply, Stored, Accounted, rows, history
<1>5. \A i \in 1..Len(dag) : Accounted(dag[i])'
  BY <1>1, <1>2, <1>3 DEF AccountedUpTo, Accounted, LocalApply, rows, history
<1>6. TypeOK'
  BY <1>1, <1>3 DEF ApplyInv, TypeOK, LocalApply, definitions, rows, history
<1>7. DagInv'
  BY <1>2, <1>3, <1>4, <1>5 DEF ApplyInv, DagInv, AccountedUpTo, LocalApply, rows
<1>8. ReplayInv' /\ LocalInv'
  BY <1>1 DEF ApplyInv, TypeOK, ReplayInv, LocalInv, LocalApply
<1>9. DrainInv'
  BY <1>3, <1>4 DEF ApplyInv, DrainInv, LocalApply
<1>10. OpenIsCaughtUp'
  BY <1>2, <1>4, <1>5 DEF OpenIsCaughtUp, Stored, LocalApply
<1>. QED
  BY <1>6, <1>7, <1>8, <1>9, <1>10 DEF ApplyInv

LEMMA LocalApplyFailsKeeps ==
    ASSUME ApplyInv, LocalApplyFails PROVE ApplyInv'
<1>. DEFINE c == dag[Len(dag)]
<1>1. lock = "local" /\ cached = "open" /\ Len(dag) > 0 /\ AccountedUpTo(Len(dag) - 1)
  BY DEF ApplyInv, TypeOK, LocalApplyFails, LocalInv
<1>2. Len(dag) \in Nat /\ DOMAIN dag = 1..Len(dag) /\ c \in Change
  BY <1>1 DEF ApplyInv, TypeOK
<1>3. Stored' = Stored /\ \A b : Accounted(b)' <=> (Accounted(b) \/ b = c)
  BY DEF LocalApplyFails, Stored, Accounted, record, rows
<1>4. \A i \in 1..Len(dag) : Accounted(dag[i])'
  BY <1>1, <1>2 DEF AccountedUpTo, Accounted, LocalApplyFails, record, rows
<1>5. TypeOK'
  <2>1. faults' \in 0..MaxFaults
    BY BoundAssumption DEF ApplyInv, TypeOK, LocalApplyFails, Fault
  <2>. QED
    BY <1>1, <1>2, <2>1 DEF ApplyInv, TypeOK, LocalApplyFails, definitions, record, rows
<1>6. DagInv'
  BY <1>3 DEF ApplyInv, DagInv, AccountedUpTo, LocalApplyFails, record, rows
<1>7. ReplayInv' /\ LocalInv'
  BY <1>1 DEF ApplyInv, TypeOK, ReplayInv, LocalInv, LocalApplyFails
<1>8. DrainInv'
  BY <1>3 DEF ApplyInv, DrainInv, LocalApplyFails, record
<1>9. OpenIsCaughtUp'
  BY <1>2, <1>4 DEF OpenIsCaughtUp, Stored, LocalApplyFails
<1>. QED
  BY <1>5, <1>6, <1>7, <1>8, <1>9 DEF ApplyInv

----------------------------------------------------------------------------

\* What holds of the change a replay looks at.
LEMMA ReplayFacts ==
    ASSUME ApplyInv, replay.pc # "idle"
    PROVE  /\ replay.next \in Nat \ {0} /\ Len(dag) \in Nat /\ DOMAIN dag = 1..Len(dag)
           /\ lock \in {"load", "sync"} /\ maxAddSeq < replay.next /\ maxAddSeq \in Nat
           /\ replay.next <= Len(dag) + 1
           /\ \A i \in 1..(replay.next - 1) : Accounted(dag[i])
           /\ replay.pc # "gate" =>
                /\ replay.next \in DOMAIN dag /\ Item \in Stored /\ Item \in Change
                /\ AddSeq(Item) = replay.next
           /\ replay.pc = "recheck" => Accounted(Item)
           /\ replay.missing \in SUBSET Def
<1>1. /\ replay.next \in Nat \ {0} /\ Len(dag) \in Nat /\ DOMAIN dag = 1..Len(dag)
      /\ lock \in {"load", "sync"} /\ maxAddSeq \in Nat /\ replay.missing \in SUBSET Def
  BY DEF ApplyInv, TypeOK, Replay
<1>2. /\ maxAddSeq < replay.next /\ replay.next <= Len(dag) + 1
      /\ \A i \in 1..(replay.next - 1) : Accounted(dag[i])
      /\ replay.pc # "gate" => replay.next \in DOMAIN dag
      /\ replay.pc = "recheck" => Accounted(Item)
  BY <1>1 DEF ApplyInv, ReplayInv, AccountedUpTo
<1>3. ASSUME replay.pc # "gate"
      PROVE  Item \in Stored /\ Item \in Change /\ AddSeq(Item) = replay.next
  <2>1. Item \in Stored /\ Item \in Change
    BY <1>2, <1>3 DEF Item, Stored, ApplyInv, TypeOK
  <2>. QED
    BY <1>2, <1>3, <2>1, AddSeqOfStored DEF ApplyInv, Item
<1>. QED
  BY <1>1, <1>2, <1>3

\* A replay that moves on, or ahead to another step for the same change,
\* with what it leaves behind accounted for.
LEMMA ReplayMoves ==
    ASSUME ApplyInv, replay.pc # "idle",
           UNCHANGED <<dag, maxAddSeq, applied, aborted, unwritten, lock, cached, drainer>>,
           detached \subseteq detached', detached' \subseteq Stored,
           replay'.pc # "idle",
           \/ /\ replay'.next = replay.next
              /\ replay.pc = "gate" => replay.next <= Len(dag)
           \/ /\ replay'.next = replay.next + 1 /\ replay'.pc = "gate"
              /\ replay.pc # "gate" /\ Accounted(Item),
           replay'.pc = "recheck" => Accounted(Item)' /\ replay'.next = replay.next
    PROVE  DagInv' /\ ReplayInv' /\ LocalInv' /\ DrainInv' /\ OpenIsCaughtUp'
<1>1. /\ replay.next \in Nat \ {0} /\ Len(dag) \in Nat /\ DOMAIN dag = 1..Len(dag)
      /\ lock \in {"load", "sync"} /\ maxAddSeq < replay.next /\ maxAddSeq \in Nat
      /\ replay.next <= Len(dag) + 1
      /\ \A i \in 1..(replay.next - 1) : Accounted(dag[i])
      /\ replay.pc # "gate" => replay.next \in DOMAIN dag
  BY ReplayFacts
<1>2. Stored' = Stored /\ \A c : Accounted(c) => Accounted(c)'
  BY DEF Stored, Accounted
<1>3. DagInv' /\ DrainInv'
  BY <1>2 DEF ApplyInv, DagInv, DrainInv, AccountedUpTo
<1>4. \A i \in 1..(replay'.next - 1) : Accounted(dag[i])'
  <2>. SUFFICES ASSUME NEW i \in 1..(replay'.next - 1) PROVE Accounted(dag[i])
    BY DEF Accounted
  <2>. QED
    BY <1>1 DEF Item
<1>5. ReplayInv'
  BY <1>1, <1>4 DEF ReplayInv, AccountedUpTo
<1>6. LocalInv' /\ OpenIsCaughtUp'
  BY <1>1 DEF LocalInv, OpenIsCaughtUp
<1>. QED
  BY <1>3, <1>5, <1>6

LEMMA ReplayGateKeeps ==
    ASSUME ApplyInv, ReplayGate PROVE ApplyInv'
<1>1. replay.pc = "gate" /\ replay.next <= Len(dag) /\ replay.next \in Nat \ {0}
  BY DEF ReplayGate, More, ApplyInv, TypeOK, Replay
<1>2. /\ replay' \in Replay /\ replay'.next = replay.next /\ replay'.pc \in {"apply", "park"}
  <2>1. Needs[Item] \ known \in SUBSET Def
    BY <1>1, ChangeAssumption DEF ApplyInv, TypeOK, Item
  <2>2. \/ replay' = [replay EXCEPT !.pc = "apply"]
        \/ replay' = [replay EXCEPT !.pc = "park", !.missing = Needs[Item] \ known]
    BY DEF ReplayGate
  <2>. QED
    BY <2>1, <2>2 DEF ApplyInv, TypeOK, Replay
<1>3. TypeOK'
  BY <1>1, <1>2 DEF ApplyInv, TypeOK, ReplayGate, definitions, record, rows, history
<1>4. /\ detached' = detached /\ detached \subseteq Stored
      /\ UNCHANGED <<dag, maxAddSeq, applied, aborted, unwritten, lock, cached, drainer>>
  BY DEF ReplayGate, record, rows, history, ApplyInv, DagInv
<1>. QED
  BY <1>1, <1>2, <1>3, <1>4, ReplayMoves DEF ApplyInv

LEMMA LookupFailsKeeps ==
    ASSUME ApplyInv, LookupFails PROVE ApplyInv'
<1>1. replay.pc = "gate" /\ replay.next <= Len(dag) /\ replay.next \in Nat \ {0}
  BY DEF LookupFails, More, ApplyInv, TypeOK, Replay
<1>2. PICK failed \in SUBSET (Needs[Item] \cap known) :
        replay' = [replay EXCEPT !.pc = "park", !.missing = (Needs[Item] \ known) \cup failed]
  BY DEF LookupFails
<1>3. (Needs[Item] \ known) \cup failed \in SUBSET Def
  BY <1>1, ChangeAssumption DEF ApplyInv, TypeOK, Item
<1>4. /\ replay' \in Replay /\ replay'.next = replay.next /\ replay'.pc = "park"
  BY <1>2, <1>3 DEF ApplyInv, TypeOK, Replay
<1>5. faults' \in 0..MaxFaults
  BY BoundAssumption DEF LookupFails, Fault, ApplyInv, TypeOK
<1>6. TypeOK'
  BY <1>1, <1>4, <1>5 DEF ApplyInv, TypeOK, LookupFails, definitions, record, rows, history
<1>7. /\ detached' = detached /\ detached \subseteq Stored
      /\ UNCHANGED <<dag, maxAddSeq, applied, aborted, unwritten, lock, cached, drainer>>
  BY DEF LookupFails, record, rows, history, ApplyInv, DagInv
<1>. QED
  BY <1>1, <1>4, <1>6, <1>7, ReplayMoves DEF ApplyInv

LEMMA ReplayParkKeeps ==
    ASSUME ApplyInv, ReplayPark PROVE ApplyInv'
<1>1. replay.pc = "park" /\ Item \in Stored /\ Item \in Change /\ replay.missing \in SUBSET Def
  BY ReplayFacts DEF ReplayPark
<1>2. /\ replay' \in Replay /\ replay'.next = replay.next /\ replay'.pc = "recheck"
  BY DEF ReplayPark, ApplyInv, TypeOK, Replay
<1>3. TypeOK'
  BY <1>1, <1>2 DEF ApplyInv, TypeOK, ReplayPark, definitions, record, history
<1>4. /\ detached' = detached \cup {Item} /\ detached' \subseteq Stored
      /\ UNCHANGED <<dag, maxAddSeq, applied, aborted, unwritten, lock, cached, drainer>>
  BY <1>1 DEF ReplayPark, record, history, ApplyInv, DagInv
<1>5. Accounted(Item)'
  BY <1>2, <1>4 DEF Accounted, Item
<1>. QED
  BY <1>1, <1>2, <1>3, <1>4, <1>5, ReplayMoves DEF ApplyInv

LEMMA ReplayRecheckKeeps ==
    ASSUME ApplyInv, ReplayRecheck PROVE ApplyInv'
<1>1. replay.pc = "recheck" /\ Accounted(Item)
  BY ReplayFacts DEF ReplayRecheck
<1>2. replay' = [pc |-> "gate", next |-> replay.next + 1, missing |-> {}]
  BY DEF ReplayRecheck, Following, NoReplay
<1>3. replay' \in Replay
  BY <1>2 DEF ApplyInv, TypeOK, Replay
<1>4. queue' \in 0..QueueSize
  BY BoundAssumption DEF ReplayRecheck, Notify, ApplyInv, TypeOK
<1>5. TypeOK'
  BY <1>1, <1>2, <1>3, <1>4 DEF ApplyInv, TypeOK, ReplayRecheck, definitions, record, rows, history
<1>6. /\ detached' = detached /\ detached \subseteq Stored
      /\ UNCHANGED <<dag, maxAddSeq, applied, aborted, unwritten, lock, cached, drainer>>
  BY DEF ReplayRecheck, record, rows, history, ApplyInv, DagInv
<1>. QED
  BY <1>1, <1>2, <1>5, <1>6, ReplayMoves DEF ApplyInv

LEMMA RecheckFailsKeeps ==
    ASSUME ApplyInv, RecheckFails PROVE ApplyInv'
<1>1. replay.pc = "recheck" /\ Accounted(Item) /\ Item \in Change
  BY ReplayFacts DEF RecheckFails
<1>2. replay' = [pc |-> "gate", next |-> replay.next + 1, missing |-> {}]
  BY DEF RecheckFails, Following, NoReplay
<1>3. replay' \in Replay
  BY <1>2 DEF ApplyInv, TypeOK, Replay
<1>4. faults' \in 0..MaxFaults /\ skipped' \in SUBSET Change
  BY <1>1, BoundAssumption DEF RecheckFails, Fault, ApplyInv, TypeOK
<1>5. TypeOK'
  BY <1>1, <1>2, <1>3, <1>4 DEF ApplyInv, TypeOK, RecheckFails, definitions, record, rows
<1>6. /\ detached' = detached /\ detached \subseteq Stored
      /\ UNCHANGED <<dag, maxAddSeq, applied, aborted, unwritten, lock, cached, drainer>>
  BY DEF RecheckFails, record, rows, ApplyInv, DagInv
<1>. QED
  BY <1>1, <1>2, <1>5, <1>6, ReplayMoves DEF ApplyInv

\* The watermark rises to the change, and the replay moves past it.
LEMMA ReplayApplyKeeps ==
    ASSUME ApplyInv, ReplayApply PROVE ApplyInv'
<1>1. /\ replay.pc = "apply" /\ replay.next \in Nat \ {0} /\ replay.next \in DOMAIN dag
      /\ Len(dag) \in Nat /\ DOMAIN dag = 1..Len(dag)
      /\ Item \in Stored /\ Item \in Change /\ AddSeq(Item) = replay.next
      /\ lock \in {"load", "sync"} /\ maxAddSeq < replay.next /\ maxAddSeq \in Nat
      /\ \A i \in 1..(replay.next - 1) : Accounted(dag[i])
  BY ReplayFacts DEF ReplayApply
<1>2. /\ applied' = applied \cup {Item} /\ applied' \in SUBSET Change
      /\ exists' \in BOOLEAN /\ effect' \in [Change -> 0..2]
      /\ maxAddSeq' \in 0..Len(dag)
      /\ maxAddSeq' = replay.next
      /\ applied' \subseteq {dag[i] : i \in 1..maxAddSeq'}
  BY <1>1, ApplyChangeFacts DEF ApplyInv, ReplayApply
<1>3. replay' = [pc |-> "gate", next |-> replay.next + 1, missing |-> {}]
  BY DEF ReplayApply, Following, NoReplay
<1>4. replay' \in Replay
  BY <1>1, <1>3 DEF Replay
<1>5. TypeOK'
  BY <1>1, <1>2, <1>3, <1>4 DEF ApplyInv, TypeOK, ReplayApply, definitions, rows, history
<1>6. Stored' = Stored /\ \A b : Accounted(b) => Accounted(b)'
  BY <1>2 DEF ReplayApply, Stored, Accounted, rows, history
<1>7. \A i \in 1..replay.next : Accounted(dag[i])'
  BY <1>1, <1>2 DEF Accounted, Item, ReplayApply, rows, history
<1>8. DagInv'
  BY <1>2, <1>6, <1>7 DEF ApplyInv, DagInv, AccountedUpTo, ReplayApply, rows
<1>9. ReplayInv'
  BY <1>1, <1>2, <1>3, <1>7 DEF ReplayInv, AccountedUpTo, ReplayApply
<1>10. LocalInv' /\ OpenIsCaughtUp'
  BY <1>1 DEF LocalInv, OpenIsCaughtUp, ReplayApply
<1>11. DrainInv'
  BY <1>2, <1>6 DEF ApplyInv, DrainInv, ReplayApply
<1>. QED
  BY <1>5, <1>8, <1>9, <1>10, <1>11 DEF ApplyInv

\* A replay that reaches the end has accounted for every stored change.
LEMMA ReplayDoneKeeps ==
    ASSUME ApplyInv, ReplayDone PROVE ApplyInv'
<1>1. /\ replay.pc = "gate" /\ replay.next = Len(dag) + 1
      /\ Len(dag) \in Nat /\ DOMAIN dag = 1..Len(dag) /\ lock \in {"load", "sync"}
      /\ \A i \in 1..Len(dag) : Accounted(dag[i])
  BY ReplayFacts DEF ReplayDone, More
<1>2. lock' = "none" /\ cached' = "open" /\ replay' = NoReplay /\ handlers' = handlers
  BY <1>1 DEF ReplayDone, EndReplay
<1>3. replay' \in Replay /\ replay'.pc = "idle"
  BY <1>2 DEF NoReplay, Replay
<1>4. TypeOK'
  BY <1>1, <1>2, <1>3 DEF ApplyInv, TypeOK, ReplayDone, definitions, record, rows, history
<1>5. Stored' = Stored /\ \A c : Accounted(c)' <=> Accounted(c)
  BY DEF ReplayDone, Stored, Accounted, record, rows, history
<1>6. DagInv' /\ DrainInv'
  BY <1>2, <1>5 DEF ApplyInv, DagInv, DrainInv, AccountedUpTo, ReplayDone, record, rows
<1>7. ReplayInv' /\ LocalInv'
  BY <1>2, <1>3 DEF ReplayInv, LocalInv
<1>8. OpenIsCaughtUp'
  BY <1>1, <1>5 DEF OpenIsCaughtUp, Stored
<1>. QED
  BY <1>4, <1>6, <1>7, <1>8 DEF ApplyInv

\* Between two rows the pass holds nothing but the rows to come.
LEMMA PassFacts ==
    ASSUME NEW R \in SUBSET Change
    PROVE  /\ NoPass \in Drainer /\ NoPass.pc = "wait" /\ NoPass.ready = {}
           /\ NoPass.object = "none"
           /\ [NoPass EXCEPT !.pc = "pick", !.ready = R] \in Drainer
           /\ [NoPass EXCEPT !.pc = "pick", !.ready = R].pc = "pick"
           /\ [NoPass EXCEPT !.pc = "pick", !.ready = R].ready = R
           /\ [NoPass EXCEPT !.pc = "pick", !.ready = R].object = "none"
<1>1. 0 \in 0..MaxRev
  BY BoundAssumption
<1>2. NoPass \in Drainer
  BY <1>1 DEF NoPass, Drainer
<1>. QED
  BY <1>2 DEF NoPass, Drainer

\* Giving a row up leaves the pass with the rows it has not tried.
LEMMA GiveUpFacts ==
    ASSUME TypeOK, drainer.row \in Change, GiveUp
    PROVE  /\ drainer' \in Drainer /\ skipped' \in SUBSET Change
           /\ drainer'.ready = drainer.ready /\ drainer'.pc = "pick"
           /\ drainer'.object = "none"
<1>1. drainer.ready \in SUBSET Change
  BY DEF TypeOK, Drainer
<1>. QED
  BY <1>1, PassFacts DEF TypeOK, GiveUp

\* What a failed replay did not get to is on record.
LEMMA ReplayFailsKeeps ==
    ASSUME ApplyInv, ReplayFails PROVE ApplyInv'
<1>1. /\ replay.pc # "idle" /\ replay.next \in Nat \ {0} /\ Len(dag) \in Nat
      /\ DOMAIN dag = 1..Len(dag) /\ lock \in {"load", "sync"}
      /\ \A i \in 1..(replay.next - 1) : Accounted(dag[i])
  BY ReplayFacts DEF ReplayFails
<1>2. /\ lock' = "none" /\ replay' = NoReplay
      /\ lock = "load" => cached' = "none" /\ handlers' = 0
      /\ lock = "sync" => cached' = "open" /\ handlers' = handlers
  BY <1>1 DEF ReplayFails, EndReplay
<1>3. replay' \in Replay /\ replay'.pc = "idle"
  BY <1>2 DEF NoReplay, Replay
<1>4. /\ drainer' \in Drainer /\ skipped' \in SUBSET Change
      /\ drainer'.ready = drainer.ready
      /\ \/ drainer' = drainer
         \/ drainer'.pc = "pick" /\ drainer'.object = "none"
  <2>1. CASE lock = "load" /\ drainer.pc \in {"get", "reload"}
    <3>1. drainer.row \in Change
      BY <2>1 DEF ApplyInv, DrainInv, Stored, TypeOK
    <3>. QED
      BY <2>1, <3>1, GiveUpFacts DEF ApplyInv, ReplayFails
  <2>2. CASE ~(lock = "load" /\ drainer.pc \in {"get", "reload"})
    BY <2>2 DEF ReplayFails, ApplyInv, TypeOK
  <2>. QED
    BY <2>1, <2>2
<1>5. aborted' \in SUBSET Change /\ faults' \in 0..MaxFaults
  <2>1. {dag[i] : i \in replay.next..Len(dag)} \subseteq Change
    BY <1>1 DEF ApplyInv, TypeOK
  <2>. QED
    BY <2>1, BoundAssumption DEF ReplayFails, Fault, ApplyInv, TypeOK
<1>6. TypeOK'
  BY <1>1, <1>2, <1>3, <1>4, <1>5, BoundAssumption
     DEF ApplyInv, TypeOK, ReplayFails, definitions, record, rows
<1>7. Stored' = Stored /\ \A c : Accounted(c) => Accounted(c)'
  BY DEF ReplayFails, Stored, Accounted, record, rows
<1>8. \A i \in DOMAIN dag : Accounted(dag[i])'
  BY <1>1 DEF ReplayFails, Accounted, record, rows
<1>9. DagInv'
  BY <1>7 DEF ApplyInv, DagInv, AccountedUpTo, ReplayFails, record, rows
<1>10. ReplayInv' /\ LocalInv'
  BY <1>2, <1>3 DEF ReplayInv, LocalInv
<1>11. DrainInv'
  <2>1. drainer.object = "held" => lock = "sync"
    BY <1>1 DEF ApplyInv, TypeOK, DrainInv
  <2>. QED
    BY <1>2, <1>4, <1>7, <2>1 DEF ApplyInv, DrainInv, ReplayFails, record
<1>12. OpenIsCaughtUp'
  BY <1>8 DEF OpenIsCaughtUp, Stored, ReplayFails
<1>. QED
  BY <1>6, <1>9, <1>10, <1>11, <1>12 DEF ApplyInv

----------------------------------------------------------------------------

\* The steps of a drain pass that touch no record.
LEMMA DrainReads ==
    ASSUME ApplyInv,
           DrainWait \/ DrainScan \/ ScanFails \/ DrainPick \/ DrainGet \/ DrainCheck
             \/ DrainRefused \/ DrainApplyFails \/ DrainUnparkFails
    PROVE  ApplyInv'
<1>1. /\ UNCHANGED <<definitions, record, rows, aborted, unwritten, dag, up, cached, handlers,
                     lock, replay>>
  BY DEF DrainWait, DrainScan, ScanFails, DrainPick, DrainGet, DrainCheck, DrainRefused,
     DrainApplyFails, DrainUnparkFails, history
<1>2. drainer.pc \notin {"wait", "scan", "pick"} => drainer.row \in Change
  BY DEF ApplyInv, TypeOK, DrainInv, Stored
<1>3. /\ drainer' \in Drainer /\ skipped' \in SUBSET Change
      /\ drainer'.ready \subseteq Stored
      /\ drainer'.pc \notin {"wait", "scan", "pick"} => drainer'.row \in Stored
      /\ drainer'.pc # "unpark"
      /\ drainer'.object = "held" => cached = "open"
  <2>1. CASE DrainWait
    BY <2>1 DEF DrainWait, ApplyInv, TypeOK, DrainInv, Drainer, history
  <2>2. CASE DrainScan
    BY <2>2 DEF DrainScan, Resolvable, ApplyInv, TypeOK, DagInv, DrainInv, Drainer
  <2>3. CASE DrainPick
    <3>1. CASE drainer' = NoPass
      <4>1. /\ NoPass \in Drainer /\ NoPass.pc = "wait" /\ NoPass.ready = {}
            /\ NoPass.object = "none"
        BY PassFacts
      <4>. QED
        BY <2>3, <3>1, <4>1 DEF DrainPick, ApplyInv, TypeOK, history
    <3>2. CASE drainer' # NoPass
      <4>1. PICK c \in drainer.ready :
              drainer' = [drainer EXCEPT !.pc = "get", !.ready = @ \ {c}, !.row = c]
        BY <2>3, <3>2 DEF DrainPick
      <4>2. c \in Change /\ c \in Stored
        BY DEF ApplyInv, TypeOK, DrainInv, Drainer
      <4>. QED
        BY <2>3, <4>1, <4>2 DEF DrainPick, ApplyInv, TypeOK, DrainInv, Drainer, history
    <3>. QED
      BY <3>1, <3>2
  <2>4. CASE DrainGet \/ DrainCheck
    BY <2>4 DEF DrainGet, DrainCheck, ApplyInv, TypeOK, DrainInv, Drainer, history
  <2>5. CASE DrainRefused \/ DrainApplyFails \/ DrainUnparkFails
    <3>1. GiveUp /\ drainer.row \in Change
      BY <1>2, <2>5 DEF DrainRefused, DrainApplyFails, DrainUnparkFails
    <3>. QED
      BY <3>1, GiveUpFacts DEF ApplyInv, DrainInv
  <2>6. CASE ScanFails
    <3>1. PICK left \in SUBSET {c \in Change : Resolvable(c)} :
            /\ skipped' = left
            /\ drainer' = [drainer EXCEPT !.pc = "pick",
                                          !.ready = {c \in Change : Resolvable(c)} \ left]
      BY <2>6, Zenon DEF ScanFails
    <3>2. {c \in Change : Resolvable(c)} \subseteq Stored
      BY DEF Resolvable, ApplyInv, DagInv
    <3>3. drainer.pc = "scan"
      BY <2>6 DEF ScanFails
    <3>. DEFINE free == {c \in Change : Resolvable(c)} \ left
    <3>4. free \in SUBSET Change /\ free \subseteq Stored /\ skipped' \in SUBSET Change
      BY <3>1, <3>2
    <3>5. drainer' = [drainer EXCEPT !.pc = "pick", !.ready = free]
      BY <3>1
    <3>. HIDE DEF free
    <3>. QED
      BY <3>3, <3>4, <3>5 DEF ApplyInv, TypeOK, DrainInv, Drainer
  <2>. QED
    BY <2>1, <2>2, <2>3, <2>4, <2>5, <2>6
<1>4. queue' \in 0..QueueSize /\ faults' \in 0..MaxFaults
  <2>1. queue' \in {queue, 0} /\ (faults' = faults \/ Fault)
    BY DEF DrainWait, DrainScan, ScanFails, DrainPick, DrainGet, DrainCheck, DrainRefused,
       DrainApplyFails, DrainUnparkFails
  <2>. QED
    BY <2>1, BoundAssumption DEF Fault, ApplyInv, TypeOK
<1>5. TypeOK'
  BY <1>1, <1>3, <1>4 DEF ApplyInv, TypeOK, definitions, record, rows
<1>6. DrainInv'
  BY <1>1, <1>3 DEF DrainInv, Stored
<1>. QED
  BY <1>1, <1>5, <1>6, QuietStep DEF ApplyInv, record, rows

LEMMA DrainDropKeeps ==
    ASSUME ApplyInv, DrainDrop PROVE ApplyInv'
<1>1. drainer' \in Drainer
  <2>1. 0 \in 0..MaxRev
    BY BoundAssumption
  <2>. QED
    BY <2>1 DEF ApplyInv, TypeOK, DrainDrop, Drainer
<1>2. TypeOK'
  BY <1>1, BoundAssumption DEF ApplyInv, TypeOK, DrainDrop, definitions, record, rows, history
<1>3. DrainInv'
  BY DEF ApplyInv, TypeOK, DrainInv, DrainDrop, record, Stored, Drainer
<1>. QED
  BY <1>2, <1>3, QuietStep DEF ApplyInv, DrainDrop, record, rows, history

\* The pass applies below or above the watermark, but only while nobody
\* replays: every stored change is accounted for.
LEMMA DrainApplyKeeps ==
    ASSUME ApplyInv, DrainApply PROVE ApplyInv'
<1>. DEFINE c == drainer.row
<1>1. /\ lock = "none" /\ cached = "open" /\ c \in Stored /\ Len(dag) \in Nat
      /\ DOMAIN dag = 1..Len(dag) /\ \A b \in Stored : Accounted(b)
  BY DEF ApplyInv, TypeOK, DrainApply, DrainInv, OpenIsCaughtUp
<1>2. /\ applied' = applied \cup {c} /\ applied' \in SUBSET Change
      /\ exists' \in BOOLEAN /\ effect' \in [Change -> 0..2]
      /\ maxAddSeq' \in 0..Len(dag)
      /\ applied' \subseteq {dag[i] : i \in 1..maxAddSeq'}
  BY <1>1, ApplyChangeFacts DEF ApplyInv, DrainApply
<1>3. /\ drainer' \in Drainer /\ drainer'.pc = "unpark" /\ drainer'.row = c
      /\ drainer'.ready = drainer.ready /\ drainer'.object = drainer.object
  BY DEF DrainApply, ApplyInv, TypeOK, Drainer
<1>4. TypeOK'
  BY <1>1, <1>2, <1>3 DEF ApplyInv, TypeOK, DrainApply, definitions, rows, history
<1>5. Stored' = Stored /\ \A b : Accounted(b) => Accounted(b)'
  BY <1>2 DEF DrainApply, Stored, Accounted, rows, history
<1>6. \A i \in 1..Len(dag) : Accounted(dag[i])'
  BY <1>1, <1>2 DEF Stored, Accounted, DrainApply, rows, history
<1>7. DagInv'
  BY <1>1, <1>2, <1>5, <1>6 DEF ApplyInv, DagInv, AccountedUpTo, DrainApply, rows
<1>8. ReplayInv' /\ LocalInv'
  BY <1>1 DEF ApplyInv, TypeOK, ReplayInv, LocalInv, DrainApply
<1>9. DrainInv'
  BY <1>1, <1>2, <1>3, <1>5 DEF ApplyInv, DrainInv, DrainApply
<1>10. OpenIsCaughtUp'
  BY <1>1, <1>5 DEF OpenIsCaughtUp
<1>. QED
  BY <1>4, <1>7, <1>8, <1>9, <1>10 DEF ApplyInv

LEMMA DrainUnparkKeeps ==
    ASSUME ApplyInv, DrainUnpark PROVE ApplyInv'
<1>1. drainer.row \in applied /\ drainer.row \in Change
  BY DEF ApplyInv, TypeOK, DrainUnpark, DrainInv
<1>2. /\ drainer' \in Drainer /\ drainer'.pc = "pick" /\ drainer'.object = "none"
      /\ drainer'.ready = drainer.ready
  <2>1. drainer.ready \in SUBSET Change
    BY DEF ApplyInv, TypeOK, Drainer
  <2>. QED
    BY <2>1, PassFacts DEF DrainUnpark
<1>3. TypeOK'
  BY <1>1, <1>2 DEF ApplyInv, TypeOK, DrainUnpark, definitions, record, history
<1>4. DrainInv'
  BY <1>2 DEF ApplyInv, DrainInv, DrainUnpark, record, Stored
<1>. QED
  BY <1>1, <1>3, <1>4, QuietStep DEF ApplyInv, DrainUnpark, record, history

----------------------------------------------------------------------------

\* Only the memory is lost.
LEMMA CrashKeeps ==
    ASSUME ApplyInv, Crash PROVE ApplyInv'
<1>1. /\ replay' \in Replay /\ drainer' \in Drainer /\ replay'.pc = "idle"
      /\ drainer'.ready = {} /\ drainer'.pc = "wait" /\ drainer'.object = "none"
  BY BoundAssumption DEF Crash, NoReplay, NoPass, Replay, Drainer
<1>2. faults' \in 0..MaxFaults
  BY BoundAssumption DEF Crash, Fault, ApplyInv, TypeOK
<1>3. TypeOK'
  <2>1. 0 \in 0..MaxRev /\ 0 \in 0..QueueSize
    BY BoundAssumption
  <2>. QED
    BY <1>1, <1>2, <2>1 DEF ApplyInv, TypeOK, Crash, record, rows, history
<1>4. Stored' = Stored /\ \A c : Accounted(c)' <=> Accounted(c)
  BY DEF Crash, Stored, Accounted, record, rows, history
<1>5. DagInv'
  BY <1>4 DEF ApplyInv, DagInv, AccountedUpTo, Crash, record, rows
<1>6. ReplayInv' /\ LocalInv' /\ DrainInv' /\ OpenIsCaughtUp'
  BY <1>1 DEF ReplayInv, LocalInv, DrainInv, OpenIsCaughtUp, Crash
<1>. QED
  BY <1>3, <1>5, <1>6 DEF ApplyInv

LEMMA ApplyInvStep == ApplyInv /\ [Next]_vars => ApplyInv'
<1>. SUFFICES ASSUME ApplyInv, [Next]_vars PROVE ApplyInv'
  OBVIOUS
<1>1. CASE Definitions
  BY <1>1, DefinitionsKeep
<1>2. CASE Load \/ Evict \/ Restart
  BY <1>2, LoadKeeps, EvictKeeps, RestartKeeps
<1>3. ASSUME NEW c \in Change, Receive(c) \/ AddContent(c) PROVE ApplyInv'
  BY <1>3, ReceiveKeeps, AddContentKeeps
<1>4. CASE LocalApply
  BY <1>4, LocalApplyKeeps
<1>5. CASE ReplayStep
  BY <1>5, ReplayGateKeeps, ReplayParkKeeps, ReplayRecheckKeeps, ReplayApplyKeeps,
     ReplayDoneKeeps DEF ReplayStep
<1>6. CASE DrainStep
  BY <1>6, DrainReads, DrainDropKeeps, DrainApplyKeeps, DrainUnparkKeeps DEF DrainStep
<1>7. CASE Faults
  BY <1>7, RefreshFailsKeeps, LookupFailsKeeps, RecheckFailsKeeps, ReplayFailsKeeps,
     LocalApplyFailsKeeps, DrainReads, CrashKeeps, RestartKeeps DEF Faults
<1>8. CASE UNCHANGED vars
  <2>1. TypeOK'
    BY <1>8 DEF ApplyInv, TypeOK, vars, definitions, record, rows, history
  <2>2. DrainInv'
    BY <1>8 DEF ApplyInv, DrainInv, Stored, vars, record
  <2>. QED
    BY <1>8, <2>1, <2>2, QuietStep DEF ApplyInv, vars, record, rows, history
<1>. QED
  BY <1>1, <1>2, <1>3, <1>4, <1>5, <1>6, <1>7, <1>8 DEF Next

THEOREM ApplyInvariant == Spec => []ApplyInv
  BY ApplyInvInit, ApplyInvStep, PTL DEF Spec

----------------------------------------------------------------------------

\* Every variable keeps its type, the lock is held by whoever the state of
\* the cache and of the replay says, and nothing is cached while the process
\* is down.
THEOREM TypeCorrect == Spec => []TypeOK
<1>1. ApplyInv => TypeOK
  BY DEF ApplyInv
<1>. QED
  BY <1>1, ApplyInvariant, PTL

\* The watermark never passes a change that was neither applied nor parked
\* nor left to a failed operation: replays start above it (replayLocked).
THEOREM NothingSkipped == Spec => []NoChangeLost
<1>1. ApplyInv => NoChangeLost
  BY DEF ApplyInv, DagInv, AccountedUpTo, NoChangeLost
<1>. QED
  BY <1>1, ApplyInvariant, PTL

\* An open, unlocked object has dealt with every change of its tree,
\* whatever loads, evictions, crashes and drain passes came before.
THEOREM CaughtUp == Spec => []OpenIsCaughtUp
<1>1. ApplyInv => OpenIsCaughtUp
  BY DEF ApplyInv
<1>. QED
  BY <1>1, ApplyInvariant, PTL

\* A replay parks only changes above the watermark, and those have not been
\* applied: an applied change never comes back to `_detached`.
THEOREM AppliedStaysApplied == Spec => NeverParkedAfterApply
<1>1. ASSUME ApplyInv, [Next]_vars, NEW c \in detached' \ detached
      PROVE  c \notin applied
  <2>1. ReplayPark
    BY <1>1 DEF Next, Definitions, DefineShortId, NotifyShortId, DefineDataset, RefreshCatalog,
       NotifyDataset, Load, Evict, Restart, Receive, AddContent, LocalApply, ReplayStep,
       ReplayGate, ReplayRecheck, ReplayApply, ReplayDone, DrainStep, DrainWait, DrainScan,
       DrainPick, DrainGet, DrainCheck, DrainDrop, DrainApply, DrainRefused, DrainUnpark,
       Faults, RefreshFails, LookupFails, RecheckFails, ReplayFails, LocalApplyFails, ScanFails,
       DrainApplyFails, DrainUnparkFails, Crash, RestartDegraded, vars, rows
  <2>2. /\ c = Item /\ AddSeq(Item) = replay.next /\ maxAddSeq < replay.next
        /\ replay.next \in Nat /\ Item \in Stored /\ maxAddSeq \in Nat
        /\ DOMAIN dag = 1..Len(dag) /\ maxAddSeq <= Len(dag) /\ Len(dag) \in Nat
    BY <1>1, <2>1, ReplayFacts DEF ReplayPark, ApplyInv, TypeOK
  <2>3. \A i \in 1..maxAddSeq : dag[i] # Item
    BY <1>1, <2>2, AddSeqOfStored DEF ApplyInv
  <2>. QED
    BY <1>1, <2>2, <2>3 DEF ApplyInv, DagInv
<1>2. ApplyInv /\ [Next]_vars => [\A c \in detached' \ detached : c \notin applied]_vars
  BY <1>1
<1>. QED
  BY <1>2, ApplyInvariant, PTL DEF Spec, NeverParkedAfterApply

----------------------------------------------------------------------------
(* The wake-ups of the drainer.                                            *)

\* Somebody has the parked change in hand, or will wake the drainer for it.
Covered(c) ==
    \/ c \in drainer.ready \cup {drainer.row} \/ LeftByFault(c)
    \/ queue > 0 \/ drainer.pc = "scan"
    \/ wake # {} \/ schemaPc # "idle"
    \/ replay.pc = "recheck" /\ Item = c

\* The snapshot is the committed schema, but for a refresh to come or one that
\* failed.
SnapshotIsCurrent == up /\ schemaPc # "refresh" /\ ~degraded => catalog = schema

\* A pass that has picked no row holds none, and what a replay looks up a
\* second time is what the row it has just parked waits for.
WakeInv ==
    /\ NoLostWakeup
    /\ SnapshotIsCurrent
    /\ drainer.pc \in {"wait", "scan", "pick"} => drainer.row = NoChange
    /\ replay.pc = "recheck" => pending[Item] = replay.missing

\* A step that makes no parked change resolvable and leaves each of them in
\* somebody's hands loses no wake-up.
LEMMA WakeQuiet ==
    ASSUME NoLostWakeup, up' => up, UNCHANGED definitions,
           detached' \subseteq detached, \A c \in detached' : pending'[c] = pending[c],
           \A c \in Change : c \in detached' /\ Covered(c) => Covered(c)'
    PROVE  NoLostWakeup'
<1>. SUFFICES ASSUME up', NEW c \in Change, Ready(c)' PROVE Covered(c)'
  BY DEF NoLostWakeup, Covered
<1>1. Ready(c) /\ up /\ c \in detached'
  BY DEF Ready, definitions
<1>2. Covered(c)
  BY <1>1 DEF NoLostWakeup, Covered
<1>. QED
  BY <1>1, <1>2

\* Whoever notifies leaves a notification in the queue, a full one included.
LEMMA NotifyFacts == ASSUME TypeOK, Notify PROVE queue' > 0
  BY BoundAssumption DEF TypeOK, Notify

\* As long as something is left for the drainer to do, nobody is forgotten.
LEMMA WokenUp ==
    ASSUME \/ ~up' \/ queue' > 0 \/ drainer'.pc = "scan"
           \/ wake' # {} \/ schemaPc' # "idle"
    PROVE  NoLostWakeup'
  BY DEF NoLostWakeup

LEMMA DefinitionsWake == ASSUME ApplyInv, Definitions PROVE NoLostWakeup'
<1>1. ASSUME NEW d \in Def, DefineShortId(d) PROVE NoLostWakeup'
  BY <1>1, WokenUp DEF DefineShortId
<1>2. ASSUME NEW d \in Def, NotifyShortId(d) PROVE NoLostWakeup'
  BY <1>2, NotifyFacts, WokenUp DEF NotifyShortId, ApplyInv
<1>3. CASE DefineDataset \/ RefreshCatalog
  BY <1>3, WokenUp DEF DefineDataset, RefreshCatalog
<1>4. CASE NotifyDataset
  BY <1>4, NotifyFacts, WokenUp DEF NotifyDataset, ApplyInv
<1>. QED
  BY <1>1, <1>2, <1>3, <1>4 DEF Definitions

\* Nobody but a replay parks a change or looks one up again.
LEMMA CacheWake ==
    ASSUME ApplyInv, WakeInv,
           Load \/ Evict \/ LocalApply \/ LocalApplyFails
             \/ \E c \in Change : Receive(c) \/ AddContent(c)
    PROVE  NoLostWakeup'
<1>1. replay.pc # "recheck"
  <2>1. Load \/ LocalApply \/ LocalApplyFails \/ Evict => lock \notin {"load", "sync"}
    BY DEF Load, LocalApply, LocalApplyFails, Evict
  <2>2. (\E c \in Change : Receive(c) \/ AddContent(c)) => lock \notin {"load", "sync"}
    BY DEF Receive, AddContent
  <2>. QED
    BY <2>1, <2>2 DEF ApplyInv, TypeOK
<1>2. /\ UNCHANGED <<definitions, rows, up, queue, skipped>>
      /\ drainer'.ready = drainer.ready /\ drainer'.row = drainer.row
      /\ drainer'.pc = drainer.pc
  <2>1. CASE Evict
    BY <2>1 DEF Evict, Close, history, ApplyInv, TypeOK, Drainer
  <2>2. CASE Load \/ LocalApply \/ LocalApplyFails
    BY <2>2 DEF Load, LocalApply, LocalApplyFails, history
  <2>3. CASE \E c \in Change : Receive(c) \/ AddContent(c)
    BY <2>3 DEF Receive, AddContent, history
  <2>. QED
    BY <2>1, <2>2, <2>3
<1>3. \A c \in Change : Covered(c) => Covered(c)'
  BY <1>1, <1>2 DEF Covered, LeftByFault, definitions
<1>. QED
  BY <1>2, <1>3, WakeQuiet DEF WakeInv, rows

\* The lookup is repeated once the row is in: either the definition came in
\* between and the replay notifies, or its apply is still to come.
LEMMA ReplayWake ==
    ASSUME ApplyInv, WakeInv, ReplayStep PROVE NoLostWakeup'
<1>1. CASE ReplayGate \/ ReplayApply \/ ReplayDone
  <2>1. /\ UNCHANGED <<definitions, rows, up, queue, drainer, skipped>>
        /\ replay.pc # "recheck"
    BY <1>1 DEF ReplayGate, ReplayApply, ReplayDone, history
  <2>2. \A c \in Change : Covered(c) => Covered(c)'
    BY <2>1 DEF Covered, LeftByFault, definitions
  <2>. QED
    BY <2>1, <2>2, WakeQuiet DEF WakeInv, rows
<1>2. CASE ReplayPark
  <2>1. /\ replay'.pc = "recheck" /\ Item' = Item
        /\ UNCHANGED <<definitions, up, queue, drainer, skipped>>
        /\ detached' = detached \cup {Item} /\ replay.pc # "recheck"
        /\ \A c \in Change : c # Item => pending'[c] = pending[c]
    BY <1>2 DEF ReplayPark, ApplyInv, TypeOK, Replay, Item, history
  <2>2. SUFFICES ASSUME up', NEW c \in Change, Ready(c)' PROVE Covered(c)'
    BY DEF NoLostWakeup, Covered
  <2>3. CASE c = Item
    BY <2>1, <2>3 DEF Covered
  <2>4. CASE c # Item
    <3>1. Ready(c)
      BY <2>1, <2>2, <2>4 DEF Ready, definitions
    <3>2. Covered(c)
      BY <2>1, <2>2, <3>1 DEF WakeInv, NoLostWakeup, Covered
    <3>. QED
      BY <2>1, <3>2 DEF Covered, LeftByFault, definitions
  <2>. QED
    BY <2>3, <2>4
<1>3. CASE ReplayRecheck /\ replay.missing \subseteq known
  BY <1>3, NotifyFacts, WokenUp DEF ReplayRecheck, ApplyInv
<1>4. CASE ReplayRecheck /\ ~(replay.missing \subseteq known)
  <2>1. /\ UNCHANGED <<definitions, rows, up, queue, drainer, skipped>>
        /\ replay.pc = "recheck"
    BY <1>4 DEF ReplayRecheck, history
  <2>2. SUFFICES ASSUME up', NEW c \in Change, Ready(c)' PROVE Covered(c)'
    BY DEF NoLostWakeup, Covered
  <2>3. Ready(c) /\ up
    BY <2>1, <2>2 DEF Ready, definitions, rows
  <2>4. c # Item
    BY <1>4, <2>1, <2>3 DEF Ready, WakeInv
  <2>5. Covered(c)
    BY <2>3 DEF WakeInv, NoLostWakeup, Covered
  <2>. QED
    BY <2>1, <2>4, <2>5 DEF Covered, LeftByFault, definitions
<1>. QED
  BY <1>1, <1>2, <1>3, <1>4 DEF ReplayStep

\* A failed lookup parks the change as if the definition were not there, and
\* a failed re-check leaves it on record as skipped.
LEMMA LookupFailsWake ==
    ASSUME ApplyInv, WakeInv, LookupFails \/ RecheckFails PROVE NoLostWakeup'
<1>1. UNCHANGED <<definitions, rows, up, queue, drainer, dag>>
  BY DEF LookupFails, RecheckFails
<1>2. \/ replay.pc # "recheck" /\ skipped' = skipped
      \/ skipped' = skipped \cup {Item}
  BY DEF LookupFails, RecheckFails, history
<1>3. \A c \in Change : Covered(c) => Covered(c)'
  BY <1>1, <1>2 DEF Covered, LeftByFault, definitions
<1>. QED
  BY <1>1, <1>3, WakeQuiet DEF WakeInv, rows

\* A row the pass gives up is on record as skipped.
LEMMA GiveUpWake ==
    ASSUME TypeOK, WakeInv, drainer.row \in Change, GiveUp, replay.pc # "recheck" \/ replay' = replay,
           UNCHANGED <<definitions, rows, up, queue, dag>>
    PROVE  NoLostWakeup'
<1>1. drainer'.ready = drainer.ready /\ skipped' = skipped \cup {drainer.row}
  BY GiveUpFacts DEF GiveUp
<1>2. \A c \in Change : Covered(c) => drainer.pc = "scan" \/ Covered(c)'
  BY <1>1 DEF Covered, LeftByFault, definitions, Item
<1>3. drainer.pc # "scan"
  BY ChangeAssumption DEF WakeInv
<1>. QED
  BY <1>2, <1>3, WakeQuiet DEF WakeInv, rows

LEMMA ReplayFailsWake ==
    ASSUME ApplyInv, WakeInv, ReplayFails PROVE NoLostWakeup'
<1>1. UNCHANGED <<definitions, rows, up, queue, dag>> /\ replay.pc # "recheck"
  BY DEF ReplayFails
<1>2. CASE lock = "load" /\ drainer.pc \in {"get", "reload"}
  <2>1. drainer.row \in Change /\ GiveUp
    BY <1>2 DEF ApplyInv, DrainInv, Stored, TypeOK, ReplayFails
  <2>. QED
    BY <1>1, <2>1, GiveUpWake DEF ApplyInv
<1>3. CASE ~(lock = "load" /\ drainer.pc \in {"get", "reload"})
  <2>1. UNCHANGED <<skipped, drainer>>
    BY <1>3 DEF ReplayFails
  <2>2. \A c \in Change : Covered(c) => Covered(c)'
    BY <1>1, <2>1 DEF Covered, LeftByFault, definitions
  <2>. QED
    BY <1>1, <2>2, WakeQuiet DEF WakeInv, rows
<1>. QED
  BY <1>2, <1>3

\* A pass takes every parked change that is ready when it scans, and each of
\* them stays in its hands until it is unparked or skipped.
LEMMA DrainWake ==
    ASSUME ApplyInv, WakeInv, DrainStep \/ ScanFails \/ DrainApplyFails \/ DrainUnparkFails
    PROVE  NoLostWakeup'
<1>1. drainer.pc \notin {"wait", "scan", "pick"} => drainer.row \in Change
  BY DEF ApplyInv, DrainInv, Stored, TypeOK
<1>2. CASE DrainWait
  BY <1>2, WokenUp DEF DrainWait, ApplyInv, TypeOK, Drainer
<1>3. CASE DrainScan \/ ScanFails
  <2>1. /\ \A c \in Change : Resolvable(c) => c \in drainer'.ready \cup skipped'
        /\ UNCHANGED <<definitions, rows, up>>
    <3>1. CASE DrainScan
      BY <3>1 DEF DrainScan, ApplyInv, TypeOK, Drainer
    <3>2. CASE ScanFails
      <4>1. PICK left \in SUBSET {c \in Change : Resolvable(c)} :
              /\ skipped' = left
              /\ drainer' = [drainer EXCEPT !.pc = "pick",
                                            !.ready = {c \in Change : Resolvable(c)} \ left]
        BY <3>2, Zenon DEF ScanFails
      <4>. DEFINE free == {c \in Change : Resolvable(c)} \ left
      <4>2. drainer' = [drainer EXCEPT !.pc = "pick", !.ready = free]
        BY <4>1
      <4>3. \A c \in Change : Resolvable(c) => c \in free \cup skipped'
        BY <4>1
      <4>. HIDE DEF free
      <4>4. drainer'.ready = free
        BY <4>2 DEF ApplyInv, TypeOK, Drainer
      <4>. QED
        BY <3>2, <4>3, <4>4 DEF ScanFails
    <3>. QED
      BY <1>3, <3>1, <3>2
  <2>. SUFFICES ASSUME up', NEW c \in Change, Ready(c)' PROVE Covered(c)'
    BY DEF NoLostWakeup, Covered
  <2>2. Ready(c) /\ up
    BY <2>1 DEF Ready, definitions, rows
  <2>3. CASE Resolvable(c)
    BY <2>1, <2>3 DEF Covered, LeftByFault
  <2>4. CASE ~Resolvable(c)
    <3>1. c \in Runtime /\ schema > 0 /\ catalog = 0
      BY <2>2, <2>4 DEF Ready, Resolvable, ApplyInv, TypeOK
    <3>2. schemaPc = "refresh" \/ degraded
      BY <2>2, <3>1 DEF WakeInv, SnapshotIsCurrent
    <3>. QED
      BY <2>1, <3>1, <3>2 DEF Covered, LeftByFault, definitions
  <2>. QED
    BY <2>3, <2>4
<1>4. CASE DrainPick
  <2>1. /\ UNCHANGED <<definitions, rows, up, queue, skipped, dag, replay>>
        /\ drainer.row = NoChange /\ drainer.pc = "pick"
    BY <1>4 DEF DrainPick, history, WakeInv
  <2>2. drainer.ready \subseteq drainer'.ready \cup {drainer'.row}
    <3>1. CASE drainer.ready = {}
      BY <3>1
    <3>2. CASE drainer.ready # {}
      <4>1. PICK c \in drainer.ready :
              drainer' = [drainer EXCEPT !.pc = "get", !.ready = @ \ {c}, !.row = c]
        BY <1>4, <3>2 DEF DrainPick
      <4>2. c \in Change /\ drainer \in Drainer
        BY DEF ApplyInv, TypeOK, Drainer
      <4>3. drainer'.ready = drainer.ready \ {c} /\ drainer'.row = c
        BY <4>1, <4>2 DEF Drainer
      <4>. QED
        BY <4>3
    <3>. QED
      BY <3>1, <3>2
  <2>3. \A c \in Change : Covered(c) => Covered(c)'
    BY <2>1, <2>2, ChangeAssumption DEF Covered, LeftByFault, definitions, Item
  <2>. QED
    BY <2>1, <2>3, WakeQuiet DEF WakeInv, rows
<1>5. CASE DrainGet \/ DrainCheck \/ DrainDrop \/ DrainApply
  <2>1. /\ UNCHANGED <<definitions, rows, up, queue, skipped, dag, replay>>
        /\ drainer'.ready = drainer.ready /\ drainer'.row = drainer.row
        /\ drainer.pc # "scan"
    BY <1>5 DEF DrainGet, DrainCheck, DrainDrop, DrainApply, history, ApplyInv, TypeOK, Drainer
  <2>2. \A c \in Change : Covered(c) => Covered(c)'
    BY <2>1 DEF Covered, LeftByFault, definitions, Item
  <2>. QED
    BY <2>1, <2>2, WakeQuiet DEF WakeInv, rows
<1>6. CASE DrainRefused \/ DrainApplyFails \/ DrainUnparkFails
  <2>1. GiveUp /\ drainer.row \in Change /\ UNCHANGED <<definitions, rows, up, queue, dag, replay>>
    BY <1>1, <1>6 DEF DrainRefused, DrainApplyFails, DrainUnparkFails
  <2>. QED
    BY <2>1, GiveUpWake DEF ApplyInv
<1>7. CASE DrainUnpark
  <2>1. /\ UNCHANGED <<definitions, up, queue, skipped, dag, replay>>
        /\ detached' = detached \ {drainer.row} /\ drainer.pc # "scan"
        /\ \A c \in detached' : pending'[c] = pending[c]
    BY <1>7 DEF DrainUnpark, history, ApplyInv, TypeOK
  <2>2. drainer'.ready = drainer.ready
    BY <1>7, PassFacts DEF DrainUnpark, ApplyInv, TypeOK, Drainer
  <2>3. \A c \in Change : c \in detached' /\ Covered(c) => Covered(c)'
    BY <2>1, <2>2 DEF Covered, LeftByFault, definitions, Item
  <2>. QED
    BY <2>1, <2>3, WakeQuiet DEF WakeInv
<1>. QED
  BY <1>2, <1>3, <1>4, <1>5, <1>6, <1>7 DEF DrainStep

LEMMA WakeStep == ApplyInv /\ WakeInv /\ [Next]_vars => NoLostWakeup'
<1>. SUFFICES ASSUME ApplyInv, WakeInv, [Next]_vars PROVE NoLostWakeup'
  OBVIOUS
<1>1. CASE Definitions
  BY <1>1, DefinitionsWake
<1>2. CASE \/ Load \/ Evict \/ LocalApply \/ LocalApplyFails
           \/ \E c \in Change : Receive(c) \/ AddContent(c)
  BY <1>2, CacheWake
<1>3. CASE Restart \/ RestartDegraded
  BY <1>3, NotifyFacts, WokenUp DEF Restart, RestartDegraded, ApplyInv
<1>4. CASE ReplayStep
  BY <1>4, ReplayWake
<1>5. CASE ReplayFails
  BY <1>5, ReplayFailsWake
<1>6. CASE DrainStep \/ ScanFails \/ DrainApplyFails \/ DrainUnparkFails
  BY <1>6, DrainWake
<1>7. CASE Crash \/ RefreshFails
  BY <1>7, WokenUp DEF Crash, RefreshFails
<1>8. CASE LookupFails \/ RecheckFails
  BY <1>8, LookupFailsWake
<1>9. CASE UNCHANGED vars
  <2>1. \A c \in Change : Covered(c) => Covered(c)'
    BY <1>9 DEF vars, definitions, history, Covered, LeftByFault, Item
  <2>. QED
    BY <1>9, <2>1, WakeQuiet DEF vars, rows, WakeInv
<1>. QED
  BY <1>1, <1>2, <1>3, <1>4, <1>5, <1>6, <1>7, <1>8, <1>9 DEF Next, Faults

\* A definition's apply refreshes the snapshot before it is done, and so does
\* an opening; who cannot says so.
LEMMA SnapshotStep == ApplyInv /\ WakeInv /\ [Next]_vars => SnapshotIsCurrent'
<1>. SUFFICES ASSUME ApplyInv, WakeInv, [Next]_vars PROVE SnapshotIsCurrent'
  OBVIOUS
<1>1. CASE Definitions
  BY <1>1 DEF Definitions, DefineShortId, NotifyShortId, DefineDataset, RefreshCatalog,
     NotifyDataset, WakeInv, SnapshotIsCurrent
<1>2. CASE Restart \/ RestartDegraded \/ Crash \/ RefreshFails
  BY <1>2 DEF Restart, RestartDegraded, Crash, RefreshFails, SnapshotIsCurrent
<1>3. CASE UNCHANGED <<definitions, up>>
  BY <1>3 DEF definitions, WakeInv, SnapshotIsCurrent
<1>. QED
  BY <1>1, <1>2, <1>3
     DEF Next, Load, Evict, Close, Receive, AddContent, LocalApply, ReplayStep, ReplayGate,
       ReplayPark, ReplayRecheck, ReplayApply, ReplayDone, DrainStep, DrainWait, DrainScan,
       DrainPick, DrainGet, DrainCheck, DrainDrop, DrainApply, DrainRefused, DrainUnpark,
       Faults, LookupFails, RecheckFails, ReplayFails, LocalApplyFails, ScanFails,
       DrainApplyFails, DrainUnparkFails, vars

\* The two parts that keep the wake-ups: who holds a row, and what the
\* replay's second lookup is about.
LEMMA RowStep ==
    ApplyInv /\ WakeInv /\ [Next]_vars
      => (drainer'.pc \in {"wait", "scan", "pick"} => drainer'.row = NoChange)
<1>. SUFFICES ASSUME ApplyInv, WakeInv, [Next]_vars,
                     drainer'.pc \in {"wait", "scan", "pick"}
     PROVE  drainer'.row = NoChange
  OBVIOUS
<1>1. drainer \in Drainer
  BY DEF ApplyInv, TypeOK
<1>2. NoPass \in Drainer /\ NoPass.row = NoChange
  BY PassFacts DEF NoPass
<1>3. \A R \in SUBSET Change : [NoPass EXCEPT !.pc = "pick", !.ready = R].row = NoChange
  BY <1>2 DEF Drainer
<1>4. CASE UNCHANGED drainer
  BY <1>4 DEF WakeInv
<1>5. CASE drainer' = NoPass
  BY <1>2, <1>5
<1>6. CASE GiveUp \/ DrainUnpark
  BY <1>1, <1>3, <1>6 DEF GiveUp, DrainUnpark, Drainer
<1>7. CASE Evict
  BY <1>1, <1>7 DEF Evict, Close, WakeInv, Drainer
<1>8. CASE DrainWait \/ DrainScan
  BY <1>1, <1>8 DEF DrainWait, DrainScan, WakeInv, Drainer
<1>11. CASE ScanFails
  <2>1. PICK free : drainer' = [drainer EXCEPT !.pc = "pick", !.ready = free]
    BY <1>11, Zenon DEF ScanFails
  <2>2. drainer'.row = drainer.row
    BY <1>1, <2>1 DEF Drainer
  <2>. QED
    BY <1>11, <2>2 DEF ScanFails, WakeInv
<1>9. CASE DrainGet \/ DrainCheck \/ DrainDrop \/ DrainApply
  BY <1>1, <1>9 DEF DrainGet, DrainCheck, DrainDrop, DrainApply, Drainer
<1>10. CASE DrainPick /\ drainer' # NoPass
  BY <1>1, <1>10 DEF DrainPick, Drainer
<1>. QED
  BY <1>4, <1>5, <1>6, <1>7, <1>8, <1>9, <1>10, <1>11
     DEF Next, Definitions, DefineShortId, NotifyShortId, DefineDataset, RefreshCatalog,
       NotifyDataset, Load, Restart, Receive, AddContent, LocalApply, ReplayStep,
       ReplayGate, ReplayPark, ReplayRecheck, ReplayApply, ReplayDone, DrainStep,
       DrainRefused, Faults, RefreshFails, LookupFails, RecheckFails, ReplayFails,
       LocalApplyFails, DrainApplyFails, DrainUnparkFails, Crash, RestartDegraded, vars

LEMMA RecheckStep ==
    ApplyInv /\ WakeInv /\ [Next]_vars
      => (replay'.pc = "recheck" => pending'[Item'] = replay'.missing)
<1>. SUFFICES ASSUME ApplyInv, WakeInv, [Next]_vars, replay'.pc = "recheck"
     PROVE  pending'[Item'] = replay'.missing
  OBVIOUS
<1>1. replay \in Replay /\ pending \in [Change -> SUBSET Def]
  BY DEF ApplyInv, TypeOK
<1>2. CASE ReplayPark
  <2>1. Item' = Item /\ Item \in Change /\ replay'.missing = replay.missing
    BY <1>1, <1>2, ReplayFacts DEF ReplayPark, Item, Replay
  <2>. QED
    BY <1>1, <1>2, <2>1 DEF ReplayPark
<1>3. CASE UNCHANGED <<replay, dag, pending>>
  BY <1>3 DEF WakeInv, Item
<1>4. NoReplay.pc = "idle" /\ NoReplay \in Replay
  BY DEF NoReplay, Replay
<1>5. CASE ReplayGate \/ LookupFails
  BY <1>1, <1>5 DEF ReplayGate, LookupFails, Replay
<1>6. CASE ReplayRecheck \/ RecheckFails \/ ReplayApply
  BY <1>6 DEF ReplayRecheck, RecheckFails, ReplayApply, Following, NoReplay
<1>7. CASE replay' = NoReplay
  BY <1>4, <1>7
<1>8. CASE Load \/ \E c \in Change : Receive(c)
  BY <1>8 DEF Load, Receive, NoReplay
<1>9. CASE \E c \in Change : AddContent(c)
  BY <1>9 DEF AddContent, ApplyInv, TypeOK
<1>10. CASE DrainUnpark
  <2>1. drainer.row \in applied /\ UNCHANGED <<replay, dag>>
        /\ pending' = [pending EXCEPT ![drainer.row] = {}]
    BY <1>10 DEF DrainUnpark, ApplyInv, DrainInv
  <2>2. /\ AddSeq(Item) = replay.next /\ maxAddSeq < replay.next /\ replay.next \in Nat
        /\ Item \in Stored /\ Item \in Change /\ maxAddSeq \in Nat
        /\ DOMAIN dag = 1..Len(dag) /\ maxAddSeq <= Len(dag) /\ Len(dag) \in Nat
    BY <2>1, ReplayFacts DEF ApplyInv, TypeOK
  <2>3. Item \notin applied
    BY <2>2, AddSeqOfStored DEF ApplyInv, DagInv
  <2>4. pending'[Item] = pending[Item]
    BY <1>1, <2>1, <2>2, <2>3
  <2>. QED
    BY <2>1, <2>4 DEF WakeInv, Item
<1>. QED
  BY <1>2, <1>3, <1>5, <1>6, <1>7, <1>8, <1>9, <1>10
     DEF Next, Definitions, DefineShortId, NotifyShortId, DefineDataset, RefreshCatalog,
       NotifyDataset, Evict, Restart, LocalApply, ReplayStep, ReplayGate, ReplayDone,
       EndReplay, DrainStep, DrainWait, DrainScan, DrainPick, DrainGet, DrainCheck, DrainDrop,
       DrainApply, DrainRefused, Faults, RefreshFails, ReplayFails, LocalApplyFails, ScanFails,
       DrainApplyFails, DrainUnparkFails, Crash, RestartDegraded, vars, rows

LEMMA WakeInvInit == Init => WakeInv
<1>. SUFFICES ASSUME Init PROVE WakeInv
  OBVIOUS
<1>1. queue = 1 /\ drainer = NoPass /\ replay = NoReplay /\ catalog = schema
  BY DEF Init
<1>. QED
  BY <1>1 DEF WakeInv, NoLostWakeup, SnapshotIsCurrent, NoPass, NoReplay

\* A parked change whose definitions and dataset are committed is in the
\* drainer's pass, or a pass is coming, or an operation failed that should
\* have brought one: a lookup of the pass or of the re-check, its replay, or
\* the catalog's refresh.  Short of these, the lookup parkGated repeats closes
\* the gap between the gate and a definition's apply.
THEOREM WakeupKept == Spec => []NoLostWakeup
<1>1. ApplyInv /\ WakeInv /\ [Next]_vars => WakeInv'
  BY WakeStep, SnapshotStep, RowStep, RecheckStep DEF WakeInv
<1>2. Spec => []WakeInv
  BY <1>1, WakeInvInit, ApplyInvariant, PTL DEF Spec
<1>3. WakeInv => NoLostWakeup
  BY DEF WakeInv
<1>. QED
  BY <1>2, <1>3, PTL

----------------------------------------------------------------------------
(***************************************************************************)
(* RecordMerge.                                                            *)
(***************************************************************************)


USE DEF Storable

\* A field and its version entry as the code leaves them.
CellOK(x, n) ==
    /\ x \in Leaves!Value
    /\ n \in Node
    /\ Storable(x, n)
    /\ \A k \in Key : n.leaf[k] # 0 => n.leaf[k] >= n.at

\* Leaf k of a field, as the register of the abstract module.
Reg(x, n, k) == [ver |-> Gate(n, k), val |-> x.leaf[k]]

\* What one write makes of a field: a field again, and every leaf the newer
\* of what it was and what is written.
Follows(c, x, n, w, v) ==
    /\ CellOK(c.val, c.ver)
    /\ \A k \in Key : Reg(c.val, c.ver, k) = Leaves!Newest(Reg(x, n, k), w, k, v)

LEMMA WriteLeafFollows ==
    ASSUME NEW x, NEW n, CellOK(x, n),
           NEW w \in Leaves!Write, Leaves!WellFormed(w), w.op # "none", w.key # Whole,
           NEW v \in Nat \ {0}
    PROVE  Follows(WriteLeaf(x, n, w, v), x, n, w, v)
  <1> DEFINE c == WriteLeaf(x, n, w, v)
  <1>0. w.key \in Key /\ w.op \in {"set", "unset"} /\ w.value.atom \in Leaves!Content
    BY DEF Leaves!Write, Leaves!Value
  <1>1. x \in Leaves!Value /\ n \in Node /\ x.leaf \in [Key -> Leaves!Content]
    BY DEF CellOK, Leaves!Value
  <1>2. \A k \in Key : Leaves!Covers(w, k) <=> k = w.key
    BY <1>0, UniverseAssumption DEF Leaves!Covers
  <1>3. CASE Gate(n, w.key) >= v
    <2>1. c = Cell(x, n)
      BY <1>3 DEF WriteLeaf
    <2>2. \A k \in Key : ~(Leaves!Covers(w, k) /\ v > Gate(n, k))
      BY <1>0, <1>1, <1>2, <1>3 DEF Gate, Node
    <2> QED
      BY <2>1, <2>2 DEF Cell, Follows, Reg, Leaves!Newest
  <1>4. CASE ~(Gate(n, w.key) >= v)
    <2> DEFINE y == IF w.op = "set" THEN SetNested(x, w.key, w.value.atom)
                                    ELSE UnsetNested(x, w.key)
               m == SetVersion(n, w.key, v)
    <2>1. c.val = y /\ c.ver = m
      BY <1>4 DEF WriteLeaf, Cell
    <2>2. /\ y \in Leaves!Value
          /\ y.shape # "object" => y.leaf = Leaves!NoLeaf
          /\ y.shape # "scalar" => y.atom = None
          /\ \A k \in Key : y.leaf[k] = IF k = w.key THEN w.value.atom ELSE x.leaf[k]
      <3>1. CASE w.op = "set"
        <4>1. /\ AsObject(x) \in [Key -> Leaves!Content]
              /\ \A k \in Key : AsObject(x)[k] = x.leaf[k]
          BY <1>1 DEF AsObject, CellOK, Leaves!NoLeaf, Leaves!Content
        <4>2. y = SetNested(x, w.key, w.value.atom)
          BY <3>1
        <4> QED
          BY <1>0, <4>1, <4>2 DEF SetNested, Leaves!Value, Leaves!Content
      <3>2. CASE w.op = "unset"
        <4>1. y = UnsetNested(x, w.key) /\ w.value.atom = None
          BY <3>2 DEF Leaves!WellFormed, Leaves!Absent
        <4>2. CASE x.shape = "object"
          BY <1>0, <1>1, <4>1, <4>2 DEF UnsetNested, CellOK, Leaves!Value, Leaves!Content
        <4>3. CASE x.shape # "object"
          BY <1>0, <1>1, <4>1, <4>3 DEF UnsetNested, CellOK, Leaves!NoLeaf
        <4> QED
          BY <4>2, <4>3
      <3> QED
        BY <1>0, <3>1, <3>2
    <2>3. /\ m \in Node /\ m.kind = "tree" /\ m.at = n.at
          /\ \A k \in Key : m.leaf[k] = IF k = w.key THEN v ELSE n.leaf[k]
      BY <1>0, <1>1 DEF SetVersion, TreeNode, CellOK, Node, NoVersions
    <2>4. n.at < v /\ n.at \in Nat
      BY <1>0, <1>1, <1>4 DEF Gate, Node, CellOK
    <2>5. CellOK(y, m)
      BY <1>1, <2>2, <2>3, <2>4 DEF CellOK, Node
    <2>6. ASSUME NEW k \in Key PROVE Reg(y, m, k) = Leaves!Newest(Reg(x, n, k), w, k, v)
      <3>1. CASE k = w.key
        <4>1. Gate(m, k) = v
          BY <2>3, <3>1 DEF Gate
        <4>2. Leaves!Incoming(w, k) = w.value.atom
          BY DEF Leaves!Incoming
        <4>3. v > Gate(n, k)
          BY <1>1, <1>4, <3>1 DEF Gate, Node
        <4> QED
          BY <1>2, <2>2, <3>1, <4>1, <4>2, <4>3 DEF Reg, Leaves!Newest
      <3>2. CASE k # w.key
        <4>1. Gate(m, k) = Gate(n, k)
          BY <2>3, <3>2 DEF Gate, CellOK, NoVersions
        <4> QED
          BY <1>2, <2>2, <3>2, <4>1 DEF Reg, Leaves!Newest
      <3> QED
        BY <3>1, <3>2
    <2> QED
      BY <2>1, <2>5, <2>6 DEF Follows
  <1> QED
    BY <1>3, <1>4

LEMMA WriteWholeFollows ==
    ASSUME NEW x, NEW n, CellOK(x, n),
           NEW w \in Leaves!Write, Leaves!WellFormed(w), w.op # "none", w.key = Whole,
           NEW v \in Nat \ {0}
    PROVE  Follows(WriteWhole(x, n, w, v), x, n, w, v)
  <1> DEFINE c == WriteWhole(x, n, w, v)
             kept == Survivors(n, v)
  <1>1. /\ x \in Leaves!Value /\ n \in Node /\ x.leaf \in [Key -> Leaves!Content]
        /\ n.at \in Nat /\ n.leaf \in [Key -> Nat]
    BY DEF CellOK, Leaves!Value, Node
  <1>2. /\ w.value \in Leaves!Value /\ w.value.leaf \in [Key -> Leaves!Content]
        /\ w.value.shape # "object" => w.value.leaf = Leaves!NoLeaf
        /\ w.value.shape # "scalar" => w.value.atom = None
    BY DEF Leaves!Write, Leaves!Value, Leaves!WellFormed
  <1>3. \A k \in Key : Leaves!Covers(w, k) /\ Leaves!Incoming(w, k) = w.value.leaf[k]
    BY DEF Leaves!Covers, Leaves!Incoming
  <1>4. CASE n.at >= v
    <2>1. c = Cell(x, n)
      BY <1>1, <1>4 DEF WriteWhole, MergeReplace
    <2>2. \A k \in Key : ~(v > Gate(n, k))
      BY <1>1, <1>4 DEF Gate, CellOK
    <2> QED
      BY <2>1, <2>2 DEF Cell, Follows, Reg, Leaves!Newest
  <1>5. CASE n.at < v /\ (n.kind # "tree" \/ kept = {})
    <2>1. c = Cell(w.value, VersionNode(v))
      BY <1>1, <1>5 DEF WriteWhole, MergeReplace
    <2>2. CellOK(w.value, VersionNode(v))
      BY <1>2 DEF CellOK, VersionNode, NoVersions, Node
    <2>3. \A k \in Key : v > Gate(n, k) /\ Gate(VersionNode(v), k) = v
      BY <1>1, <1>5 DEF Gate, VersionNode, Survivors
    <2>4. c.val = w.value /\ c.ver = VersionNode(v)
      BY <2>1 DEF Cell
    <2>5. \A k \in Key : Reg(w.value, VersionNode(v), k) = Leaves!Newest(Reg(x, n, k), w, k, v)
      BY <1>3, <2>3 DEF Reg, Leaves!Newest
    <2> QED
      BY <2>2, <2>4, <2>5 DEF Follows
  <1>6. CASE n.at < v /\ n.kind = "tree" /\ kept # {}
    <2> DEFINE y == [shape |-> "object", atom |-> None,
                     leaf  |-> [k \in Key |-> IF k \in kept THEN AsObject(x)[k]
                                                            ELSE w.value.leaf[k]]]
               m == TreeNode(v, [k \in Key |-> IF k \in kept THEN n.leaf[k] ELSE 0])
    <2>1. c.val = y /\ c.ver = m
      BY <1>1, <1>6 DEF WriteWhole, MergeReplace, Cell
    <2>2. \A k \in Key : AsObject(x)[k] = x.leaf[k]
      BY <1>1 DEF AsObject, CellOK
    <2>3. y \in Leaves!Value /\ y.shape = "object"
      BY <1>1, <1>2, <2>2 DEF Leaves!Value, Leaves!Content
    <2>4. m \in Node /\ m.kind = "tree" /\ m.at = v
      BY <1>1 DEF TreeNode, Node
    <2>5. \A k \in Key : m.leaf[k] # 0 => m.leaf[k] >= m.at
      BY <1>1 DEF TreeNode, Survivors
    <2>6. ASSUME NEW k \in Key PROVE Reg(y, m, k) = Leaves!Newest(Reg(x, n, k), w, k, v)
      <3>1. CASE k \in kept
        <4>1. Gate(m, k) = Gate(n, k) /\ ~(v > Gate(n, k))
          BY <1>1, <1>6, <3>1 DEF Gate, TreeNode, Survivors
        <4> QED
          BY <2>2, <3>1, <4>1 DEF Reg, Leaves!Newest
      <3>2. CASE k \notin kept
        <4>1. Gate(m, k) = v /\ v > Gate(n, k)
          BY <1>1, <1>6, <3>2 DEF Gate, TreeNode, Survivors
        <4> QED
          BY <1>3, <3>2, <4>1 DEF Reg, Leaves!Newest
      <3> QED
        BY <3>1, <3>2
    <2>7. CellOK(y, m)
      BY <2>3, <2>4, <2>5 DEF CellOK
    <2> QED
      BY <2>1, <2>6, <2>7 DEF Follows
  <1> QED
    BY <1>1, <1>4, <1>5, <1>6

LEMMA ApplyOpFollows ==
    ASSUME NEW x, NEW n, CellOK(x, n),
           NEW w \in Leaves!Write, Leaves!WellFormed(w), NEW v \in Nat \ {0}
    PROVE  Follows(ApplyOp(x, n, w, v), x, n, w, v)
  <1>1. CASE w.op = "none"
    <2>1. ApplyOp(x, n, w, v) = Cell(x, n)
      BY <1>1 DEF ApplyOp
    <2> QED
      BY <1>1, <2>1 DEF Cell, Follows, Leaves!Newest, Leaves!Covers
  <1>2. CASE w.op # "none" /\ w.key = Whole
    BY <1>2, WriteWholeFollows DEF ApplyOp
  <1>3. CASE w.op # "none" /\ w.key # Whole
    BY <1>3, WriteLeafFollows DEF ApplyOp
  <1> QED
    BY <1>1, <1>2, <1>3

\* Compaction is lossless: no leaf's version changes.
LEMMA CompactIsLossless ==
    ASSUME NEW x, NEW n, CellOK(x, n)
    PROVE  CellOK(x, Compact(n)) /\ \A k \in Key : Gate(Compact(n), k) = Gate(n, k)
  <1> DEFINE rest == [k \in Key |-> IF n.leaf[k] = n.at THEN 0 ELSE n.leaf[k]]
  <1>1. n \in Node /\ n.at \in Nat /\ n.leaf \in [Key -> Nat]
    BY DEF CellOK, Node
  <1>2. CASE n.kind # "tree" \/ n.at = 0
    BY <1>2 DEF Compact
  <1>3. CASE n.kind = "tree" /\ n.at # 0 /\ rest = NoVersions
    <2>1. Compact(n) = VersionNode(n.at)
      BY <1>3 DEF Compact
    <2>2. \A k \in Key : n.leaf[k] \in {0, n.at}
      <3>1. \A k \in Key : rest[k] = 0
        BY <1>3 DEF NoVersions
      <3> QED
        BY <3>1
    <2> QED
      BY <1>1, <1>3, <2>1, <2>2 DEF VersionNode, NoVersions, CellOK, Gate, Node
  <1>4. CASE n.kind = "tree" /\ n.at # 0 /\ rest # NoVersions
    <2>1. Compact(n) = TreeNode(n.at, rest)
      BY <1>4 DEF Compact
    <2> QED
      BY <1>1, <1>4, <2>1 DEF TreeNode, CellOK, Gate, Node
  <1> QED
    BY <1>2, <1>3, <1>4

----------------------------------------------------------------------------
(* One change on one record.                                               *)

\* A record as the code stores it: well-formed fields, and nothing in a row
\* that is absent or a tombstone.
RecordOK(x) ==
    /\ x \in Record
    /\ \A f \in Field : CellOK(x.val[f], x.ver[f])
    /\ x.life # "live" => x.val = NoValues /\ x.ver = NoNodes

\* The leaves of a record, as the abstract module sees them.
View(x) == [f \in Field |-> [k \in Key |-> Reg(x.val[f], x.ver[f], k)]]

LEMMA BlankView ==
    ASSUME NEW x, x.val = NoValues, x.ver = NoNodes
    PROVE  View(x) = Leaves!Blank
  <1>1. ASSUME NEW f \in Field, NEW k \in Key
        PROVE  Reg(x.val[f], x.ver[f], k) = Leaves!Unwritten
    BY DEF Reg, Gate, NoValues, NoNodes, NoNode, NoVersions, Leaves!Absent,
           Leaves!NoLeaf, Leaves!Unwritten
  <1> QED
    BY <1>1 DEF View, Leaves!Blank

LEMMA BlankCells ==
    /\ NoValues \in [Field -> Leaves!Value] /\ NoNodes \in [Field -> Node]
    /\ \A f \in Field : CellOK(NoValues[f], NoNodes[f])
  BY DEF NoValues, NoNodes, NoNode, NoVersions, CellOK, Node, Leaves!Value,
         Leaves!Absent, Leaves!NoLeaf, Leaves!Content

\* A change of the tree, as the merge needs it.
ChangeOK(ch) ==
    /\ ch.version \in Nat \ {0}
    /\ ch.upsert \in BOOLEAN /\ ch.delete \in BOOLEAN
    /\ \A f \in Field : ch.write[f] \in Leaves!Write /\ Leaves!WellFormed(ch.write[f])

LEMMA ApplyOpsFollows ==
    ASSUME NEW x, RecordOK(x), NEW ch, ChangeOK(ch)
    PROVE  /\ RecordOK(ApplyOps(x, ch)) /\ ApplyOps(x, ch).life = "live"
           /\ View(ApplyOps(x, ch)) = Leaves!Merge(View(x), ch)
  <1> DEFINE y == ApplyOps(x, ch)
             cell(f) == ApplyOp(x.val[f], x.ver[f], ch.write[f], ch.version)
  <1>1. ASSUME NEW f \in Field
        PROVE  Follows(cell(f), x.val[f], x.ver[f], ch.write[f], ch.version)
    BY ApplyOpFollows DEF RecordOK, ChangeOK
  <1>2. /\ y.life = "live"
        /\ y.marker = x.marker /\ y.stone = x.stone
        /\ y = [life |-> y.life, marker |-> y.marker, stone |-> y.stone,
                val |-> y.val, ver |-> y.ver]
        /\ y.val = [f \in Field |-> cell(f).val]
        /\ y.ver = [f \in Field |-> Compact(cell(f).ver)]
    <2> DEFINE vals == [f \in Field |-> cell(f).val]
               vers == [f \in Field |-> Compact(cell(f).ver)]
    <2>1. y = [x EXCEPT !.life = "live", !.val = vals, !.ver = vers]
      BY DEF ApplyOps
    <2>2. x = [life |-> x.life, marker |-> x.marker, stone |-> x.stone,
               val |-> x.val, ver |-> x.ver]
      BY DEF RecordOK, Record
    <2> HIDE DEF vals, vers, y
    <2>3. y = [life |-> "live", marker |-> x.marker, stone |-> x.stone,
               val |-> vals, ver |-> vers]
      BY <2>1, <2>2
    <2> QED
      BY <2>3 DEF vals, vers
  <1>3. ASSUME NEW f \in Field
        PROVE  /\ CellOK(y.val[f], y.ver[f])
               /\ \A k \in Key : Reg(y.val[f], y.ver[f], k)
                    = Leaves!Newest(Reg(x.val[f], x.ver[f], k), ch.write[f], k, ch.version)
    <2>1. /\ CellOK(cell(f).val, cell(f).ver)
          /\ \A k \in Key : Reg(cell(f).val, cell(f).ver, k)
               = Leaves!Newest(Reg(x.val[f], x.ver[f], k), ch.write[f], k, ch.version)
      BY <1>1 DEF Follows
    <2>2. /\ CellOK(cell(f).val, Compact(cell(f).ver))
          /\ \A k \in Key : Gate(Compact(cell(f).ver), k) = Gate(cell(f).ver, k)
      BY <2>1, CompactIsLossless
    <2>3. y.val[f] = cell(f).val /\ y.ver[f] = Compact(cell(f).ver)
      BY <1>2
    <2>4. \A k \in Key : Reg(cell(f).val, Compact(cell(f).ver), k)
                            = Reg(cell(f).val, cell(f).ver, k)
      BY <2>2 DEF Reg
    <2> HIDE DEF cell, y
    <2> QED
      BY <2>1, <2>2, <2>3, <2>4
  <1> HIDE DEF y
  <1>4. y \in Record
    <2>1. y.val \in [Field -> Leaves!Value] /\ y.ver \in [Field -> Node]
      BY <1>2, <1>3 DEF CellOK
    <2> QED
      BY <1>2, <2>1 DEF Record, RecordOK
  <1>5. RecordOK(y)
    BY <1>2, <1>3, <1>4 DEF RecordOK
  <1>6. View(y) = Leaves!Merge(View(x), ch)
    <2>1. ASSUME NEW f \in Field, NEW k \in Key
          PROVE  View(y)[f][k] = Leaves!Merge(View(x), ch)[f][k]
      BY <1>3 DEF View, Leaves!Merge
    <2> QED
      BY <2>1 DEF View, Leaves!Merge
  <1> QED
    BY <1>2, <1>5, <1>6 DEF y

LEMMA ModifyFollows ==
    ASSUME NEW x, RecordOK(x), NEW ch, ChangeOK(ch),
           ~ch.upsert /\ ~ch.delete => x.life # "absent"
    PROVE  LET y == Modify(x, ch)
           IN  /\ RecordOK(y) /\ y.life # "absent"
               /\ y.life = "dead" <=> x.life = "dead" \/ ch.delete
               /\ View(y) = IF y.life = "dead" THEN Leaves!Blank
                                               ELSE Leaves!Merge(View(x), ch)
  <1> DEFINE y == Modify(x, ch)
  <1>0. /\ x \in Record /\ x.life \in {"absent", "live", "dead"} /\ x.marker \in Nat
        /\ ch.version \in Nat
    BY DEF RecordOK, Record, ChangeOK
  <1>l. /\ RecordOK(LowerMarker(x, ch))
        /\ LowerMarker(x, ch).life = x.life
        /\ LowerMarker(x, ch).val = x.val /\ LowerMarker(x, ch).ver = x.ver
    BY <1>0 DEF LowerMarker, Lower, RecordOK, Record
  <1>1. CASE x.life = "dead"
    <2>1. y = LowerMarker(x, ch)
      BY <1>1 DEF Modify
    <2>2. y.val = NoValues /\ y.ver = NoNodes
      BY <1>1, <1>l, <2>1 DEF RecordOK
    <2> QED
      BY <1>1, <1>l, <2>1, <2>2, BlankView
  <1>2. CASE x.life # "dead" /\ ch.delete
    <2>1. y = Tombstone(x, ch)
      BY <1>2 DEF Modify, ChangeOK
    <2>2. y.life = "dead" /\ y.val = NoValues /\ y.ver = NoNodes
      BY <2>1 DEF Tombstone
    <2>3. RecordOK(y)
      BY <1>0, <2>1, BlankCells DEF Tombstone, RecordOK, Record
    <2> QED
      BY <1>2, <2>2, <2>3, BlankView
  <1>3. CASE x.life = "absent" /\ ~ch.delete
    <2> DEFINE z == [x EXCEPT !.marker = ch.version]
    <2>1. ch.upsert
      BY <1>3
    <2>2. y = ApplyOps(z, ch)
      BY <1>3, <2>1 DEF Modify
    <2>3. RecordOK(z) /\ z.val = x.val /\ z.ver = x.ver
      BY <1>0 DEF RecordOK, Record
    <2>4. View(z) = View(x)
      BY <2>3 DEF View
    <2> HIDE DEF z
    <2>5. RecordOK(y) /\ y.life = "live" /\ View(y) = Leaves!Merge(View(z), ch)
      BY <2>2, <2>3, ApplyOpsFollows
    <2> QED
      BY <1>3, <2>4, <2>5
  <1>4. CASE x.life = "live" /\ ~ch.delete
    <2> DEFINE z == LowerMarker(x, ch)
    <2>1. y = ApplyOps(z, ch)
      BY <1>4 DEF Modify
    <2>2. View(z) = View(x)
      BY <1>l DEF View
    <2> HIDE DEF z
    <2>3. RecordOK(y) /\ y.life = "live" /\ View(y) = Leaves!Merge(View(z), ch)
      BY <1>l, <2>1, ApplyOpsFollows DEF z
    <2> QED
      BY <1>4, <2>2, <2>3
  <1> QED
    BY <1>0, <1>1, <1>2, <1>3, <1>4

----------------------------------------------------------------------------
(* The specification.                                                      *)

LEMMA TreeFacts ==
    ASSUME Leaves!Tree(change), NEW c \in ChangeId
    PROVE  /\ ChangeOK(change[c])
           /\ change[c].past \subseteq ChangeId
           /\ ~change[c].upsert /\ ~change[c].delete =>
                \E d \in change[c].past : change[d].upsert \/ change[d].delete
  <1>2. change[c] \in Leaves!ChangeRecord
    BY DEF Leaves!Tree
  <1>3. \A f \in Field : change[c].write[f] \in Leaves!Write /\ Leaves!WellFormed(change[c].write[f])
    BY <1>2 DEF Leaves!Tree, Leaves!ChangeRecord
  <1> QED
    BY <1>2, <1>3 DEF Leaves!Tree, Leaves!ChangeRecord, ChangeOK

\* Besides its type, a replica's record is well-formed and present as soon as
\* an upsert or a delete has been applied: a strict modify then never finds
\* its record missing.
MergeInv ==
    /\ RecordTypeOK
    /\ \A r \in Replica :
         /\ RecordOK(rec[r])
         /\ rec[r].life = "absent" <=>
              \A c \in seen[r] : ~change[c].upsert /\ ~change[c].delete

LEMMA MergeInvInit == MergeInit => MergeInv
  <1> SUFFICES ASSUME MergeInit PROVE MergeInv
    OBVIOUS
  <1>1. NoRecord \in Record /\ RecordOK(NoRecord)
    BY BlankCells DEF NoRecord, Record, RecordOK
  <1>2. RecordTypeOK
    BY <1>1, UniverseAssumption DEF MergeInit, RecordTypeOK, NoRecord, RecordOK, CellOK
  <1> QED
    BY <1>1, <1>2 DEF MergeInit, MergeInv, NoRecord

\* What one step does: to the record, and to its leaves.
LEMMA ApplyFollows ==
    ASSUME MergeInv, NEW r \in Replica, NEW c \in ChangeId, Apply(r, c)
    PROVE  /\ MergeInv'
           /\ \A s \in Replica \ {r} : rec'[s] = rec[s]
           /\ rec'[r].life = "dead" <=> rec[r].life = "dead" \/ change[c].delete
           /\ View(rec'[r]) = IF rec'[r].life = "dead" THEN Leaves!Blank
                              ELSE Leaves!Merge(View(rec[r]), change[c])
  <1> DEFINE y == Modify(rec[r], change[c])
  <1>0. /\ change' = change
        /\ change[c].past \subseteq seen[r]
        /\ seen' = [seen EXCEPT ![r] = @ \cup {c}]
        /\ rec' = [rec EXCEPT ![r] = y]
    BY DEF Apply
  <1>1. /\ Leaves!Tree(change) /\ ChangeOK(change[c])
        /\ ~change[c].upsert /\ ~change[c].delete => rec[r].life # "absent"
    BY <1>0, TreeFacts DEF MergeInv, RecordTypeOK
  <1>2. RecordOK(rec[r])
    BY DEF MergeInv
  <1> HIDE DEF y
  <1>3. /\ RecordOK(y) /\ y.life # "absent"
        /\ y.life = "dead" <=> rec[r].life = "dead" \/ change[c].delete
        /\ View(y) = IF y.life = "dead" THEN Leaves!Blank
                                        ELSE Leaves!Merge(View(rec[r]), change[c])
    BY <1>1, <1>2, ModifyFollows DEF y
  <1>4. rec'[r] = y /\ \A s \in Replica \ {r} : rec'[s] = rec[s]
    BY <1>0 DEF MergeInv, RecordTypeOK
  <1>5. /\ Leaves!Tree(change') /\ seen' \in [Replica -> SUBSET ChangeId]
        /\ rec' \in [Replica -> Record]
    <2>1. y \in Record
      BY <1>3 DEF RecordOK
    <2> QED
      BY <1>0, <2>1 DEF MergeInv, RecordTypeOK
  <1>6. ASSUME NEW s \in Replica
        PROVE  /\ RecordOK(rec'[s])
               /\ rec'[s].life = "absent" <=>
                    \A d \in seen'[s] : ~change[d].upsert /\ ~change[d].delete
    <2>1. CASE s # r
      BY <1>0, <1>4, <2>1 DEF MergeInv, RecordTypeOK
    <2>2. CASE s = r
      <3>1. seen'[r] = seen[r] \cup {c}
        BY <1>0 DEF MergeInv, RecordTypeOK
      <3>2. \E d \in seen'[r] : change[d].upsert \/ change[d].delete
        <4>1. CASE change[c].upsert \/ change[c].delete
          BY <3>1, <4>1
        <4>2. CASE ~change[c].upsert /\ ~change[c].delete
          BY <1>1, <3>1, <4>2 DEF MergeInv
        <4> QED
          BY <4>1, <4>2
      <3> QED
        BY <1>3, <1>4, <2>2, <3>2
    <2> QED
      BY <2>1, <2>2
  <1>7. RecordTypeOK'
    BY <1>5, <1>6 DEF RecordTypeOK, RecordOK, CellOK
  <1>8. MergeInv'
    BY <1>0, <1>6, <1>7 DEF MergeInv
  <1> QED
    BY <1>3, <1>4, <1>8

LEMMA MergeInvStep == MergeInv /\ [MergeNext]_mergeVars => MergeInv'
  <1> SUFFICES ASSUME MergeInv, [MergeNext]_mergeVars PROVE MergeInv'
    OBVIOUS
  <1>1. ASSUME NEW r \in Replica, NEW c \in ChangeId, Apply(r, c) PROVE MergeInv'
    BY <1>1, ApplyFollows
  <1>2. CASE UNCHANGED mergeVars
    BY <1>2 DEF MergeInv, RecordTypeOK, mergeVars
  <1> QED
    BY <1>1, <1>2 DEF MergeNext

THEOREM MergeInvariant == MergeSpec => []MergeInv
  BY MergeInvInit, MergeInvStep, PTL DEF MergeSpec

\* Type correctness.
THEOREM RecordTypeCorrect == MergeSpec => []RecordTypeOK
  <1>1. MergeInv => RecordTypeOK
    BY DEF MergeInv
  <1> QED
    BY <1>1, MergeInvariant, PTL

\* The default of a version entry is never newer than what it lists, which
\* mergeReplace relies on.
THEOREM DefaultsAreOldest == MergeSpec => []DefaultIsOldest
  <1>1. MergeInv => DefaultIsOldest
    BY DEF MergeInv, RecordOK, CellOK, DefaultIsOldest
  <1> QED
    BY <1>1, MergeInvariant, PTL

----------------------------------------------------------------------------
(* Refinement.                                                             *)

\* The abstract variables, as the instance substitutes them.
DeadView == [r \in Replica |-> rec[r].life = "dead"]
LeafView == [r \in Replica |-> View(rec[r])]

LEMMA LeafViewIsMapping ==
    LeafView = [r \in Replica |-> [f \in Field |-> [k \in Key |->
                  [ver |-> Gate(rec[r].ver[f], k), val |-> rec[r].val[f].leaf[k]]]]]
  BY DEF LeafView, View, Reg

LEMMA InitRefines == MergeInit => Leaves!Init
  <1> SUFFICES ASSUME MergeInit PROVE Leaves!Init
    OBVIOUS
  <1>1. \A r \in Replica : View(rec[r]) = Leaves!Blank
    BY BlankView DEF MergeInit, NoRecord
  <1>2. LeafView = [r \in Replica |-> Leaves!Blank]
    BY <1>1 DEF LeafView
  <1>3. DeadView = [r \in Replica |-> FALSE]
    BY DEF MergeInit, NoRecord, DeadView
  <1>4. Leaves!Tree(change)
    BY UniverseAssumption DEF MergeInit
  <1> QED
    BY <1>2, <1>3, <1>4, LeafViewIsMapping DEF MergeInit, Leaves!Init, DeadView

LEMMA StepRefines ==
    ASSUME MergeInv, NEW r \in Replica, NEW c \in ChangeId, Apply(r, c)
    PROVE  Leaves!Apply(r, c)
  <1>1. /\ MergeInv'
        /\ \A s \in Replica \ {r} : rec'[s] = rec[s]
        /\ rec'[r].life = "dead" <=> rec[r].life = "dead" \/ change[c].delete
        /\ View(rec'[r]) = IF rec'[r].life = "dead" THEN Leaves!Blank
                           ELSE Leaves!Merge(View(rec[r]), change[c])
    BY ApplyFollows
  <1>2. change[c].delete \in BOOLEAN
    BY TreeFacts DEF MergeInv, RecordTypeOK, ChangeOK
  <1>3. DeadView' = [DeadView EXCEPT ![r] = @ \/ change[c].delete]
    BY <1>1, <1>2 DEF DeadView
  <1>4. LeafView' = [LeafView EXCEPT ![r] = IF DeadView'[r] THEN Leaves!Blank
                                            ELSE Leaves!Merge(@, change[c])]
    BY <1>1 DEF LeafView, DeadView
  <1>5. LeafViewIsMapping /\ LeafViewIsMapping'
    BY LeafViewIsMapping, PTL
  <1> QED
    BY <1>3, <1>4, <1>5 DEF Apply, Leaves!Apply, DeadView

\* The controller's merge implements last-writer-wins registers.
THEOREM Refinement == MergeSpec => LeafSpec
  <1>1. MergeInv /\ [MergeNext]_mergeVars => [Leaves!Next]_(Leaves!vars)
    <2> SUFFICES ASSUME MergeInv, [MergeNext]_mergeVars PROVE [Leaves!Next]_(Leaves!vars)
      OBVIOUS
    <2>1. ASSUME NEW r \in Replica, NEW c \in ChangeId, Apply(r, c) PROVE Leaves!Next
      BY <2>1, StepRefines DEF Leaves!Next
    <2>2. CASE UNCHANGED mergeVars
      BY <2>2 DEF mergeVars, Leaves!vars
    <2> QED
      BY <2>1, <2>2 DEF MergeNext
  <1> QED
    BY InitRefines, MergeInvariant, <1>1, PTL DEF MergeSpec, LeafSpec, Leaves!Spec

----------------------------------------------------------------------------
(* What the abstract specification guarantees: the leaves are a function   *)
(* of the set of changes seen, for any tree, any number of replicas and    *)
(* any order of delivery.                                                  *)

Registers == [Field -> [Key -> Leaves!Register]]

\* An abstract step, in terms of the two views.
LeafStep(r, c) ==
    /\ change' = change
    /\ seen' = [seen EXCEPT ![r] = @ \cup {c}]
    /\ DeadView' = [DeadView EXCEPT ![r] = @ \/ change[c].delete]
    /\ LeafView' = [LeafView EXCEPT ![r] = IF DeadView'[r] THEN Leaves!Blank
                                           ELSE Leaves!Merge(@, change[c])]

LEMMA StepInViews ==
    ASSUME NEW r \in Replica, NEW c \in ChangeId, Leaves!Apply(r, c)
    PROVE  LeafStep(r, c)
  <1>1. LeafViewIsMapping /\ LeafViewIsMapping'
    BY LeafViewIsMapping, PTL
  <1> QED
    BY <1>1 DEF LeafStep, Leaves!Apply, DeadView

\* What the changes of any tree look like.
LEMMA ChangeFacts ==
    ASSUME Leaves!Tree(change)
    PROVE  /\ \A c \in ChangeId : change[c].version \in Nat \ {0}
           /\ \A c, d \in ChangeId : change[c].version = change[d].version => c = d
           /\ \A c \in ChangeId : change[c].delete \in BOOLEAN
           /\ \A c \in ChangeId, f \in Field : change[c].write[f] \in Leaves!Write
  <1>1. \A c, d \in ChangeId : change[c].version = change[d].version => c = d
    BY DEF Leaves!Tree
  <1> QED
    BY <1>1, TreeFacts DEF ChangeOK

LEMMA NewestIsRegister ==
    ASSUME NEW reg \in Leaves!Register, NEW w \in Leaves!Write, NEW k \in Key, NEW v \in Nat
    PROVE  Leaves!Newest(reg, w, k, v) \in Leaves!Register
  <1>1. Leaves!Incoming(w, k) \in Leaves!Content
    BY DEF Leaves!Write, Leaves!Value, Leaves!Incoming
  <1> QED
    BY <1>1 DEF Leaves!Newest, Leaves!Register

\* The types of the registers.
LeafTypes ==
    /\ Leaves!Tree(change)
    /\ seen \in [Replica -> SUBSET ChangeId]
    /\ LeafView \in [Replica -> Registers]

\* reg is what the newest of the changes C writes at leaf <<f, k>>.
NewestOf(reg, C, f, k) ==
    IF C = {} THEN reg = Leaves!Unwritten
    ELSE \E c \in C : /\ reg = [ver |-> change[c].version,
                                val |-> Leaves!Incoming(change[c].write[f], k)]
                      /\ \A d \in C : change[d].version <= change[c].version

\* One merge step keeps a register the newest of the changes that wrote it,
\* whether the change is new or replayed.
LEMMA NewestStep ==
    ASSUME Leaves!Tree(change),
           NEW f \in Field, NEW k \in Key, NEW c \in ChangeId,
           NEW reg, NEW C \in SUBSET ChangeId,
           NewestOf(reg, C, f, k)
    PROVE  NewestOf(Leaves!Newest(reg, change[c].write[f], k, change[c].version),
                    IF Leaves!Covers(change[c].write[f], k) THEN C \cup {c} ELSE C, f, k)
  <1> DEFINE w == change[c].write[f]
             v == change[c].version
  <1>0. /\ \A d \in ChangeId : change[d].version \in Nat \ {0}
        /\ \A d, e \in ChangeId : change[d].version = change[e].version => d = e
    BY ChangeFacts
  <1>1. CASE ~Leaves!Covers(w, k)
    BY <1>1 DEF Leaves!Newest
  <1>2. CASE Leaves!Covers(w, k) /\ C = {}
    <2>1. reg.ver = 0
      BY <1>2 DEF NewestOf, Leaves!Unwritten
    <2>2. Leaves!Newest(reg, w, k, v) = [ver |-> v, val |-> Leaves!Incoming(w, k)]
      BY <1>0, <1>2, <2>1 DEF Leaves!Newest
    <2> QED
      BY <1>0, <1>2, <2>2 DEF NewestOf
  <1>3. CASE Leaves!Covers(w, k) /\ C # {}
    <2>1. PICK e \in C : /\ reg = [ver |-> change[e].version,
                                   val |-> Leaves!Incoming(change[e].write[f], k)]
                         /\ \A d \in C : change[d].version <= change[e].version
      BY <1>3 DEF NewestOf
    <2>2. CASE v > change[e].version
      <3>1. Leaves!Newest(reg, w, k, v) = [ver |-> v, val |-> Leaves!Incoming(w, k)]
        BY <1>3, <2>1, <2>2 DEF Leaves!Newest
      <3>2. \A d \in C \cup {c} : change[d].version <= change[c].version
        BY <1>0, <2>1, <2>2
      <3> QED
        BY <1>3, <3>1, <3>2 DEF NewestOf
    <2>3. CASE ~(v > change[e].version)
      <3>1. Leaves!Newest(reg, w, k, v) = reg
        BY <2>1, <2>3 DEF Leaves!Newest
      <3>2. \A d \in C \cup {c} : change[d].version <= change[e].version
        BY <1>0, <2>1, <2>3
      <3> QED
        BY <1>3, <2>1, <3>1, <3>2 DEF NewestOf
    <2> QED
      BY <2>2, <2>3
  <1> QED
    BY <1>1, <1>2, <1>3

\* The inductive invariant of the registers: each holds the newest write
\* seen, and a delete empties them all.
NewestInv ==
    /\ LeafTypes
    /\ \A r \in Replica, f \in Field, k \in Key :
         ~DeadView[r] => NewestOf(LeafView[r][f][k], Leaves!Writers(r, f, k), f, k)
    /\ \A r \in Replica :
         /\ DeadView[r] <=> \E c \in seen[r] : change[c].delete
         /\ DeadView[r] => LeafView[r] = Leaves!Blank

LEMMA NewestInvInit == Leaves!Init => NewestInv
  <1> SUFFICES ASSUME Leaves!Init PROVE NewestInv
    OBVIOUS
  <1>1. /\ Leaves!Tree(change)
        /\ seen = [r \in Replica |-> {}]
        /\ DeadView = [r \in Replica |-> FALSE]
        /\ LeafView = [r \in Replica |-> Leaves!Blank]
    BY LeafViewIsMapping DEF Leaves!Init, DeadView
  <1>2. LeafTypes
    BY <1>1 DEF LeafTypes, Registers, Leaves!Blank, Leaves!Unwritten, Leaves!Register,
                Leaves!Content
  <1>3. ASSUME NEW r \in Replica, NEW f \in Field, NEW k \in Key
        PROVE  NewestOf(LeafView[r][f][k], Leaves!Writers(r, f, k), f, k)
    BY <1>1 DEF NewestOf, Leaves!Writers, Leaves!Blank
  <1>4. ASSUME NEW r \in Replica
        PROVE  ~DeadView[r] /\ seen[r] = {}
    BY <1>1
  <1> QED
    BY <1>2, <1>3, <1>4 DEF NewestInv

LEMMA LeafTypesStep ==
    ASSUME LeafTypes, NEW r \in Replica, NEW c \in ChangeId, LeafStep(r, c)
    PROVE  LeafTypes'
  <1>1. Leaves!Merge(LeafView[r], change[c]) \in Registers
    <2> SUFFICES ASSUME NEW f \in Field, NEW k \in Key
                 PROVE  Leaves!Newest(LeafView[r][f][k], change[c].write[f], k,
                                      change[c].version) \in Leaves!Register
      BY DEF Leaves!Merge, Registers
    <2>1. LeafView[r][f][k] \in Leaves!Register
      BY DEF LeafTypes, Registers
    <2>2. change[c].write[f] \in Leaves!Write /\ change[c].version \in Nat
      BY ChangeFacts DEF LeafTypes
    <2> QED
      BY <2>1, <2>2, NewestIsRegister
  <1>2. Leaves!Blank \in Registers
    BY DEF Leaves!Blank, Leaves!Unwritten, Registers, Leaves!Register, Leaves!Content
  <1>3. seen' \in [Replica -> SUBSET ChangeId] /\ LeafView' \in [Replica -> Registers]
    BY <1>1, <1>2 DEF LeafTypes, LeafStep
  <1> QED
    BY <1>3 DEF LeafTypes, LeafStep

LEMMA NewestInvStep ==
    ASSUME NewestInv, NEW r \in Replica, NEW c \in ChangeId, LeafStep(r, c)
    PROVE  NewestInv'
  <1>0. /\ change' = change
        /\ seen' = [seen EXCEPT ![r] = @ \cup {c}]
        /\ DeadView' = [DeadView EXCEPT ![r] = @ \/ change[c].delete]
        /\ \A s \in Replica \ {r} : LeafView'[s] = LeafView[s]
        /\ LeafView'[r] = IF DeadView'[r] THEN Leaves!Blank
                                          ELSE Leaves!Merge(LeafView[r], change[c])
    BY DEF LeafStep, NewestInv, LeafTypes
  <1>1. LeafTypes'
    BY LeafTypesStep DEF NewestInv
  <1>2. seen \in [Replica -> SUBSET ChangeId] /\ change[c].delete \in BOOLEAN
    BY ChangeFacts DEF NewestInv, LeafTypes
  <1>3. /\ DeadView'[r] <=> DeadView[r] \/ change[c].delete
        /\ \A s \in Replica \ {r} : DeadView'[s] <=> DeadView[s]
    BY <1>0, <1>2 DEF DeadView
  <1>4. seen'[r] = seen[r] \cup {c} /\ \A s \in Replica \ {r} : seen'[s] = seen[s]
    BY <1>0, <1>2
  <1>5. ASSUME NEW s \in Replica, NEW f \in Field, NEW k \in Key, ~DeadView'[s]
        PROVE  NewestOf(LeafView'[s][f][k], Leaves!Writers(s, f, k)', f, k)
    <2>1. CASE s # r
      <3>1. Leaves!Writers(s, f, k)' = Leaves!Writers(s, f, k)
        BY <1>0, <1>4, <2>1 DEF Leaves!Writers
      <3>2. LeafView'[s] = LeafView[s] /\ ~DeadView[s]
        BY <1>0, <1>3, <1>5, <2>1
      <3> QED
        BY <3>1, <3>2 DEF NewestInv
    <2>2. CASE s = r
      <3>1. ~DeadView[r] /\ LeafView'[r] = Leaves!Merge(LeafView[r], change[c])
        BY <1>0, <1>3, <1>5, <2>2
      <3>2. LeafView'[r][f][k] = Leaves!Newest(LeafView[r][f][k], change[c].write[f], k,
                                               change[c].version)
        BY <3>1 DEF Leaves!Merge
      <3>3. Leaves!Writers(r, f, k)' = IF Leaves!Covers(change[c].write[f], k)
                                       THEN Leaves!Writers(r, f, k) \cup {c}
                                       ELSE Leaves!Writers(r, f, k)
        BY <1>0, <1>4 DEF Leaves!Writers
      <3>4. NewestOf(LeafView[r][f][k], Leaves!Writers(r, f, k), f, k)
        BY <3>1 DEF NewestInv
      <3>5. Leaves!Writers(r, f, k) \in SUBSET ChangeId /\ Leaves!Tree(change)
        BY <1>2 DEF Leaves!Writers, NewestInv, LeafTypes
      <3> QED
        BY <2>2, <3>2, <3>3, <3>4, <3>5, NewestStep
    <2> QED
      BY <2>1, <2>2
  <1>6. ASSUME NEW s \in Replica
        PROVE  /\ DeadView'[s] <=> \E d \in seen'[s] : change[d].delete
               /\ DeadView'[s] => LeafView'[s] = Leaves!Blank
    <2>1. CASE s # r
      BY <1>0, <1>3, <1>4, <2>1 DEF NewestInv
    <2>2. CASE s = r
      BY <1>0, <1>3, <1>4, <2>2 DEF NewestInv
    <2> QED
      BY <2>1, <2>2
  <1>7. ASSUME NEW s \in Replica, NEW f \in Field, NEW k \in Key
        PROVE  (~DeadView[s] => NewestOf(LeafView[s][f][k], Leaves!Writers(s, f, k), f, k))'
    BY <1>0, <1>5 DEF NewestOf
  <1> QED
    BY <1>0, <1>1, <1>6, <1>7 DEF NewestInv

LEMMA NewestInvariant == Leaves!Spec => []NewestInv
  <1>1. NewestInv /\ [Leaves!Next]_(Leaves!vars) => NewestInv'
    <2> SUFFICES ASSUME NewestInv, [Leaves!Next]_(Leaves!vars) PROVE NewestInv'
      OBVIOUS
    <2>1. ASSUME NEW r \in Replica, NEW c \in ChangeId, Leaves!Apply(r, c)
          PROVE  NewestInv'
      BY <2>1, StepInViews, NewestInvStep
    <2>2. CASE UNCHANGED Leaves!vars
      <3>1. change' = change /\ seen' = seen /\ DeadView' = DeadView /\ LeafView' = LeafView
        <4>1. LeafViewIsMapping /\ LeafViewIsMapping'
          BY LeafViewIsMapping, PTL
        <4> QED
          BY <2>2, <4>1 DEF Leaves!vars, DeadView
      <3>2. \A r, f, k : Leaves!Writers(r, f, k)' = Leaves!Writers(r, f, k)
        BY <3>1 DEF Leaves!Writers
      <3> QED
        BY <3>1, <3>2 DEF NewestInv, LeafTypes, NewestOf
    <2> QED
      BY <2>1, <2>2 DEF Leaves!Next
  <1> QED
    BY NewestInvInit, <1>1, PTL DEF Leaves!Spec

\* Every leaf of a live record is the newest write seen, and a record is
\* dead and empty exactly where a delete has been seen: what LeafMerge
\* promises whoever implements it.
THEOREM NewestWins == Leaves!Spec => [](Leaves!LeafIsNewestWrite /\ Leaves!DeadIfDeleteSeen)
  <1>1. NewestInv => Leaves!LeafIsNewestWrite /\ Leaves!DeadIfDeleteSeen
    <2> SUFFICES ASSUME NewestInv PROVE Leaves!LeafIsNewestWrite /\ Leaves!DeadIfDeleteSeen
      OBVIOUS
    <2>1. Leaves!LeafIsNewestWrite
      <3> SUFFICES ASSUME NEW r \in Replica, NEW f \in Field, NEW k \in Key, ~DeadView[r]
                   PROVE  NewestOf(LeafView[r][f][k], Leaves!Writers(r, f, k), f, k)
        BY LeafViewIsMapping DEF Leaves!LeafIsNewestWrite, DeadView, NewestOf
      <3> QED
        BY DEF NewestInv
    <2>2. Leaves!DeadIfDeleteSeen
      <3> SUFFICES ASSUME NEW r \in Replica
                   PROVE  /\ DeadView[r] <=> \E c \in seen[r] : change[c].delete
                          /\ DeadView[r] => LeafView[r] = Leaves!Blank
        BY LeafViewIsMapping DEF Leaves!DeadIfDeleteSeen, DeadView
      <3> QED
        BY DEF NewestInv
    <2> QED
      BY <2>1, <2>2
  <1> QED
    BY <1>1, NewestInvariant, PTL

\* Replicas that have seen the same changes agree on every register, and on
\* whether the record is dead.
THEOREM Converges == Leaves!Spec => []Leaves!Convergence
  <1>1. NewestInv => Leaves!Convergence
    <2> SUFFICES ASSUME NewestInv, NEW r \in Replica, NEW s \in Replica, seen[r] = seen[s]
                 PROVE  LeafView[r] = LeafView[s] /\ DeadView[r] = DeadView[s]
      BY LeafViewIsMapping DEF Leaves!Convergence, DeadView
    <2>1. DeadView[r] = DeadView[s]
      BY DEF NewestInv, DeadView
    <2>2. CASE DeadView[r]
      BY <2>1, <2>2 DEF NewestInv
    <2>3. CASE ~DeadView[r]
      <3>1. ASSUME NEW f \in Field, NEW k \in Key
            PROVE  LeafView[r][f][k] = LeafView[s][f][k]
        <4>1. Leaves!Writers(r, f, k) = Leaves!Writers(s, f, k)
          BY DEF Leaves!Writers
        <4>2. /\ NewestOf(LeafView[r][f][k], Leaves!Writers(r, f, k), f, k)
              /\ NewestOf(LeafView[s][f][k], Leaves!Writers(r, f, k), f, k)
          BY <2>1, <2>3, <4>1 DEF NewestInv
        <4>3. CASE Leaves!Writers(r, f, k) = {}
          BY <4>2, <4>3 DEF NewestOf
        <4>4. CASE Leaves!Writers(r, f, k) # {}
          <5>1. PICK c \in Leaves!Writers(r, f, k) :
                  /\ LeafView[r][f][k] = [ver |-> change[c].version,
                                          val |-> Leaves!Incoming(change[c].write[f], k)]
                  /\ \A d \in Leaves!Writers(r, f, k) : change[d].version <= change[c].version
            BY <4>2, <4>4 DEF NewestOf
          <5>2. PICK e \in Leaves!Writers(r, f, k) :
                  /\ LeafView[s][f][k] = [ver |-> change[e].version,
                                          val |-> Leaves!Incoming(change[e].write[f], k)]
                  /\ \A d \in Leaves!Writers(r, f, k) : change[d].version <= change[e].version
            BY <4>2, <4>4 DEF NewestOf
          <5>3. c \in ChangeId /\ e \in ChangeId
            BY DEF Leaves!Writers, NewestInv, LeafTypes
          <5>4. change[c].version = change[e].version
            <6>1. change[c].version \in Nat /\ change[e].version \in Nat
              BY <5>3, ChangeFacts DEF NewestInv, LeafTypes
            <6>2. /\ change[e].version <= change[c].version
                  /\ change[c].version <= change[e].version
              BY <5>1, <5>2
            <6> QED
              BY <6>1, <6>2
          <5>5. c = e
            BY <5>3, <5>4, ChangeFacts DEF NewestInv, LeafTypes
          <5> QED
            BY <5>1, <5>2, <5>5
        <4> QED
          BY <4>3, <4>4
      <3>2. LeafView[r] \in Registers /\ LeafView[s] \in Registers
        BY DEF NewestInv, LeafTypes
      <3>3. \A f \in Field : LeafView[r][f] = LeafView[s][f]
        BY <3>1, <3>2 DEF Registers
      <3>4. LeafView[r] = LeafView[s]
        BY <3>2, <3>3 DEF Registers
      <3> QED
        BY <2>1, <3>4
    <2> QED
      BY <2>2, <2>3
  <1> QED
    BY <1>1, NewestInvariant, PTL

\* Every leaf of a live record holds what the newest applied change that
\* covers it wrote, for any tree and order of delivery.
THEOREM NewestWriteWins == MergeSpec => []LeafIsNewestWrite
  BY Refinement, NewestWins, PTL DEF LeafIsNewestWrite, LeafSpec

\* Replicas that have applied the same changes agree on every leaf, on its
\* version and on whether the record lives: the registers converge, and a
\* row is absent exactly where no upsert or delete has been applied.
THEOREM LeavesConverge == MergeSpec => []LeafConvergence
  <1>1. MergeInv /\ Leaves!Convergence => LeafConvergence
    <2> SUFFICES ASSUME MergeInv, Leaves!Convergence,
                        NEW r \in Replica, NEW s \in Replica, seen[r] = seen[s]
                 PROVE  /\ rec[r].life = rec[s].life
                        /\ \A f \in Field, k \in Key :
                             /\ Gate(rec[r].ver[f], k) = Gate(rec[s].ver[f], k)
                             /\ rec[r].val[f].leaf[k] = rec[s].val[f].leaf[k]
      BY DEF LeafConvergence
    <2>1. DeadView[r] = DeadView[s] /\ LeafView[r] = LeafView[s]
      BY LeafViewIsMapping DEF Leaves!Convergence, DeadView
    <2>2. View(rec[r]) = View(rec[s]) /\ (rec[r].life = "dead" <=> rec[s].life = "dead")
      BY <2>1 DEF DeadView, LeafView
    <2>3. rec[r].life = "absent" <=> rec[s].life = "absent"
      BY DEF MergeInv
    <2>4. rec[r].life = rec[s].life
      BY <2>2, <2>3 DEF MergeInv, RecordTypeOK, Record
    <2>5. ASSUME NEW f \in Field, NEW k \in Key
          PROVE  Reg(rec[r].val[f], rec[r].ver[f], k) = Reg(rec[s].val[f], rec[s].ver[f], k)
      <3>1. View(rec[r])[f][k] = View(rec[s])[f][k]
        BY <2>2
      <3> QED
        BY <3>1 DEF View
    <2> QED
      BY <2>4, <2>5 DEF Reg
  <1> QED
    BY Refinement, Converges, <1>1, MergeInvariant, PTL DEF LeafSpec

----------------------------------------------------------------------------
(* What the registers do not see: the shape of a field, and the marker.    *)

\* A version entry knows leaves that are newer than its default.
Finer(n) == \E k \in Key : Gate(n, k) > n.at

NewVal(x, n, w, v) == ApplyOp(x, n, w, v).val
NewVer(x, n, w, v) == Compact(ApplyOp(x, n, w, v).ver)

\* Compaction keeps the default and leaves nothing to compact.
LEMMA CompactFacts ==
    ASSUME NEW x, NEW n, CellOK(x, n)
    PROVE  Compact(n).at = n.at /\ Compact(Compact(n)) = Compact(n)
  <1> DEFINE rest == [k \in Key |-> IF n.leaf[k] = n.at THEN 0 ELSE n.leaf[k]]
  <1>1. n \in Node /\ n.at \in Nat /\ n.leaf \in [Key -> Nat]
    BY DEF CellOK, Node
  <1>2. CASE n.kind # "tree" \/ n.at = 0
    BY <1>2 DEF Compact
  <1>3. CASE n.kind = "tree" /\ n.at # 0 /\ rest = NoVersions
    <2>1. Compact(n) = VersionNode(n.at)
      BY <1>3 DEF Compact
    <2>2. VersionNode(n.at).kind = "version" /\ VersionNode(n.at).at = n.at
      BY DEF VersionNode
    <2>3. Compact(VersionNode(n.at)) = VersionNode(n.at)
      BY <2>2 DEF Compact
    <2> QED
      BY <2>1, <2>2, <2>3
  <1>4. CASE n.kind = "tree" /\ n.at # 0 /\ rest # NoVersions
    <2>1. Compact(n) = TreeNode(n.at, rest)
      BY <1>4 DEF Compact
    <2>2. [k \in Key |-> IF rest[k] = n.at THEN 0 ELSE rest[k]] = rest
      BY <1>1, <1>4
    <2> HIDE DEF rest
    <2>3. Compact(TreeNode(n.at, rest)) = TreeNode(n.at, rest)
      BY <1>4, <2>2 DEF TreeNode, Compact
    <2> QED
      BY <2>1, <2>3 DEF TreeNode
  <1> QED
    BY <1>2, <1>3, <1>4

LEMMA FinerCompact ==
    ASSUME NEW x, NEW n, CellOK(x, n)
    PROVE  Finer(Compact(n)) <=> Finer(n)
  BY CompactFacts, CompactIsLossless DEF Finer

\* What a write makes of a field beyond its leaves: a newer write of the
\* whole field raises the default and, unless a newer leaf survives it,
\* leaves the very value it carries; a leaf that is set makes an object.
WholeNewer(n, w, v) == w.op # "none" /\ w.key = Whole /\ v > n.at

LEMMA CellMoves ==
    ASSUME NEW x, NEW n, CellOK(x, n),
           NEW w \in Leaves!Write, Leaves!WellFormed(w), NEW v \in Nat \ {0},
           WholeNewer(n, w, v) => \A k \in Key : Gate(n, k) # v
    PROVE  /\ Compact(NewVer(x, n, w, v)) = NewVer(x, n, w, v)
           /\ NewVer(x, n, w, v).at = IF WholeNewer(n, w, v) THEN v ELSE n.at
           /\ (w.op = "unset" => w.key = Whole) =>
                IF Finer(NewVer(x, n, w, v))
                THEN NewVal(x, n, w, v).shape = "object" \/ (Finer(n) /\ NewVal(x, n, w, v) = x)
                ELSE IF WholeNewer(n, w, v) THEN NewVal(x, n, w, v) = w.value
                                            ELSE ~Finer(n) /\ NewVal(x, n, w, v) = x
  <1> DEFINE c == ApplyOp(x, n, w, v)
  <1>1. CellOK(c.val, c.ver)
    BY ApplyOpFollows DEF Follows
  <1>2. /\ Compact(Compact(c.ver)) = Compact(c.ver) /\ Compact(c.ver).at = c.ver.at
        /\ Finer(Compact(c.ver)) <=> Finer(c.ver)
    BY <1>1, CompactFacts, FinerCompact
  <1>3. n.at \in Nat /\ n \in Node /\ n.leaf \in [Key -> Nat]
    BY DEF CellOK, Node
  <1>4. w.op \in {"none", "set", "unset"} /\ w.key \in Key \cup {Whole}
    BY DEF Leaves!Write
  <1>5. /\ c.ver.at = IF WholeNewer(n, w, v) THEN v ELSE n.at
        /\ (w.op = "unset" => w.key = Whole) =>
             IF Finer(c.ver)
             THEN c.val.shape = "object" \/ (Finer(n) /\ c.val = x)
             ELSE IF WholeNewer(n, w, v) THEN c.val = w.value
                                         ELSE ~Finer(n) /\ c.val = x
    <2>1. CASE c = Cell(x, n) /\ ~WholeNewer(n, w, v)
      <3>1. c.val = x /\ c.ver = n
        BY <2>1 DEF Cell
      <3> QED
        BY <2>1, <3>1
    <2>2. CASE w.op = "none"
      <3>1. c = Cell(x, n) /\ ~WholeNewer(n, w, v)
        BY <2>2 DEF ApplyOp, WholeNewer
      <3> QED
        BY <2>1, <3>1
    <2>3. CASE w.op # "none" /\ w.key # Whole
      <3>1. c = WriteLeaf(x, n, w, v) /\ ~WholeNewer(n, w, v) /\ w.key \in Key
        BY <1>4, <2>3 DEF ApplyOp, WholeNewer
      <3>2. CASE Gate(n, w.key) >= v
        <4>1. c = Cell(x, n)
          BY <3>1, <3>2 DEF WriteLeaf
        <4> QED
          BY <2>1, <3>1, <4>1
      <3>3. CASE ~(Gate(n, w.key) >= v)
        <4>1. /\ c.ver = SetVersion(n, w.key, v)
              /\ w.op = "set" => c.val = SetNested(x, w.key, w.value.atom)
          BY <3>1, <3>3 DEF WriteLeaf, Cell
        <4>2. c.ver.at = n.at
          BY <4>1 DEF SetVersion, TreeNode
        <4>3. Gate(c.ver, w.key) = v
          BY <1>3, <3>1, <4>1 DEF SetVersion, TreeNode, Gate, NoVersions
        <4>4. v > n.at
          BY <1>3, <3>1, <3>3 DEF Gate, CellOK
        <4>5. Finer(c.ver)
          BY <3>1, <4>2, <4>3, <4>4 DEF Finer
        <4>6. w.op = "set" => c.val.shape = "object"
          BY <4>1 DEF SetNested
        <4> QED
          BY <1>4, <2>3, <3>1, <4>2, <4>5, <4>6
      <3> QED
        BY <3>2, <3>3
    <2>4. CASE w.op # "none" /\ w.key = Whole
      <3>1. c = WriteWhole(x, n, w, v)
        BY <2>4 DEF ApplyOp
      <3>2. CASE n.at >= v
        <4>1. c = Cell(x, n) /\ ~WholeNewer(n, w, v)
          BY <1>3, <3>1, <3>2 DEF WriteWhole, MergeReplace, WholeNewer
        <4> QED
          BY <2>1, <4>1
      <3>3. CASE n.at < v /\ (n.kind # "tree" \/ Survivors(n, v) = {})
        <4>1. c = Cell(w.value, VersionNode(v))
          BY <1>3, <3>1, <3>3 DEF WriteWhole, MergeReplace
        <4>2. c.val = w.value /\ c.ver = VersionNode(v)
          BY <4>1 DEF Cell
        <4>3. c.ver.at = v /\ ~Finer(c.ver)
          BY <4>2 DEF VersionNode, Finer, Gate
        <4>4. WholeNewer(n, w, v)
          BY <1>3, <2>4, <3>3 DEF WholeNewer
        <4> QED
          BY <4>2, <4>3, <4>4
      <3>4. CASE n.at < v /\ n.kind = "tree" /\ Survivors(n, v) # {}
        <4> DEFINE kept == Survivors(n, v)
        <4>1. /\ c.val.shape = "object"
              /\ c.ver = TreeNode(v, [k \in Key |-> IF k \in kept THEN n.leaf[k] ELSE 0])
          BY <1>3, <3>1, <3>4 DEF WriteWhole, MergeReplace, Cell
        <4>2. c.ver.at = v /\ WholeNewer(n, w, v)
          BY <1>3, <2>4, <3>4, <4>1 DEF TreeNode, WholeNewer
        <4>3. PICK k \in Key : n.leaf[k] >= v
          BY <3>4 DEF Survivors
        <4>4. Gate(n, k) = n.leaf[k] /\ n.leaf[k] > v
          BY <1>3, <3>4, <4>2, <4>3 DEF Gate
        <4>5. Gate(c.ver, k) = n.leaf[k]
          BY <1>3, <4>1, <4>3, <4>4 DEF TreeNode, Gate, Survivors
        <4>6. Finer(c.ver)
          BY <4>2, <4>4, <4>5 DEF Finer
        <4> QED
          BY <4>1, <4>2, <4>6
      <3> QED
        BY <1>3, <3>2, <3>3, <3>4
    <2> QED
      BY <2>2, <2>3, <2>4
  <1> QED
    BY <1>2, <1>5 DEF NewVal, NewVer

----------------------------------------------------------------------------
(* The changes a record's state goes back to.                              *)

AtField(c, f) == change[c].write[f].op # "none" /\ change[c].write[f].key = Whole

NoLeafUnset ==
    \A c \in ChangeId, f \in Field :
        change[c].write[f].op = "unset" => change[c].write[f].key = Whole

\* A field without finer versions holds the value of the newest write of the
\* whole field; with finer ones, it is an object.
ShapeOf(x, n, S, f) ==
    IF Finer(n) THEN x.shape = "object"
    ELSE IF n.at = 0 THEN x = Leaves!Absent
    ELSE \E c \in S : AtField(c, f) /\ change[c].version = n.at /\ x = change[c].write[f].value

\* The default of a field's entry is the newest write of the whole field
\* among the changes S; there is nothing left to compact.
FieldHistory(x, n, S, f) ==
    /\ Compact(n) = n
    /\ \A c \in S : AtField(c, f) => change[c].version <= n.at
    /\ n.at # 0 => \E c \in S : AtField(c, f) /\ change[c].version = n.at
    /\ NoLeafUnset => ShapeOf(x, n, S, f)

\* The marker of a record that an upsert has reached is no newer than any
\* upsert, and while the record lives it is the version of one.
MarkerHistory(life, marker, S) ==
    /\ \A c \in S : change[c].upsert => marker # 0 /\ marker <= change[c].version
    /\ life = "live" => \E c \in S : change[c].upsert /\ marker = change[c].version

RecordHistory(x, S) ==
    /\ x.life = "absent" => S = {}
    /\ x.life # "dead" => \A c \in S : ~change[c].delete
    /\ MarkerHistory(x.life, x.marker, S)
    /\ x.life # "dead" => \A f \in Field : FieldHistory(x.val[f], x.ver[f], S, f)

HistoryInv == \A r \in Replica : RecordHistory(rec[r], seen[r])

\* Every leaf of a record that is not a tombstone is gated by its newest
\* writer among the changes S.
Gated(x, S) ==
    x.life # "dead" =>
        \A f \in Field, k \in Key :
            /\ \A d \in S : Leaves!Covers(change[d].write[f], k) =>
                    change[d].version <= Gate(x.ver[f], k)
            /\ Gate(x.ver[f], k) # 0 =>
                    \E d \in S : /\ Leaves!Covers(change[d].write[f], k)
                                 /\ change[d].version = Gate(x.ver[f], k)

LEMMA GatedByNewest ==
    ASSUME MergeInv, LeafIsNewestWrite, NEW r \in Replica
    PROVE  Gated(rec[r], seen[r])
  <1> SUFFICES ASSUME rec[r].life # "dead", NEW f \in Field, NEW k \in Key
               PROVE  /\ \A d \in seen[r] : Leaves!Covers(change[d].write[f], k) =>
                            change[d].version <= Gate(rec[r].ver[f], k)
                      /\ Gate(rec[r].ver[f], k) # 0 =>
                            \E d \in seen[r] : /\ Leaves!Covers(change[d].write[f], k)
                                               /\ change[d].version = Gate(rec[r].ver[f], k)
    BY DEF Gated
  <1>1. /\ ~DeadView[r]
        /\ LeafView[r][f][k] = [ver |-> Gate(rec[r].ver[f], k), val |-> rec[r].val[f].leaf[k]]
    BY DEF DeadView, LeafView, View, Reg
  <1>2. IF Leaves!Writers(r, f, k) = {}
        THEN LeafView[r][f][k] = Leaves!Unwritten
        ELSE \E c \in Leaves!Writers(r, f, k) :
               /\ LeafView[r][f][k] = [ver |-> change[c].version,
                                       val |-> Leaves!Incoming(change[c].write[f], k)]
               /\ \A d \in Leaves!Writers(r, f, k) : change[d].version <= change[c].version
    BY <1>1, LeafViewIsMapping DEF LeafIsNewestWrite, Leaves!LeafIsNewestWrite, DeadView
  <1>3. CASE Leaves!Writers(r, f, k) = {}
    BY <1>1, <1>2, <1>3 DEF Leaves!Unwritten, Leaves!Writers
  <1>4. CASE Leaves!Writers(r, f, k) # {}
    <2>1. PICK c \in Leaves!Writers(r, f, k) :
               /\ LeafView[r][f][k] = [ver |-> change[c].version,
                                       val |-> Leaves!Incoming(change[c].write[f], k)]
               /\ \A d \in Leaves!Writers(r, f, k) : change[d].version <= change[c].version
      BY <1>2, <1>4
    <2>2. Gate(rec[r].ver[f], k) = change[c].version
      BY <1>1, <2>1
    <2> QED
      BY <2>1, <2>2 DEF Leaves!Writers
  <1> QED
    BY <1>3, <1>4

\* One more change on one field.
LEMMA FieldHistoryStep ==
    ASSUME Leaves!Tree(change), NEW c \in ChangeId, NEW f \in Field, NEW S \in SUBSET ChangeId,
           NEW x, NEW n, CellOK(x, n), FieldHistory(x, n, S, f),
           \A k \in Key : Gate(n, k) # 0 =>
               \E d \in S : Leaves!Covers(change[d].write[f], k) /\ change[d].version = Gate(n, k)
    PROVE  FieldHistory(NewVal(x, n, change[c].write[f], change[c].version),
                        NewVer(x, n, change[c].write[f], change[c].version), S \cup {c}, f)
  <1> DEFINE w == change[c].write[f]
             v == change[c].version
             y == NewVal(x, n, w, v)
             m == NewVer(x, n, w, v)
  <1>1. /\ w \in Leaves!Write /\ Leaves!WellFormed(w) /\ v \in Nat \ {0}
        /\ \A d \in ChangeId : change[d].version \in Nat \ {0}
        /\ \A d \in ChangeId : change[d].version = v => d = c
    BY TreeFacts DEF ChangeOK, Leaves!Tree
  <1>2. n.at \in Nat
    BY DEF CellOK, Node
  <1>3. WholeNewer(n, w, v) => \A k \in Key : Gate(n, k) # v
    <2> SUFFICES ASSUME WholeNewer(n, w, v), NEW k \in Key, Gate(n, k) = v PROVE FALSE
      OBVIOUS
    <2>1. c \in S
      BY <1>1
    <2>2. AtField(c, f)
      BY DEF WholeNewer, AtField
    <2> QED
      BY <1>1, <1>2, <2>1, <2>2 DEF FieldHistory, WholeNewer
  <1>4. /\ Compact(m) = m
        /\ m.at = IF WholeNewer(n, w, v) THEN v ELSE n.at
        /\ (w.op = "unset" => w.key = Whole) =>
             IF Finer(m) THEN y.shape = "object" \/ (Finer(n) /\ y = x)
             ELSE IF WholeNewer(n, w, v) THEN y = w.value ELSE ~Finer(n) /\ y = x
    <2> HIDE DEF w, v
    <2> QED
      BY <1>1, <1>3, CellMoves
  <1>5. WholeNewer(n, w, v) <=> AtField(c, f) /\ v > n.at
    BY DEF WholeNewer, AtField
  <1>6. \A d \in S \cup {c} : AtField(d, f) => change[d].version <= m.at
    <2>1. \A d \in S : AtField(d, f) => change[d].version <= n.at
      BY DEF FieldHistory
    <2> HIDE DEF m, w
    <2> QED
      BY <1>1, <1>2, <1>4, <1>5, <2>1
  <1>7. m.at # 0 => \E d \in S \cup {c} : AtField(d, f) /\ change[d].version = m.at
    BY <1>4, <1>5 DEF FieldHistory
  <1>8. NoLeafUnset => ShapeOf(y, m, S \cup {c}, f)
    <2> SUFFICES ASSUME NoLeafUnset PROVE ShapeOf(y, m, S \cup {c}, f)
      OBVIOUS
    <2>1. w.op = "unset" => w.key = Whole
      BY DEF NoLeafUnset
    <2>2. ShapeOf(x, n, S, f)
      BY DEF FieldHistory
    <2>3. CASE Finer(m)
      BY <1>4, <2>1, <2>2, <2>3 DEF ShapeOf
    <2>4. CASE ~Finer(m) /\ WholeNewer(n, w, v)
      BY <1>1, <1>4, <1>5, <2>1, <2>4 DEF ShapeOf
    <2>5. CASE ~Finer(m) /\ ~WholeNewer(n, w, v)
      BY <1>4, <2>1, <2>2, <2>5 DEF ShapeOf
    <2> QED
      BY <2>3, <2>4, <2>5
  <1> QED
    BY <1>4, <1>6, <1>7, <1>8 DEF FieldHistory

LEMMA BlankHistory ==
    ASSUME NEW f \in Field PROVE FieldHistory(NoValues[f], NoNodes[f], {}, f)
  BY DEF FieldHistory, ShapeOf, NoValues, NoNodes, NoNode, NoVersions, Compact, Finer, Gate

LEMMA ApplyOpsFields ==
    ASSUME NEW x, RecordOK(x), NEW ch
    PROVE  /\ ApplyOps(x, ch) = [life |-> "live", marker |-> x.marker, stone |-> x.stone,
                                 val |-> ApplyOps(x, ch).val, ver |-> ApplyOps(x, ch).ver]
           /\ ApplyOps(x, ch).val = [f \in Field |->
                NewVal(x.val[f], x.ver[f], ch.write[f], ch.version)]
           /\ ApplyOps(x, ch).ver = [f \in Field |->
                NewVer(x.val[f], x.ver[f], ch.write[f], ch.version)]
  <1> DEFINE vals == [f \in Field |-> ApplyOp(x.val[f], x.ver[f], ch.write[f], ch.version).val]
             vers == [f \in Field |->
                        Compact(ApplyOp(x.val[f], x.ver[f], ch.write[f], ch.version).ver)]
  <1>1. ApplyOps(x, ch) = [x EXCEPT !.life = "live", !.val = vals, !.ver = vers]
    BY DEF ApplyOps
  <1>2. x = [life |-> x.life, marker |-> x.marker, stone |-> x.stone,
             val |-> x.val, ver |-> x.ver]
    BY DEF RecordOK, Record
  <1> HIDE DEF vals, vers
  <1>3. ApplyOps(x, ch) = [life |-> "live", marker |-> x.marker, stone |-> x.stone,
                           val |-> vals, ver |-> vers]
    BY <1>1, <1>2
  <1> QED
    BY <1>3 DEF vals, vers, NewVal, NewVer

\* The marker moves down on every upsert, and only then.
LEMMA LowerMarkerFacts ==
    ASSUME NEW x, RecordOK(x), NEW ch, ch.version \in Nat \ {0}, ch.upsert \in BOOLEAN
    PROVE  /\ RecordOK(LowerMarker(x, ch))
           /\ LowerMarker(x, ch).life = x.life
           /\ LowerMarker(x, ch).val = x.val /\ LowerMarker(x, ch).ver = x.ver
           /\ ch.upsert => LowerMarker(x, ch).marker = Lower(x.marker, ch.version)
           /\ ~ch.upsert => LowerMarker(x, ch).marker = x.marker
           /\ (ch.upsert => Lower(x.marker, ch.version) = x.marker) => LowerMarker(x, ch) = x
  BY DEF LowerMarker, Lower, RecordOK, Record

LEMMA LowerMarkerHistory ==
    ASSUME Leaves!Tree(change), NEW c \in ChangeId, NEW S \in SUBSET ChangeId,
           NEW x, RecordOK(x), x.life # "absent", MarkerHistory(x.life, x.marker, S)
    PROVE  MarkerHistory(x.life, LowerMarker(x, change[c]).marker, S \cup {c})
  <1>1. /\ \A d \in ChangeId : change[d].version \in Nat \ {0} /\ change[d].upsert \in BOOLEAN
        /\ x.marker \in Nat
    BY TreeFacts DEF ChangeOK, RecordOK, Record
  <1>2. CASE ~change[c].upsert
    <2>1. LowerMarker(x, change[c]).marker = x.marker
      BY <1>1, <1>2, LowerMarkerFacts
    <2> QED
      BY <1>2, <2>1 DEF MarkerHistory
  <1>3. CASE change[c].upsert
    <2>1. LowerMarker(x, change[c]).marker = Lower(x.marker, change[c].version)
      BY <1>1, <1>3, LowerMarkerFacts
    <2>2. CASE x.marker = 0 \/ change[c].version < x.marker
      <3>1. LowerMarker(x, change[c]).marker = change[c].version
        BY <2>1, <2>2 DEF Lower
      <3> QED
        BY <1>1, <1>3, <2>2, <3>1 DEF MarkerHistory
    <2>3. CASE ~(x.marker = 0 \/ change[c].version < x.marker)
      <3>1. LowerMarker(x, change[c]).marker = x.marker
        BY <2>1, <2>3 DEF Lower
      <3> QED
        BY <1>1, <1>3, <2>3, <3>1 DEF MarkerHistory
    <2> QED
      BY <2>2, <2>3
  <1> QED
    BY <1>1, <1>2, <1>3

\* Writing the fields of a record that is not a tombstone.
LEMMA ApplyOpsHistory ==
    ASSUME Leaves!Tree(change), NEW c \in ChangeId, NEW S \in SUBSET ChangeId,
           NEW x, RecordOK(x), x.life # "dead", RecordHistory(x, S), Gated(x, S),
           ~change[c].delete,
           NEW z, RecordOK(z), z.val = x.val, z.ver = x.ver,
           MarkerHistory("live", z.marker, S \cup {c})
    PROVE  RecordHistory(ApplyOps(z, change[c]), S \cup {c})
  <1> DEFINE ch == change[c]
             y == ApplyOps(z, ch)
  <1>1. /\ y.life = "live" /\ y.marker = z.marker
        /\ \A f \in Field :
             /\ y.val[f] = NewVal(x.val[f], x.ver[f], ch.write[f], ch.version)
             /\ y.ver[f] = NewVer(x.val[f], x.ver[f], ch.write[f], ch.version)
    <2>1. /\ y = [life |-> "live", marker |-> z.marker, stone |-> z.stone,
                  val |-> y.val, ver |-> y.ver]
          /\ y.val = [f \in Field |-> NewVal(z.val[f], z.ver[f], ch.write[f], ch.version)]
          /\ y.ver = [f \in Field |-> NewVer(z.val[f], z.ver[f], ch.write[f], ch.version)]
      BY ApplyOpsFields
    <2> HIDE DEF y
    <2> QED
      BY <2>1
  <1>2. ASSUME NEW f \in Field
        PROVE  FieldHistory(NewVal(x.val[f], x.ver[f], ch.write[f], ch.version),
                            NewVer(x.val[f], x.ver[f], ch.write[f], ch.version), S \cup {c}, f)
    <2>1. CellOK(x.val[f], x.ver[f])
      BY DEF RecordOK
    <2>2. FieldHistory(x.val[f], x.ver[f], S, f)
      BY DEF RecordHistory
    <2>3. \A k \in Key : Gate(x.ver[f], k) # 0 =>
            \E d \in S : /\ Leaves!Covers(change[d].write[f], k)
                         /\ change[d].version = Gate(x.ver[f], k)
      BY DEF Gated
    <2> QED
      BY <2>1, <2>2, <2>3, FieldHistoryStep
  <1> HIDE DEF y
  <1>3. \A f \in Field : FieldHistory(y.val[f], y.ver[f], S \cup {c}, f)
    BY <1>1, <1>2
  <1>4. \A d \in S \cup {c} : ~change[d].delete
    BY DEF RecordHistory
  <1> QED
    BY <1>1, <1>3, <1>4 DEF RecordHistory, y

LEMMA RecordHistoryStep ==
    ASSUME Leaves!Tree(change), NEW c \in ChangeId, NEW S \in SUBSET ChangeId,
           NEW x, RecordOK(x), RecordHistory(x, S), Gated(x, S),
           ~change[c].upsert /\ ~change[c].delete => x.life # "absent"
    PROVE  RecordHistory(Modify(x, change[c]), S \cup {c})
  <1> DEFINE ch == change[c]
             y == Modify(x, ch)
  <1>1. /\ ch.version \in Nat \ {0} /\ ch.upsert \in BOOLEAN /\ ch.delete \in BOOLEAN
        /\ ~(ch.upsert /\ ch.delete)
        /\ \A d \in ChangeId : change[d].version \in Nat \ {0} /\ change[d].upsert \in BOOLEAN
    BY TreeFacts DEF ChangeOK, Leaves!Tree
  <1>2. x.life \in {"absent", "live", "dead"} /\ x.marker \in Nat
    BY DEF RecordOK, Record
  <1>3. MarkerHistory(x.life, x.marker, S)
    BY DEF RecordHistory
  <1>4. CASE x.life = "dead"
    <2>1. y = LowerMarker(x, ch)
      BY <1>4 DEF Modify
    <2>2. y.life = "dead"
      BY <1>1, <1>4, <2>1, LowerMarkerFacts
    <2>3. MarkerHistory("dead", LowerMarker(x, ch).marker, S \cup {c})
      BY <1>3, <1>4, LowerMarkerHistory
    <2> QED
      BY <2>1, <2>2, <2>3 DEF RecordHistory
  <1>5. CASE x.life # "dead" /\ ch.delete
    <2>1. y = Tombstone(x, ch)
      BY <1>1, <1>5 DEF Modify
    <2>2. y.life = "dead" /\ y.marker = IF x.marker = 0 THEN ch.version ELSE x.marker
      BY <2>1 DEF Tombstone
    <2>3. MarkerHistory("dead", y.marker, S \cup {c})
      BY <1>1, <1>3, <1>5, <2>2 DEF MarkerHistory
    <2> QED
      BY <2>2, <2>3 DEF RecordHistory
  <1>6. CASE x.life = "absent" /\ ~ch.delete
    <2> DEFINE z == [x EXCEPT !.marker = ch.version]
    <2>1. y = ApplyOps(z, ch) /\ ch.upsert
      BY <1>6 DEF Modify
    <2>2. RecordOK(z) /\ z.val = x.val /\ z.ver = x.ver /\ z.marker = ch.version
      BY <1>1 DEF RecordOK, Record
    <2> HIDE DEF z
    <2>3. MarkerHistory("live", z.marker, S \cup {c})
      BY <1>1, <1>6, <2>1, <2>2 DEF MarkerHistory, RecordHistory
    <2> QED
      BY <1>6, <2>1, <2>2, <2>3, ApplyOpsHistory
  <1>7. CASE x.life = "live" /\ ~ch.delete
    <2>1. y = ApplyOps(LowerMarker(x, ch), ch)
      BY <1>7 DEF Modify
    <2>2. /\ RecordOK(LowerMarker(x, ch))
          /\ LowerMarker(x, ch).val = x.val /\ LowerMarker(x, ch).ver = x.ver
      BY <1>1, LowerMarkerFacts
    <2>3. MarkerHistory("live", LowerMarker(x, ch).marker, S \cup {c})
      BY <1>3, <1>7, LowerMarkerHistory
    <2> QED
      BY <1>7, <2>1, <2>2, <2>3, ApplyOpsHistory
  <1> QED
    BY <1>1, <1>2, <1>4, <1>5, <1>6, <1>7

LEMMA HistoryInvInit == MergeInit => HistoryInv
  <1> SUFFICES ASSUME MergeInit, NEW r \in Replica PROVE RecordHistory(rec[r], seen[r])
    BY DEF HistoryInv
  <1>1. rec[r] = NoRecord /\ seen[r] = {}
    BY DEF MergeInit
  <1>2. /\ NoRecord.life = "absent" /\ NoRecord.val = NoValues /\ NoRecord.ver = NoNodes
    BY DEF NoRecord
  <1> QED
    BY <1>1, <1>2, BlankHistory DEF RecordHistory, MarkerHistory

LEMMA HistoryInvStep ==
    MergeInv /\ LeafIsNewestWrite /\ HistoryInv /\ [MergeNext]_mergeVars => HistoryInv'
  <1> SUFFICES ASSUME MergeInv, LeafIsNewestWrite, HistoryInv, [MergeNext]_mergeVars PROVE HistoryInv'
    OBVIOUS
  <1>2. CASE UNCHANGED mergeVars
    BY <1>2 DEF mergeVars, HistoryInv, RecordHistory, MarkerHistory, FieldHistory, ShapeOf, AtField,
       NoLeafUnset
  <1>3. ASSUME NEW r \in Replica, NEW c \in ChangeId, Apply(r, c) PROVE HistoryInv'
    <2>1. /\ change' = change
          /\ change[c].past \subseteq seen[r]
          /\ seen' = [seen EXCEPT ![r] = @ \cup {c}]
          /\ rec' = [rec EXCEPT ![r] = Modify(@, change[c])]
          /\ seen \in [Replica -> SUBSET ChangeId] /\ rec \in [Replica -> Record]
          /\ Leaves!Tree(change)
      BY <1>3 DEF Apply, MergeInv, RecordTypeOK
    <2>2. RecordHistory(Modify(rec[r], change[c]), seen[r] \cup {c})
      <3>1. ~change[c].upsert /\ ~change[c].delete => rec[r].life # "absent"
        BY <2>1, TreeFacts DEF MergeInv
      <3>2. RecordOK(rec[r]) /\ RecordHistory(rec[r], seen[r]) /\ Gated(rec[r], seen[r])
        BY GatedByNewest DEF MergeInv, HistoryInv
      <3> QED
        BY <2>1, <3>1, <3>2, RecordHistoryStep
    <2>3. ASSUME NEW s \in Replica PROVE RecordHistory(rec'[s], seen'[s])
      <3>1. CASE s = r
        BY <2>1, <2>2, <3>1
      <3>2. CASE s # r
        BY <2>1, <3>2 DEF HistoryInv
      <3> QED
        BY <3>1, <3>2
    <2>4. ASSUME NEW d \in ChangeId, NEW f \in Field
          PROVE  AtField(d, f)' <=> AtField(d, f)
      BY <2>1 DEF AtField
    <2>5. NoLeafUnset' <=> NoLeafUnset
      BY <2>1 DEF NoLeafUnset
    <2>6. ASSUME NEW s \in Replica PROVE seen'[s] \in SUBSET ChangeId
      BY <2>1
    <2>7. ASSUME NEW s \in Replica, NEW f \in Field
          PROVE  FieldHistory(rec'[s].val[f], rec'[s].ver[f], seen'[s], f) =>
                    FieldHistory(rec[s].val[f], rec[s].ver[f], seen[s], f)'
      BY <2>1, <2>4, <2>5, <2>6 DEF FieldHistory, ShapeOf
    <2>8. ASSUME NEW s \in Replica
          PROVE  MarkerHistory(rec'[s].life, rec'[s].marker, seen'[s]) =>
                    MarkerHistory(rec[s].life, rec[s].marker, seen[s])'
      BY <2>1 DEF MarkerHistory
    <2> QED
      BY <2>1, <2>3, <2>7, <2>8 DEF HistoryInv, RecordHistory
  <1> QED
    BY <1>2, <1>3 DEF MergeNext

THEOREM HistoryInvariant == MergeSpec => []HistoryInv
  BY HistoryInvInit, HistoryInvStep, MergeInvariant, NewestWriteWins, PTL DEF MergeSpec

\* The creation marker of a live record is the version of its earliest
\* upsert, whatever order the changes came in: ordering by `_ver.id` agrees
\* between replicas.
THEOREM MarkerIsEarliest == MergeSpec => []MarkerIsEarliestUpsert
  <1>1. HistoryInv => MarkerIsEarliestUpsert
    BY DEF HistoryInv, RecordHistory, MarkerHistory, MarkerIsEarliestUpsert
  <1> QED
    BY <1>1, HistoryInvariant, PTL

\* A write that is not newer than what gates it leaves the field alone.
LEMMA StaleWrite ==
    ASSUME NEW x, NEW n, CellOK(x, n), Compact(n) = n,
           NEW w \in Leaves!Write, NEW v \in Nat,
           w.op # "none" /\ w.key = Whole => v <= n.at,
           \A k \in Key : Leaves!Covers(w, k) => v <= Gate(n, k)
    PROVE  NewVal(x, n, w, v) = x /\ NewVer(x, n, w, v) = n
  <1>0. n.at \in Nat /\ n.leaf \in [Key -> Nat]
    BY DEF CellOK, Node
  <1>1. CASE w.op = "none"
    <2>1. ApplyOp(x, n, w, v) = Cell(x, n)
      BY <1>1 DEF ApplyOp
    <2> QED
      BY <2>1 DEF NewVal, NewVer, Cell
  <1>2. CASE w.op # "none" /\ w.key = Whole
    <2>1. ApplyOp(x, n, w, v) = WriteWhole(x, n, w, v)
      BY <1>2 DEF ApplyOp
    <2>2. WriteWhole(x, n, w, v) = Cell(x, n)
      BY <1>0, <1>2 DEF WriteWhole, MergeReplace
    <2> QED
      BY <2>1, <2>2 DEF NewVal, NewVer, Cell
  <1>3. CASE w.op # "none" /\ w.key # Whole
    <2>1. w.key \in Key /\ v <= Gate(n, w.key) /\ Gate(n, w.key) \in Nat
      BY <1>0, <1>3 DEF Leaves!Write, Leaves!Covers, Gate
    <2>2. ApplyOp(x, n, w, v) = Cell(x, n)
      BY <1>3, <2>1 DEF ApplyOp, WriteLeaf
    <2> QED
      BY <2>2 DEF NewVal, NewVer, Cell
  <1> QED
    BY <1>1, <1>2, <1>3

\* Applying a change again changes nothing, whatever was applied since, on
\* live records and tombstones.
THEOREM ReplayHarmless == MergeSpec => []ReplayIsNoOp
  <1>1. MergeInv /\ LeafIsNewestWrite /\ HistoryInv => ReplayIsNoOp
    <2> SUFFICES ASSUME MergeInv, LeafIsNewestWrite, HistoryInv, NEW r \in Replica,
                        NEW c \in seen[r]
                 PROVE  Modify(rec[r], change[c]) = rec[r]
      BY DEF ReplayIsNoOp
    <2> DEFINE x == rec[r]
               ch == change[c]
               S == seen[r]
    <2>1. /\ RecordOK(x) /\ RecordHistory(x, S) /\ Gated(x, S) /\ Leaves!Tree(change)
          /\ c \in ChangeId /\ x.life \in {"absent", "live", "dead"} /\ x.marker \in Nat
      BY GatedByNewest DEF MergeInv, HistoryInv, RecordTypeOK, Record
    <2>2. ChangeOK(ch)
      BY <2>1, TreeFacts
    <2>3. x.life # "absent"
      BY <2>1 DEF RecordHistory
    <2>4. LowerMarker(x, ch) = x
      <3>1. ch.upsert => Lower(x.marker, ch.version) = x.marker
        BY <2>1, <2>2 DEF RecordHistory, MarkerHistory, Lower, ChangeOK
      <3> QED
        BY <2>1, <2>2, <3>1, LowerMarkerFacts DEF ChangeOK
    <2>5. CASE x.life = "dead"
      BY <2>4, <2>5 DEF Modify
    <2>6. CASE x.life = "live"
      <3>1. ~ch.delete
        BY <2>1, <2>6 DEF RecordHistory
      <3>2. Modify(x, ch) = ApplyOps(x, ch)
        BY <2>4, <2>6, <3>1 DEF Modify
      <3>3. ASSUME NEW f \in Field
            PROVE  /\ NewVal(x.val[f], x.ver[f], ch.write[f], ch.version) = x.val[f]
                   /\ NewVer(x.val[f], x.ver[f], ch.write[f], ch.version) = x.ver[f]
        <4>1. /\ Compact(x.ver[f]) = x.ver[f] /\ CellOK(x.val[f], x.ver[f])
              /\ AtField(c, f) => ch.version <= x.ver[f].at
              /\ \A k \in Key : Leaves!Covers(ch.write[f], k) => ch.version <= Gate(x.ver[f], k)
          BY <2>1, <2>6 DEF RecordHistory, FieldHistory, Gated, RecordOK
        <4>2. ch.write[f] \in Leaves!Write /\ ch.version \in Nat
          BY <2>2 DEF ChangeOK
        <4> QED
          BY <4>1, <4>2, StaleWrite DEF AtField
      <3>4. x = [life |-> "live", marker |-> x.marker, stone |-> x.stone,
                 val |-> x.val, ver |-> x.ver]
            /\ x.val \in [Field -> Leaves!Value] /\ x.ver \in [Field -> Node]
        BY <2>1, <2>6 DEF RecordOK, Record
      <3>5. ApplyOps(x, ch).val = x.val /\ ApplyOps(x, ch).ver = x.ver
        <4>1. /\ ApplyOps(x, ch).val = [f \in Field |->
                   NewVal(x.val[f], x.ver[f], ch.write[f], ch.version)]
              /\ ApplyOps(x, ch).ver = [f \in Field |->
                   NewVer(x.val[f], x.ver[f], ch.write[f], ch.version)]
          BY <2>1, ApplyOpsFields
        <4> HIDE DEF x, ch
        <4> QED
          BY <3>3, <3>4, <4>1
      <3>6. ApplyOps(x, ch) = [life |-> "live", marker |-> x.marker, stone |-> x.stone,
                 val |-> ApplyOps(x, ch).val, ver |-> ApplyOps(x, ch).ver]
        BY <2>1, ApplyOpsFields
      <3> QED
        BY <3>2, <3>4, <3>5, <3>6
    <2> QED
      BY <2>1, <2>3, <2>5, <2>6
  <1> QED
    BY <1>1, MergeInvariant, NewestWriteWins, HistoryInvariant, PTL

\* Two fields with the same history and the same leaves hold the same value.
LEMMA SameShape ==
    ASSUME Leaves!Tree(change), NoLeafUnset, NEW f \in Field, NEW S \in SUBSET ChangeId,
           NEW x, NEW n, CellOK(x, n), FieldHistory(x, n, S, f),
           NEW y, NEW m, CellOK(y, m), FieldHistory(y, m, S, f),
           \A k \in Key : Gate(n, k) = Gate(m, k) /\ x.leaf[k] = y.leaf[k]
    PROVE  x = y
  <1>1. /\ \A c \in ChangeId : change[c].version \in Nat \ {0}
        /\ \A c, d \in ChangeId : change[c].version = change[d].version => c = d
        /\ n.at \in Nat /\ m.at \in Nat
    BY TreeFacts DEF ChangeOK, Leaves!Tree, CellOK, Node
  <1>2. n.at = m.at
    <2>1. n.at <= m.at
      BY <1>1 DEF FieldHistory
    <2>2. m.at <= n.at
      BY <1>1 DEF FieldHistory
    <2> QED
      BY <1>1, <2>1, <2>2
  <1>3. Finer(n) <=> Finer(m)
    BY <1>2 DEF Finer
  <1>4. ShapeOf(x, n, S, f) /\ ShapeOf(y, m, S, f)
    BY DEF FieldHistory
  <1>5. CASE Finer(n)
    <2>1. x.shape = "object" /\ y.shape = "object"
      BY <1>3, <1>4, <1>5 DEF ShapeOf
    <2>2. /\ x = [shape |-> "object", atom |-> None, leaf |-> x.leaf]
          /\ y = [shape |-> "object", atom |-> None, leaf |-> y.leaf]
          /\ x.leaf \in [Key -> Leaves!Content] /\ y.leaf \in [Key -> Leaves!Content]
      BY <2>1 DEF CellOK, Leaves!Value
    <2>3. x.leaf = y.leaf
      BY <2>2
    <2> QED
      BY <2>2, <2>3
  <1>6. CASE ~Finer(n) /\ n.at = 0
    BY <1>2, <1>3, <1>4, <1>6 DEF ShapeOf
  <1>7. CASE ~Finer(n) /\ n.at # 0
    BY <1>1, <1>2, <1>3, <1>4, <1>7 DEF ShapeOf
  <1> QED
    BY <1>5, <1>6, <1>7

\* Replicas that have applied the same changes store the same content, to the
\* shape of every field, where no change clears a key below a field.
THEOREM ContentConverges == MergeSpec => []ContentConvergence
  <1>1. MergeInv /\ HistoryInv /\ LeafConvergence => ContentConvergence
    <2> SUFFICES ASSUME MergeInv, HistoryInv, LeafConvergence, NoLeafUnset,
                        NEW r \in Replica, NEW s \in Replica, seen[r] = seen[s]
                 PROVE  rec[r].val = rec[s].val
      BY DEF ContentConvergence, SameContent, NoLeafUnset
    <2>1. /\ RecordOK(rec[r]) /\ RecordOK(rec[s])
          /\ RecordHistory(rec[r], seen[r]) /\ RecordHistory(rec[s], seen[r])
          /\ seen[r] \in SUBSET ChangeId /\ Leaves!Tree(change)
          /\ rec[r].val \in [Field -> Leaves!Value] /\ rec[s].val \in [Field -> Leaves!Value]
      BY DEF MergeInv, RecordTypeOK, HistoryInv, Record
    <2>2. rec[r].life = rec[s].life
      BY DEF LeafConvergence
    <2>3. CASE rec[r].life # "live"
      BY <2>1, <2>2, <2>3 DEF RecordOK
    <2>4. CASE rec[r].life = "live"
      <3>1. ASSUME NEW f \in Field PROVE rec[r].val[f] = rec[s].val[f]
        <4>1. CellOK(rec[r].val[f], rec[r].ver[f]) /\ CellOK(rec[s].val[f], rec[s].ver[f])
          BY <2>1 DEF RecordOK
        <4>2. /\ FieldHistory(rec[r].val[f], rec[r].ver[f], seen[r], f)
              /\ FieldHistory(rec[s].val[f], rec[s].ver[f], seen[r], f)
          BY <2>1, <2>2, <2>4 DEF RecordHistory
        <4>3. \A k \in Key : /\ Gate(rec[r].ver[f], k) = Gate(rec[s].ver[f], k)
                             /\ rec[r].val[f].leaf[k] = rec[s].val[f].leaf[k]
          BY DEF LeafConvergence
        <4> QED
          BY <2>1, <4>1, <4>2, <4>3, SameShape
      <3> QED
        BY <2>1, <3>1
    <2> QED
      BY <2>3, <2>4
  <1> QED
    BY <1>1, MergeInvariant, HistoryInvariant, LeavesConverge, PTL
=============================================================================
