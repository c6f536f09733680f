--------------------------- MODULE Reindex_proofs ---------------------------
(***************************************************************************)
(* Proofs about Reindex, for a tree of any length, any handler versions,   *)
(* any gated changes and any number of local writes and faults: its type   *)
(* invariant, that an open object's rows are complete and its handler's,   *)
(* and that the device-local value survives.                               *)
(***************************************************************************)
EXTENDS Reindex, TLAPS

\* The parts of the type invariant: what the variables hold, the flags, and
\* what the load holds where.
Typed ==
    /\ tree \in 0..MaxTree /\ built \in [Row -> 0..MaxVersion] /\ parked \in SUBSET Gated
    /\ local \in 0..MaxWrites /\ meta \in Meta /\ defs \in {"usable", "old", "wiped"}
    /\ handler \in 0..MaxVersion /\ pc \in Places /\ next \in 1..(MaxTree + 1)
    /\ load \in [stale : BOOLEAN, resume : BOOLEAN] /\ carried \in 0..MaxWrites
    /\ written \in 0..MaxWrites /\ leftover \in SUBSET Row
    /\ faults \in 0..MaxFaults

FlagsTyped == disarmed \in BOOLEAN /\ forfeit \in BOOLEAN /\ unmarked \in BOOLEAN

LoadTyped ==
    /\ handler = 0 => pc = "none"
    /\ pc \in {"none", "open", "sync"} => load = NoLoad /\ carried = Unset
    /\ pc \in {"prepare", "wipe"} => load.stale
    /\ pc \in {"leaves", "finish"} => load.stale \/ load.resume
    /\ load.stale => ~load.resume

\* A change whose row is there, or who waits for its definition.
Accounted(i) == built[i] # 0 \/ i \in parked
AccountedNext(i) == built'[i] # 0 \/ i \in parked'

\* The rebuild that the load decided on goes on.
Rebuilding == load.stale \/ load.resume

\* Nothing is missing below the watermark.  A replay leaves nothing behind
\* its position, a load has replayed everything when it comes to the local
\* value, and a parked change of the open object has everything before it.
CompleteInv ==
    /\ meta.mark <= tree /\ parked \subseteq 1..tree
    /\ \A i \in 1..meta.mark : Accounted(i)
    /\ pc \in Replaying => /\ meta.mark < next /\ next <= tree + 1
                           /\ \A i \in 1..(next - 1) : Accounted(i)
    /\ pc \in {"leaves", "finish"} => \A i \in 1..tree : Accounted(i)
    /\ pc \in {"open", "sync"} =>
          \A i \in parked : \A j \in 1..i : Accounted(j)
    /\ pc = "wipe" => meta.mark = 0

\* Rows are of the version on the `_meta` row until they are wiped; behind
\* the wipe, and where none was called for, they are the handler's.
VersionInv ==
    /\ ~disarmed =>
          /\ \A i \in Row \ leftover : built[i] \in {0, meta.version}
          /\ pc \in {"restore", "sync", "leaves", "finish", "open"} \/ (pc = "opening" /\ ~load.stale)
                => \A i \in Row \ leftover : built[i] \in {0, handler}
    /\ pc = "wipe" => \A i \in 1..(next - 1) : i \in leftover \/ built[i] = 0

\* An open rebuild holds its mark and its values until it ends; a load that
\* decided on none, and an open object, find neither.
MarkInv ==
    /\ pc \in {"wipe", "leaves", "finish"} \/ (pc = "restore" /\ Rebuilding)
          \/ (pc = "opening" /\ load.resume) => meta.pending
    /\ pc \notin {"none", "open", "sync"} /\ meta.pending => carried = meta.leaf
    /\ pc \in {"opening", "restore"} /\ ~Rebuilding =>
          meta.version \in {0, handler} /\ ~meta.pending
    /\ pc \in {"open", "sync"} /\ ~unmarked => meta.version \in {0, handler} /\ ~meta.pending

\* The last local value is in its row, or kept on the `_meta` row.
ValueInv ==
    ~forfeit /\ ~unmarked =>
        /\ IF meta.pending THEN meta.leaf = written /\ local \in {Unset, written}
           ELSE local = written
        /\ pc = "finish" => local = written

\* The inductive invariant.
ReindexInv == TypeOK /\ CompleteInv /\ VersionInv /\ MarkInv /\ ValueInv

----------------------------------------------------------------------------

\* The rewind of the watermark and the captured value, in one upsert.
Rewound(l) == meta' = [meta EXCEPT !.mark = 0, !.pending = TRUE, !.leaf = l]

LEMMA RewindFacts ==
    ASSUME TypeOK, NEW l \in 0..MaxWrites, Rewound(l)
    PROVE  /\ meta' \in Meta
           /\ meta'.mark = 0 /\ meta'.version = meta.version /\ meta'.pending /\ meta'.leaf = l
<1>1. 0 \in 0..MaxTree /\ meta \in Meta
  BY BoundAssumption DEF TypeOK
<1>. QED
  BY <1>1 DEF Meta, Rewound

\* The commit of an apply: a row that was there stays what it is.
LEMMA ApplyFacts ==
    ASSUME TypeOK, NEW i \in Row, Apply(i)
    PROVE  /\ meta' \in Meta
           /\ meta'.mark = IF i > meta.mark THEN i ELSE meta.mark
           /\ meta'.version = handler
           /\ meta'.pending = meta.pending /\ meta'.leaf = meta.leaf
           /\ built' \in [Row -> 0..MaxVersion]
           /\ built'[i] = IF built[i] = 0 THEN handler ELSE built[i]
           /\ \A j \in Row \ {i} : built'[j] = built[j]
<1>. DEFINE k == IF i > meta.mark THEN i ELSE meta.mark
<1>1. k \in 0..MaxTree /\ 0 \in 0..MaxWrites
  BY BoundAssumption DEF TypeOK, Meta, Row
<1>2. meta' = [meta EXCEPT !.mark = k, !.version = handler]
  BY DEF Apply
<1>. HIDE DEF k
<1>3. /\ meta' \in Meta /\ meta'.mark = k /\ meta'.version = handler
      /\ meta'.pending = meta.pending /\ meta'.leaf = meta.leaf
  <2>1. meta \in Meta /\ handler \in 0..MaxVersion
    BY DEF TypeOK
  <2>. QED
    BY <1>1, <1>2, <2>1 DEF Meta
<1>4. /\ built' \in [Row -> 0..MaxVersion]
      /\ built'[i] = IF built[i] = 0 THEN handler ELSE built[i]
      /\ \A j \in Row \ {i} : built'[j] = built[j]
  BY DEF Apply, TypeOK
<1>. QED
  BY <1>3, <1>4 DEF k

\* A device-local write, which has no row to go to or has one.
LEMMA WriteFacts ==
    ASSUME TypeOK, NEW v \in 0..MaxWrites, WriteLocal(v)
    PROVE  /\ meta' \in Meta
           /\ meta'.mark = meta.mark /\ meta'.version = handler
           /\ meta'.pending = meta.pending /\ meta'.leaf = meta.leaf
           /\ local' = IF built[1] # 0 THEN v ELSE local
           /\ local' \in 0..MaxWrites
<1>1. meta' = [meta EXCEPT !.version = handler] /\ meta \in Meta /\ handler \in 0..MaxVersion
  BY DEF WriteLocal, TypeOK
<1>2. /\ meta' \in Meta /\ meta'.mark = meta.mark /\ meta'.version = handler
      /\ meta'.pending = meta.pending /\ meta'.leaf = meta.leaf
  BY <1>1 DEF Meta
<1>. QED
  BY <1>2 DEF WriteLocal, TypeOK, LocalRow

\* The end of a rebuild.
LEMMA ClearFacts ==
    ASSUME TypeOK, meta' = [meta EXCEPT !.version = handler, !.pending = FALSE, !.leaf = Unset]
    PROVE  /\ meta' \in Meta
           /\ meta'.mark = meta.mark /\ meta'.version = handler /\ ~meta'.pending
           /\ meta'.leaf = 0
<1>1. Unset \in 0..MaxWrites /\ meta \in Meta /\ handler \in 0..MaxVersion
  BY BoundAssumption DEF Unset, TypeOK
<1>. QED
  BY <1>1 DEF Meta, Unset

LEMMA TypeSplit == TypeOK <=> Typed /\ FlagsTyped /\ LoadTyped
BY DEF TypeOK, Typed, FlagsTyped, LoadTyped

\* The same of the next state, as the steps prove it.
LEMMA TypeSplitNext == Typed' /\ FlagsTyped' /\ LoadTyped' => TypeOK'
BY DEF TypeOK, Typed, FlagsTyped, LoadTyped

LEMMA ReindexInvInit == Init => ReindexInv
<1>. SUFFICES ASSUME Init PROVE ReindexInv
  OBVIOUS
<1>. USE BoundAssumption DEF Init, Unset, NoLoad
<1>0. meta \in Meta
  BY DEF Meta
<1>1. TypeOK
  <2>1. Typed
    BY <1>0 DEF Typed, Row, Places, Replaying
  <2>2. FlagsTyped
    BY DEF FlagsTyped
  <2>3. LoadTyped
    BY DEF LoadTyped
  <2>. QED
    BY <2>1, <2>2, <2>3, TypeSplit
<1>2. CompleteInv /\ VersionInv /\ MarkInv /\ ValueInv
  BY DEF CompleteInv, VersionInv, MarkInv, ValueInv, Accounted, Rebuilding, Replaying, Row
<1>. QED
  BY <1>1, <1>2 DEF ReindexInv

\* A load that fails, and an object that opens, hold no load.
LEMMA LeaveFacts ==
    ASSUME TypeOK, LeaveLoad \/ Opened
    PROVE  /\ pc' \in {"none", "open"} /\ pc' \in Places /\ next' \in 1..(MaxTree + 1)
           /\ load' = NoLoad /\ load' \in [stale : BOOLEAN, resume : BOOLEAN]
           /\ carried' = Unset /\ carried' \in 0..MaxWrites
           /\ ~load'.stale /\ ~load'.resume
<1>1. pc' \in {"none", "open"} /\ pc' \in Places
  BY DEF LeaveLoad, Opened, Places
<1>2. /\ next' \in 1..(MaxTree + 1) /\ carried' = Unset /\ carried' \in 0..MaxWrites
  BY BoundAssumption DEF LeaveLoad, Opened, Unset
<1>3. load' = NoLoad
  BY DEF LeaveLoad, Opened
<1>4. NoLoad \in [stale : BOOLEAN, resume : BOOLEAN] /\ ~NoLoad.stale /\ ~NoLoad.resume
  BY DEF NoLoad
<1>. QED
  BY <1>1, <1>2, <1>3, <1>4

LEMMA LeaveTypes ==
    ASSUME TypeOK, LeaveLoad \/ (Opened /\ handler' # 0) PROVE LoadTyped'
<1>1. pc' \in {"none", "open"} /\ load' = NoLoad /\ carried' = Unset
  BY LeaveFacts
<1>2. handler' = 0 => pc' = "none"
  BY DEF LeaveLoad
<1>. QED
  BY <1>1, <1>2 DEF LoadTyped, NoLoad

LEMMA FaultFacts == ASSUME TypeOK, Fault PROVE faults' \in 0..MaxFaults
BY BoundAssumption DEF TypeOK, Fault

\* The types, which no other part is needed for.
LEMMA TypeStep ==
    ASSUME TypeOK, [Next]_vars
    PROVE  TypeOK'
<1>0. /\ meta.mark \in 0..MaxTree /\ meta.version \in 0..MaxVersion
      /\ meta.pending \in BOOLEAN /\ meta.leaf \in 0..MaxWrites
  BY DEF TypeOK, Meta
<1>4. CASE CaptureFails
  <2>1. meta' \in Meta
    <3>1. Rewound(Unset) /\ Unset \in 0..MaxWrites
      BY <1>4, BoundAssumption DEF CaptureFails, Rewound, Unset
    <3>. QED
      BY <3>1, RewindFacts
  <2>2. pc' \in Places /\ next' \in 1..(MaxTree + 1) /\ carried' \in 0..MaxWrites
    BY <1>4, BoundAssumption DEF CaptureFails, Places, Unset
  <2>3. Typed'
    BY <1>4, <2>1, <2>2, FaultFacts DEF CaptureFails, TypeOK, Typed, rows
  <2>4. FlagsTyped'
    BY <1>4 DEF CaptureFails, TypeOK, FlagsTyped
  <2>5. LoadTyped'
    BY <1>4 DEF CaptureFails, TypeOK, LoadTyped
  <2>. QED
    BY <2>3, <2>4, <2>5, TypeSplitNext
<1>14. CASE ReplayFails
  <2>1. LeaveLoad \/ (Opened /\ handler' # 0)
    BY <1>14 DEF ReplayFails, TypeOK, Replaying, history
  <2>2. Typed'
    BY <1>14, <2>1, LeaveFacts, FaultFacts DEF ReplayFails, TypeOK, Typed, rows, history
  <2>3. FlagsTyped'
    BY <1>14 DEF ReplayFails, TypeOK, FlagsTyped, history
  <2>. QED
    BY <2>1, <2>2, <2>3, LeaveTypes, TypeSplitNext
<1>24. ASSUME ReplayDone, Opened PROVE TypeOK'
  <2>1. handler' # 0
    BY <1>24 DEF ReplayDone, TypeOK, Replaying, history
  <2>2. Typed'
    BY <1>24, LeaveFacts DEF ReplayDone, TypeOK, Typed, rows, history
  <2>3. FlagsTyped'
    BY <1>24 DEF ReplayDone, TypeOK, FlagsTyped, history
  <2>. QED
    BY <1>24, <2>1, <2>2, <2>3, LeaveTypes, TypeSplitNext
<1>. USE BoundAssumption, <1>0
         DEF TypeOK, Typed, FlagsTyped, LoadTyped, Row, Version, LocalRow, Unset, Meta, Places,
             Replaying, NoLoad, LeaveLoad, Opened, Fault, rows, memory, history
<1>1. CASE Load
  BY <1>1 DEF Load
<1>2. CASE OpenFails
  BY <1>2 DEF OpenFails
<1>3. CASE Prepare
  <2>1. carried' \in 0..MaxWrites
    BY <1>3 DEF Prepare
  <2>2. meta' \in Meta
    <3>1. Rewound(carried')
      BY <1>3 DEF Prepare, Rewound
    <3>. QED
      BY <2>1, <3>1, RewindFacts
  <2>. QED
    BY <1>3, <2>1, <2>2, SMTT(30) DEF Prepare
<1>5. CASE PrepareFails
  BY <1>5 DEF PrepareFails
<1>6. CASE Wipe
  BY <1>6 DEF Wipe
<1>7. CASE DropFails
  BY <1>7 DEF DropFails
<1>8. CASE WipeDone
  <2>1. Typed'
    BY <1>8 DEF WipeDone
  <2>2. FlagsTyped'
    BY <1>8 DEF WipeDone
  <2>3. LoadTyped'
    BY <1>8 DEF WipeDone
  <2>. QED
    BY <2>1, <2>2, <2>3, TypeSplitNext
<1>9. CASE RestoreLeaves
  <2>1. meta' \in Meta /\ local' \in 0..MaxWrites
    BY <1>9, WriteFacts DEF RestoreLeaves
  <2>. QED
    BY <1>9, <2>1 DEF RestoreLeaves
<1>10. CASE RestoreFails
  BY <1>10 DEF RestoreFails
<1>11. CASE Finish
  <2>1. meta' \in Meta
    BY <1>11, ClearFacts DEF Finish
  <2>. QED
    BY <1>11, <2>1, SMTT(30) DEF Finish
<1>12. CASE FinishFails
  BY <1>12 DEF FinishFails
<1>13. CASE Replay
  <2>1. next \in Row /\ next' \in 1..(MaxTree + 1)
    BY <1>13 DEF Replay
  <2>2. meta' \in Meta /\ built' \in [Row -> 0..MaxVersion]
    BY <1>13, <2>1, ApplyFacts DEF Replay, ParkOrApply
  <2>3. parked' \in SUBSET Gated
    BY <1>13, <2>1 DEF Replay, ParkOrApply
  <2>4. disarmed' \in BOOLEAN
    BY <1>13 DEF Replay
  <2>. QED
    BY <1>13, <2>1, <2>2, <2>3, <2>4 DEF Replay
<1>15. CASE ReplayDone
  <2>1. CASE pc = "opening"
    BY <1>15, <2>1, SMTT(30) DEF ReplayDone
  <2>2. CASE pc = "restore" /\ (load.stale \/ load.resume)
    BY <1>15, <2>2 DEF ReplayDone
  <2>. QED
    BY <1>15, <1>24, <2>1, <2>2 DEF ReplayDone
<1>16. CASE Grow
  BY <1>16 DEF Grow
<1>17. CASE LocalSet
  <2>1. written' \in 0..MaxWrites
    BY <1>17 DEF LocalSet
  <2>2. meta' \in Meta /\ local' \in 0..MaxWrites
    BY <1>17, <2>1, WriteFacts DEF LocalSet
  <2>. QED
    BY <1>17, <2>1, <2>2 DEF LocalSet
<1>18. CASE Evict
  BY <1>18 DEF Evict
<1>19. ASSUME NEW i \in Row, Drain(i) PROVE TypeOK'
  <2>1. meta' \in Meta /\ built' \in [Row -> 0..MaxVersion]
    BY <1>19, ApplyFacts DEF Drain
  <2>. QED
    BY <1>19, <2>1 DEF Drain
<1>20. CASE WipeDefinitions \/ RebuildDefinitions
  BY <1>20 DEF WipeDefinitions, RebuildDefinitions
<1>21. CASE Stop
  BY <1>21 DEF Stop
<1>22. ASSUME NEW v \in Version, Start(v) PROVE TypeOK'
  BY <1>22 DEF Start
<1>23. CASE UNCHANGED vars
  BY <1>23 DEF vars
<1>. QED
  BY <1>1, <1>2, <1>3, <1>4, <1>5, <1>6, <1>7, <1>8, <1>9, <1>10, <1>11, <1>12, <1>13, <1>14,
     <1>15, <1>16, <1>17, <1>18, <1>19, <1>20, <1>21, <1>22, <1>23 DEF Next, LoadStep

----------------------------------------------------------------------------
(* Nothing is missing below the watermark.                                 *)

\* The numbers of a state, which the steps below count with.
LEMMA Numbers ==
    ASSUME TypeOK
    PROVE  /\ MaxTree \in Nat \ {0} /\ tree \in Nat /\ tree <= MaxTree
           /\ meta.mark \in Nat /\ meta.version \in Nat /\ meta.pending \in BOOLEAN
           /\ meta.leaf \in Nat /\ next \in Nat \ {0} /\ next <= MaxTree + 1
           /\ parked \subseteq Row /\ handler \in Nat
           /\ \A i \in Row : i \in Nat /\ i >= 1 /\ i <= MaxTree /\ built[i] \in Nat
<1>1. /\ meta.mark \in Nat /\ meta.version \in Nat /\ meta.pending \in BOOLEAN
      /\ meta.leaf \in Nat
  BY BoundAssumption DEF TypeOK, Meta
<1>. QED
  BY <1>1, BoundAssumption DEF TypeOK, Row

\* The commit of an apply accounts for its change and forgets no other.
LEMMA ApplyAccounts ==
    ASSUME TypeOK, NEW i \in Row, Apply(i), handler # 0, parked' \in {parked, parked \ {i}}
    PROVE  AccountedNext(i) /\ \A j \in Row : Accounted(j) => AccountedNext(j)
BY ApplyFacts, Numbers DEF Accounted, AccountedNext

\* The rewind that starts a rebuild, with the value or without.
LEMMA PrepareFacts ==
    ASSUME TypeOK, Prepare \/ CaptureFails
    PROVE  /\ pc = "prepare" /\ pc' = "wipe" /\ next' = 1
           /\ meta'.mark = 0 /\ meta'.version = meta.version /\ meta'.pending
           /\ meta'.leaf = carried'
           /\ meta.pending => Prepare /\ carried' = meta.leaf /\ forfeit' = forfeit
           /\ ~meta.pending /\ Prepare => carried' = local /\ forfeit' = forfeit
           /\ CaptureFails => forfeit'
           /\ UNCHANGED <<rows, defs, handler, load, written, leftover, disarmed, unmarked>>
<1>1. carried' \in 0..MaxWrites
  BY BoundAssumption DEF Prepare, CaptureFails, TypeOK, Meta, Unset
<1>2. Rewound(carried')
  BY DEF Prepare, CaptureFails, Rewound
<1>3. meta'.mark = 0 /\ meta'.version = meta.version /\ meta'.pending /\ meta'.leaf = carried'
  BY <1>1, <1>2, RewindFacts
<1>4. /\ pc = "prepare" /\ pc' = "wipe" /\ next' = 1
      /\ UNCHANGED <<rows, defs, handler, load, written, leftover, disarmed, unmarked>>
  BY DEF Prepare, CaptureFails, history
<1>5. /\ meta.pending => Prepare /\ carried' = meta.leaf /\ forfeit' = forfeit
      /\ ~meta.pending /\ Prepare => carried' = local /\ forfeit' = forfeit
      /\ CaptureFails => forfeit'
  BY DEF Prepare, CaptureFails, history
<1>. QED
  BY <1>3, <1>4, <1>5

\* The end of a rebuild, as the steps below need it.
LEMMA FinishFacts ==
    ASSUME TypeOK, Finish
    PROVE  /\ pc = "finish" /\ Opened
           /\ meta'.mark = meta.mark /\ meta'.version = handler /\ ~meta'.pending
           /\ UNCHANGED <<rows, defs, handler, history, faults>>
<1>1. meta'.mark = meta.mark /\ meta'.version = handler /\ ~meta'.pending
  BY ClearFacts DEF Finish
<1>2. pc = "finish" /\ Opened /\ UNCHANGED <<rows, defs, handler, history, faults>>
  BY DEF Finish
<1>. QED
  BY <1>1, <1>2

\* Steps that touch no row, no watermark and no change.
QuietStep ==
    \/ Load \/ OpenFails \/ PrepareFails \/ DropFails \/ WipeDone \/ RestoreFails \/ FinishFails
    \/ ReplayFails \/ ReplayDone \/ Evict \/ WipeDefinitions \/ RebuildDefinitions \/ Stop
    \/ (\E v \in Version : Start(v)) \/ UNCHANGED vars

LEMMA QuietFacts ==
    ASSUME QuietStep PROVE UNCHANGED <<rows, meta>> /\ written' = written
BY DEF QuietStep, Load, OpenFails, PrepareFails, DropFails, WipeDone, RestoreFails, FinishFails,
       ReplayFails, ReplayDone, Evict, WipeDefinitions, RebuildDefinitions, Stop, Start, vars, history

LEMMA NextCases ==
    ASSUME [Next]_vars
    PROVE  \/ QuietStep \/ Prepare \/ CaptureFails \/ Wipe \/ RestoreLeaves \/ Finish \/ Replay
           \/ Grow \/ LocalSet \/ \E i \in Row : Drain(i)
BY DEF Next, LoadStep, QuietStep

\* Where a quiet step leads, and what it carries there.
LEMMA QuietMoves ==
    ASSUME QuietStep
    PROVE  \/ pc' = pc /\ UNCHANGED <<load, carried>> /\ (pc # "wipe" => next' = next)
           \/ pc' = "none"
           \/ Load
           \/ WipeDone
           \/ pc = "leaves" /\ pc' = "finish" /\ RestoreFails
           \/ pc = "finish" /\ pc' = "open" /\ FinishFails
           \/ pc = "sync" /\ pc' = "open" /\ ReplayFails
           \/ ReplayDone
BY DEF QuietStep, OpenFails, PrepareFails, DropFails, RestoreFails, FinishFails, ReplayFails,
       Evict, WipeDefinitions, RebuildDefinitions, Stop, Start, vars, history, LeaveLoad, Opened,
       memory

LEMMA CompleteQuiet ==
    ASSUME TypeOK, CompleteInv, QuietStep PROVE CompleteInv'
<1>1. tree' = tree /\ parked' = parked /\ meta' = meta /\ built' = built
  BY QuietFacts DEF rows
<1>2. \A i : Accounted(i)' <=> Accounted(i)
  BY <1>1 DEF Accounted
<1>3. /\ meta.mark <= tree /\ parked \subseteq 1..tree
      /\ \A i \in 1..meta.mark : Accounted(i)
  BY DEF CompleteInv
<1>4. CASE pc' = pc /\ (pc # "wipe" => next' = next)
  BY <1>1, <1>2, <1>3, <1>4 DEF CompleteInv, Replaying
<1>5. CASE pc' = "none"
  BY <1>1, <1>2, <1>3, <1>5 DEF CompleteInv, Replaying
<1>6. CASE Load \/ WipeDone
  <2>1. pc' \in Replaying \ {"sync"} /\ next' = meta.mark + 1
    BY <1>6 DEF Load, WipeDone, Replaying
  <2>. QED
    BY <1>1, <1>2, <1>3, <2>1, Numbers DEF CompleteInv, Replaying
<1>7. CASE pc \in {"leaves", "finish"} /\ pc' \in {"finish", "open"}
  BY <1>1, <1>2, <1>3, <1>7, Numbers DEF CompleteInv, Replaying
<1>8. CASE pc = "sync" /\ pc' = "open"
  BY <1>1, <1>2, <1>3, <1>8 DEF CompleteInv, Replaying
<1>9. CASE ReplayDone
  <2>1. pc \in Replaying /\ next > tree
    BY <1>9 DEF ReplayDone
  <2>2. \A i \in 1..tree : Accounted(i)
    BY <2>1, Numbers DEF CompleteInv
  <2>3. CASE pc' \in {"prepare", "leaves"}
    BY <1>1, <1>2, <1>3, <2>2, <2>3 DEF CompleteInv, Replaying
  <2>4. CASE pc' = "restore" /\ next' = meta.mark + 1
    BY <1>1, <1>2, <1>3, <2>4, Numbers DEF CompleteInv, Replaying
  <2>5. CASE pc' = "open"
    <3>1. \A i \in parked : \A j \in 1..i : Accounted(j)
      BY <1>3, <2>2, Numbers
    <3>. QED
      BY <1>1, <1>2, <1>3, <2>5, <3>1 DEF CompleteInv, Replaying
  <2>. QED
    BY <1>9, <2>3, <2>4, <2>5 DEF ReplayDone, Opened
<1>. QED
  BY <1>4, <1>5, <1>6, <1>7, <1>8, <1>9, QuietMoves

LEMMA CompleteStep ==
    ASSUME TypeOK, CompleteInv, [Next]_vars PROVE CompleteInv'
<1>1. CASE QuietStep
  BY <1>1, CompleteQuiet
<1>2. CASE Prepare \/ CaptureFails
  <2>1. pc' = "wipe" /\ meta'.mark = 0 /\ UNCHANGED <<tree, parked>>
    BY <1>2, PrepareFacts DEF rows
  <2>. QED
    BY <2>1, Numbers DEF CompleteInv, Replaying
<1>3. CASE Wipe
  <2>1. pc = "wipe" /\ pc' = "wipe" /\ UNCHANGED <<tree, parked, meta>>
    BY <1>3 DEF Wipe
  <2>. QED
    BY <2>1, Numbers DEF CompleteInv, Replaying
<1>4. CASE RestoreLeaves
  <2>1. /\ pc = "leaves" /\ pc' = "finish" /\ meta'.mark = meta.mark
        /\ UNCHANGED <<tree, built, parked>>
    <3>1. carried \in 0..MaxWrites
      BY DEF TypeOK
    <3>2. carried # Unset => WriteLocal(carried)
      BY <1>4 DEF RestoreLeaves
    <3>3. meta'.mark = meta.mark
      BY <1>4, <3>1, <3>2, WriteFacts DEF RestoreLeaves
    <3>. QED
      BY <1>4, <3>3 DEF RestoreLeaves
  <2>. QED
    BY <2>1 DEF CompleteInv, Accounted, Replaying
<1>5. CASE Finish
  <2>1. pc = "finish" /\ pc' = "open" /\ meta'.mark = meta.mark /\ UNCHANGED <<tree, built, parked>>
    BY <1>5, FinishFacts DEF Opened, rows
  <2>. QED
    BY <2>1, Numbers DEF CompleteInv, Accounted, Replaying
<1>6. CASE Replay
  <2>1. /\ pc \in Replaying /\ next <= tree /\ next \in Row /\ handler # 0 /\ next' = next + 1
        /\ ParkOrApply(next) /\ UNCHANGED <<tree, pc>>
    BY <1>6, Numbers DEF Replay, TypeOK, Replaying, Row
  <2>2. /\ meta.mark < next /\ parked \subseteq 1..tree
        /\ \A i \in 1..(next - 1) : Accounted(i)
        /\ pc = "sync" => \A i \in parked : \A j \in 1..i : Accounted(j)
    BY <2>1 DEF CompleteInv
  <2>3. /\ AccountedNext(next) /\ \A j \in Row : Accounted(j) => AccountedNext(j)
        /\ meta'.mark \in {meta.mark, next} /\ parked' \in {parked, parked \cup {next}}
    <3>1. CASE Apply(next) /\ UNCHANGED parked
      BY <2>1, <3>1, ApplyAccounts, ApplyFacts
    <3>2. CASE parked' = parked \cup {next} /\ UNCHANGED <<built, meta>>
      BY <3>2 DEF Accounted, AccountedNext
    <3>. QED
      BY <2>1, <3>1, <3>2 DEF ParkOrApply
  <2>4. \A i \in 1..next : AccountedNext(i)
    BY <2>1, <2>2, <2>3, Numbers DEF Row
  <2>5. meta'.mark < next' /\ next' <= tree' + 1 /\ meta'.mark <= tree' /\ parked' \subseteq 1..tree'
    BY <2>1, <2>2, <2>3, Numbers
  <2>6. pc' = "sync" => \A i \in parked' : \A j \in 1..i : AccountedNext(j)
    BY <2>1, <2>2, <2>3, <2>4, Numbers DEF Row
  <2>7. next' - 1 = next /\ \A i \in 1..meta'.mark : AccountedNext(i)
    BY <2>1, <2>2, <2>3, <2>4, Numbers
  <2>8. pc' \in Replaying
    BY <2>1
  <2>. QED
    BY <2>4, <2>5, <2>6, <2>7, <2>8 DEF CompleteInv, Replaying, Accounted, AccountedNext
<1>7. CASE Grow
  <2>1. /\ tree' = tree + 1 /\ UNCHANGED <<built, parked, meta>>
        /\ \/ pc = "open" /\ pc' = "sync" /\ next' = meta.mark + 1
           \/ pc = "none" /\ pc' = "none"
    BY <1>7 DEF Grow
  <2>. QED
    BY <2>1, Numbers DEF CompleteInv, Accounted, Replaying
<1>8. CASE LocalSet
  <2>1. pc = "open" /\ WriteLocal(written') /\ UNCHANGED <<tree, built, parked, pc>>
    BY <1>8 DEF LocalSet
  <2>2. meta'.mark = meta.mark
    <3>1. written' = written + 1 /\ written < MaxWrites
      BY <1>8 DEF LocalSet
    <3>2. written' \in 0..MaxWrites
      BY <3>1, BoundAssumption DEF TypeOK
    <3>. QED
      BY <2>1, <3>2, WriteFacts
  <2>. QED
    BY <2>1, <2>2 DEF CompleteInv, Accounted, Replaying
<1>9. ASSUME NEW i \in Row, Drain(i) PROVE CompleteInv'
  <2>1. /\ pc = "open" /\ pc' = "open" /\ i \in parked /\ Apply(i) /\ parked' = parked \ {i}
        /\ tree' = tree /\ handler # 0
    BY <1>9 DEF Drain, TypeOK
  <2>2. AccountedNext(i) /\ \A j \in Row : Accounted(j) => AccountedNext(j)
    BY <2>1, ApplyAccounts
  <2>3. meta'.mark = IF i > meta.mark THEN i ELSE meta.mark
    BY <2>1, ApplyFacts
  <2>4. /\ meta.mark <= tree /\ parked \subseteq 1..tree
        /\ \A k \in 1..meta.mark : Accounted(k)
        /\ \A k \in parked : \A j \in 1..k : Accounted(j)
    BY <2>1 DEF CompleteInv
  <2>5. \A k \in 1..meta'.mark : AccountedNext(k)
    BY <2>1, <2>2, <2>3, <2>4, Numbers DEF Row
  <2>6. \A k \in parked' : \A j \in 1..k : AccountedNext(j)
    BY <2>1, <2>2, <2>4, Numbers DEF Row
  <2>7. meta'.mark <= tree' /\ parked' \subseteq 1..tree'
    BY <2>1, <2>3, <2>4, Numbers
  <2>. QED
    BY <2>1, <2>5, <2>6, <2>7 DEF CompleteInv, Replaying, Accounted, AccountedNext
<1>. QED
  BY <1>1, <1>2, <1>3, <1>4, <1>5, <1>6, <1>7, <1>8, <1>9, NextCases

----------------------------------------------------------------------------
(* What the steps that apply do to the `_meta` row, the row and the value. *)

LEMMA ReplayFacts ==
    ASSUME TypeOK, Replay
    PROVE  /\ pc \in Replaying /\ pc' = pc /\ meta'.pending = meta.pending
           /\ meta'.leaf = meta.leaf
           /\ UNCHANGED <<local, handler, memory, written, leftover, forfeit, unmarked>>
           /\ \/ UNCHANGED <<built, meta, disarmed>>
              \/ /\ meta'.version = handler /\ \A j \in Row : built'[j] \in {built[j], handler}
                 /\ disarmed' = (disarmed \/ (pc = "opening" /\ load.stale /\ meta' # meta))
<1>1. /\ pc \in Replaying /\ pc' = pc /\ next \in Row /\ ParkOrApply(next)
      /\ UNCHANGED <<local, handler, memory, written, leftover, forfeit, unmarked>>
      /\ disarmed' = (disarmed \/ (pc = "opening" /\ load.stale /\ meta' # meta))
  BY Numbers DEF Replay, Row
<1>2. CASE Apply(next)
  BY <1>1, <1>2, ApplyFacts
<1>3. CASE UNCHANGED <<built, meta>>
  <2>1. disarmed' = disarmed
    BY <1>1, <1>3 DEF TypeOK
  <2>. QED
    BY <1>1, <1>3, <2>1
<1>. QED
  BY <1>1, <1>2, <1>3 DEF ParkOrApply

LEMMA DrainFacts ==
    ASSUME TypeOK, NEW i \in Row, Drain(i)
    PROVE  /\ pc = "open" /\ pc' = pc /\ meta'.pending = meta.pending /\ meta'.leaf = meta.leaf
           /\ meta'.version = handler /\ \A j \in Row : built'[j] \in {built[j], handler}
           /\ UNCHANGED <<local, handler, memory, history>>
<1>1. pc = "open" /\ pc' = pc /\ Apply(i) /\ UNCHANGED <<local, handler, memory, history>>
  BY DEF Drain
<1>. QED
  BY <1>1, ApplyFacts

LEMMA LocalSetFacts ==
    ASSUME TypeOK, LocalSet
    PROVE  /\ pc = "open" /\ pc' = pc /\ meta'.pending = meta.pending /\ meta'.version = handler
           /\ local' = written' /\ ~forfeit'
           /\ UNCHANGED <<built, handler, memory, leftover, disarmed, unmarked>>
<1>1. /\ pc = "open" /\ pc' = pc /\ built[LocalRow] # 0 /\ written' = written + 1
      /\ written < MaxWrites /\ WriteLocal(written') /\ ~forfeit'
      /\ UNCHANGED <<built, handler, memory, leftover, disarmed, unmarked>>
  BY DEF LocalSet
<1>2. written' \in 0..MaxWrites
  BY <1>1, BoundAssumption DEF TypeOK
<1>. QED
  BY <1>1, <1>2, WriteFacts DEF LocalRow

LEMMA RestoreFacts ==
    ASSUME TypeOK, RestoreLeaves
    PROVE  /\ pc = "leaves" /\ pc' = "finish" /\ meta'.pending = meta.pending
           /\ meta'.leaf = meta.leaf
           /\ IF carried # Unset
              THEN /\ meta'.version = handler /\ local' = (IF built[1] # 0 THEN carried ELSE local)
                   /\ forfeit' = (forfeit \/ built[1] = 0)
              ELSE meta'.version = meta.version /\ UNCHANGED <<local, forfeit>>
           /\ UNCHANGED <<built, handler, memory, written, leftover, disarmed, unmarked>>
<1>1. /\ pc = "leaves" /\ pc' = "finish"
      /\ IF carried # Unset THEN WriteLocal(carried) /\ forfeit' = (forfeit \/ built[1] = 0)
         ELSE UNCHANGED <<local, meta, forfeit>>
      /\ UNCHANGED <<built, handler, memory, written, leftover, disarmed, unmarked>>
  BY DEF RestoreLeaves, LocalRow
<1>2. carried \in 0..MaxWrites
  BY DEF TypeOK
<1>. QED
  BY <1>1, <1>2, WriteFacts

\* What a quiet step does to the flags, the handler and the leftover rows.
LEMMA QuietFlags ==
    ASSUME QuietStep
    PROVE  /\ UNCHANGED forfeit \/ (RestoreFails /\ forfeit')
           /\ UNCHANGED unmarked \/ (FinishFails /\ unmarked')
           /\ UNCHANGED disarmed \/ WipeDone
           /\ UNCHANGED leftover \/ (DropFails /\ leftover' = leftover \cup {next})
           /\ UNCHANGED handler \/ (Stop /\ pc' = "none")
                 \/ (handler = 0 /\ (\E v \in Version : Start(v)))
<1>1. CASE Load \/ OpenFails \/ PrepareFails \/ DropFails \/ WipeDone \/ RestoreFails
  BY <1>1 DEF Load, OpenFails, PrepareFails, DropFails, WipeDone, RestoreFails, history
<1>2. CASE FinishFails \/ ReplayFails \/ ReplayDone \/ Evict
  BY <1>2 DEF FinishFails, ReplayFails, ReplayDone, Evict, history
<1>3. CASE WipeDefinitions \/ RebuildDefinitions \/ Stop \/ UNCHANGED vars
  BY <1>3 DEF WipeDefinitions, RebuildDefinitions, Stop, vars, history, LeaveLoad
<1>4. CASE \E v \in Version : Start(v)
  BY <1>4 DEF Start, history
<1>. QED
  BY <1>1, <1>2, <1>3, <1>4 DEF QuietStep

----------------------------------------------------------------------------
(* An open rebuild holds its mark and its values.                          *)

LEMMA MarkQuiet ==
    ASSUME TypeOK, MarkInv, QuietStep PROVE MarkInv'
<1>1. meta' = meta /\ (UNCHANGED unmarked \/ (FinishFails /\ unmarked'))
  BY QuietFacts, QuietFlags
<1>2. handler' = handler \/ pc' = "none"
  BY QuietFlags DEF Start, TypeOK
<1>3. CASE pc' = "none"
  BY <1>3 DEF MarkInv
<1>4. CASE /\ pc' # "none" /\ unmarked' = unmarked
           /\ pc' = pc /\ UNCHANGED <<load, carried>>
  BY <1>1, <1>2, <1>4 DEF MarkInv, Rebuilding
<1>5. CASE Load
  BY <1>1, <1>2, <1>5 DEF MarkInv, Rebuilding, Load
<1>6. CASE WipeDone
  <2>1. pc = "wipe" /\ pc' = "restore" /\ UNCHANGED memory /\ load.stale
    BY <1>6 DEF WipeDone, TypeOK
  <2>. QED
    BY <1>1, <2>1 DEF MarkInv, Rebuilding, memory
<1>7. CASE pc = "leaves" /\ pc' = "finish" /\ RestoreFails
  BY <1>1, <1>2, <1>7 DEF MarkInv, Rebuilding, RestoreFails, memory
<1>8. CASE pc = "finish" /\ pc' = "open" /\ FinishFails
  <2>1. unmarked'
    BY <1>8 DEF FinishFails
  <2>. QED
    BY <1>8, <2>1 DEF MarkInv
<1>9. CASE pc = "sync" /\ pc' = "open" /\ unmarked' = unmarked
  BY <1>1, <1>2, <1>9 DEF MarkInv
<1>10. CASE ReplayDone /\ unmarked' = unmarked
  <2>1. CASE pc = "opening"
    <3>1. pc' = (IF load.stale THEN "prepare" ELSE "restore") /\ UNCHANGED memory
      BY <1>10, <2>1 DEF ReplayDone
    <3>. QED
      BY <1>1, <1>2, <2>1, <3>1 DEF MarkInv, Rebuilding, memory
  <2>2. CASE pc = "restore" /\ pc' = "leaves" /\ Rebuilding /\ UNCHANGED memory
    BY <1>1, <1>2, <2>2 DEF MarkInv, Rebuilding, memory
  <2>3. CASE pc' = "open" /\ (pc = "sync" \/ (pc = "restore" /\ ~Rebuilding))
    BY <1>1, <1>2, <1>10, <2>3 DEF MarkInv, Rebuilding
  <2>. QED
    BY <1>10, <2>1, <2>2, <2>3 DEF ReplayDone, Opened, Rebuilding, memory
<1>. QED
  <2>1. FinishFails => pc = "finish" /\ pc' = "open"
    BY DEF FinishFails, Opened
  <2>2. Load \/ ReplayDone => unmarked' = unmarked
    BY DEF Load, ReplayDone, history
  <2>3. ReplayFails => unmarked' = unmarked
    BY DEF ReplayFails, history
  <2>. QED
    BY <1>1, <1>3, <1>4, <1>5, <1>6, <1>7, <1>8, <1>9, <1>10, <2>1, <2>2, <2>3, QuietMoves

LEMMA MarkStep ==
    ASSUME TypeOK, MarkInv, [Next]_vars PROVE MarkInv'
<1>1. CASE QuietStep
  BY <1>1, MarkQuiet
<1>2. CASE Prepare \/ CaptureFails
  BY <1>2, PrepareFacts DEF MarkInv
<1>3. CASE Wipe
  BY <1>3 DEF Wipe, MarkInv, Rebuilding, memory
<1>4. CASE RestoreLeaves
  BY <1>4, RestoreFacts DEF MarkInv, Rebuilding, memory
<1>5. CASE Finish
  BY <1>5, FinishFacts DEF MarkInv, Opened, rows
<1>6. CASE Replay
  BY <1>6, ReplayFacts DEF MarkInv, Rebuilding, memory, Replaying
<1>7. CASE Grow
  BY <1>7 DEF Grow, MarkInv, memory, history
<1>8. CASE LocalSet
  BY <1>8, LocalSetFacts DEF MarkInv, memory
<1>9. ASSUME NEW i \in Row, Drain(i) PROVE MarkInv'
  BY <1>9, DrainFacts DEF MarkInv, memory, history
<1>. QED
  BY <1>1, <1>2, <1>3, <1>4, <1>5, <1>6, <1>7, <1>8, <1>9, NextCases

----------------------------------------------------------------------------
(* Rows are of the version the `_meta` row has, or of the handler.         *)

\* The places where the rows are the handler's.
Current == pc \in {"restore", "sync", "leaves", "finish", "open"} \/ (pc = "opening" /\ ~load.stale)

LEMMA VersionQuiet ==
    ASSUME TypeOK, VersionInv, MarkInv, QuietStep PROVE VersionInv'
<1>1. built' = built /\ meta' = meta
  BY QuietFacts DEF rows
<1>2. handler' = handler \/ pc' = "none"
  BY QuietFlags DEF Start, TypeOK
<1>3. /\ UNCHANGED disarmed \/ WipeDone
      /\ leftover' = leftover \/ (DropFails /\ leftover' = leftover \cup {next})
  BY QuietFlags
<1>4. CASE WipeDone
  <2>1. pc = "wipe" /\ next > MaxTree /\ pc' = "restore" /\ leftover' = leftover
    BY <1>4 DEF WipeDone
  <2>2. \A i \in Row \ leftover : built[i] = 0
    BY <2>1, Numbers DEF VersionInv
  <2>. QED
    BY <1>1, <2>1, <2>2 DEF VersionInv
<1>5. CASE DropFails
  <2>1. /\ pc = "wipe" /\ pc' = "wipe" /\ next' = next + 1 /\ disarmed' = disarmed
        /\ leftover' = leftover \cup {next}
    BY <1>5 DEF DropFails
  <2>2. \A i \in 1..(next' - 1) : i \in 1..(next - 1) \/ i = next
    BY <2>1, Numbers
  <2>. QED
    BY <1>1, <2>1, <2>2 DEF VersionInv
<1>6. CASE /\ leftover' = leftover /\ disarmed' = disarmed /\ pc' # "wipe"
           /\ Current' => Current /\ handler' = handler
  BY <1>1, <1>6 DEF VersionInv, Current
<1>7. CASE pc' = "none" /\ leftover' = leftover /\ disarmed' = disarmed
  BY <1>1, <1>7 DEF VersionInv
<1>8. CASE Load
  <2>1. /\ pc' = "opening" /\ handler' = handler
        /\ load'.stale = (meta.version # 0 /\ meta.version # handler)
        /\ leftover' = leftover /\ disarmed' = disarmed
    BY <1>8 DEF Load, history
  <2>. QED
    BY <1>1, <2>1 DEF VersionInv
<1>9. CASE /\ leftover' = leftover /\ disarmed' = disarmed /\ pc' = pc /\ pc' # "none"
           /\ load' = load /\ ~DropFails
  <2>1. CASE pc = "wipe"
    <3>1. next' = next
      BY <1>9, <2>1 DEF QuietStep, Load, OpenFails, PrepareFails, LeaveLoad, WipeDone,
            RestoreFails, FinishFails, ReplayFails, ReplayDone, Replaying, Evict,
            WipeDefinitions, RebuildDefinitions, Stop, Start, vars
    <3>. QED
      BY <1>1, <1>2, <1>9, <2>1, <3>1 DEF VersionInv
  <2>2. CASE pc # "wipe"
    BY <1>1, <1>2, <1>9, <2>2 DEF VersionInv
  <2>. QED
    BY <2>1, <2>2
<1>10. CASE ReplayDone
  <2>1. leftover' = leftover /\ disarmed' = disarmed /\ handler' = handler
    BY <1>10 DEF ReplayDone, history
  <2>2. pc' # "wipe" /\ (Current' => Current)
    BY <1>10 DEF ReplayDone, Opened, Current, Replaying, memory
  <2>. QED
    BY <1>6, <2>1, <2>2
<1>11. CASE RestoreFails \/ FinishFails \/ (ReplayFails /\ pc = "sync")
  <2>1. leftover' = leftover /\ disarmed' = disarmed /\ handler' = handler
    BY <1>11 DEF RestoreFails, FinishFails, ReplayFails, history
  <2>2. pc' # "wipe" /\ Current
    BY <1>11 DEF RestoreFails, FinishFails, ReplayFails, Opened, Current
  <2>. QED
    BY <1>6, <2>1, <2>2
<1>. QED
  BY <1>3, <1>4, <1>5, <1>7, <1>8, <1>9, <1>10, <1>11, QuietMoves

\* Rows that a step at most brings to the handler's version, which it stamps.
LEMMA Stamped ==
    ASSUME TypeOK, VersionInv, handler' = handler, leftover' = leftover, disarmed' = disarmed,
           Current, pc' # "wipe", meta'.version \in {meta.version, handler},
           \A j \in Row : built'[j] \in {built[j], handler},
           (\E j \in Row : built'[j] # built[j]) => meta'.version = handler
    PROVE  VersionInv'
<1>1. ~disarmed' => \A i \in Row \ leftover' : built[i] \in {0, meta.version}
                                            /\ built[i] \in {0, handler}
  BY DEF VersionInv, Current
<1>2. ~disarmed' => \A i \in Row \ leftover' : built'[i] \in {0, handler}
  BY <1>1
<1>3. ~disarmed' => \A i \in Row \ leftover' : built'[i] \in {0, meta'.version}
  BY <1>1, <1>2
<1>. QED
  BY <1>2, <1>3 DEF VersionInv

LEMMA VersionStep ==
    ASSUME TypeOK, VersionInv, MarkInv, [Next]_vars PROVE VersionInv'
<1>1. CASE QuietStep
  BY <1>1, VersionQuiet
<1>2. CASE Prepare \/ CaptureFails
  <2>1. /\ pc' = "wipe" /\ next' = 1 /\ meta'.version = meta.version
        /\ UNCHANGED <<built, leftover, disarmed, handler>>
    BY <1>2, PrepareFacts DEF rows
  <2>. QED
    BY <2>1 DEF VersionInv
<1>3. CASE Wipe
  <2>1. /\ pc = "wipe" /\ pc' = "wipe" /\ next \in Row /\ next' = next + 1
        /\ leftover' = leftover \ {next} /\ UNCHANGED <<meta, disarmed, handler>>
        /\ built' = [built EXCEPT ![next] = 0]
    BY <1>3, Numbers DEF Wipe, Row
  <2>2. built'[next] = 0 /\ \A j \in Row \ {next} : built'[j] = built[j]
    BY <2>1 DEF TypeOK
  <2>3. \A i \in 1..(next' - 1) : i \in Row /\ (i \in 1..(next - 1) \/ i = next)
    BY <2>1, Numbers DEF Row
  <2>4. \A i \in 1..(next' - 1) : i \in leftover' \/ built'[i] = 0
    BY <2>1, <2>2, <2>3 DEF VersionInv
  <2>. QED
    BY <2>1, <2>2, <2>4 DEF VersionInv
<1>4. CASE RestoreLeaves
  <2>1. Current /\ pc' # "wipe" /\ UNCHANGED <<built, handler, leftover, disarmed>>
        /\ meta'.version \in {meta.version, handler}
    BY <1>4, RestoreFacts DEF Current
  <2>. QED
    BY <2>1, Stamped
<1>5. CASE Finish
  <2>1. /\ Current /\ pc' # "wipe" /\ UNCHANGED <<built, handler, leftover, disarmed>>
        /\ meta'.version = handler
    BY <1>5, FinishFacts DEF Current, Opened, rows, history
  <2>. QED
    BY <2>1, Stamped
<1>6. CASE Replay
  <2>1. pc' = pc /\ UNCHANGED <<handler, leftover, load>> /\ pc # "wipe"
    BY <1>6, ReplayFacts DEF memory, Replaying
  <2>2. CASE UNCHANGED <<built, meta, disarmed>>
    BY <2>1, <2>2 DEF VersionInv
  <2>3. CASE /\ meta'.version = handler /\ \A j \in Row : built'[j] \in {built[j], handler}
             /\ disarmed' = (disarmed \/ (pc = "opening" /\ load.stale /\ meta' # meta))
    <3>1. CASE pc = "opening" /\ load.stale
      <4>1. CASE disarmed'
        BY <2>1, <4>1 DEF VersionInv
      <4>2. CASE ~disarmed'
        <5>1. ~disarmed /\ meta' = meta
          BY <2>3, <3>1, <4>2
        <5>. QED
          BY <2>1, <2>3, <3>1, <5>1 DEF VersionInv
      <4>. QED
        BY <4>1, <4>2
    <3>2. CASE ~(pc = "opening" /\ load.stale)
      <4>1. Current /\ disarmed' = disarmed
        BY <1>6, <2>3, <3>2, ReplayFacts DEF Current, Replaying, TypeOK
      <4>. QED
        BY <2>1, <2>3, <4>1, Stamped
    <3>. QED
      BY <3>1, <3>2
  <2>. QED
    BY <1>6, <2>2, <2>3, ReplayFacts
<1>7. CASE Grow
  BY <1>7 DEF Grow, VersionInv, memory, history
<1>8. CASE LocalSet
  <2>1. Current /\ pc' # "wipe" /\ UNCHANGED <<built, handler, leftover, disarmed>>
        /\ meta'.version = handler
    BY <1>8, LocalSetFacts DEF Current
  <2>. QED
    BY <2>1, Stamped
<1>9. ASSUME NEW i \in Row, Drain(i) PROVE VersionInv'
  <2>1. Current /\ pc' # "wipe" /\ UNCHANGED <<handler, leftover, disarmed>>
        /\ meta'.version = handler /\ \A j \in Row : built'[j] \in {built[j], handler}
    BY <1>9, DrainFacts DEF Current, history
  <2>. QED
    BY <2>1, Stamped
<1>. QED
  BY <1>1, <1>2, <1>3, <1>4, <1>5, <1>6, <1>7, <1>8, <1>9, NextCases

----------------------------------------------------------------------------
(* The last device-local value is in its row or on the `_meta` row.        *)

LEMMA ValueStep ==
    ASSUME TypeOK, MarkInv, ValueInv, [Next]_vars PROVE ValueInv'
<1>1. CASE QuietStep
  <2>1. /\ UNCHANGED <<local, meta, written>>
        /\ UNCHANGED forfeit \/ forfeit'
        /\ UNCHANGED unmarked \/ unmarked'
    BY <1>1, QuietFacts, QuietFlags DEF rows
  <2>2. pc' = "finish" => pc = "finish" \/ forfeit'
    BY <1>1, QuietMoves DEF Load, WipeDone, RestoreFails, ReplayDone, Opened
  <2>3. ~forfeit' /\ ~unmarked' => ~forfeit /\ ~unmarked
    BY <1>1, QuietFlags
  <2>. QED
    BY <2>1, <2>2, <2>3 DEF ValueInv
<1>2. CASE Prepare \/ CaptureFails
  BY <1>2, PrepareFacts DEF ValueInv, rows
<1>3. CASE Wipe
  BY <1>3 DEF Wipe, ValueInv, MarkInv
<1>4. CASE RestoreLeaves
  BY <1>4, RestoreFacts DEF ValueInv, MarkInv
<1>5. CASE Finish
  BY <1>5, FinishFacts DEF ValueInv, Opened, rows, history
<1>6. CASE Replay
  BY <1>6, ReplayFacts DEF ValueInv, Replaying
<1>7. CASE Grow
  BY <1>7 DEF Grow, ValueInv, history
<1>8. CASE LocalSet
  BY <1>8, LocalSetFacts DEF ValueInv, MarkInv
<1>9. ASSUME NEW i \in Row, Drain(i) PROVE ValueInv'
  BY <1>9, DrainFacts DEF ValueInv, history
<1>. QED
  BY <1>1, <1>2, <1>3, <1>4, <1>5, <1>6, <1>7, <1>8, <1>9, NextCases

----------------------------------------------------------------------------

LEMMA ReindexInvStep == ReindexInv /\ [Next]_vars => ReindexInv'
BY TypeStep, CompleteStep, MarkStep, VersionStep, ValueStep DEF ReindexInv

\* The inductive invariant holds throughout.
LEMMA ReindexInvHolds == Spec => []ReindexInv
BY ReindexInvInit, ReindexInvStep, PTL DEF Spec

\* What the object's tables and the load hold is of its kind.
THEOREM TypeCorrect == Spec => []TypeOK
<1>1. ReindexInv => TypeOK
  BY DEF ReindexInv
<1>. QED
  BY <1>1, ReindexInvHolds, PTL

\* However often the process died in a rebuild, and with whatever handlers it
\* came back, an open object misses no row.  Its rows are its handler's, but
\* for a collection that could not be dropped and for a load broken off between
\* the listener's replay, which stamps the new version, and the rewind: there
\* the old rows stay, and nothing is claimed of their version.
THEOREM RowsRebuilt == Spec => []RowsAreRebuilt
<1>1. ReindexInv => RowsAreRebuilt
  <2>. SUFFICES ASSUME ReindexInv, pc = "open" PROVE RowsAreRebuilt
    BY DEF RowsAreRebuilt
  <2>1. \A i \in 1..tree : Accounted(i) \/ i > meta.mark
    BY Numbers DEF ReindexInv, CompleteInv
  <2>2. ~disarmed => \A i \in Row \ leftover : built[i] \in {0, handler}
    BY DEF ReindexInv, VersionInv
  <2>3. ~unmarked => meta.version \in {0, handler} /\ ~meta.pending
    BY DEF ReindexInv, MarkInv
  <2>. QED
    BY <2>1, <2>2, <2>3 DEF RowsAreRebuilt, Accounted
<1>. QED
  BY <1>1, ReindexInvHolds, PTL

\* An open object has the device-local value last written to it, unless a
\* storage error lost it or left the mark of a rebuild.
THEOREM ValueSurvives == Spec => []LocalValueSurvives
<1>1. ReindexInv => LocalValueSurvives
  BY DEF ReindexInv, ValueInv, MarkInv, LocalValueSurvives
<1>. QED
  BY <1>1, ReindexInvHolds, PTL

=============================================================================
