---------------------------- MODULE TreeSync_proofs ---------------------------
(***************************************************************************)
(* Proofs about TreeSync, for any trees, peers and bounds: its type        *)
(* invariant, that the watermark covers no tree the projection is behind   *)
(* on, that in a caught-up session every such tree is in somebody's hands, *)
(* and that a round leaves nothing behind.                                 *)
(***************************************************************************)
EXTENDS TreeSync, TLAPS, FiniteSetTheorems, SequenceTheorems

\* A finite set of numbers that is not empty has a greatest one: of the sets
\* of what exceeds a member, a smallest one is empty.
LEMMA GreatestExists ==
    ASSUME NEW S \in SUBSET Nat, IsFiniteSet(S), S # {}
    PROVE  \E n \in S : \A x \in S : x <= n
<1>. DEFINE Above(x) == {y \in S : y > x}
            Aboves == {Above(x) : x \in S}
<1>1. IsWellFoundedOn(StrictSubsetOrdering(S), SUBSET S)
  BY FS_StrictSubsetOrderingWellFounded, FS_FiniteSubsetsOfFinite
<1>2. Aboves \subseteq SUBSET S /\ Aboves # {}
  OBVIOUS
<1>3. PICK m \in Aboves : \A a \in Aboves : <<a, m>> \notin StrictSubsetOrdering(S)
  <2>. HIDE DEF Aboves
  <2>. QED
    BY <1>1, <1>2, WFMin
<1>4. PICK x \in S : m = Above(x)
  OBVIOUS
<1>5. m = {}
  <2>1. SUFFICES ASSUME NEW y \in m
                 PROVE  FALSE
    OBVIOUS
  <2>2. y \in S /\ y > x /\ Above(y) \in Aboves
    BY <1>4
  <2>3. Above(y) \subseteq Above(x) /\ y \notin Above(y) /\ y \in Above(x)
    <3>1. S \subseteq Int /\ x \in Int /\ y \in Int
      BY <2>2
    <3>2. \A z \in S : z > y => z > x
      BY <2>2, <3>1
    <3>3. ~(y > y)
      BY <3>1
    <3>. QED
      BY <2>2, <3>2, <3>3
  <2>4. <<Above(y), m>> \in StrictSubsetOrdering(S)
    BY <2>2, <2>3, <1>4 DEF StrictSubsetOrdering
  <2>. QED
    BY <2>4, <2>2, <1>3
<1>. QED
  BY <1>4, <1>5

\* The greatest AddSeq bounds them all, and is one of them or 0.
MaxIsMax ==
    /\ MaxLastAddSeq \in Nat
    /\ \A t \in Tree : addSeq[t] <= MaxLastAddSeq
    /\ MaxLastAddSeq = 0 \/ \E t \in Tree : MaxLastAddSeq = addSeq[t]

LEMMA MaxFacts == addSeq \in [Tree -> Nat] => MaxIsMax
<1>. SUFFICES ASSUME addSeq \in [Tree -> Nat]
              PROVE  MaxIsMax
  OBVIOUS
<1>. DEFINE Image == {addSeq[t] : t \in Tree}
            Numbers == {0} \cup Image
<1>1. IsFiniteSet(Numbers)
  <2>1. addSeq \in Surjection(Tree, Image)
    BY DEF Surjection
  <2>2. IsFiniteSet(Image)
    BY <2>1, TreeAssumption, FS_Surjection
  <2>. QED
    BY <2>2, FS_EmptySet, FS_AddElement, SMTT(30)
<1>2. Numbers \in SUBSET Nat /\ Numbers # {}
  OBVIOUS
<1>3. \E n \in Numbers : \A x \in Numbers : x <= n
  <2>. HIDE DEF Numbers
  <2>. QED
    BY <1>1, <1>2, GreatestExists
<1>4. MaxLastAddSeq \in Numbers /\ \A t \in Tree : addSeq[t] <= MaxLastAddSeq
  <2>1. \E n \in Numbers : \A t \in Tree : addSeq[t] <= n
    BY <1>3
  <2>2. MaxLastAddSeq = CHOOSE n \in Numbers : \A t \in Tree : addSeq[t] <= n
    BY DEF MaxLastAddSeq
  <2>. HIDE DEF Numbers
  <2>. QED
    BY <2>1, <2>2
<1>. QED
  BY <1>2, <1>4 DEF MaxIsMax

LEMMA MaxFactsNext == addSeq' \in [Tree -> Nat] => MaxIsMax'
<1>. DEFINE Numbered == addSeq \in [Tree -> Nat]
<1>1. Numbered => MaxIsMax
  BY MaxFacts
<1>. HIDE DEF Numbered
<1>2. Numbered' => MaxIsMax'
  BY <1>1, PTL
<1>. QED
  BY <1>2 DEF Numbered

----------------------------------------------------------------------------
(* The queue: sequences without repetition.                                *)

\* The sequence of a finite set: each element once.
LEMMA SetToSeqFacts ==
    ASSUME NEW S, IsFiniteSet(S)
    PROVE  /\ SetToSeq(S) \in Seq(S) /\ IsInjective(SetToSeq(S))
           /\ Range(SetToSeq(S)) = S
<1>. DEFINE n == Cardinality(S)
            s == SetToSeq(S)
<1>1. n \in Nat /\ ExistsBijection(1..n, S)
  BY FS_CardinalityType
<1>2. \E f \in [1..n -> S] : IsInjective(f)
  BY <1>1 DEF ExistsBijection, Bijection, Injection, IsInjective
<1>3. s \in [1..n -> S] /\ IsInjective(s)
  BY <1>2 DEF SetToSeq
<1>4. s \in Seq(S)
  BY <1>1, <1>3, IsASeq
<1>5. s \in Surjection(1..n, S)
  <2>1. s \in Injection(1..n, S)
    BY <1>3 DEF Injection, IsInjective
  <2>2. IsFiniteSet(1..n) /\ Cardinality(1..n) = n
    BY <1>1, FS_Interval
  <2>. QED
    BY <2>1, <2>2, FS_Injection
<1>6. Range(s) = S
  BY <1>3, <1>5 DEF Range, Surjection
<1>. QED
  BY <1>3, <1>4, <1>6

\* Two sequences without repetition and with nothing in common, joined.
LEMMA JoinFacts ==
    ASSUME NEW S, NEW s \in Seq(S), NEW u \in Seq(S),
           IsInjective(s), IsInjective(u), Range(s) \cap Range(u) = {}
    PROVE  /\ s \o u \in Seq(S) /\ IsInjective(s \o u)
           /\ Range(s \o u) = Range(s) \cup Range(u)
<1>1. s \o u \in Seq(S) /\ Range(s \o u) = Range(s) \cup Range(u)
  BY RangeConcatenation
<1>2. ASSUME NEW a \in DOMAIN (s \o u), NEW b \in DOMAIN (s \o u),
             (s \o u)[a] = (s \o u)[b]
      PROVE  a = b
  <2>1. /\ Len(s) \in Nat /\ Len(u) \in Nat
        /\ DOMAIN s = 1..Len(s) /\ DOMAIN u = 1..Len(u)
        /\ DOMAIN (s \o u) = 1..(Len(s) + Len(u))
    OBVIOUS
  <2>2. \A i \in DOMAIN (s \o u) :
           IF i <= Len(s) THEN i \in DOMAIN s /\ (s \o u)[i] = s[i]
           ELSE i - Len(s) \in DOMAIN u /\ (s \o u)[i] = u[i - Len(s)]
    OBVIOUS
  <2>3. \A i \in DOMAIN s, j \in DOMAIN u : s[i] # u[j]
    BY DEF Range
  <2>4. (a <= Len(s)) <=> (b <= Len(s))
    BY <1>2, <2>2, <2>3
  <2>5. CASE a <= Len(s)
    BY <1>2, <2>2, <2>4, <2>5 DEF IsInjective
  <2>6. CASE ~(a <= Len(s))
    <3>1. a - Len(s) = b - Len(s)
      BY <1>2, <2>2, <2>4, <2>6 DEF IsInjective
    <3>. QED
      BY <2>1, <3>1
  <2>. QED
    BY <2>5, <2>6
<1>. QED
  BY <1>1, <1>2 DEF IsInjective

\* An item taken out of such a sequence.
LEMMA RemoveFacts ==
    ASSUME NEW S, NEW s \in Seq(S), IsInjective(s), NEW i \in DOMAIN s
    PROVE  /\ RemoveAt(s, i) \in Seq(S) /\ IsInjective(RemoveAt(s, i))
           /\ Range(RemoveAt(s, i)) = Range(s) \ {s[i]}
<1>. DEFINE a == SubSeq(s, 1, i - 1)
            b == SubSeq(s, i + 1, Len(s))
<1>1. /\ Len(s) \in Nat /\ DOMAIN s = 1..Len(s) /\ i \in 1..Len(s)
      /\ \A j \in 1..Len(s) : s[j] \in S
  OBVIOUS
<1>2. /\ a \in Seq(S) /\ Len(a) = i - 1 /\ DOMAIN a = 1..(i - 1)
      /\ \A j \in 1..(i - 1) : a[j] = s[j]
  BY <1>1, SubSeqProperties
<1>3. /\ b \in Seq(S) /\ Len(b) = Len(s) - i /\ DOMAIN b = 1..(Len(s) - i)
      /\ \A j \in 1..(Len(s) - i) : b[j] = s[j + i]
  BY <1>1, SubSeqProperties
<1>. HIDE DEF a, b
<1>4. IsInjective(a) /\ IsInjective(b)
  <2>1. \A j, k \in 1..Len(s) : s[j] = s[k] => j = k
    BY <1>1 DEF IsInjective
  <2>2. ASSUME NEW j \in 1..(i - 1), NEW k \in 1..(i - 1), a[j] = a[k]
        PROVE  j = k
    BY <2>1, <2>2, <1>1, <1>2
  <2>3. ASSUME NEW j \in 1..(Len(s) - i), NEW k \in 1..(Len(s) - i), b[j] = b[k]
        PROVE  j = k
    <3>1. j + i \in 1..Len(s) /\ k + i \in 1..Len(s) /\ s[j + i] = s[k + i]
      BY <2>3, <1>1, <1>3
    <3>. QED
      BY <2>1, <3>1
  <2>. QED
    BY <2>2, <2>3, <1>2, <1>3 DEF IsInjective
<1>5. \A x : x \in Range(a) <=> \E j \in 1..Len(s) : j < i /\ s[j] = x
  <2>1. \A j : j \in 1..(i - 1) <=> j \in 1..Len(s) /\ j < i
    BY <1>1
  <2>. QED
    BY <1>2, <2>1 DEF Range
<1>6. \A x : x \in Range(b) <=> \E j \in 1..Len(s) : j > i /\ s[j] = x
  <2>1. ASSUME NEW j \in 1..Len(s), j > i
        PROVE  j - i \in DOMAIN b /\ b[j - i] = s[j]
    <3>1. j - i \in 1..(Len(s) - i)
      BY <2>1, <1>1
    <3>2. b[j - i] = s[(j - i) + i] /\ (j - i) + i = j
      BY <3>1, <1>1, <1>3
    <3>. QED
      BY <3>1, <3>2, <1>3
  <2>2. ASSUME NEW j \in DOMAIN b
        PROVE  j + i \in 1..Len(s) /\ j + i > i /\ b[j] = s[j + i]
    BY <1>1, <1>3
  <2>. QED
    BY <2>1, <2>2 DEF Range
<1>7. \A j \in 1..Len(s) : s[j] = s[i] => j = i
  BY <1>1 DEF IsInjective
<1>8. Range(a) \cap Range(b) = {}
  <2>1. \A j, k \in 1..Len(s) : s[j] = s[k] => j = k
    BY <1>1 DEF IsInjective
  <2>. QED
    BY <2>1, <1>1, <1>5, <1>6
<1>9. Range(a) \cup Range(b) = Range(s) \ {s[i]}
  <2>1. \A j \in 1..Len(s) : j = i \/ j < i \/ j > i
    BY <1>1
  <2>2. \A x : x \in Range(s) <=> \E j \in 1..Len(s) : s[j] = x
    BY <1>1 DEF Range
  <2>3. \A j \in 1..Len(s) : j < i \/ j > i => j # i
    BY <1>1
  <2>. QED
    BY <2>1, <2>2, <2>3, <1>5, <1>6, <1>7
<1>. QED
  <2>1. a \o b = RemoveAt(s, i)
    BY DEF RemoveAt, a, b
  <2>2. /\ a \o b \in Seq(S) /\ IsInjective(a \o b)
        /\ Range(a \o b) = Range(a) \cup Range(b)
    BY <1>2, <1>3, <1>4, <1>8, JoinFacts
  <2>. QED
    BY <2>1, <2>2, <1>9

----------------------------------------------------------------------------
(* The inductive invariant.                                                *)

\* What the invariant leaves out: trees nobody retries, and those the
\* close-time snapshot ran into.
Excused == failed \cup cut

\* The trees a round works on within itself.
Inlined == {round[p].at : p \in Peer} \ {NoTree}

\* Whoever has the tree, beside the parked ones.
Carried == Range(queue) \cup pulling \cup Inlined
Attended == Carried \cup Parked

\* The workers and the group still to take are items of the queue, a loop
\* that waits has neither, and a close begins by closing the job.
StepInv ==
    /\ \A t \in Tree : step[t] # "no" => t \in Range(queue)
    /\ job.batch \subseteq Range(queue) \ Working
    /\ job.pc \in {"off", "wait", "exited"} => job.batch = {} /\ Working = {}
    /\ phase \in {"closing", "gate"} => job.closed

\* Only a stored tree is loaded, and an open one is behind only while an
\* update is in flight.
StoredInv ==
    /\ \A t \in Tree : step[t] = "load" => stored[t] > 0
    /\ \A p \in Peer : round[p].next = "load" /\ round[p].at # NoTree => stored[round[p].at] > 0
    /\ \A t \in resident \cup pulling : stored[t] > 0
    /\ resident \cap Behind \subseteq pulling \cup Excused

\* What a round that waits owes is among what it waits for, parked, or being
\* replayed.
RoundInv ==
    \A p \in Peer :
        /\ round[p].pc # "inline" => round[p].at = NoTree
        /\ round[p].pc = "inline" => inline
        /\ round[p].pc = "wait" =>
             /\ ~inline
             /\ \A t \in round[p].owed :
                  /\ stored[t] > 0
                  /\ t \in Behind => t \in round[p].awaits \cup Parked \cup pulling \cup Excused

\* No mark is above the AddSeqs given out.
MarkInv ==
    /\ watermark <= MaxLastAddSeq
    /\ boot.snapshot <= MaxLastAddSeq

\* The boot pass still has to load every tree behind that it has seen, and
\* what was stored since is in somebody's hands.
BootInv ==
    boot.pc = "load" =>
        \A t \in Behind \ (Excused \cup pulling) :
            IF addSeq[t] <= boot.snapshot THEN t \in boot.load ELSE t \in Attended

\* In a caught-up session every tree behind is in somebody's hands; past the
\* first half of the close's gate none of them is only parked.
AttendInv ==
    /\ caughtUp => \A t \in Behind \ Excused : t \in Attended
    /\ phase = "down" => ~caughtUp /\ boot.pc = "off"
    /\ phase = "gate" => caughtUp /\ \A t \in Behind \ Excused : t \in Carried

SyncInv ==
    /\ TypeOK /\ StepInv /\ StoredInv /\ RoundInv
    /\ MarkInv /\ WatermarkCovers /\ BootInv /\ AttendInv

----------------------------------------------------------------------------
(* The types of the variables, in parts.                                   *)

Rounds == [pc : {"idle", "diff", "wait", "inline"},
           missing : SUBSET Tree, changed : SUBSET Tree, parked : SUBSET Tree,
           awaits : SUBSET Tree, todo : Seq(Tree), at : Tree \cup {NoTree},
           next : {"no", "open", "load"}, owed : SUBSET Tree]

Jobs == [pc : Range(Groups) \cup {"off", "wait", "exited"}, batch : SUBSET Tree,
         worked : BOOLEAN, wake : BOOLEAN, closed : BOOLEAN]

Boots == [pc : {"off", "start", "load", "done"}, snapshot : Nat, load : SUBSET Tree]

DataOK ==
    /\ inline \in BOOLEAN
    /\ remote \in [Peer -> [Tree -> 0..MaxVersion]]
    /\ stored \in [Tree -> 0..MaxVersion] /\ stub \in [Tree -> 0..MaxVersion]
    /\ addSeq \in [Tree -> Nat] /\ watermark \in Nat
    /\ deleted \in SUBSET Tree
    /\ applied \in [Tree -> 0..MaxVersion] /\ \A t \in Tree : applied[t] <= stored[t]
    /\ resident \in SUBSET Tree /\ pulling \in SUBSET Tree
    /\ failed \in SUBSET Tree /\ cut \in SUBSET Tree
    /\ faults \in 0..MaxFaults

LifeOK ==
    phase \in {"down", "up", "closing", "gate"} /\ boot \in Boots /\ caughtUp \in BOOLEAN

QueueOK ==
    /\ pending \in [Tree -> {"no", "local", "missing"}]
    /\ queue \in Seq(Tree) /\ IsInjective(queue)
    /\ kind \in [Tree -> {"none", "missing", "changed", "retry"}]
    /\ fetched \in SUBSET Tree
    /\ \A t \in Tree : t \in Range(queue) <=> kind[t] # "none"
    /\ fetched \subseteq Range(queue)

WorkOK == job \in Jobs /\ step \in [Tree -> {"no", "fetch", "open", "load"}]

RoundOK == round \in [Peer -> Rounds]

LEMMA TypeParts == TypeOK <=> DataOK /\ LifeOK /\ QueueOK /\ WorkOK /\ RoundOK
BY DEF TypeOK, DataOK, LifeOK, QueueOK, WorkOK, RoundOK, Rounds, Jobs, Boots

LEMMA TypeParts2 == TypeOK' <=> DataOK' /\ LifeOK' /\ QueueOK' /\ WorkOK' /\ RoundOK'
BY TypeParts, PTL

LEMMA QueueIsTrees == QueueOK => Range(queue) \subseteq Tree
BY RangeOfSeq DEF QueueOK

LEMMA TypeFrames ==
    /\ DataOK /\ UNCHANGED <<rest, persisted, resident, pulling, history, faults>> => DataOK'
    /\ LifeOK /\ UNCHANGED process => LifeOK'
    /\ QueueOK /\ UNCHANGED <<pending, queue, kind, fetched>> => QueueOK'
    /\ WorkOK /\ UNCHANGED <<job, step>> => WorkOK'
    /\ RoundOK /\ UNCHANGED round => RoundOK'
<1>1. DataOK /\ UNCHANGED <<rest, persisted, resident, pulling, history, faults>> => DataOK'
  BY DEF DataOK, rest, persisted, history
<1>2. LifeOK /\ UNCHANGED process => LifeOK'
  BY DEF LifeOK, process
<1>3. QueueOK /\ UNCHANGED <<pending, queue, kind, fetched>> => QueueOK'
  BY DEF QueueOK
<1>4. WorkOK /\ UNCHANGED <<job, step>> => WorkOK'
  BY DEF WorkOK
<1>5. RoundOK /\ UNCHANGED round => RoundOK'
  BY DEF RoundOK
<1>. QED
  BY <1>1, <1>2, <1>3, <1>4, <1>5

----------------------------------------------------------------------------
(* What a step does to the trees behind.                                   *)

\* A tree behind stays so, and whoever had it still has it; only away from
\* the gate may it end up parked instead.
HandsKept(t) ==
    /\ t \in Behind \ Excused /\ addSeq'[t] = addSeq[t]
    /\ t \in pulling => t \in pulling'
    /\ t \in Carried => t \in Carried' \/ (phase # "gate" /\ t \in Parked')
    /\ t \in Parked => t \in Attended'

\* A tree falls behind with a new AddSeq, in the hands that stored it, or
\* parked where a fetch stored a part of it.
NewlyBehind(t) ==
    /\ addSeq'[t] > MaxLastAddSeq
    /\ t \in Carried' \/ (phase # "gate" /\ t \in Parked')

\* A step that leaves the process, its boot pass and its marks alone keeps
\* what is said of the trees behind, if each of them is kept or new.
LEMMA HandsStep ==
    ASSUME TypeOK, TypeOK', MarkInv, WatermarkCovers, BootInv, AttendInv,
           phase' = phase \/ (phase # "down" /\ phase' = "closing"),
           boot' = boot, caughtUp' = caughtUp, watermark' = watermark,
           \A t \in Tree : addSeq[t] <= addSeq'[t],
           \A t \in Tree : t \in Behind' \ Excused' => HandsKept(t) \/ NewlyBehind(t)
    PROVE  MarkInv' /\ WatermarkCovers' /\ BootInv' /\ AttendInv'
<1>1. /\ addSeq \in [Tree -> Nat] /\ addSeq' \in [Tree -> Nat]
      /\ watermark \in Nat /\ boot.snapshot \in Nat
      /\ failed' \in SUBSET Tree /\ cut' \in SUBSET Tree
  BY DEF TypeOK
<1>2. /\ MaxLastAddSeq \in Nat /\ \A t \in Tree : addSeq[t] <= MaxLastAddSeq
      /\ MaxLastAddSeq = 0 \/ \E t \in Tree : MaxLastAddSeq = addSeq[t]
  BY <1>1, MaxFacts DEF MaxIsMax
<1>3. MaxLastAddSeq' \in Nat /\ \A t \in Tree : addSeq'[t] <= MaxLastAddSeq'
  BY <1>1, MaxFactsNext DEF MaxIsMax
<1>4. MaxLastAddSeq <= MaxLastAddSeq'
  BY <1>1, <1>2, <1>3
<1>5. MarkInv'
  BY <1>1, <1>2, <1>3, <1>4 DEF MarkInv
<1>6. WatermarkCovers'
  <2>1. SUFFICES ASSUME NEW t \in Tree, t \in Behind' \ Excused'
                 PROVE  addSeq'[t] > watermark
    BY DEF WatermarkCovers, Behind, Excused
  <2>2. CASE HandsKept(t)
    BY <2>2 DEF WatermarkCovers, HandsKept, Excused
  <2>3. CASE NewlyBehind(t)
    BY <2>3, <1>1, <1>2 DEF MarkInv, NewlyBehind
  <2>. QED
    BY <2>1, <2>2, <2>3
<1>7. BootInv'
  <2>1. SUFFICES ASSUME boot.pc = "load",
                        NEW t \in Tree, t \in Behind' \ (Excused' \cup pulling')
                 PROVE  IF addSeq'[t] <= boot.snapshot THEN t \in boot.load ELSE t \in Attended'
    BY DEF BootInv, Behind
  <2>2. CASE HandsKept(t)
    BY <2>1, <2>2 DEF BootInv, HandsKept, Attended
  <2>3. CASE NewlyBehind(t)
    BY <2>3, <1>1, <1>2 DEF MarkInv, NewlyBehind, Attended
  <2>. QED
    BY <2>1, <2>2, <2>3
<1>8. AttendInv'
  <2>1. ASSUME caughtUp, NEW t \in Tree, t \in Behind' \ Excused'
        PROVE  t \in Attended'
    BY <2>1 DEF AttendInv, HandsKept, NewlyBehind, Attended
  <2>2. ASSUME phase = "gate", NEW t \in Tree, t \in Behind' \ Excused'
        PROVE  t \in Carried'
    BY <2>2 DEF AttendInv, HandsKept, NewlyBehind
  <2>. QED
    BY <2>1, <2>2 DEF AttendInv, Behind
<1>. QED
  BY <1>5, <1>6, <1>7, <1>8

\* A step that leaves storage, the projection, the sets of trees, the job and
\* its workers alone.
Aside == <<persisted, resident, pulling, history, pending>>

LEMMA AsideFacts ==
    ASSUME UNCHANGED Aside
    PROVE  /\ Behind' = Behind /\ Excused' = Excused /\ Parked' = Parked
           /\ stored' = stored /\ addSeq' = addSeq /\ watermark' = watermark
           /\ pulling' = pulling /\ resident' = resident
BY DEF Aside, persisted, history, Behind, Excused, Parked

LEMMA StepFrame ==
    ASSUME StepInv, UNCHANGED <<queue, job, step>>, phase' = phase
    PROVE  StepInv'
BY DEF StepInv, Working

LEMMA WorkingFacts == \A t \in Tree : t \in Working <=> step[t] # "no"
BY DEF Working

\* A step beside storage and projection that takes a tree from nobody.
LEMMA AsideStep ==
    ASSUME SyncInv, TypeOK', UNCHANGED <<Aside, process>>,
           Range(queue) \subseteq Range(queue'), Inlined \subseteq Inlined'
    PROVE  MarkInv' /\ WatermarkCovers' /\ BootInv' /\ AttendInv'
<1>1. /\ Behind' = Behind /\ Excused' = Excused /\ Parked' = Parked
      /\ addSeq' = addSeq /\ watermark' = watermark /\ pulling' = pulling
  BY AsideFacts
<1>2. phase' = phase /\ boot' = boot /\ caughtUp' = caughtUp
  BY DEF process
<1>3. \A t \in Tree : t \in Behind' \ Excused' => HandsKept(t)
  BY <1>1 DEF HandsKept, Carried, Attended
<1>4. \A t \in Tree : addSeq[t] <= addSeq'[t]
  BY <1>1 DEF SyncInv, TypeOK
<1>. QED
  BY <1>1, <1>2, <1>3, <1>4, HandsStep DEF SyncInv

----------------------------------------------------------------------------
(* Rounds.                                                                 *)

\* A step that changes nothing but rounds.
LEMMA RoundStep ==
    ASSUME SyncInv, RoundOK',
           UNCHANGED <<rest, persisted, process, resident, pulling, pending, queue, kind, fetched,
                       job, step, history, faults>>,
           \A p \in Peer :
              /\ round'[p].pc # "inline" => round'[p].at = NoTree
              /\ round'[p].pc = "inline" => inline
              /\ round'[p].pc = "wait" => round'[p] = round[p]
              /\ round'[p].next = "load" /\ round'[p].at # NoTree => stored[round'[p].at] > 0
              /\ round[p].at # NoTree => round'[p].at = round[p].at
    PROVE  SyncInv'
<1>1. TypeOK'
  BY TypeParts, TypeParts2, TypeFrames DEF SyncInv, process
<1>2. UNCHANGED Aside /\ UNCHANGED process /\ inline' = inline
  BY DEF Aside, rest
<1>3. /\ Behind' = Behind /\ Excused' = Excused /\ Parked' = Parked
      /\ stored' = stored /\ pulling' = pulling /\ resident' = resident
  BY <1>2, AsideFacts
<1>4. StepInv'
  BY StepFrame DEF SyncInv, process
<1>5. StoredInv'
  BY <1>3 DEF SyncInv, StoredInv
<1>6. RoundInv'
  BY <1>2, <1>3 DEF SyncInv, RoundInv
<1>7. Inlined \subseteq Inlined' /\ Range(queue) \subseteq Range(queue')
  BY DEF Inlined
<1>8. MarkInv' /\ WatermarkCovers' /\ BootInv' /\ AttendInv'
  BY <1>1, <1>2, <1>7, AsideStep
<1>. QED
  BY <1>1, <1>4, <1>5, <1>6, <1>8 DEF SyncInv

LEMMA IdleRounds ==
    /\ IdleRound \in Rounds
    /\ IdleRound.pc = "idle" /\ IdleRound.at = NoTree /\ IdleRound.next = "no"
BY DEF IdleRound, Rounds

DiffRound(r, missing, changed, parked) ==
    [r EXCEPT !.pc = "diff", !.missing = missing, !.changed = changed, !.parked = parked]

LEMMA DiffRoundFacts ==
    \A r \in Rounds : \A m, c, k \in SUBSET Tree :
        /\ DiffRound(r, m, c, k) \in Rounds
        /\ DiffRound(r, m, c, k).pc = "diff" /\ DiffRound(r, m, c, k).at = r.at
BY ZenonT(30) DEF DiffRound, Rounds

\* A diff makes a round that has nothing to do yet.
LEMMA DiffStep ==
    ASSUME SyncInv, NEW p \in Peer, Diff(p)
    PROVE  SyncInv'
<1>. DEFINE missing == {t \in Tree \ deleted : Heads(t) = 0 /\ remote[p][t] > 0}
            changed == {t \in Tree \ deleted : Heads(t) > 0 /\ remote[p][t] \notin {0, Heads(t)}}
            new == DiffRound(IdleRound, missing, changed, Parked)
<1>1. round' = [round EXCEPT ![p] = new]
  BY DEF Diff, DiffRound
<1>2. missing \in SUBSET Tree /\ changed \in SUBSET Tree /\ Parked \in SUBSET Tree
  BY DEF Parked
<1>. HIDE DEF missing, changed
<1>3. new \in Rounds /\ new.pc = "diff" /\ new.at = NoTree
  BY <1>2, IdleRounds, DiffRoundFacts
<1>. HIDE DEF new
<1>4. round \in [Peer -> Rounds]
  BY TypeParts DEF SyncInv, RoundOK
<1>5. RoundOK'
  BY <1>1, <1>3, <1>4 DEF RoundOK
<1>6. round[p].pc = "idle" /\ round[p].at = NoTree
  BY DEF SyncInv, RoundInv, Diff
<1>7. \A q \in Peer : round'[q] = IF q = p THEN new ELSE round[q]
  BY <1>1, <1>4
<1>. QED
  BY <1>3, <1>5, <1>6, <1>7, RoundStep DEF SyncInv, RoundInv, StoredInv, Diff

LEMMA ReturnStep ==
    ASSUME SyncInv, NEW p \in Peer, Return(p)
    PROVE  SyncInv'
<1>1. round \in [Peer -> Rounds]
  BY TypeParts DEF SyncInv, RoundOK
<1>2. RoundOK'
  BY <1>1, IdleRounds DEF RoundOK, Return
<1>3. round[p].pc = "wait" /\ round[p].at = NoTree
  BY DEF SyncInv, RoundInv, Return
<1>4. \A q \in Peer : round'[q] = IF q = p THEN IdleRound ELSE round[q]
  BY <1>1 DEF Return
<1>. QED
  BY <1>2, <1>3, <1>4, IdleRounds, RoundStep DEF SyncInv, RoundInv, StoredInv, Return

\* The updates a round works with when it syncs inline.
Started(f, p, todo) == [f EXCEPT ![p].pc = "inline", ![p].todo = todo]
Reached(r, t, next) == [r EXCEPT !.at = t, !.todo = Tail(@), !.next = next]

LEMMA StartedFacts ==
    ASSUME NEW f \in [Peer -> Rounds], NEW p \in Peer, NEW todo \in Seq(Tree)
    PROVE  /\ Started(f, p, todo) \in [Peer -> Rounds]
           /\ \A q \in Peer \ {p} : Started(f, p, todo)[q] = f[q]
           /\ Started(f, p, todo)[p].pc = "inline"
           /\ Started(f, p, todo)[p].at = f[p].at
<1>. DEFINE Begun(r) == [r EXCEPT !.pc = "inline", !.todo = todo]
<1>1. \A r \in Rounds : Begun(r) \in Rounds /\ Begun(r).pc = "inline" /\ Begun(r).at = r.at
  BY DEF Rounds
<1>2. Started(f, p, todo) = [f EXCEPT ![p] = Begun(f[p])]
  <2>1. Started(f, p, todo)[p] = Begun(f[p])
    BY DEF Started, Rounds
  <2>2. /\ DOMAIN Started(f, p, todo) = Peer
        /\ \A q \in Peer \ {p} : Started(f, p, todo)[q] = f[q]
    BY DEF Started
  <2>. QED
    BY <2>1, <2>2 DEF Started
<1>. HIDE DEF Begun, Rounds
<1>. QED
  BY <1>1, <1>2

LEMMA ReachedFacts ==
    ASSUME NEW r \in Rounds, NEW t \in Tree, NEW next \in {"open", "load"}, r.todo # <<>>
    PROVE  /\ Reached(r, t, next) \in Rounds /\ Reached(r, t, next).pc = r.pc
           /\ Reached(r, t, next).at = t /\ Reached(r, t, next).next = next
<1>1. r.todo \in Seq(Tree)
  BY DEF Rounds
<1>2. Tail(r.todo) \in Seq(Tree)
  BY <1>1, HeadTailProperties
<1>. QED
  BY <1>2 DEF Reached, Rounds

LEMMA InlineOrderType ==
    ASSUME RoundOK, NEW p \in Peer
    PROVE  InlineOrder(p) \in Seq(Tree)
<1>1. \A ts : ts \subseteq Tree => SetToSeq(ts) \in Seq(Tree)
  <2>1. ASSUME NEW ts, ts \subseteq Tree
        PROVE  SetToSeq(ts) \in Seq(Tree)
    <3>1. IsFiniteSet(ts)
      BY <2>1, TreeAssumption, FS_Subset
    <3>2. SetToSeq(ts) \in Seq(ts)
      BY <3>1, SetToSeqFacts
    <3>. QED
      BY <2>1, <3>2, SeqMonotonic
  <2>. QED
    BY <2>1
<1>2. round[p] \in Rounds
  BY DEF RoundOK
<1>3. /\ round[p].missing \subseteq Tree /\ round[p].changed \subseteq Tree
      /\ round[p].parked \subseteq Tree
  BY <1>2 DEF Rounds
<1>. DEFINE own == round[p].missing
            part1(ts) == SetToSeq(ts \cap own)
            part2(ts) == SetToSeq(ts \cap (round[p].changed \ own))
            part3(ts) == SetToSeq(ts \cap (round[p].parked \ (own \cup round[p].changed)))
            ahead == IF Cardinality(Named(p)) >= 2 THEN First ELSE {}
<1>4. \A ts : part1(ts) \in Seq(Tree) /\ part2(ts) \in Seq(Tree) /\ part3(ts) \in Seq(Tree)
  BY <1>1, <1>3
<1>5. InlineOrder(p) = (part1(ahead) \o part2(ahead) \o part3(ahead))
                       \o (part1(Tree \ ahead) \o part2(Tree \ ahead) \o part3(Tree \ ahead))
  BY DEF InlineOrder
<1>. HIDE DEF part1, part2, part3, ahead
<1>. QED
  BY <1>4, <1>5

LEMMA InlineStartStep ==
    ASSUME SyncInv, NEW p \in Peer, InlineStart(p)
    PROVE  SyncInv'
<1>1. RoundOK
  BY TypeParts DEF SyncInv
<1>2. round' = Started(round, p, InlineOrder(p)) /\ inline /\ round[p].at = NoTree
  BY DEF InlineStart, Started, SyncInv, RoundInv
<1>3. /\ RoundOK' /\ \A q \in Peer \ {p} : round'[q] = round[q]
      /\ round'[p].pc = "inline" /\ round'[p].at = NoTree
  <2>1. InlineOrder(p) \in Seq(Tree)
    BY <1>1, InlineOrderType
  <2>. QED
    BY <1>1, <1>2, <2>1, StartedFacts DEF RoundOK
<1>. QED
  BY <1>2, <1>3, RoundStep DEF SyncInv, RoundInv, StoredInv, InlineStart

LEMMA InlineNextStep ==
    ASSUME SyncInv, NEW p \in Peer, InlineNext(p)
    PROVE  SyncInv'
<1>1. RoundOK /\ round \in [Peer -> Rounds]
  BY TypeParts DEF SyncInv, RoundOK
<1>2. round[p].pc = "inline" /\ inline /\ round[p].at = NoTree
  BY DEF InlineNext, SyncInv, RoundInv
<1>3. CASE round[p].todo = <<>>
  <2>1. round' = [round EXCEPT ![p] = IdleRound]
    BY <1>3 DEF InlineNext
  <2>2. RoundOK'
    BY <2>1, <1>1, IdleRounds DEF RoundOK
  <2>3. \A q \in Peer : round'[q] = IF q = p THEN IdleRound ELSE round[q]
    BY <2>1, <1>1
  <2>. QED
    BY <1>2, <2>2, <2>3, IdleRounds, RoundStep DEF SyncInv, RoundInv, StoredInv, InlineNext
<1>4. CASE round[p].todo # <<>>
  <2>. DEFINE t == Head(round[p].todo)
  <2>1. round' = [round EXCEPT ![p] = Reached(round[p], t, Entry(t))]
    BY <1>4 DEF InlineNext, Reached
  <2>2. round[p] \in Rounds /\ round[p].todo \in Seq(Tree)
    BY <1>1 DEF Rounds
  <2>3. t \in Tree
    BY <2>2, <1>4, HeadTailProperties
  <2>. HIDE DEF t
  <2>4. Entry(t) \in {"open", "load"} /\ (Entry(t) = "load" => stored[t] > 0)
    BY <2>3, TypeParts DEF Entry, SyncInv, DataOK
  <2>5. /\ RoundOK' /\ \A q \in Peer \ {p} : round'[q] = round[q]
        /\ round'[p].pc = "inline" /\ round'[p].at = t /\ round'[p].next = Entry(t)
    <3>1. /\ Reached(round[p], t, Entry(t)) \in Rounds
          /\ Reached(round[p], t, Entry(t)).pc = "inline"
          /\ Reached(round[p], t, Entry(t)).at = t
          /\ Reached(round[p], t, Entry(t)).next = Entry(t)
      BY <1>2, <1>4, <2>2, <2>3, <2>4, ReachedFacts
    <3>. QED
      BY <1>1, <2>1, <3>1 DEF RoundOK
  <2>. QED
    BY <1>2, <2>4, <2>5, RoundStep DEF SyncInv, RoundInv, StoredInv, InlineNext
<1>. QED
  BY <1>3, <1>4

----------------------------------------------------------------------------
(* The job's loop.                                                         *)

\* A step that changes nothing but the job and its workers.
LEMMA WorkStep ==
    ASSUME SyncInv, WorkOK', StepInv',
           UNCHANGED <<rest, persisted, process, resident, pulling, pending, queue, kind, fetched,
                       round, history, faults>>,
           \A t \in Tree : step'[t] = "load" => stored[t] > 0
    PROVE  SyncInv'
<1>1. TypeOK'
  BY TypeParts, TypeParts2, TypeFrames DEF SyncInv, process
<1>2. UNCHANGED Aside /\ UNCHANGED process /\ inline' = inline
  BY DEF Aside, rest
<1>3. /\ Behind' = Behind /\ Excused' = Excused /\ Parked' = Parked
      /\ stored' = stored /\ pulling' = pulling /\ resident' = resident
  BY <1>2, AsideFacts
<1>4. StoredInv'
  BY <1>3 DEF SyncInv, StoredInv
<1>5. RoundInv'
  BY <1>2, <1>3 DEF SyncInv, RoundInv
<1>6. Inlined' = Inlined /\ Range(queue') = Range(queue)
  BY DEF Inlined
<1>7. MarkInv' /\ WatermarkCovers' /\ BootInv' /\ AttendInv'
  BY <1>1, <1>2, <1>6, AsideStep
<1>. QED
  BY <1>1, <1>4, <1>5, <1>7 DEF SyncInv

LEMMA GroupsFacts ==
    /\ Range(Groups) = {"first", "second", "fetch", "definitions", "objects", "changed", "retry"}
    /\ \A g \in Range(Groups) : GroupAfter(g) \in Range(Groups) \cup {"wait"}
<1>. DEFINE names == {"first", "second", "fetch", "definitions", "objects", "changed", "retry"}
<1>1. /\ DOMAIN Groups = 1..7
      /\ Groups[1] = "first" /\ Groups[2] = "second" /\ Groups[3] = "fetch"
      /\ Groups[4] = "definitions" /\ Groups[5] = "objects" /\ Groups[6] = "changed"
      /\ Groups[7] = "retry"
  BY DEF Groups
<1>2. Range(Groups) = names
  <2>1. \A i \in 1..7 : Groups[i] \in names
    BY <1>1
  <2>2. \A g \in names : \E i \in 1..7 : Groups[i] = g
    BY <1>1
  <2>. QED
    BY <1>1, <2>1, <2>2 DEF Range
<1>3. ASSUME NEW g \in Range(Groups)
      PROVE  GroupAfter(g) \in Range(Groups) \cup {"wait"}
  <2>. DEFINE i == CHOOSE j \in DOMAIN Groups : Groups[j] = g
  <2>1. i \in DOMAIN Groups /\ Groups[i] = g
    BY <1>3 DEF Range
  <2>. HIDE DEF i
  <2>2. g # "retry" => Groups[i + 1] \in Range(Groups)
    <3>1. g # "retry" => i + 1 \in DOMAIN Groups
      BY <1>1, <2>1
    <3>. QED
      BY <3>1 DEF Range
  <2>3. GroupAfter(g) \in {"fetch", "first", "wait", Groups[i + 1]}
    BY DEF GroupAfter, i
  <2>4. g = "retry" => GroupAfter(g) \in {"fetch", "first", "wait"}
    BY DEF GroupAfter
  <2>. QED
    BY <1>2, <2>2, <2>3, <2>4
<1>. QED
  BY <1>2, <1>3

LEMMA GroupFacts ==
    ASSUME QueueOK, NEW g
    PROVE  Group(g) \in SUBSET Tree /\ Group(g) \subseteq Range(queue)
BY QueueIsTrees DEF Group

LEMMA TurnStep ==
    ASSUME SyncInv, Turn
    PROVE  SyncInv'
<1>. DEFINE g == GroupAfter(job.pc)
<1>1. job \in Jobs /\ WorkOK /\ QueueOK
  BY TypeParts DEF SyncInv, WorkOK
<1>2. g \in Range(Groups) \cup {"wait"} /\ Group(g) \in SUBSET Tree /\ Group(g) \subseteq Range(queue)
  BY <1>1, GroupsFacts, GroupFacts DEF Turn
<1>. HIDE DEF g
<1>3. job' = [job EXCEPT !.pc = g, !.batch = IF g = "wait" THEN {} ELSE Group(g),
                         !.worked = IF g = "first" THEN Group(g) # {}
                                    ELSE @ \/ (g # "wait" /\ Group(g) # {})]
  BY DEF Turn, g
<1>4. /\ job' \in Jobs /\ job'.pc = g /\ job'.closed = job.closed
      /\ job'.batch = IF g = "wait" THEN {} ELSE Group(g)
  BY <1>1, <1>2, <1>3 DEF Jobs
<1>5. step' = step /\ queue' = queue /\ phase' = phase /\ Working = {}
  BY DEF Turn, process
<1>6. WorkOK'
  BY <1>1, <1>4, <1>5 DEF WorkOK
<1>7. StepInv'
  <2>1. "off" \notin Range(Groups) /\ "exited" \notin Range(Groups)
    BY GroupsFacts
  <2>2. Working' = {}
    BY <1>5 DEF Working
  <2>. QED
    BY <1>2, <1>4, <1>5, <2>1, <2>2 DEF SyncInv, StepInv
<1>. QED
  BY <1>5, <1>6, <1>7, WorkStep DEF SyncInv, StoredInv, Turn

LEMMA WakeStep ==
    ASSUME SyncInv, Wake
    PROVE  SyncInv'
<1>1. job \in Jobs /\ WorkOK /\ QueueOK
  BY TypeParts DEF SyncInv, WorkOK
<1>2. Group("first") \in SUBSET Tree /\ Group("first") \subseteq Range(queue)
  BY <1>1, GroupFacts
<1>3. "first" \in Range(Groups)
  BY GroupsFacts
<1>4. /\ job' \in Jobs /\ job'.pc = "first" /\ job'.closed = job.closed
      /\ job'.batch = Group("first")
  BY <1>1, <1>2, <1>3 DEF Jobs, Wake
<1>5. step' = step /\ queue' = queue /\ phase' = phase /\ Working = {}
  BY DEF Wake, process, SyncInv, StepInv
<1>6. WorkOK'
  BY <1>1, <1>4, <1>5 DEF WorkOK
<1>7. StepInv'
  <2>1. Working' = {}
    BY <1>5 DEF Working
  <2>. QED
    BY <1>2, <1>4, <1>5, <2>1 DEF SyncInv, StepInv
<1>. QED
  BY <1>5, <1>6, <1>7, WorkStep DEF SyncInv, StoredInv, Wake

LEMMA ExitStep ==
    ASSUME SyncInv, Exit
    PROVE  SyncInv'
<1>1. job \in Jobs /\ WorkOK
  BY TypeParts DEF SyncInv, WorkOK
<1>2. job' \in Jobs /\ job'.closed = job.closed /\ job'.batch = {}
  BY <1>1 DEF Jobs, Exit
<1>3. step' = step /\ queue' = queue /\ phase' = phase /\ Working = {}
  BY DEF Exit, process
<1>4. WorkOK'
  BY <1>1, <1>2, <1>3 DEF WorkOK
<1>5. StepInv'
  <2>1. Working' = {}
    BY <1>3 DEF Working
  <2>. QED
    BY <1>2, <1>3, <2>1 DEF SyncInv, StepInv
<1>. QED
  BY <1>3, <1>4, <1>5, WorkStep DEF SyncInv, StoredInv, Exit

\* A worker takes an item out of the group; it is already queued.
LEMMA TakeStep ==
    ASSUME SyncInv, Take
    PROVE  SyncInv'
<1>1. job \in Jobs /\ WorkOK /\ DataOK /\ step \in [Tree -> {"no", "fetch", "open", "load"}]
  BY TypeParts DEF SyncInv, WorkOK
<1>2. PICK t \in job.batch :
         /\ step' = [step EXCEPT ![t] = IF job.pc = "fetch" THEN "fetch" ELSE Entry(t)]
         /\ job' = [job EXCEPT !.batch = @ \ {t}]
  BY DEF Take
<1>3. t \in Tree /\ t \in Range(queue) /\ job.batch \subseteq Tree
  BY <1>1 DEF Jobs, SyncInv, StepInv
<1>4. Entry(t) \in {"open", "load"} /\ (Entry(t) = "load" => stored[t] > 0)
  BY <1>1, <1>3 DEF Entry, DataOK
<1>5. /\ job' \in Jobs /\ job'.pc = job.pc /\ job'.closed = job.closed
      /\ job'.batch = job.batch \ {t}
  BY <1>1, <1>2 DEF Jobs
<1>6. /\ step' \in [Tree -> {"no", "fetch", "open", "load"}]
      /\ \A u \in Tree \ {t} : step'[u] = step[u]
      /\ step'[t] # "no" /\ (step'[t] = "load" => stored[t] > 0)
  BY <1>1, <1>2, <1>3, <1>4
<1>7. queue' = queue /\ phase' = phase
  BY DEF Take, process
<1>8. WorkOK'
  BY <1>5, <1>6 DEF WorkOK
<1>9. StepInv'
  BY <1>2, <1>3, <1>5, <1>6, <1>7 DEF SyncInv, StepInv, Working
<1>. QED
  BY <1>6, <1>8, <1>9, WorkStep DEF SyncInv, StoredInv, Take

\* What a round adds to the job: each tree it names that is not queued, once.
LEMMA GrownFacts ==
    ASSUME QueueOK, RoundOK, NEW p \in Peer, Join(p)
    PROVE  /\ queue' \in Seq(Tree) /\ IsInjective(queue')
           /\ Range(queue') = Range(queue) \cup {t \in Named(p) : kind[t] = "none"}
<1>. DEFINE own == round[p].missing
            later == round[p].changed \ own
            last == round[p].parked \ (own \cup round[p].changed)
            fresh(ids) == {t \in ids : kind[t] = "none"}
            new(ids) == SetToSeq(fresh(ids))
<1>1. queue' = ((queue \o new(own)) \o new(later)) \o new(last)
  BY DEF Join
<1>2. round[p] \in Rounds
  BY DEF RoundOK
<1>3. own \subseteq Tree /\ later \subseteq Tree /\ last \subseteq Tree
  BY <1>2 DEF Rounds
<1>4. ASSUME NEW ids, ids \subseteq Tree
      PROVE  /\ new(ids) \in Seq(Tree) /\ IsInjective(new(ids)) /\ Range(new(ids)) = fresh(ids)
             /\ Range(queue) \cap fresh(ids) = {}
  <2>1. fresh(ids) \subseteq Tree /\ IsFiniteSet(fresh(ids))
    BY <1>4, TreeAssumption, FS_Subset
  <2>2. new(ids) \in Seq(fresh(ids)) /\ IsInjective(new(ids)) /\ Range(new(ids)) = fresh(ids)
    BY <2>1, SetToSeqFacts
  <2>3. new(ids) \in Seq(Tree)
    BY <2>1, <2>2, SeqMonotonic
  <2>4. Range(queue) \cap fresh(ids) = {}
    BY <1>4 DEF QueueOK
  <2>. QED
    BY <2>2, <2>3, <2>4
<1>5. /\ queue \in Seq(Tree) /\ IsInjective(queue)
      /\ fresh(own) \cap fresh(later) = {} /\ fresh(own) \cap fresh(last) = {}
      /\ fresh(later) \cap fresh(last) = {}
  BY DEF QueueOK
<1>6. Named(p) = own \cup later \cup last
  BY DEF Named
<1>7. {t \in Named(p) : kind[t] = "none"} = fresh(own) \cup fresh(later) \cup fresh(last)
  BY <1>6
<1>8. /\ Range(new(own)) = fresh(own) /\ Range(new(later)) = fresh(later)
      /\ Range(new(last)) = fresh(last)
      /\ Range(queue) \cap fresh(own) = {} /\ Range(queue) \cap fresh(later) = {}
      /\ Range(queue) \cap fresh(last) = {}
  BY <1>3, <1>4
<1>9. /\ new(own) \in Seq(Tree) /\ new(later) \in Seq(Tree) /\ new(last) \in Seq(Tree)
      /\ IsInjective(new(own)) /\ IsInjective(new(later)) /\ IsInjective(new(last))
  BY <1>3, <1>4
<1>. HIDE DEF own, later, last, fresh, new
<1>. DEFINE one == queue \o new(own)
            two == one \o new(later)
<1>10. one \in Seq(Tree) /\ IsInjective(one) /\ Range(one) = Range(queue) \cup fresh(own)
  BY <1>5, <1>8, <1>9, JoinFacts
<1>. HIDE DEF one
<1>11. two \in Seq(Tree) /\ IsInjective(two) /\ Range(two) = Range(one) \cup fresh(later)
  <2>1. Range(one) \cap Range(new(later)) = {}
    BY <1>5, <1>8, <1>10
  <2>. QED
    BY <1>8, <1>9, <1>10, <2>1, JoinFacts
<1>12. queue' = two \o new(last)
  BY <1>1 DEF one
<1>. HIDE DEF two
<1>13. queue' \in Seq(Tree) /\ IsInjective(queue') /\ Range(queue') = Range(two) \cup fresh(last)
  <2>1. Range(two) \cap Range(new(last)) = {}
    BY <1>5, <1>8, <1>10, <1>11
  <2>2. /\ two \o new(last) \in Seq(Tree) /\ IsInjective(two \o new(last))
        /\ Range(two \o new(last)) = Range(two) \cup Range(new(last))
    BY <1>9, <1>11, <2>1, JoinFacts
  <2>. QED
    BY <1>8, <1>12, <2>2
<1>. QED
  BY <1>7, <1>10, <1>11, <1>13

WaitRound(r, owed, awaits) == [r EXCEPT !.pc = "wait", !.owed = owed, !.awaits = awaits]

LEMMA WaitRoundFacts ==
    \A r \in Rounds : \A owed, awaits \in SUBSET Tree :
        /\ WaitRound(r, owed, awaits) \in Rounds
        /\ WaitRound(r, owed, awaits).pc = "wait" /\ WaitRound(r, owed, awaits).at = r.at
        /\ WaitRound(r, owed, awaits).next = r.next
        /\ WaitRound(r, owed, awaits).owed = owed /\ WaitRound(r, owed, awaits).awaits = awaits
BY ZenonT(30) DEF WaitRound, Rounds

\* A round joins the job: what is behind is queued, parked or being replayed,
\* and the round waits for the whole queue.
LEMMA JoinStep ==
    ASSUME SyncInv, NEW p \in Peer, Join(p)
    PROVE  SyncInv'
<1>. DEFINE owed == IF caughtUp THEN Behind ELSE {}
            waiting == WaitRound(IdleRound, owed, Range(queue'))
<1>1. DataOK /\ LifeOK /\ QueueOK /\ WorkOK /\ RoundOK /\ job \in Jobs
  BY TypeParts DEF SyncInv, WorkOK
<1>2. /\ queue' \in Seq(Tree) /\ IsInjective(queue')
      /\ Range(queue') = Range(queue) \cup {t \in Named(p) : kind[t] = "none"}
  BY <1>1, GrownFacts
<1>3. Range(queue') \in SUBSET Tree /\ Range(queue) \subseteq Range(queue')
  BY <1>2, RangeOfSeq
<1>4. /\ kind' \in [Tree -> {"none", "missing", "changed", "retry"}]
      /\ \A t \in Tree : t \in Range(queue') <=> kind'[t] # "none"
  <2>1. kind' = [t \in Tree |-> Requeue(p, t)]
    BY DEF Join
  <2>2. \A t \in Tree : NamedKind(p, t) \in {"missing", "changed", "retry"}
    BY DEF NamedKind
  <2>3. \A t \in Tree :
           /\ Requeue(p, t) \in {"none", "missing", "changed", "retry"}
           /\ Requeue(p, t) # "none" <=> kind[t] # "none" \/ t \in Named(p)
    BY <1>1, <2>2 DEF QueueOK, Requeue
  <2>4. \A t \in Tree : t \in Range(queue) <=> kind[t] # "none"
    BY <1>1 DEF QueueOK
  <2>. QED
    BY <2>1, <2>3, <2>4, <1>2
<1>5. QueueOK'
  BY <1>1, <1>2, <1>3, <1>4 DEF QueueOK, Join
<1>6. job' = IF queue' = <<>> \/ job.closed THEN job
             ELSE [job EXCEPT !.pc = IF @ = "off" THEN "wait" ELSE @, !.wake = TRUE]
  BY DEF Join
<1>7. /\ job' \in Jobs /\ job'.closed = job.closed /\ job'.batch = job.batch
      /\ job'.pc = job.pc \/ (job.pc = "off" /\ job'.pc = "wait")
  BY <1>1, <1>6 DEF Jobs
<1>8. step' = step /\ UNCHANGED Aside /\ UNCHANGED process /\ phase' = phase /\ inline' = inline
  BY DEF Join, Aside, process, rest
<1>9. round' = [round EXCEPT ![p] = waiting]
  <2>1. Awaited(p, Range(queue')) = Range(queue')
    BY DEF Awaited
  <2>2. round' = [round EXCEPT ![p] =
                    WaitRound(IdleRound, owed, Awaited(p, Range(queue')))]
    BY DEF Join, WaitRound
  <2>. QED
    BY <2>1, <2>2
<1>10. owed \in SUBSET Tree
  BY DEF Behind
<1>11. /\ waiting \in Rounds /\ waiting.pc = "wait" /\ waiting.at = NoTree
       /\ waiting.next = "no" /\ waiting.owed = owed /\ waiting.awaits = Range(queue')
  <2>. HIDE DEF owed
  <2>. QED
    BY <1>3, <1>10, IdleRounds, WaitRoundFacts
<1>. HIDE DEF waiting
<1>12. round \in [Peer -> Rounds] /\ \A q \in Peer : round'[q] = IF q = p THEN waiting ELSE round[q]
  BY <1>1, <1>9 DEF RoundOK
<1>13. TypeOK'
  <2>1. WorkOK'
    BY <1>1, <1>7, <1>8 DEF WorkOK
  <2>2. RoundOK'
    BY <1>9, <1>11, <1>12 DEF RoundOK
  <2>3. DataOK' /\ LifeOK'
    BY <1>1, TypeFrames DEF Join
  <2>. QED
    BY <1>5, <2>1, <2>2, <2>3, TypeParts2
<1>14. /\ Behind' = Behind /\ Excused' = Excused /\ Parked' = Parked
       /\ stored' = stored /\ pulling' = pulling /\ resident' = resident
  BY <1>8, AsideFacts
<1>15. ~inline /\ Inlined = {} /\ Inlined' = {}
  <2>1. ~inline /\ \A q \in Peer : round[q].at = NoTree
    BY DEF Join, SyncInv, RoundInv
  <2>2. \A q \in Peer : round'[q].at = NoTree
    BY <2>1, <1>11, <1>12
  <2>. QED
    BY <2>1, <2>2 DEF Inlined
<1>16. StepInv'
  BY <1>3, <1>7, <1>8 DEF SyncInv, StepInv, Working
<1>17. StoredInv'
  BY <1>8, <1>11, <1>12, <1>14 DEF SyncInv, StoredInv
<1>18. RoundInv'
  <2>1. \A t \in Behind : stored[t] > 0
    BY <1>1 DEF Behind, DataOK
  <2>2. \A t \in owed : t \in Range(queue') \cup Parked \cup pulling \cup Excused
    BY <1>3, <1>15 DEF SyncInv, AttendInv, Attended, Carried, Behind
  <2>. QED
    BY <2>1, <2>2, <1>8, <1>11, <1>12, <1>14, <1>15 DEF SyncInv, RoundInv
<1>19. MarkInv' /\ WatermarkCovers' /\ BootInv' /\ AttendInv'
  BY <1>3, <1>8, <1>13, <1>15, AsideStep
<1>. QED
  BY <1>13, <1>16, <1>17, <1>18, <1>19 DEF SyncInv

----------------------------------------------------------------------------
(* The job's workers.                                                      *)

\* A stored version is the tree's newest, and its AddSeq the greatest.
LEMMA PutFacts ==
    ASSUME DataOK, NEW t \in Tree, NEW v \in 1..MaxVersion, Put(t, v), v >= applied[t]
    PROVE  /\ stored' \in [Tree -> 0..MaxVersion] /\ addSeq' \in [Tree -> Nat]
           /\ stored'[t] = v /\ addSeq'[t] > MaxLastAddSeq
           /\ \A u \in Tree : addSeq[u] <= addSeq'[u]
           /\ \A u \in Tree \ {t} : stored'[u] = stored[u] /\ addSeq'[u] = addSeq[u]
           /\ \A u \in Tree : applied[u] <= stored'[u]
<1>1. /\ stored \in [Tree -> 0..MaxVersion] /\ addSeq \in [Tree -> Nat]
      /\ applied \in [Tree -> 0..MaxVersion] /\ \A u \in Tree : applied[u] <= stored[u]
      /\ MaxVersion \in Nat
  BY BoundAssumption DEF DataOK
<1>2. MaxLastAddSeq \in Nat /\ \A u \in Tree : addSeq[u] <= MaxLastAddSeq
  BY <1>1, MaxFacts DEF MaxIsMax
<1>. QED
  BY <1>1, <1>2 DEF Put

LEMMA CopiesFacts ==
    ASSUME DataOK, NEW t \in Tree
    PROVE  Copies(t) \subseteq 1..MaxVersion
BY BoundAssumption DEF DataOK, Copies

\* t is stored here, unless it is already.
Stores(t) ==
    \/ UNCHANGED <<stored, addSeq>>
    \/ stored[t] = 0 /\ \E v \in 1..MaxVersion : Put(t, v)

LEMMA StoresFacts ==
    ASSUME DataOK, NEW t \in Tree, Stores(t), UNCHANGED applied
    PROVE  /\ stored' \in [Tree -> 0..MaxVersion] /\ addSeq' \in [Tree -> Nat]
           /\ \A u \in Tree : addSeq[u] <= addSeq'[u] /\ (stored[u] > 0 => stored'[u] = stored[u])
           /\ \A u \in Tree : u # t \/ stored[t] > 0 =>
                  stored'[u] = stored[u] /\ addSeq'[u] = addSeq[u]
           /\ (stored'[t] = stored[t] /\ addSeq'[t] = addSeq[t])
                \/ (stored[t] = 0 /\ addSeq'[t] > MaxLastAddSeq)
           /\ \A u \in Tree : applied[u] <= stored'[u]
<1>1. /\ stored \in [Tree -> 0..MaxVersion] /\ addSeq \in [Tree -> Nat]
      /\ applied \in [Tree -> 0..MaxVersion] /\ \A u \in Tree : applied[u] <= stored[u]
  BY DEF DataOK
<1>2. CASE UNCHANGED <<stored, addSeq>>
  BY <1>1, <1>2
<1>3. CASE stored[t] = 0 /\ \E v \in 1..MaxVersion : Put(t, v)
  <2>1. PICK v \in 1..MaxVersion : Put(t, v)
    BY <1>3
  <2>2. applied[t] = 0
    BY <1>1, <1>3, BoundAssumption
  <2>3. v >= applied[t]
    BY <2>2, BoundAssumption
  <2>. QED
    BY <1>1, <1>3, <2>1, <2>3, PutFacts
<1>. QED
  BY <1>2, <1>3 DEF Stores

\* A worker's step that leaves the item in the queue.
LEMMA ItemStays ==
    ASSUME SyncInv, NEW t \in Tree, t \in Range(queue), Stores(t),
           UNCHANGED <<rest, process, stub, deleted, watermark, applied, resident, pulling, pending,
                       queue, kind, job, round, history>>,
           faults' \in 0..MaxFaults,
           fetched' = fetched \/ fetched' = fetched \cup {t},
           \E to \in {"no", "fetch", "open", "load"} :
              /\ step' = [step EXCEPT ![t] = to]
              /\ to = "load" => stored'[t] > 0
              /\ to # "no" => step[t] # "no"
    PROVE  SyncInv'
<1>1. DataOK /\ LifeOK /\ QueueOK /\ WorkOK /\ RoundOK
  BY TypeParts DEF SyncInv
<1>2. /\ stored' \in [Tree -> 0..MaxVersion] /\ addSeq' \in [Tree -> Nat]
      /\ \A u \in Tree : addSeq[u] <= addSeq'[u] /\ (stored[u] > 0 => stored'[u] = stored[u])
      /\ \A u \in Tree : u # t \/ stored[t] > 0 =>
             stored'[u] = stored[u] /\ addSeq'[u] = addSeq[u]
      /\ (stored'[t] = stored[t] /\ addSeq'[t] = addSeq[t])
           \/ (stored[t] = 0 /\ addSeq'[t] > MaxLastAddSeq)
      /\ \A u \in Tree : applied[u] <= stored'[u]
  BY <1>1, StoresFacts
<1>3. /\ inline' = inline /\ remote' = remote /\ failed' = failed /\ cut' = cut
      /\ phase' = phase /\ boot' = boot /\ caughtUp' = caughtUp
      /\ Parked' = Parked /\ Inlined' = Inlined /\ Excused' = Excused /\ Carried' = Carried
      /\ Attended' = Attended
  BY DEF rest, process, history, Parked, Inlined, Excused, Carried, Attended
<1>4. PICK to \in {"no", "fetch", "open", "load"} :
         /\ step' = [step EXCEPT ![t] = to]
         /\ to = "load" => stored'[t] > 0
         /\ to # "no" => step[t] # "no"
  OBVIOUS
<1>5. /\ step' \in [Tree -> {"no", "fetch", "open", "load"}]
      /\ step'[t] = to /\ \A u \in Tree \ {t} : step'[u] = step[u]
  BY <1>1, <1>4 DEF WorkOK
<1>6. TypeOK'
  <2>1. DataOK'
    BY <1>1, <1>2, <1>3 DEF DataOK
  <2>2. LifeOK'
    BY <1>1, <1>3 DEF LifeOK
  <2>3. QueueOK'
    BY <1>1 DEF QueueOK
  <2>4. WorkOK' /\ RoundOK'
    BY <1>1, <1>5 DEF WorkOK, RoundOK
  <2>. QED
    BY <2>1, <2>2, <2>3, <2>4, TypeParts2
<1>7. StepInv'
  <2>1. Working' \subseteq Working
    BY <1>4, <1>5 DEF Working
  <2>2. \A u \in Tree : step'[u] # "no" => u \in Range(queue)
    BY <1>5 DEF SyncInv, StepInv
  <2>. QED
    BY <2>1, <2>2, <1>3 DEF SyncInv, StepInv
<1>8. \A u \in Tree : u \in Behind' => u \in Behind \/ (u = t /\ stored[t] = 0)
  BY <1>1, <1>2 DEF Behind
<1>9. StoredInv'
  <2>1. resident' \cap Behind' \subseteq pulling' \cup Excused'
    BY <1>3, <1>8 DEF SyncInv, StoredInv, Behind
  <2>2. /\ resident \subseteq Tree /\ pulling \subseteq Tree
        /\ \A p \in Peer : round[p].at \in Tree \cup {NoTree}
    BY <1>1 DEF DataOK, RoundOK, Rounds
  <2>3. \A u \in Tree : stored[u] > 0 => stored'[u] > 0
    BY <1>2
  <2>. QED
    BY <2>1, <2>2, <2>3, <1>4, <1>5 DEF SyncInv, StoredInv
<1>10. RoundInv'
  <2>1. \A p \in Peer : round[p].owed \subseteq Tree
    BY <1>1 DEF RoundOK, Rounds
  <2>2. \A u \in Tree : stored[u] > 0 => stored'[u] > 0 /\ (u \in Behind' => u \in Behind)
    BY <1>2, <1>8
  <2>. QED
    BY <2>1, <2>2, <1>3 DEF SyncInv, RoundInv
<1>11. MarkInv' /\ WatermarkCovers' /\ BootInv' /\ AttendInv'
  <2>1. ASSUME NEW u \in Tree, u \in Behind' \ Excused'
        PROVE  HandsKept(u) \/ NewlyBehind(u)
    <3>1. CASE stored'[u] = stored[u] /\ addSeq'[u] = addSeq[u]
      BY <2>1, <3>1, <1>3 DEF HandsKept, Behind, Attended
    <3>2. CASE ~(stored'[u] = stored[u] /\ addSeq'[u] = addSeq[u])
      BY <3>2, <1>2, <1>3 DEF NewlyBehind, Carried
    <3>. QED
      BY <3>1, <3>2
  <2>. QED
    BY <2>1, <1>2, <1>3, <1>6, HandsStep DEF SyncInv
<1>. QED
  BY <1>6, <1>7, <1>9, <1>10, <1>11 DEF SyncInv

\* The item leaves the queue, once.
LEMMA FinishFacts ==
    ASSUME QueueOK, WorkOK, RoundOK, NEW t \in Tree, t \in Range(queue), Finish(t),
           pending' \in [Tree -> {"no", "local", "missing"}]
    PROVE  /\ QueueOK' /\ WorkOK' /\ RoundOK'
           /\ Range(queue') = Range(queue) \ {t}
           /\ job' = job /\ step'[t] = "no" /\ \A u \in Tree \ {t} : step'[u] = step[u]
           /\ \A p \in Peer :
                 /\ round'[p].pc = round[p].pc /\ round'[p].at = round[p].at
                 /\ round'[p].next = round[p].next /\ round'[p].owed = round[p].owed
                 /\ round'[p].awaits = round[p].awaits \ {t}
<1>1. Position(t) \in DOMAIN queue /\ queue[Position(t)] = t
  BY DEF Position, Range
<1>2. /\ queue' \in Seq(Tree) /\ IsInjective(queue')
      /\ Range(queue') = Range(queue) \ {t}
  <2>1. queue \in Seq(Tree) /\ IsInjective(queue) /\ queue' = RemoveAt(queue, Position(t))
    BY DEF QueueOK, Finish
  <2>2. /\ RemoveAt(queue, Position(t)) \in Seq(Tree)
        /\ IsInjective(RemoveAt(queue, Position(t)))
        /\ Range(RemoveAt(queue, Position(t))) = Range(queue) \ {queue[Position(t)]}
    BY <2>1, <1>1, RemoveFacts
  <2>. QED
    BY <2>1, <2>2, <1>1
<1>3. QueueOK'
  BY <1>2 DEF QueueOK, Finish
<1>4. /\ job' = job /\ step' \in [Tree -> {"no", "fetch", "open", "load"}]
      /\ step'[t] = "no" /\ \A u \in Tree \ {t} : step'[u] = step[u]
  BY DEF WorkOK, Finish
<1>5. WorkOK'
  BY <1>4 DEF WorkOK
<1>6. ASSUME NEW r \in Rounds
      PROVE  LET n == [r EXCEPT !.awaits = @ \ {t}]
             IN  /\ n \in Rounds /\ n.pc = r.pc /\ n.at = r.at /\ n.next = r.next
                 /\ n.owed = r.owed /\ n.awaits = r.awaits \ {t}
  BY DEF Rounds
<1>7. /\ RoundOK'
      /\ \A p \in Peer :
            /\ round'[p].pc = round[p].pc /\ round'[p].at = round[p].at
            /\ round'[p].next = round[p].next /\ round'[p].owed = round[p].owed
            /\ round'[p].awaits = round[p].awaits \ {t}
  <2>1. round' = [p \in Peer |-> [round[p] EXCEPT !.awaits = @ \ {t}]]
    BY DEF Finish
  <2>2. \A p \in Peer : round[p] \in Rounds
    BY DEF RoundOK
  <2>. QED
    BY <2>1, <2>2, <1>6, ZenonT(30) DEF RoundOK, Rounds
<1>. QED
  BY <1>2, <1>3, <1>4, <1>5, <1>7

\* A worker's step that takes the item out of the queue: t is not behind any
\* more, or somebody else has it.
LEMMA ItemLeaves ==
    ASSUME SyncInv, NEW t \in Tree, step[t] # "no", Finish(t), DataOK',
           pending' \in [Tree -> {"no", "local", "missing"}],
           UNCHANGED <<rest, process, watermark, pulling>>,
           \A u \in Tree : addSeq[u] <= addSeq'[u] /\ (stored[u] > 0 => stored'[u] > 0),
           \A u \in resident' : stored'[u] > 0,
           resident' \cap Behind' \subseteq pulling' \cup Excused',
           \A u \in Tree \ {t} :
              /\ u \in Behind' \ Excused' => u \in Behind \ Excused /\ addSeq'[u] = addSeq[u]
              /\ u \in Parked <=> u \in Parked',
           t \in Behind' \ Excused' =>
              /\ t \in pulling \/ (phase # "gate" /\ t \in Parked')
              /\ (t \in Behind \ Excused /\ addSeq'[t] = addSeq[t]) \/ addSeq'[t] > MaxLastAddSeq
    PROVE  SyncInv'
<1>1. DataOK /\ LifeOK /\ QueueOK /\ WorkOK /\ RoundOK /\ t \in Range(queue)
  BY TypeParts DEF SyncInv, StepInv
<1>2. /\ QueueOK' /\ WorkOK' /\ RoundOK'
      /\ Range(queue') = Range(queue) \ {t}
      /\ job' = job /\ step'[t] = "no" /\ \A u \in Tree \ {t} : step'[u] = step[u]
      /\ \A p \in Peer :
            /\ round'[p].pc = round[p].pc /\ round'[p].at = round[p].at
            /\ round'[p].next = round[p].next /\ round'[p].owed = round[p].owed
            /\ round'[p].awaits = round[p].awaits \ {t}
  BY <1>1, FinishFacts
<1>3. /\ inline' = inline /\ phase' = phase /\ boot' = boot /\ caughtUp' = caughtUp
      /\ pulling' = pulling /\ watermark' = watermark
  BY DEF rest, process
<1>4. Inlined' = Inlined
  BY <1>2 DEF Inlined
<1>5. TypeOK'
  <2>1. LifeOK'
    BY <1>1, <1>3 DEF LifeOK
  <2>. QED
    BY <1>2, <2>1, TypeParts2
<1>6. StepInv'
  <2>1. Working' = Working \ {t}
    BY <1>2 DEF Working
  <2>2. t \notin job.batch /\ t \in Working
    BY DEF SyncInv, StepInv, Working
  <2>. QED
    BY <1>2, <1>3, <2>1, <2>2 DEF SyncInv, StepInv
<1>7. StoredInv'
  <2>1. /\ pulling \subseteq Tree /\ \A p \in Peer : round[p].at \in Tree \cup {NoTree}
    BY <1>1 DEF DataOK, RoundOK, Rounds
  <2>2. \A u \in Tree : step'[u] = "load" => stored'[u] > 0
    BY <1>2 DEF SyncInv, StoredInv
  <2>. QED
    BY <2>1, <2>2, <1>2, <1>3 DEF SyncInv, StoredInv
<1>8. RoundInv'
  <2>1. ASSUME NEW p \in Peer, round'[p].pc = "wait", NEW u \in round'[p].owed
        PROVE  /\ stored'[u] > 0
               /\ u \in Behind' => u \in round'[p].awaits \cup Parked' \cup pulling' \cup Excused'
    <3>1. round[p].pc = "wait" /\ u \in round[p].owed /\ u \in Tree
      BY <2>1, <1>1, <1>2 DEF RoundOK, Rounds
    <3>2. stored[u] > 0 /\ stored'[u] > 0
      BY <3>1 DEF SyncInv, RoundInv
    <3>3. CASE u = t
      BY <3>2, <3>3, <1>3
    <3>4. CASE u # t
      <4>1. u \in Behind' \ Excused' =>
               u \in round[p].awaits \cup Parked \cup pulling
        BY <3>1, <3>4 DEF SyncInv, RoundInv
      <4>. QED
        BY <4>1, <3>2, <3>4, <3>1, <1>2, <1>3
    <3>. QED
      BY <3>3, <3>4
  <2>. QED
    BY <2>1, <1>2, <1>3 DEF SyncInv, RoundInv
<1>9. MarkInv' /\ WatermarkCovers' /\ BootInv' /\ AttendInv'
  <2>1. ASSUME NEW u \in Tree, u \in Behind' \ Excused'
        PROVE  HandsKept(u) \/ NewlyBehind(u)
    <3>1. CASE u # t
      BY <2>1, <3>1, <1>2, <1>3, <1>4 DEF HandsKept, Carried, Attended
    <3>2. CASE u = t
      BY <2>1, <3>2, <1>2, <1>3, <1>4 DEF HandsKept, NewlyBehind, Carried, Attended
    <3>. QED
      BY <3>1, <3>2
  <2>. QED
    BY <2>1, <1>3, <1>5, HandsStep DEF SyncInv
<1>. QED
  BY <1>5, <1>6, <1>7, <1>8, <1>9 DEF SyncInv

\* Parking and releasing a tree.
LEMMA ParkFacts ==
    ASSUME QueueOK, NEW t \in Tree, NEW missing \in BOOLEAN, MarkPending(t, missing)
    PROVE  pending' \in [Tree -> {"no", "local", "missing"}] /\ Parked' = Parked \cup {t}
<1>1. pending \in [Tree -> {"no", "local", "missing"}]
  BY DEF QueueOK
<1>2. /\ pending' \in [Tree -> {"no", "local", "missing"}] /\ pending'[t] # "no"
      /\ \A u \in Tree \ {t} : pending'[u] = pending[u]
  BY <1>1 DEF MarkPending
<1>. QED
  BY <1>2 DEF Parked

LEMMA RecoverFacts ==
    ASSUME QueueOK, NEW t \in Tree, Recovered(t)
    PROVE  pending' \in [Tree -> {"no", "local", "missing"}] /\ Parked' = Parked \ {t}
<1>1. pending \in [Tree -> {"no", "local", "missing"}]
  BY DEF QueueOK
<1>2. /\ pending' \in [Tree -> {"no", "local", "missing"}] /\ pending'[t] = "no"
      /\ \A u \in Tree \ {t} : pending'[u] = pending[u]
  BY <1>1 DEF Recovered
<1>. QED
  BY <1>2 DEF Parked

LEMMA FetchStep ==
    ASSUME SyncInv, NEW t \in Tree, Fetch(t)
    PROVE  SyncInv'
<1>1. DataOK /\ t \in Range(queue)
  BY TypeParts DEF SyncInv, StepInv, Fetch
<1>2. Stores(t)
  BY <1>1, CopiesFacts DEF Fetch, Stores, DataOK
<1>. QED
  BY <1>1, <1>2, ItemStays DEF Fetch, Unstored, DataOK

LEMMA OpenStep ==
    ASSUME SyncInv, NEW t \in Tree, Open(t)
    PROVE  SyncInv'
<1>1. DataOK /\ t \in Range(queue)
  BY TypeParts DEF SyncInv, StepInv, Open
<1>2. Stores(t) /\ stored'[t] > 0
  <2>1. CASE stored[t] > 0
    BY <2>1 DEF Open, Stores
  <2>2. CASE ~(stored[t] > 0)
    <3>1. stored[t] = 0 /\ \E v \in 1..MaxVersion : Put(t, v)
      BY <2>2, <1>1, CopiesFacts, BoundAssumption DEF Open, DataOK
    <3>2. stored'[t] > 0
      BY <3>1, <1>1, BoundAssumption DEF Put, DataOK
    <3>. QED
      BY <3>1, <3>2 DEF Stores
  <2>. QED
    BY <2>1, <2>2
<1>. QED
  BY <1>1, <1>2, ItemStays DEF Open, Unstored, DataOK

\* A fetch that fails may have stored a part; the tree is parked, or stays
\* queued on a closed job.
LEMMA FetchFailsStep ==
    ASSUME SyncInv, NEW t \in Tree, FetchFails(t)
    PROVE  SyncInv'
<1>1. DataOK /\ QueueOK /\ t \in Range(queue) /\ step[t] = "fetch"
  BY TypeParts DEF SyncInv, StepInv, FetchFails
<1>2. Stores(t)
  <2>1. 1 \in 1..MaxVersion
    BY BoundAssumption
  <2>. QED
    BY <2>1 DEF FetchFails, Stores
<1>3. faults' \in 0..MaxFaults
  BY <1>1, BoundAssumption DEF FetchFails, Fault, DataOK
<1>4. CASE job.closed
  BY <1>1, <1>2, <1>3, <1>4, ItemStays DEF FetchFails, Stay, Unstored
<1>5. CASE ~job.closed
  <2>1. /\ MarkPending(t, TRUE) /\ Finish(t)
        /\ UNCHANGED <<rest, process, applied, resident, pulling, history, stub, deleted, watermark>>
    BY <1>5 DEF FetchFails, Unstored
  <2>2. pending' \in [Tree -> {"no", "local", "missing"}] /\ Parked' = Parked \cup {t}
    BY <1>1, <2>1, ParkFacts
  <2>3. /\ stored' \in [Tree -> 0..MaxVersion] /\ addSeq' \in [Tree -> Nat]
        /\ \A u \in Tree : addSeq[u] <= addSeq'[u] /\ (stored[u] > 0 => stored'[u] = stored[u])
        /\ \A u \in Tree : u # t \/ stored[t] > 0 =>
               stored'[u] = stored[u] /\ addSeq'[u] = addSeq[u]
        /\ (stored'[t] = stored[t] /\ addSeq'[t] = addSeq[t])
             \/ (stored[t] = 0 /\ addSeq'[t] > MaxLastAddSeq)
        /\ \A u \in Tree : applied[u] <= stored'[u]
    BY <1>1, <1>2, <2>1, StoresFacts
  <2>4. DataOK'
    BY <1>1, <1>3, <2>1, <2>3 DEF DataOK, rest, history
  <2>5. phase # "gate" /\ Excused' = Excused /\ pulling' = pulling /\ resident' = resident
    BY <1>5, <2>1 DEF SyncInv, StepInv, Excused, history
  <2>6. \A u \in Tree : u \in Behind' => u \in Behind \/ (u = t /\ stored[t] = 0)
    BY <1>1, <2>1, <2>3 DEF Behind, DataOK
  <2>7. resident' \cap Behind' \subseteq pulling' \cup Excused'
    BY <2>5, <2>6 DEF SyncInv, StoredInv, Behind
  <2>8. \A u \in resident' : stored'[u] > 0
    BY <1>1, <2>3, <2>5 DEF SyncInv, StoredInv, DataOK
  <2>9. \A u \in Tree : stored[u] > 0 => stored'[u] > 0
    BY <2>3
  <2>10. \A u \in Tree \ {t} :
            /\ u \in Behind' \ Excused' => u \in Behind \ Excused /\ addSeq'[u] = addSeq[u]
            /\ u \in Parked <=> u \in Parked'
    BY <2>2, <2>3, <2>5, <2>6
  <2>11. t \in Behind' \ Excused' =>
            /\ t \in pulling \/ (phase # "gate" /\ t \in Parked')
            /\ (t \in Behind \ Excused /\ addSeq'[t] = addSeq[t]) \/ addSeq'[t] > MaxLastAddSeq
    BY <2>1, <2>2, <2>3, <2>5 DEF Behind
  <2>. QED
    BY <1>1, <2>1, <2>2, <2>3, <2>4, <2>7, <2>8, <2>9, <2>10, <2>11, ItemLeaves
<1>. QED
  BY <1>4, <1>5

\* A tree is loaded: it is not behind any more, unless it was open already.
LEMMA MaterializeFacts ==
    ASSUME SyncInv, NEW t \in Tree, stored[t] > 0, Materialize(t),
           UNCHANGED <<stored, addSeq, stub, deleted, watermark, rest, pulling, faults>>
    PROVE  /\ DataOK'
           /\ \A u \in resident' : stored'[u] > 0
           /\ resident' \cap Behind' \subseteq pulling' \cup Excused'
           /\ \A u \in Tree \ {t} : u \in Behind' \ Excused' <=> u \in Behind \ Excused
           /\ t \in Behind' \ Excused' => t \in pulling /\ t \in Behind \ Excused
<1>1. DataOK
  BY TypeParts DEF SyncInv
<1>2. resident' = resident \cup {t}
  BY DEF Materialize
<1>3. \A u \in resident' : stored'[u] > 0
  BY <1>2 DEF SyncInv, StoredInv
<1>4. CASE t \in resident
  <2>1. applied' = applied /\ failed' = failed /\ cut' = cut /\ resident' = resident
    BY <1>4 DEF Materialize, history
  <2>2. DataOK'
    BY <1>1, <2>1 DEF DataOK, rest
  <2>3. Behind' = Behind /\ Excused' = Excused
    BY <2>1 DEF Behind, Excused
  <2>. QED
    BY <1>3, <1>4, <2>1, <2>2, <2>3 DEF SyncInv, StoredInv
<1>5. CASE t \notin resident
  <2>1. /\ applied' = [applied EXCEPT ![t] = stored[t]]
        /\ failed' = failed \ {t} /\ cut' = cut \ {t}
    BY <1>5 DEF Materialize, Forget
  <2>2. /\ applied' \in [Tree -> 0..MaxVersion] /\ applied'[t] = stored[t]
        /\ \A u \in Tree \ {t} : applied'[u] = applied[u]
    BY <1>1, <2>1 DEF DataOK
  <2>3. DataOK'
    BY <1>1, <1>2, <2>1, <2>2 DEF DataOK, rest
  <2>4. t \notin Behind' /\ \A u \in Tree \ {t} : u \in Behind' <=> u \in Behind
    BY <1>1, <2>2 DEF Behind, DataOK
  <2>5. \A u \in Tree \ {t} : u \in Excused' <=> u \in Excused
    BY <2>1 DEF Excused
  <2>6. resident' \cap Behind' \subseteq pulling' \cup Excused'
    BY <1>2, <2>4, <2>5 DEF SyncInv, StoredInv, Behind
  <2>. QED
    BY <1>3, <2>3, <2>4, <2>5, <2>6
<1>. QED
  BY <1>4, <1>5

LEMMA LoadStep ==
    ASSUME SyncInv, NEW t \in Tree, Load(t)
    PROVE  SyncInv'
<1>1. QueueOK /\ DataOK /\ step[t] # "no" /\ stored[t] > 0
  BY TypeParts DEF SyncInv, StoredInv, Load
<1>2. pending' \in [Tree -> {"no", "local", "missing"}] /\ Parked' = Parked \ {t}
  BY <1>1, RecoverFacts DEF Load
<1>3. /\ DataOK'
      /\ \A u \in resident' : stored'[u] > 0
      /\ resident' \cap Behind' \subseteq pulling' \cup Excused'
      /\ \A u \in Tree \ {t} : u \in Behind' \ Excused' <=> u \in Behind \ Excused
      /\ t \in Behind' \ Excused' => t \in pulling /\ t \in Behind \ Excused
  BY <1>1, MaterializeFacts DEF Load, Unstored
<1>4. \A u \in Tree : addSeq[u] <= addSeq'[u] /\ addSeq'[u] = addSeq[u] /\ stored'[u] = stored[u]
  BY <1>1 DEF Load, DataOK
<1>5. \A u \in Tree \ {t} :
         /\ u \in Behind' \ Excused' => u \in Behind \ Excused /\ addSeq'[u] = addSeq[u]
         /\ u \in Parked <=> u \in Parked'
  BY <1>2, <1>3, <1>4
<1>6. Finish(t) /\ UNCHANGED <<rest, process, watermark, pulling>>
  BY DEF Load, Unstored
<1>. QED
  BY <1>1, <1>2, <1>3, <1>4, <1>5, <1>6, ItemLeaves

LEMMA LoadFailsStep ==
    ASSUME SyncInv, NEW t \in Tree, LoadFails(t)
    PROVE  SyncInv'
<1>1. DataOK /\ QueueOK /\ t \in Range(queue) /\ step[t] # "no"
  BY TypeParts DEF SyncInv, StepInv, LoadFails
<1>2. faults' \in 0..MaxFaults
  BY <1>1, BoundAssumption DEF LoadFails, Fault, DataOK
<1>3. CASE job.closed
  BY <1>1, <1>2, <1>3, ItemStays DEF LoadFails, Stay, Stores, persisted
<1>4. CASE ~job.closed
  <2>. DEFINE missing == t \notin fetched /\ MayFetch(t)
  <2>1. /\ MarkPending(t, missing) /\ Finish(t)
        /\ UNCHANGED <<rest, persisted, process, resident, pulling, history>>
    BY <1>4 DEF LoadFails
  <2>2. missing \in BOOLEAN
    BY DEF MayFetch
  <2>. HIDE DEF missing
  <2>3. pending' \in [Tree -> {"no", "local", "missing"}] /\ Parked' = Parked \cup {t}
    BY <1>1, <2>1, <2>2, ParkFacts
  <2>4. DataOK'
    BY <1>1, <1>2, <2>1 DEF DataOK, rest, history, persisted
  <2>5. /\ phase # "gate" /\ Excused' = Excused /\ pulling' = pulling /\ resident' = resident
        /\ Behind' = Behind /\ stored' = stored /\ addSeq' = addSeq /\ watermark' = watermark
    BY <1>4, <2>1 DEF SyncInv, StepInv, Excused, history, persisted, Behind
  <2>6. \A u \in Tree : addSeq[u] <= addSeq'[u] /\ (stored[u] > 0 => stored'[u] > 0)
    BY <1>1, <2>5 DEF DataOK
  <2>7. /\ \A u \in resident' : stored'[u] > 0
        /\ resident' \cap Behind' \subseteq pulling' \cup Excused'
    BY <2>5 DEF SyncInv, StoredInv
  <2>. QED
    BY <1>1, <2>1, <2>3, <2>4, <2>5, <2>6, <2>7, ItemLeaves
<1>. QED
  BY <1>3, <1>4

LEMMA GoneStep ==
    ASSUME SyncInv, NEW t \in Tree, Gone(t)
    PROVE  SyncInv'
<1>1. DataOK /\ QueueOK /\ step[t] # "no" /\ t \in deleted
  BY TypeParts DEF SyncInv, Gone
<1>2. pending' \in [Tree -> {"no", "local", "missing"}] /\ Parked' = Parked \ {t}
  BY <1>1, RecoverFacts DEF Gone
<1>3. Finish(t) /\ UNCHANGED <<rest, persisted, process, resident, pulling, history, faults>>
  BY DEF Gone
<1>4. DataOK'
  BY <1>1, <1>3, TypeFrames
<1>5. /\ Excused' = Excused /\ pulling' = pulling /\ resident' = resident
      /\ Behind' = Behind /\ stored' = stored /\ addSeq' = addSeq /\ watermark' = watermark
  BY <1>3 DEF Excused, history, persisted, Behind
<1>6. t \notin Behind'
  BY <1>1, <1>5 DEF Behind
<1>7. \A u \in Tree : addSeq[u] <= addSeq'[u] /\ (stored[u] > 0 => stored'[u] > 0)
  BY <1>1, <1>5 DEF DataOK
<1>8. /\ \A u \in resident' : stored'[u] > 0
      /\ resident' \cap Behind' \subseteq pulling' \cup Excused'
  BY <1>5 DEF SyncInv, StoredInv
<1>. QED
  BY <1>1, <1>2, <1>3, <1>4, <1>5, <1>6, <1>7, <1>8, ItemLeaves

LEMMA JobStepStep ==
    ASSUME SyncInv, NEW t \in Tree, JobStep(t)
    PROVE  SyncInv'
BY FetchStep, FetchFailsStep, OpenStep, LoadStep, LoadFailsStep, GoneStep DEF JobStep

----------------------------------------------------------------------------
(* Rounds that work within themselves, and rounds that time out.           *)

Done(f, p) == [f EXCEPT ![p].at = NoTree, ![p].next = "no"]
Opened(f, p) == [f EXCEPT ![p].next = "load"]

LEMMA DoneFacts ==
    ASSUME NEW f \in [Peer -> Rounds], NEW p \in Peer
    PROVE  /\ Done(f, p) \in [Peer -> Rounds]
           /\ \A q \in Peer \ {p} : Done(f, p)[q] = f[q]
           /\ Done(f, p)[p].pc = f[p].pc /\ Done(f, p)[p].at = NoTree
<1>. DEFINE left(r) == [[r EXCEPT !.at = NoTree] EXCEPT !.next = "no"]
<1>1. \A r \in Rounds : left(r) \in Rounds /\ left(r).pc = r.pc /\ left(r).at = NoTree
  <2>1. \A r \in Rounds : [r EXCEPT !.at = NoTree] \in Rounds
    BY DEF Rounds
  <2>2. \A r \in Rounds : [r EXCEPT !.next = "no"] \in Rounds
    BY DEF Rounds
  <2>3. \A r \in Rounds : left(r).pc = r.pc /\ left(r).at = NoTree
    BY DEF Rounds
  <2>. QED
    BY <2>1, <2>2, <2>3
<1>2. Done(f, p) = [f EXCEPT ![p] = left(f[p])]
  BY DEF Done, Rounds
<1>. HIDE DEF left
<1>. QED
  BY <1>1, <1>2

LEMMA OpenedFacts ==
    ASSUME NEW f \in [Peer -> Rounds], NEW p \in Peer
    PROVE  /\ Opened(f, p) \in [Peer -> Rounds]
           /\ \A q \in Peer \ {p} : Opened(f, p)[q] = f[q]
           /\ Opened(f, p)[p].pc = f[p].pc /\ Opened(f, p)[p].at = f[p].at
BY ZenonT(30) DEF Opened, Rounds

\* A round is done with its tree, which is not behind any more, excused, or
\* somebody else's.  No round waits for the job meanwhile.
LEMMA InlineLeaves ==
    ASSUME SyncInv, NEW p \in Peer, NEW t \in Tree, t = round[p].at, InlineDone(p), DataOK',
           pending' \in [Tree -> {"no", "local", "missing"}],
           UNCHANGED <<rest, process, stored, addSeq, watermark, pulling, queue, kind, fetched, job, step>>,
           \A u \in resident' : stored'[u] > 0,
           resident' \cap Behind' \subseteq pulling' \cup Excused',
           \A u \in Tree \ {t} :
              /\ u \in Behind' \ Excused' => u \in Behind \ Excused
              /\ u \in Parked <=> u \in Parked',
           t \in Behind' \ Excused' =>
              /\ t \in Behind \ Excused
              /\ t \in pulling \/ (phase # "gate" /\ t \in Parked')
    PROVE  SyncInv'
<1>1. DataOK /\ LifeOK /\ QueueOK /\ WorkOK /\ RoundOK /\ t # NoTree
  BY TypeParts, TreeAssumption DEF SyncInv
<1>2. /\ RoundOK' /\ \A q \in Peer \ {p} : round'[q] = round[q]
      /\ round'[p].pc = round[p].pc /\ round'[p].at = NoTree
  BY <1>1, DoneFacts DEF RoundOK, InlineDone, Done
<1>3. round[p].pc = "inline" /\ inline /\ \A q \in Peer : round'[q].pc # "wait"
  <2>1. round[p].pc = "inline" /\ inline
    BY <1>1 DEF SyncInv, RoundInv
  <2>. QED
    BY <2>1, <1>2 DEF SyncInv, RoundInv
<1>4. /\ inline' = inline /\ phase' = phase /\ boot' = boot /\ caughtUp' = caughtUp
      /\ queue' = queue /\ job' = job /\ step' = step /\ pulling' = pulling
      /\ stored' = stored /\ addSeq' = addSeq /\ watermark' = watermark
  BY DEF rest, process
<1>5. Inlined \ {t} \subseteq Inlined' /\ t \in Inlined
  BY <1>1, <1>2 DEF Inlined
<1>6. TypeOK'
  <2>1. LifeOK' /\ WorkOK'
    BY <1>1, <1>4 DEF LifeOK, WorkOK
  <2>2. QueueOK'
    BY <1>1 DEF QueueOK
  <2>. QED
    BY <1>2, <2>1, <2>2, TypeParts2
<1>7. StepInv'
  BY <1>4, StepFrame DEF SyncInv
<1>8. StoredInv'
  BY <1>2, <1>4 DEF SyncInv, StoredInv
<1>9. RoundInv'
  BY <1>2, <1>3, <1>4 DEF SyncInv, RoundInv
<1>10. MarkInv' /\ WatermarkCovers' /\ BootInv' /\ AttendInv'
  <2>1. ASSUME NEW u \in Tree, u \in Behind' \ Excused'
        PROVE  HandsKept(u)
    <3>1. CASE u # t
      BY <2>1, <3>1, <1>4, <1>5 DEF HandsKept, Carried, Attended
    <3>2. CASE u = t
      BY <2>1, <3>2, <1>4, <1>5 DEF HandsKept, Carried, Attended
    <3>. QED
      BY <3>1, <3>2
  <2>2. \A u \in Tree : addSeq[u] <= addSeq'[u]
    BY <1>1, <1>4 DEF DataOK
  <2>. QED
    BY <2>1, <2>2, <1>4, <1>6, HandsStep DEF SyncInv
<1>. QED
  BY <1>6, <1>7, <1>8, <1>9, <1>10 DEF SyncInv

LEMMA InlineSkipStep ==
    ASSUME SyncInv, NEW p \in Peer, NEW t \in Tree, t = round[p].at, InlineSkip(p, t)
    PROVE  SyncInv'
<1>1. DataOK /\ QueueOK /\ stored[t] = 0
  BY TypeParts DEF SyncInv, InlineSkip
<1>2. pending' \in [Tree -> {"no", "local", "missing"}] /\ Parked' = Parked \ {t}
  BY <1>1, RecoverFacts DEF InlineSkip
<1>3. /\ UNCHANGED <<rest, process, stored, addSeq, watermark, pulling, queue, kind, fetched, job, step>>
      /\ deleted' = deleted /\ applied' = applied /\ resident' = resident /\ faults' = faults
      /\ failed' = failed /\ cut' = cut
  BY DEF InlineSkip, history
<1>4. DataOK'
  <2>1. PICK v \in Copies(t) : stub' = [stub EXCEPT ![t] = v]
    BY DEF InlineSkip
  <2>2. v \in 0..MaxVersion
    BY <1>1, CopiesFacts, BoundAssumption
  <2>3. stub' \in [Tree -> 0..MaxVersion]
    BY <1>1, <2>1, <2>2 DEF DataOK
  <2>. QED
    BY <1>1, <1>3, <2>3 DEF DataOK, rest
<1>5. Behind' = Behind /\ Excused' = Excused
  BY <1>3 DEF Behind, Excused
<1>6. t \notin Behind'
  BY <1>1, <1>5 DEF Behind, DataOK
<1>7. InlineDone(p)
  BY DEF InlineSkip
<1>8. /\ \A u \in resident' : stored'[u] > 0
      /\ resident' \cap Behind' \subseteq pulling' \cup Excused'
  BY <1>3, <1>5 DEF SyncInv, StoredInv
<1>. QED
  BY <1>2, <1>3, <1>4, <1>5, <1>6, <1>7, <1>8, InlineLeaves

LEMMA InlineGoneStep ==
    ASSUME SyncInv, NEW p \in Peer, NEW t \in Tree, t = round[p].at, InlineGone(p, t)
    PROVE  SyncInv'
<1>1. DataOK /\ QueueOK
  BY TypeParts DEF SyncInv
<1>2. pending' \in [Tree -> {"no", "local", "missing"}] /\ Parked' = Parked \ {t}
  BY <1>1, RecoverFacts DEF InlineGone
<1>3. /\ UNCHANGED <<rest, persisted, process, resident, pulling, queue, kind, fetched, job, step,
                       history, faults>>
      /\ InlineDone(p) /\ t \in deleted
  BY DEF InlineGone
<1>4. DataOK'
  BY <1>1, <1>3, TypeFrames
<1>5. Behind' = Behind /\ Excused' = Excused /\ t \notin Behind /\ stored' = stored
      /\ addSeq' = addSeq /\ watermark' = watermark
  BY <1>3 DEF Behind, Excused, persisted, history
<1>6. /\ \A u \in resident' : stored'[u] > 0
      /\ resident' \cap Behind' \subseteq pulling' \cup Excused'
  BY <1>3, <1>5 DEF SyncInv, StoredInv
<1>. QED
  BY <1>2, <1>3, <1>4, <1>5, <1>6, InlineLeaves

LEMMA InlineLoadStep ==
    ASSUME SyncInv, NEW p \in Peer, NEW t \in Tree, t = round[p].at, InlineLoad(p, t)
    PROVE  SyncInv'
<1>1. QueueOK /\ stored[t] > 0
  BY TypeParts, TreeAssumption DEF SyncInv, StoredInv, InlineLoad
<1>2. pending' \in [Tree -> {"no", "local", "missing"}] /\ Parked' = Parked \ {t}
  BY <1>1, RecoverFacts DEF InlineLoad
<1>3. /\ DataOK'
      /\ \A u \in resident' : stored'[u] > 0
      /\ resident' \cap Behind' \subseteq pulling' \cup Excused'
      /\ \A u \in Tree \ {t} : u \in Behind' \ Excused' <=> u \in Behind \ Excused
      /\ t \in Behind' \ Excused' => t \in pulling /\ t \in Behind \ Excused
  BY <1>1, MaterializeFacts DEF InlineLoad, Unstored
<1>4. /\ InlineDone(p)
      /\ UNCHANGED <<rest, process, stored, addSeq, watermark, pulling, queue, kind, fetched, job, step>>
  BY DEF InlineLoad, Unstored
<1>. QED
  BY <1>2, <1>3, <1>4, InlineLeaves

LEMMA CutFacts ==
    ASSUME DataOK, NEW ts, Cut(ts)
    PROVE  /\ failed' = failed /\ cut' \in SUBSET Tree
           /\ Excused' = Excused \cup (ts \cap Behind)
BY DEF Cut, Excused, Behind, DataOK

LEMMA InlineFailsStep ==
    ASSUME SyncInv, NEW p \in Peer, NEW t \in Tree, t = round[p].at, InlineFails(p, t)
    PROVE  SyncInv'
<1>. DEFINE missing == t \in round[p].missing \/ pending[t] = "missing"
<1>1. DataOK /\ QueueOK /\ missing \in BOOLEAN
  BY TypeParts DEF SyncInv
<1>2. MarkPending(t, missing)
  BY DEF InlineFails
<1>. HIDE DEF missing
<1>3. pending' \in [Tree -> {"no", "local", "missing"}] /\ Parked' = Parked \cup {t}
  BY <1>1, <1>2, ParkFacts
<1>4. /\ InlineDone(p) /\ t \notin resident
      /\ UNCHANGED <<rest, persisted, process, resident, pulling, queue, kind, fetched, job, step>>
  BY DEF InlineFails
<1>5. /\ Behind' = Behind /\ stored' = stored /\ addSeq' = addSeq /\ watermark' = watermark
      /\ resident' = resident /\ pulling' = pulling
  BY <1>4 DEF Behind, persisted
<1>6. /\ failed' = failed /\ cut' \in SUBSET Tree /\ Excused \subseteq Excused'
      /\ phase = "gate" /\ t \in Behind => t \in Excused'
  <2>1. CASE phase = "gate"
    BY <1>1, <2>1, CutFacts DEF InlineFails
  <2>2. CASE phase # "gate"
    BY <1>1, <2>2 DEF InlineFails, history, Excused, DataOK
  <2>. QED
    BY <2>1, <2>2
<1>7. DataOK'
  <2>1. faults' \in 0..MaxFaults
    BY <1>1, BoundAssumption DEF InlineFails, Fault, DataOK
  <2>. QED
    BY <1>1, <1>4, <1>6, <2>1 DEF DataOK, rest, persisted
<1>8. /\ \A u \in resident' : stored'[u] > 0
      /\ resident' \cap Behind' \subseteq pulling' \cup Excused'
  BY <1>5, <1>6 DEF SyncInv, StoredInv
<1>. QED
  BY <1>3, <1>4, <1>5, <1>6, <1>7, <1>8, InlineLeaves

\* An inline round stores the tree it is at; it still has it.
LEMMA InlineOpenStep ==
    ASSUME SyncInv, NEW p \in Peer, NEW t \in Tree, t = round[p].at, InlineOpen(p, t)
    PROVE  SyncInv'
<1>1. DataOK /\ LifeOK /\ QueueOK /\ WorkOK /\ RoundOK /\ t # NoTree
  BY TypeParts, TreeAssumption DEF SyncInv
<1>2. /\ UNCHANGED <<rest, process, applied, resident, pulling, pending, queue, kind, fetched, job,
                       step, history, faults, stub, deleted, watermark>>
      /\ inline' = inline /\ phase' = phase /\ failed' = failed /\ cut' = cut
  BY DEF InlineOpen, Unstored, rest, process, history
<1>3. Stores(t) /\ stored'[t] > 0
  <2>1. CASE stored[t] > 0
    BY <2>1 DEF InlineOpen, Stores
  <2>2. CASE ~(stored[t] > 0)
    <3>1. stored[t] = 0 /\ \E v \in 1..MaxVersion : Put(t, v)
      BY <2>2, <1>1, CopiesFacts, BoundAssumption DEF InlineOpen, DataOK
    <3>2. stored'[t] > 0
      BY <3>1, <1>1, BoundAssumption DEF Put, DataOK
    <3>. QED
      BY <3>1, <3>2 DEF Stores
  <2>. QED
    BY <2>1, <2>2
<1>4. /\ stored' \in [Tree -> 0..MaxVersion] /\ addSeq' \in [Tree -> Nat]
      /\ \A u \in Tree : addSeq[u] <= addSeq'[u] /\ (stored[u] > 0 => stored'[u] = stored[u])
      /\ \A u \in Tree : u # t \/ stored[t] > 0 =>
             stored'[u] = stored[u] /\ addSeq'[u] = addSeq[u]
      /\ (stored'[t] = stored[t] /\ addSeq'[t] = addSeq[t])
           \/ (stored[t] = 0 /\ addSeq'[t] > MaxLastAddSeq)
      /\ \A u \in Tree : applied[u] <= stored'[u]
  BY <1>1, <1>2, <1>3, StoresFacts
<1>5. /\ RoundOK' /\ \A q \in Peer \ {p} : round'[q] = round[q]
      /\ round'[p].pc = round[p].pc /\ round'[p].at = t
  BY <1>1, OpenedFacts DEF RoundOK, InlineOpen, Opened
<1>6. round[p].pc = "inline" /\ inline /\ \A q \in Peer : round'[q].pc # "wait"
  <2>1. round[p].pc = "inline" /\ inline
    BY <1>1 DEF SyncInv, RoundInv
  <2>. QED
    BY <2>1, <1>5 DEF SyncInv, RoundInv
<1>7. Inlined' = Inlined /\ t \in Inlined
  BY <1>1, <1>5 DEF Inlined
<1>8. Parked' = Parked /\ Excused' = Excused /\ Carried' = Carried /\ Attended' = Attended
  BY <1>2, <1>7 DEF Parked, Excused, Carried, Attended
<1>9. TypeOK'
  <2>1. DataOK'
    BY <1>1, <1>2, <1>4 DEF DataOK, rest
  <2>2. LifeOK' /\ QueueOK' /\ WorkOK'
    BY <1>1, <1>2, TypeFrames
  <2>. QED
    BY <1>5, <2>1, <2>2, TypeParts2
<1>10. StepInv'
  BY <1>2, StepFrame DEF SyncInv
<1>11. \A u \in Tree : u \in Behind' => u \in Behind \/ (u = t /\ stored[t] = 0)
  BY <1>1, <1>2, <1>4 DEF Behind
<1>12. StoredInv'
  <2>1. resident' \cap Behind' \subseteq pulling' \cup Excused'
    BY <1>2, <1>8, <1>11 DEF SyncInv, StoredInv, Behind
  <2>2. /\ resident \subseteq Tree /\ pulling \subseteq Tree
        /\ \A q \in Peer : round[q].at \in Tree \cup {NoTree}
    BY <1>1 DEF DataOK, RoundOK, Rounds
  <2>3. \A u \in Tree : stored[u] > 0 => stored'[u] > 0
    BY <1>4
  <2>. QED
    BY <2>1, <2>2, <2>3, <1>2, <1>3, <1>5 DEF SyncInv, StoredInv
<1>13. RoundInv'
  BY <1>2, <1>5, <1>6 DEF SyncInv, RoundInv
<1>14. MarkInv' /\ WatermarkCovers' /\ BootInv' /\ AttendInv'
  <2>1. ASSUME NEW u \in Tree, u \in Behind' \ Excused'
        PROVE  HandsKept(u) \/ NewlyBehind(u)
    <3>1. CASE stored'[u] = stored[u] /\ addSeq'[u] = addSeq[u]
      BY <2>1, <3>1, <1>2, <1>8 DEF HandsKept, Behind, Attended
    <3>2. CASE ~(stored'[u] = stored[u] /\ addSeq'[u] = addSeq[u])
      BY <3>2, <1>4, <1>7, <1>8 DEF NewlyBehind, Carried
    <3>. QED
      BY <3>1, <3>2
  <2>2. boot' = boot /\ caughtUp' = caughtUp
    BY <1>2 DEF process
  <2>. QED
    BY <2>1, <2>2, <1>2, <1>4, <1>9, HandsStep DEF SyncInv
<1>. QED
  BY <1>9, <1>10, <1>12, <1>13, <1>14 DEF SyncInv

LEMMA InlineStepStep ==
    ASSUME SyncInv, NEW p \in Peer, InlineStep(p)
    PROVE  SyncInv'
<1>1. round[p].at # NoTree => round[p].at \in Tree
  BY TypeParts DEF SyncInv, RoundOK, Rounds
<1>. QED
  BY <1>1, InlineStartStep, InlineNextStep, InlineSkipStep, InlineOpenStep, InlineLoadStep,
     InlineGoneStep DEF InlineStep

\* What a round that times out has not reached is parked; while the close
\* reads its counts, the snapshot runs into it.
LEMMA TimeoutStep ==
    ASSUME SyncInv, NEW p \in Peer, Timeout(p)
    PROVE  SyncInv'
<1>. DEFINE unreached == IF round[p].pc = "wait" THEN {}
                         ELSE Range(round[p].todo) \cup ({round[p].at} \ {NoTree})
<1>1. DataOK /\ LifeOK /\ QueueOK /\ WorkOK /\ RoundOK /\ round \in [Peer -> Rounds]
  BY TypeParts DEF SyncInv, RoundOK
<1>2. /\ round'[p] = IdleRound /\ \A q \in Peer \ {p} : round'[q] = round[q]
      /\ RoundOK'
  BY <1>1, IdleRounds DEF Timeout, RoundOK
<1>3. pending' = [t \in Tree |->
         IF t \notin unreached THEN pending[t]
         ELSE IF t \in round[p].missing THEN "missing"
         ELSE IF pending[t] = "no" THEN "local" ELSE pending[t]]
  BY DEF Timeout
<1>4. /\ UNCHANGED <<rest, persisted, process, resident, pulling, queue, kind, fetched, job, step>>
      /\ IF phase = "gate" THEN Cut(unreached) ELSE UNCHANGED history
      /\ round[p].pc \in {"wait", "inline"}
  BY DEF Timeout
<1>5. round[p].at # NoTree => round[p].pc = "inline" /\ round[p].at \in unreached
  BY DEF SyncInv, RoundInv
<1>. HIDE DEF unreached
<1>6. /\ pending' \in [Tree -> {"no", "local", "missing"}]
      /\ \A t \in Tree : t \in Parked' <=> t \in Parked \/ t \in unreached
  <2>1. \A t \in Tree :
           /\ pending'[t] \in {"no", "local", "missing"}
           /\ pending'[t] # "no" <=> pending[t] # "no" \/ t \in unreached
    BY <1>1, <1>3 DEF QueueOK
  <2>. QED
    BY <2>1, <1>3 DEF Parked
<1>7. /\ failed' = failed /\ cut' \in SUBSET Tree /\ Excused \subseteq Excused'
      /\ phase = "gate" => unreached \cap Behind \subseteq Excused'
  <2>1. CASE phase = "gate"
    <3>1. Cut(unreached)
      BY <1>4, <2>1
    <3>. QED
      BY <1>1, <3>1, CutFacts
  <2>2. CASE phase # "gate"
    BY <1>1, <1>4, <2>2 DEF history, Excused, DataOK
  <2>. QED
    BY <2>1, <2>2
<1>8. /\ Behind' = Behind /\ stored' = stored /\ addSeq' = addSeq /\ watermark' = watermark
      /\ resident' = resident /\ pulling' = pulling /\ inline' = inline
      /\ phase' = phase /\ boot' = boot /\ caughtUp' = caughtUp
      /\ queue' = queue /\ job' = job /\ step' = step
  BY <1>4 DEF Behind, persisted, rest, process
<1>9. TypeOK'
  <2>1. faults' \in 0..MaxFaults
    BY <1>1, BoundAssumption DEF Timeout, Fault, DataOK
  <2>2. DataOK'
    BY <1>1, <1>4, <1>7, <2>1 DEF DataOK, rest, persisted
  <2>3. LifeOK' /\ WorkOK'
    BY <1>1, <1>8 DEF LifeOK, WorkOK
  <2>4. QueueOK'
    BY <1>1, <1>4, <1>6 DEF QueueOK
  <2>. QED
    BY <1>2, <2>2, <2>3, <2>4, TypeParts2
<1>10. StepInv'
  BY <1>8, StepFrame DEF SyncInv
<1>11. StoredInv'
  BY <1>2, <1>7, <1>8, IdleRounds DEF SyncInv, StoredInv
<1>12. RoundInv'
  <2>1. \A q \in Peer : round[q].owed \subseteq Tree
    BY <1>1 DEF Rounds
  <2>2. Parked \subseteq Parked'
    BY <1>6 DEF Parked
  <2>. QED
    BY <2>1, <2>2, <1>2, <1>7, <1>8, IdleRounds DEF SyncInv, RoundInv
<1>13. MarkInv' /\ WatermarkCovers' /\ BootInv' /\ AttendInv'
  <2>1. \A t \in Inlined : t \in Inlined' \/ t \in unreached
    BY <1>2, <1>5 DEF Inlined
  <2>2. ASSUME NEW t \in Tree, t \in Behind' \ Excused'
        PROVE  HandsKept(t)
    <3>1. t \in Behind \ Excused /\ (phase = "gate" => t \notin unreached)
      BY <2>2, <1>7, <1>8
    <3>2. t \in Carried => t \in Carried' \/ (phase # "gate" /\ t \in Parked')
      BY <3>1, <2>1, <1>6, <1>8 DEF Carried
    <3>3. t \in Parked => t \in Attended'
      BY <1>6 DEF Attended
    <3>. QED
      BY <3>1, <3>2, <3>3, <1>8 DEF HandsKept
  <2>3. \A t \in Tree : addSeq[t] <= addSeq'[t]
    BY <1>1, <1>8 DEF DataOK
  <2>. QED
    BY <2>2, <2>3, <1>8, <1>9, HandsStep DEF SyncInv
<1>. QED
  BY <1>9, <1>10, <1>11, <1>12, <1>13 DEF SyncInv

----------------------------------------------------------------------------
(* What happens beside the rounds.                                         *)

\* A step of storage, of head updates and of the cache: what it leaves behind
\* stays in the hands it was in, or is being replayed.
LEMMA DataStep ==
    ASSUME SyncInv, DataOK', UNCHANGED <<inline, process, syncer, watermark>>,
           \A u \in Tree : addSeq[u] <= addSeq'[u] /\ (stored[u] > 0 => stored'[u] > 0),
           \A u \in resident' \cup pulling' : stored'[u] > 0,
           resident' \cap Behind' \subseteq pulling' \cup Excused',
           \A u \in Tree : u \in Behind' \ Excused' =>
              \/ u \in Behind \ Excused /\ addSeq'[u] = addSeq[u] /\ (u \in pulling => u \in pulling')
              \/ u \in pulling' /\ addSeq'[u] > MaxLastAddSeq
    PROVE  SyncInv'
<1>1. DataOK /\ LifeOK /\ QueueOK /\ WorkOK /\ RoundOK
  BY TypeParts DEF SyncInv
<1>2. /\ inline' = inline /\ phase' = phase /\ boot' = boot /\ caughtUp' = caughtUp
      /\ pending' = pending /\ queue' = queue /\ kind' = kind /\ fetched' = fetched
      /\ job' = job /\ step' = step /\ round' = round /\ watermark' = watermark
  BY DEF process, syncer
<1>3. Parked' = Parked /\ Inlined' = Inlined
  BY <1>2 DEF Parked, Inlined
<1>4. TypeOK'
  BY <1>1, <1>2, TypeFrames, TypeParts2 DEF process
<1>5. StepInv'
  BY <1>2, StepFrame DEF SyncInv
<1>6. \A p \in Peer : round[p].at \in Tree \cup {NoTree} /\ round[p].owed \subseteq Tree
  BY <1>1 DEF RoundOK, Rounds
<1>7. StoredInv'
  BY <1>2, <1>6 DEF SyncInv, StoredInv
<1>8. RoundInv'
  <2>1. ASSUME NEW p \in Peer, round[p].pc = "wait", NEW u \in round[p].owed
        PROVE  /\ stored'[u] > 0
               /\ u \in Behind' => u \in round[p].awaits \cup Parked \cup pulling' \cup Excused'
    BY <2>1, <1>6 DEF SyncInv, RoundInv
  <2>. QED
    BY <2>1, <1>2, <1>3 DEF SyncInv, RoundInv
<1>9. MarkInv' /\ WatermarkCovers' /\ BootInv' /\ AttendInv'
  <2>1. ASSUME NEW u \in Tree, u \in Behind' \ Excused'
        PROVE  HandsKept(u) \/ NewlyBehind(u)
    <3>1. CASE u \in Behind \ Excused /\ addSeq'[u] = addSeq[u] /\ (u \in pulling => u \in pulling')
      BY <3>1, <1>2, <1>3 DEF HandsKept, Carried, Attended
    <3>2. CASE u \in pulling' /\ addSeq'[u] > MaxLastAddSeq
      BY <3>2 DEF NewlyBehind, Carried
    <3>. QED
      BY <2>1, <3>1, <3>2
  <2>. QED
    BY <2>1, <1>2, <1>4, HandsStep DEF SyncInv
<1>. QED
  BY <1>4, <1>5, <1>7, <1>8, <1>9 DEF SyncInv

LEMMA PeerGrowsStep ==
    ASSUME SyncInv, NEW p \in Peer, NEW t \in Tree, PeerGrows(p, t)
    PROVE  SyncInv'
<1>1. DataOK
  BY TypeParts DEF SyncInv
<1>2. UNCHANGED <<inline, persisted, process, syncer, resident, pulling, history, faults>>
  BY DEF PeerGrows
<1>3. remote' \in [Peer -> [Tree -> 0..MaxVersion]]
  BY <1>1, BoundAssumption DEF PeerGrows, DataOK
<1>4. DataOK'
  BY <1>1, <1>2, <1>3 DEF DataOK, persisted, history
<1>5. /\ Behind' = Behind /\ Excused' = Excused /\ stored' = stored /\ addSeq' = addSeq
      /\ watermark' = watermark /\ resident' = resident /\ pulling' = pulling
  BY <1>2 DEF Behind, Excused, persisted, history
<1>6. \A u \in Tree : addSeq[u] <= addSeq'[u]
  BY <1>1, <1>5 DEF DataOK
<1>. QED
  BY <1>2, <1>4, <1>5, <1>6, DataStep DEF SyncInv, StoredInv

LEMMA HeadUpdateStep ==
    ASSUME SyncInv, NEW p \in Peer, NEW t \in Tree, HeadUpdate(p, t)
    PROVE  SyncInv'
<1>1. DataOK
  BY TypeParts DEF SyncInv
<1>2. /\ UNCHANGED <<rest, applied, process, syncer, resident, history, faults, stub, deleted, watermark>>
      /\ pulling' = pulling \cup {t} /\ remote[p][t] > stored[t]
      /\ IF stored[t] = 0 \/ t \in resident THEN Put(t, remote[p][t]) ELSE UNCHANGED <<stored, addSeq>>
  BY DEF HeadUpdate, Unstored
<1>3. remote[p][t] \in 1..MaxVersion /\ remote[p][t] >= applied[t]
  BY <1>1, <1>2, BoundAssumption DEF DataOK
<1>4. Excused' = Excused /\ inline' = inline /\ resident' = resident /\ watermark' = watermark
  BY <1>2 DEF Excused, history, rest
<1>5. CASE stored[t] = 0 \/ t \in resident
  <2>1. Put(t, remote[p][t])
    BY <1>2, <1>5
  <2>2. /\ stored' \in [Tree -> 0..MaxVersion] /\ addSeq' \in [Tree -> Nat]
        /\ stored'[t] = remote[p][t] /\ addSeq'[t] > MaxLastAddSeq
        /\ \A u \in Tree : addSeq[u] <= addSeq'[u]
        /\ \A u \in Tree \ {t} : stored'[u] = stored[u] /\ addSeq'[u] = addSeq[u]
        /\ \A u \in Tree : applied[u] <= stored'[u]
    BY <1>1, <1>3, <2>1, PutFacts
  <2>3. DataOK'
    BY <1>1, <1>2, <2>2 DEF DataOK, rest, history
  <2>4. \A u \in Tree : stored[u] > 0 => stored'[u] > 0
    BY <1>3, <2>2
  <2>5. \A u \in Tree \ {t} : u \in Behind' <=> u \in Behind
    BY <1>2, <2>2 DEF Behind
  <2>6. resident \subseteq Tree /\ pulling \subseteq Tree /\ stored'[t] > 0
    BY <1>1, <1>3, <2>2 DEF DataOK
  <2>7. /\ \A u \in resident' \cup pulling' : stored'[u] > 0
        /\ resident' \cap Behind' \subseteq pulling' \cup Excused'
    BY <1>2, <1>4, <2>4, <2>5, <2>6 DEF SyncInv, StoredInv
  <2>. QED
    BY <1>2, <1>4, <2>2, <2>3, <2>4, <2>5, <2>7, DataStep
<1>6. CASE ~(stored[t] = 0 \/ t \in resident)
  <2>1. stored' = stored /\ addSeq' = addSeq
    BY <1>2, <1>6
  <2>2. DataOK'
    BY <1>1, <1>2, <2>1 DEF DataOK, rest, history
  <2>3. Behind' = Behind /\ stored[t] > 0
    BY <1>1, <1>2, <1>6, <2>1, BoundAssumption DEF Behind, DataOK
  <2>4. /\ \A u \in resident' \cup pulling' : stored'[u] > 0
        /\ resident' \cap Behind' \subseteq pulling' \cup Excused'
    BY <1>2, <1>4, <2>1, <2>3 DEF SyncInv, StoredInv
  <2>5. \A u \in Tree : addSeq[u] <= addSeq'[u]
    BY <1>1, <2>1 DEF DataOK
  <2>. QED
    BY <1>2, <1>4, <2>1, <2>2, <2>3, <2>4, <2>5, DataStep
<1>. QED
  BY <1>5, <1>6

LEMMA UpdateStep ==
    ASSUME SyncInv, NEW t \in Tree, Update(t)
    PROVE  SyncInv'
<1>1. DataOK
  BY TypeParts DEF SyncInv
<1>2. /\ UNCHANGED <<rest, stored, addSeq, process, syncer, faults, stub, deleted, watermark>>
      /\ applied' = [applied EXCEPT ![t] = stored[t]]
      /\ resident' = resident \cup {t} /\ pulling' = pulling \ {t} /\ t \in pulling
      /\ failed' = failed \ {t} /\ cut' = cut \ {t}
  BY DEF Update, Forget, Unstored
<1>3. /\ applied' \in [Tree -> 0..MaxVersion] /\ applied'[t] = stored[t]
      /\ \A u \in Tree \ {t} : applied'[u] = applied[u]
  BY <1>1, <1>2 DEF DataOK
<1>4. DataOK'
  BY <1>1, <1>2, <1>3 DEF DataOK, rest
<1>5. t \notin Behind' /\ \A u \in Tree \ {t} : u \in Behind' <=> u \in Behind
  BY <1>1, <1>2, <1>3 DEF Behind, DataOK
<1>6. \A u \in Tree \ {t} : u \in Excused' <=> u \in Excused
  BY <1>2 DEF Excused
<1>7. /\ \A u \in resident' \cup pulling' : stored'[u] > 0
      /\ resident' \cap Behind' \subseteq pulling' \cup Excused'
  BY <1>2, <1>5, <1>6 DEF SyncInv, StoredInv, Behind
<1>8. \A u \in Tree : addSeq[u] <= addSeq'[u]
  BY <1>1, <1>2 DEF DataOK
<1>9. inline' = inline
  BY <1>2 DEF rest
<1>. QED
  BY <1>2, <1>4, <1>5, <1>6, <1>7, <1>8, <1>9, DataStep

LEMMA FailsFacts ==
    ASSUME DataOK, NEW t \in Tree, Fails(t)
    PROVE  /\ failed' \in SUBSET Tree /\ cut' = cut
           /\ Excused' = Excused \cup ({t} \cap Behind)
BY DEF Fails, Excused, DataOK

LEMMA UpdateFailsStep ==
    ASSUME SyncInv, NEW t \in Tree, UpdateFails(t)
    PROVE  SyncInv'
<1>1. DataOK
  BY TypeParts DEF SyncInv
<1>2. /\ UNCHANGED <<rest, persisted, process, syncer, resident>>
      /\ pulling' = pulling \ {t} /\ Fails(t)
  BY DEF UpdateFails
<1>3. failed' \in SUBSET Tree /\ cut' = cut /\ Excused' = Excused \cup ({t} \cap Behind)
  BY <1>1, <1>2, FailsFacts
<1>4. faults' \in 0..MaxFaults
  BY <1>1, BoundAssumption DEF UpdateFails, Fault, DataOK
<1>5. DataOK'
  BY <1>1, <1>2, <1>3, <1>4 DEF DataOK, rest, persisted
<1>6. /\ Behind' = Behind /\ stored' = stored /\ addSeq' = addSeq
      /\ watermark' = watermark /\ resident' = resident /\ inline' = inline
  BY <1>2 DEF Behind, persisted, rest
<1>7. \A u \in Tree : addSeq[u] <= addSeq'[u]
  BY <1>1, <1>6 DEF DataOK
<1>8. /\ \A u \in resident' \cup pulling' : stored'[u] > 0
      /\ resident' \cap Behind' \subseteq pulling' \cup Excused'
  BY <1>2, <1>3, <1>6 DEF SyncInv, StoredInv
<1>. QED
  BY <1>2, <1>3, <1>5, <1>6, <1>7, <1>8, DataStep

LEMMA EvictStep ==
    ASSUME SyncInv, NEW t \in Tree, Evict(t)
    PROVE  SyncInv'
<1>1. DataOK
  BY TypeParts DEF SyncInv
<1>2. /\ UNCHANGED <<rest, persisted, process, syncer, pulling, history, faults>>
      /\ resident' = resident \ {t}
  BY DEF Evict
<1>3. DataOK'
  BY <1>1, <1>2 DEF DataOK, rest, persisted, history
<1>4. /\ Behind' = Behind /\ Excused' = Excused /\ stored' = stored /\ addSeq' = addSeq
      /\ watermark' = watermark /\ inline' = inline /\ pulling' = pulling
  BY <1>2 DEF Behind, Excused, persisted, history, rest
<1>5. \A u \in Tree : addSeq[u] <= addSeq'[u]
  BY <1>1, <1>4 DEF DataOK
<1>. QED
  BY <1>2, <1>3, <1>4, <1>5, DataStep DEF SyncInv, StoredInv

LEMMA DeleteStep ==
    ASSUME SyncInv, NEW t \in Tree, Delete(t)
    PROVE  SyncInv'
<1>1. DataOK
  BY TypeParts DEF SyncInv
<1>2. /\ UNCHANGED <<rest, stored, addSeq, stub, applied, watermark, process, syncer, pulling, history>>
      /\ deleted' = deleted \cup {t} /\ resident' = resident \ {t}
  BY DEF Delete
<1>3. faults' \in 0..MaxFaults
  BY <1>1, BoundAssumption DEF Delete, Fault, DataOK
<1>4. DataOK'
  BY <1>1, <1>2, <1>3 DEF DataOK, rest, history
<1>5. Behind' \subseteq Behind /\ Excused' = Excused /\ inline' = inline
  BY <1>2 DEF Behind, Excused, history, rest
<1>6. \A u \in Tree : addSeq[u] <= addSeq'[u]
  BY <1>1, <1>2 DEF DataOK
<1>. QED
  BY <1>2, <1>4, <1>5, <1>6, DataStep DEF SyncInv, StoredInv

----------------------------------------------------------------------------
(* The boot pass.                                                          *)

LEMMA NoBoots ==
    /\ NoBoot \in Boots /\ NoBoot.pc = "off" /\ NoBoot.snapshot = 0 /\ NoBoot.load = {}
    /\ \A pc \in {"start", "done"} :
          LET b == [NoBoot EXCEPT !.pc = pc]
          IN  b \in Boots /\ b.pc = pc /\ b.snapshot = 0
BY DEF NoBoot, Boots

\* A step of the process that leaves storage, the rounds and the job alone
\* keeps what is said of those.
LEMMA ProcessStep ==
    ASSUME SyncInv, DataOK', LifeOK', UNCHANGED <<inline, stored, addSeq, pulling, syncer>>,
           phase' \in {"closing", "gate"} => phase \in {"closing", "gate"},
           resident' \subseteq resident, Behind' \ Excused' \subseteq Behind \ Excused,
           resident' \cap Behind' \subseteq pulling' \cup Excused'
    PROVE  TypeOK' /\ StepInv' /\ StoredInv' /\ RoundInv'
<1>1. DataOK /\ QueueOK /\ WorkOK /\ RoundOK
  BY TypeParts DEF SyncInv
<1>2. /\ inline' = inline /\ stored' = stored /\ addSeq' = addSeq /\ pulling' = pulling
      /\ pending' = pending /\ queue' = queue /\ kind' = kind /\ fetched' = fetched
      /\ job' = job /\ step' = step /\ round' = round /\ Parked' = Parked
  BY DEF syncer, Parked
<1>3. TypeOK'
  BY <1>1, <1>2, TypeFrames, TypeParts2
<1>4. StepInv'
  BY <1>2 DEF SyncInv, StepInv, Working
<1>5. StoredInv'
  BY <1>2 DEF SyncInv, StoredInv
<1>6. RoundInv'
  BY <1>2 DEF SyncInv, RoundInv
<1>. QED
  BY <1>3, <1>4, <1>5, <1>6

LEMMA StartStep ==
    ASSUME SyncInv, Start
    PROVE  SyncInv'
<1>1. DataOK /\ LifeOK
  BY TypeParts DEF SyncInv
<1>2. /\ UNCHANGED <<rest, persisted, caughtUp, syncer, resident, pulling, history, faults>>
      /\ phase = "down" /\ phase' = "up" /\ boot' = [NoBoot EXCEPT !.pc = "start"]
  BY DEF Start
<1>3. boot' \in Boots /\ boot'.pc = "start" /\ boot'.snapshot = 0
  BY <1>2, NoBoots
<1>4. /\ Behind' = Behind /\ Excused' = Excused /\ stored' = stored /\ addSeq' = addSeq
      /\ watermark' = watermark /\ inline' = inline /\ pulling' = pulling /\ resident' = resident
      /\ caughtUp' = FALSE
  BY <1>1, <1>2 DEF Behind, Excused, persisted, history, rest, SyncInv, AttendInv, LifeOK
<1>5. DataOK' /\ LifeOK'
  BY <1>1, <1>2, <1>3, <1>4, TypeFrames DEF LifeOK
<1>6. resident' \cap Behind' \subseteq pulling' \cup Excused'
  BY <1>4 DEF SyncInv, StoredInv
<1>7. TypeOK' /\ StepInv' /\ StoredInv' /\ RoundInv'
  BY <1>2, <1>4, <1>5, <1>6, ProcessStep
<1>8. MaxLastAddSeq' = MaxLastAddSeq /\ MaxLastAddSeq \in Nat
  BY <1>1, <1>4, MaxFacts DEF MaxLastAddSeq, MaxIsMax, DataOK
<1>9. MarkInv'
  BY <1>3, <1>4, <1>8 DEF SyncInv, MarkInv
<1>10. WatermarkCovers'
  BY <1>4 DEF SyncInv, WatermarkCovers, Excused
<1>11. BootInv' /\ AttendInv'
  BY <1>2, <1>3, <1>4 DEF BootInv, AttendInv
<1>. QED
  BY <1>7, <1>9, <1>10, <1>11 DEF SyncInv

\* What is behind has an AddSeq above the watermark: the pass loads it, or
\* there is none.
LEMMA BootSnapshotStep ==
    ASSUME SyncInv, BootSnapshot
    PROVE  SyncInv'
<1>1. DataOK /\ LifeOK
  BY TypeParts DEF SyncInv
<1>2. /\ UNCHANGED <<rest, persisted, phase, syncer, resident, pulling, history, faults>>
      /\ boot.pc = "start" /\ phase # "gate"
  BY DEF BootSnapshot
<1>3. /\ Behind' = Behind /\ Excused' = Excused /\ stored' = stored /\ addSeq' = addSeq
      /\ watermark' = watermark /\ inline' = inline /\ pulling' = pulling /\ resident' = resident
      /\ phase' = phase /\ MaxLastAddSeq' = MaxLastAddSeq
  BY <1>2 DEF Behind, Excused, persisted, history, rest, MaxLastAddSeq
<1>4. /\ MaxLastAddSeq \in Nat /\ \A t \in Tree : addSeq[t] <= MaxLastAddSeq
      /\ watermark \in Nat /\ addSeq \in [Tree -> Nat]
  BY <1>1, MaxFacts DEF MaxIsMax, DataOK
<1>5. \A t \in Behind \ Excused : addSeq[t] > watermark
  BY DEF SyncInv, WatermarkCovers, Excused
<1>6. resident' \cap Behind' \subseteq pulling' \cup Excused'
  BY <1>3 DEF SyncInv, StoredInv
<1>7. WatermarkCovers' /\ DataOK'
  BY <1>1, <1>2, <1>3, <1>5, TypeFrames DEF WatermarkCovers, Excused
<1>8. phase # "down"
  BY <1>2 DEF SyncInv, AttendInv
<1>9. CASE MaxLastAddSeq <= watermark
  <2>1. boot' = [NoBoot EXCEPT !.pc = "done"] /\ caughtUp' = TRUE
    BY <1>9 DEF BootSnapshot
  <2>2. boot' \in Boots /\ boot'.pc = "done" /\ boot'.snapshot = 0
    BY <2>1, NoBoots
  <2>3. LifeOK'
    BY <1>1, <1>3, <2>1, <2>2 DEF LifeOK
  <2>4. TypeOK' /\ StepInv' /\ StoredInv' /\ RoundInv'
    BY <1>2, <1>3, <1>6, <1>7, <2>3, ProcessStep
  <2>5. Behind \ Excused = {}
    <3>1. \A t \in Tree : ~(addSeq[t] > watermark)
      BY <1>4, <1>9
    <3>. QED
      BY <3>1, <1>5 DEF Behind
  <2>6. MarkInv' /\ BootInv' /\ AttendInv'
    BY <1>2, <1>3, <1>4, <1>8, <2>2, <2>5 DEF SyncInv, MarkInv, BootInv, AttendInv
  <2>. QED
    BY <1>7, <2>4, <2>6 DEF SyncInv
<1>10. CASE ~(MaxLastAddSeq <= watermark)
  <2>. DEFINE load == {t \in Tree \ deleted : addSeq[t] > watermark}
  <2>1. boot' = [pc |-> "load", snapshot |-> MaxLastAddSeq, load |-> load] /\ caughtUp' = caughtUp
    BY <1>10 DEF BootSnapshot
  <2>2. boot' \in Boots /\ boot'.pc = "load" /\ boot'.snapshot = MaxLastAddSeq /\ boot'.load = load
    BY <1>4, <2>1 DEF Boots
  <2>3. LifeOK'
    BY <1>1, <1>3, <2>1, <2>2 DEF LifeOK
  <2>4. TypeOK' /\ StepInv' /\ StoredInv' /\ RoundInv'
    BY <1>2, <1>3, <1>6, <1>7, <2>3, ProcessStep
  <2>5. MarkInv'
    BY <1>3, <1>4, <2>2 DEF SyncInv, MarkInv
  <2>6. BootInv'
    BY <1>3, <1>4, <1>5, <2>2 DEF BootInv, Behind
  <2>7. Attended' = Attended /\ Carried' = Carried
    BY <1>2, <1>3 DEF Attended, Carried, Parked, Inlined, syncer
  <2>8. AttendInv'
    BY <1>2, <1>3, <1>8, <2>1, <2>7 DEF SyncInv, AttendInv
  <2>. QED
    BY <1>7, <2>4, <2>5, <2>6, <2>8 DEF SyncInv
<1>. QED
  BY <1>9, <1>10

\* A tree of the pass is loaded, was open, is gone, or nobody retries it.
LEMMA BootTree ==
    ASSUME SyncInv, NEW t \in Tree, DataOK',
           UNCHANGED <<rest, stored, addSeq, watermark, phase, caughtUp, syncer, pulling>>,
           boot.pc = "load", phase # "gate", boot' = [boot EXCEPT !.load = @ \ {t}],
           resident' \subseteq resident, Behind' \ Excused' \subseteq Behind \ Excused,
           resident' \cap Behind' \subseteq pulling' \cup Excused',
           t \in Behind' \ Excused' => t \in pulling
    PROVE  SyncInv'
<1>1. DataOK /\ LifeOK
  BY TypeParts DEF SyncInv
<1>2. /\ inline' = inline /\ stored' = stored /\ addSeq' = addSeq /\ watermark' = watermark
      /\ phase' = phase /\ caughtUp' = caughtUp /\ pulling' = pulling
      /\ MaxLastAddSeq' = MaxLastAddSeq
  BY DEF rest, MaxLastAddSeq
<1>3. /\ boot' \in Boots /\ boot'.pc = "load" /\ boot'.snapshot = boot.snapshot
      /\ boot'.load = boot.load \ {t}
  BY <1>1 DEF LifeOK, Boots
<1>4. LifeOK'
  BY <1>1, <1>2, <1>3 DEF LifeOK
<1>5. TypeOK' /\ StepInv' /\ StoredInv' /\ RoundInv'
  BY <1>2, <1>4, ProcessStep
<1>6. Attended' = Attended /\ Carried' = Carried
  BY <1>2 DEF Attended, Carried, Parked, Inlined, syncer
<1>7. MarkInv'
  BY <1>2, <1>3 DEF SyncInv, MarkInv
<1>8. WatermarkCovers'
  BY <1>2 DEF SyncInv, WatermarkCovers, Excused
<1>9. BootInv'
  BY <1>2, <1>3, <1>6 DEF SyncInv, BootInv
<1>10. AttendInv'
  BY <1>2, <1>3, <1>6 DEF SyncInv, AttendInv
<1>. QED
  BY <1>5, <1>7, <1>8, <1>9, <1>10 DEF SyncInv

LEMMA BootLoadStep ==
    ASSUME SyncInv, NEW t \in Tree, BootLoad(t)
    PROVE  SyncInv'
<1>1. DataOK
  BY TypeParts DEF SyncInv
<1>2. /\ UNCHANGED <<rest, stored, addSeq, phase, caughtUp, syncer, faults, stub, deleted, watermark>>
      /\ pulling' = pulling /\ boot' = [boot EXCEPT !.load = @ \ {t}]
      /\ boot.pc = "load" /\ phase # "gate"
  BY DEF BootLoad, Unstored
<1>3. CASE t \in deleted
  <2>1. applied' = applied /\ failed' = failed /\ cut' = cut /\ resident' = resident
    BY <1>3 DEF BootLoad, history
  <2>2. DataOK'
    BY <1>1, <1>2, <2>1 DEF DataOK, rest
  <2>3. Behind' = Behind /\ Excused' = Excused /\ t \notin Behind'
    BY <1>2, <1>3, <2>1 DEF Behind, Excused
  <2>. QED
    BY <1>2, <2>1, <2>2, <2>3, BootTree DEF SyncInv, StoredInv
<1>4. CASE t \notin deleted /\ t \in resident
  <2>1. applied' = applied /\ failed' = failed /\ cut' = cut /\ resident' = resident \ {t}
    BY <1>4 DEF BootLoad, history
  <2>2. DataOK'
    BY <1>1, <1>2, <2>1 DEF DataOK, rest
  <2>3. Behind' = Behind /\ Excused' = Excused
    BY <1>2, <2>1 DEF Behind, Excused
  <2>. QED
    BY <1>2, <1>4, <2>1, <2>2, <2>3, BootTree DEF SyncInv, StoredInv
<1>5. CASE t \notin deleted /\ t \notin resident
  <2>1. /\ applied' = [applied EXCEPT ![t] = stored[t]] /\ resident' = resident \ {t}
        /\ failed' = failed \ {t} /\ cut' = cut \ {t}
    BY <1>5 DEF BootLoad, Forget
  <2>2. /\ applied' \in [Tree -> 0..MaxVersion] /\ applied'[t] = stored[t]
        /\ \A u \in Tree \ {t} : applied'[u] = applied[u]
    BY <1>1, <2>1 DEF DataOK
  <2>3. DataOK'
    BY <1>1, <1>2, <2>1, <2>2 DEF DataOK, rest
  <2>4. t \notin Behind' /\ \A u \in Tree \ {t} : u \in Behind' <=> u \in Behind
    BY <1>1, <1>2, <2>2 DEF Behind, DataOK
  <2>5. \A u \in Tree \ {t} : u \in Excused' <=> u \in Excused
    BY <2>1 DEF Excused
  <2>6. Behind' \ Excused' \subseteq Behind \ Excused
    BY <2>4, <2>5 DEF Behind
  <2>7. resident' \cap Behind' \subseteq pulling' \cup Excused'
    BY <1>2, <2>1, <2>4, <2>5 DEF SyncInv, StoredInv, Behind
  <2>. QED
    BY <1>2, <2>1, <2>3, <2>4, <2>6, <2>7, BootTree
<1>. QED
  BY <1>3, <1>4, <1>5

LEMMA BootLoadFailsStep ==
    ASSUME SyncInv, NEW t \in Tree, BootLoadFails(t)
    PROVE  SyncInv'
<1>1. DataOK
  BY TypeParts DEF SyncInv
<1>2. /\ UNCHANGED <<rest, persisted, phase, caughtUp, syncer, resident, pulling>>
      /\ boot' = [boot EXCEPT !.load = @ \ {t}] /\ Fails(t)
      /\ boot.pc = "load" /\ phase # "gate"
  BY DEF BootLoadFails
<1>3. failed' \in SUBSET Tree /\ cut' = cut /\ Excused' = Excused \cup ({t} \cap Behind)
  BY <1>1, <1>2, FailsFacts
<1>4. faults' \in 0..MaxFaults
  BY <1>1, BoundAssumption DEF BootLoadFails, Fault, DataOK
<1>5. DataOK'
  BY <1>1, <1>2, <1>3, <1>4 DEF DataOK, rest, persisted
<1>6. Behind' = Behind /\ stored' = stored /\ addSeq' = addSeq /\ watermark' = watermark
  BY <1>2 DEF Behind, persisted
<1>7. resident' \cap Behind' \subseteq pulling' \cup Excused'
  BY <1>2, <1>3, <1>6 DEF SyncInv, StoredInv
<1>. QED
  BY <1>2, <1>3, <1>5, <1>6, <1>7, BootTree

\* The pass has loaded all it saw: what is still behind was stored since.
LEMMA BootPersistStep ==
    ASSUME SyncInv, BootPersist
    PROVE  SyncInv'
<1>1. DataOK /\ LifeOK
  BY TypeParts DEF SyncInv
<1>2. /\ UNCHANGED <<rest, stored, addSeq, stub, deleted, applied, phase, syncer, resident,
                       pulling, faults>>
      /\ boot.pc = "load" /\ boot.load = {} /\ phase # "gate"
      /\ watermark' = boot.snapshot /\ caughtUp' = TRUE /\ boot' = [NoBoot EXCEPT !.pc = "done"]
      /\ Cut(pulling)
  BY DEF BootPersist
<1>3. failed' = failed /\ cut' \in SUBSET Tree /\ Excused' = Excused \cup (pulling \cap Behind)
  BY <1>1, <1>2, CutFacts
<1>4. boot' \in Boots /\ boot'.pc = "done" /\ boot'.snapshot = 0
  BY <1>2, NoBoots
<1>5. boot.snapshot \in Nat /\ boot.snapshot <= MaxLastAddSeq
  BY <1>1 DEF LifeOK, Boots, SyncInv, MarkInv
<1>6. DataOK' /\ LifeOK'
  BY <1>1, <1>2, <1>3, <1>4, <1>5 DEF DataOK, LifeOK, rest
<1>7. /\ Behind' = Behind /\ inline' = inline /\ MaxLastAddSeq' = MaxLastAddSeq
      /\ MaxLastAddSeq \in Nat /\ addSeq \in [Tree -> Nat]
  BY <1>1, <1>2, MaxFacts DEF Behind, rest, MaxLastAddSeq, MaxIsMax, DataOK
<1>8. \A t \in Behind \ Excused' : addSeq[t] > boot.snapshot /\ t \in Attended
  <2>1. ASSUME NEW t \in Tree, t \in Behind \ Excused'
        PROVE  ~(addSeq[t] <= boot.snapshot) /\ t \in Attended
    BY <2>1, <1>2, <1>3 DEF SyncInv, BootInv
  <2>. QED
    BY <2>1, <1>5, <1>7 DEF Behind
<1>9. TypeOK' /\ StepInv' /\ StoredInv' /\ RoundInv'
  <2>1. resident' \cap Behind' \subseteq pulling' \cup Excused'
    BY <1>2, <1>3, <1>7 DEF SyncInv, StoredInv
  <2>2. Behind' \ Excused' \subseteq Behind \ Excused
    BY <1>3, <1>7
  <2>. QED
    BY <1>2, <1>6, <1>7, <2>1, <2>2, ProcessStep
<1>10. Attended' = Attended
  BY <1>2 DEF Attended, Carried, Parked, Inlined, syncer
<1>11. MarkInv'
  BY <1>2, <1>4, <1>5, <1>7 DEF MarkInv
<1>12. WatermarkCovers'
  BY <1>2, <1>7, <1>8 DEF WatermarkCovers, Excused
<1>13. BootInv' /\ AttendInv'
  BY <1>2, <1>4, <1>7, <1>8, <1>10 DEF BootInv, AttendInv, SyncInv
<1>. QED
  BY <1>9, <1>11, <1>12, <1>13 DEF SyncInv

----------------------------------------------------------------------------
(* Closes and crashes.                                                     *)

LEMMA CloseSyncJobStep ==
    ASSUME SyncInv, CloseSyncJob
    PROVE  SyncInv'
<1>1. DataOK /\ LifeOK /\ QueueOK /\ WorkOK /\ RoundOK /\ job \in Jobs
  BY TypeParts DEF SyncInv, WorkOK
<1>2. /\ UNCHANGED <<rest, persisted, boot, caughtUp, pending, queue, kind, fetched, step, round,
                       resident, pulling, history>>
      /\ phase = "up" /\ phase' = "closing" /\ job' = [job EXCEPT !.closed = TRUE]
  BY DEF CloseSyncJob
<1>3. /\ job' \in Jobs /\ job'.pc = job.pc /\ job'.batch = job.batch /\ job'.closed = TRUE
  BY <1>1, <1>2 DEF Jobs
<1>4. /\ Behind' = Behind /\ Excused' = Excused /\ Parked' = Parked /\ Inlined' = Inlined
      /\ Carried' = Carried /\ Attended' = Attended
      /\ stored' = stored /\ addSeq' = addSeq /\ watermark' = watermark /\ inline' = inline
  BY <1>2 DEF Behind, Excused, Parked, Inlined, Carried, Attended, persisted, history, rest
<1>5. faults' \in 0..MaxFaults
  BY <1>1, BoundAssumption DEF CloseSyncJob, Fault, DataOK
<1>6. TypeOK'
  <2>1. DataOK'
    BY <1>1, <1>2, <1>5 DEF DataOK, rest, persisted, history
  <2>2. LifeOK' /\ WorkOK'
    BY <1>1, <1>2, <1>3 DEF LifeOK, WorkOK
  <2>3. QueueOK' /\ RoundOK'
    BY <1>1, <1>2, TypeFrames
  <2>. QED
    BY <2>1, <2>2, <2>3, TypeParts2
<1>7. StepInv'
  BY <1>2, <1>3 DEF SyncInv, StepInv, Working
<1>8. StoredInv' /\ RoundInv'
  BY <1>2, <1>4 DEF SyncInv, StoredInv, RoundInv
<1>9. MarkInv' /\ WatermarkCovers' /\ BootInv' /\ AttendInv'
  <2>1. \A t \in Tree : t \in Behind' \ Excused' => HandsKept(t)
    BY <1>2, <1>4 DEF HandsKept, Attended
  <2>2. \A t \in Tree : addSeq[t] <= addSeq'[t]
    BY <1>1, <1>4 DEF DataOK
  <2>. QED
    BY <2>1, <2>2, <1>2, <1>4, <1>6, HandsStep DEF SyncInv
<1>. QED
  BY <1>6, <1>7, <1>8, <1>9 DEF SyncInv

\* Nothing is parked: what is behind is queued, inline, or being replayed.
LEMMA CloseGateStep ==
    ASSUME SyncInv, CloseGate
    PROVE  SyncInv'
<1>1. DataOK /\ LifeOK
  BY TypeParts DEF SyncInv
<1>2. /\ UNCHANGED <<rest, persisted, caughtUp, syncer, resident, pulling, history, faults>>
      /\ phase = "closing" /\ phase' = "gate" /\ boot' = [boot EXCEPT !.pc = "off"]
      /\ Parked = {} /\ caughtUp
  BY DEF CloseGate
<1>3. boot' \in Boots /\ boot'.pc = "off" /\ boot'.snapshot = boot.snapshot
  BY <1>1, <1>2 DEF LifeOK, Boots
<1>4. /\ Behind' = Behind /\ Excused' = Excused /\ Parked' = Parked /\ Inlined' = Inlined
      /\ Carried' = Carried /\ Attended' = Attended
      /\ stored' = stored /\ addSeq' = addSeq /\ watermark' = watermark /\ inline' = inline
      /\ resident' = resident /\ pulling' = pulling /\ caughtUp' = caughtUp
      /\ MaxLastAddSeq' = MaxLastAddSeq
  BY <1>2 DEF Behind, Excused, Parked, Inlined, Carried, Attended, persisted, history, rest, syncer,
     MaxLastAddSeq
<1>5. DataOK' /\ LifeOK'
  BY <1>1, <1>2, <1>3, <1>4, TypeFrames DEF LifeOK
<1>6. TypeOK' /\ StepInv' /\ StoredInv' /\ RoundInv'
  BY <1>2, <1>4, <1>5, ProcessStep DEF SyncInv, StoredInv
<1>7. MarkInv'
  BY <1>3, <1>4 DEF SyncInv, MarkInv
<1>8. WatermarkCovers'
  BY <1>4 DEF SyncInv, WatermarkCovers, Excused
<1>9. BootInv'
  BY <1>3 DEF BootInv
<1>10. AttendInv'
  BY <1>2, <1>4 DEF SyncInv, AttendInv, Attended
<1>. QED
  BY <1>6, <1>7, <1>8, <1>9, <1>10 DEF SyncInv

\* A process that starts over knows only what is persisted.
LEMMA ResetStep ==
    ASSUME SyncInv, Reset, DataOK', UNCHANGED <<rest, stored, addSeq, deleted, applied>>,
           watermark' <= MaxLastAddSeq,
           \A t \in Behind \ Excused' : addSeq[t] > watermark'
    PROVE  SyncInv'
<1>1. DataOK /\ RoundOK
  BY TypeParts DEF SyncInv
<1>2. /\ phase' = "down" /\ boot' = NoBoot /\ caughtUp' = FALSE
      /\ resident' = {} /\ pulling' = {}
      /\ pending' = [t \in Tree |-> "no"] /\ queue' = <<>> /\ kind' = [t \in Tree |-> "none"]
      /\ fetched' = {} /\ job' = IdleJob /\ step' = [t \in Tree |-> "no"]
      /\ round' = [p \in Peer |-> IdleRound]
  BY DEF Reset
<1>3. Behind' = Behind /\ MaxLastAddSeq' = MaxLastAddSeq
  BY DEF Behind, MaxLastAddSeq
<1>4. MaxLastAddSeq \in Nat
  BY <1>1, MaxFacts DEF MaxIsMax, DataOK
<1>5. TypeOK'
  <2>1. LifeOK'
    BY <1>2, NoBoots DEF LifeOK
  <2>2. QueueOK'
    <3>1. queue' \in Seq(Tree) /\ IsInjective(queue') /\ Range(queue') = {}
      BY <1>2, EmptySeq DEF IsInjective, Range
    <3>. QED
      BY <1>2, <3>1 DEF QueueOK
  <2>3. WorkOK'
    BY <1>2 DEF WorkOK, IdleJob, Jobs
  <2>4. RoundOK'
    BY <1>2, IdleRounds DEF RoundOK
  <2>. QED
    BY <2>1, <2>2, <2>3, <2>4, TypeParts2
<1>6. StepInv'
  BY <1>2 DEF StepInv, Working, IdleJob
<1>7. StoredInv'
  BY <1>2, IdleRounds DEF StoredInv
<1>8. RoundInv'
  BY <1>2, IdleRounds DEF RoundInv
<1>9. MarkInv'
  BY <1>2, <1>3, <1>4, NoBoots DEF MarkInv
<1>10. WatermarkCovers'
  BY <1>3 DEF WatermarkCovers, Excused
<1>11. BootInv' /\ AttendInv'
  BY <1>2, NoBoots DEF BootInv, AttendInv
<1>. QED
  BY <1>5, <1>6, <1>7, <1>8, <1>9, <1>10, <1>11 DEF SyncInv

\* The watermark is advanced over every stored tree: what is behind then has
\* a replay in flight, which the snapshot cuts off.
LEMMA SnapshotStep ==
    ASSUME SyncInv, Snapshot
    PROVE  SyncInv'
<1>1. DataOK
  BY TypeParts DEF SyncInv
<1>2. /\ phase = "gate" /\ NothingSyncs /\ Cut(pulling) /\ Reset
      /\ watermark' = IF MaxLastAddSeq > watermark THEN MaxLastAddSeq ELSE watermark
      /\ UNCHANGED <<rest, stored, addSeq, stub, deleted, applied, faults>>
  BY DEF Snapshot
<1>3. failed' = failed /\ cut' \in SUBSET Tree /\ Excused' = Excused \cup (pulling \cap Behind)
  BY <1>1, <1>2, CutFacts
<1>4. MaxLastAddSeq \in Nat
  BY <1>1, MaxFacts DEF MaxIsMax, DataOK
<1>5. watermark' \in Nat /\ watermark' <= MaxLastAddSeq
  BY <1>1, <1>2, <1>4 DEF SyncInv, MarkInv, DataOK
<1>6. resident' = {} /\ pulling' = {}
  BY <1>2 DEF Reset
<1>7. DataOK'
  BY <1>1, <1>2, <1>3, <1>5, <1>6 DEF DataOK, rest
<1>8. Behind \ Excused' = {}
  <2>1. Range(queue) = {} /\ Inlined = {}
    BY <1>2 DEF NothingSyncs, Range, Inlined
  <2>2. \A t \in Behind \ Excused : t \in pulling
    BY <1>2, <2>1 DEF SyncInv, AttendInv, Carried
  <2>. QED
    BY <2>2, <1>3
<1>. QED
  BY <1>2, <1>5, <1>7, <1>8, ResetStep

LEMMA EndStep ==
    ASSUME SyncInv, CloseWithout \/ Crash
    PROVE  SyncInv'
<1>1. DataOK
  BY TypeParts DEF SyncInv
<1>2. Reset /\ UNCHANGED <<rest, persisted, history>> /\ faults' \in 0..MaxFaults
  BY <1>1, BoundAssumption DEF CloseWithout, Crash, Fault, DataOK
<1>3. resident' = {} /\ pulling' = {}
  BY <1>2 DEF Reset
<1>4. DataOK'
  BY <1>1, <1>2, <1>3 DEF DataOK, rest, persisted, history
<1>5. UNCHANGED <<stored, addSeq, deleted, applied>> /\ watermark' = watermark /\ Excused' = Excused
  BY <1>2 DEF persisted, history, Excused
<1>. QED
  BY <1>2, <1>4, <1>5, ResetStep DEF SyncInv, MarkInv, WatermarkCovers, Excused

----------------------------------------------------------------------------
(* The theorems.                                                           *)

LEMMA InitInv == Init => SyncInv
<1>. SUFFICES ASSUME Init
              PROVE  SyncInv
  OBVIOUS
<1>1. /\ inline \in Modes
      /\ remote = [p \in Peer |-> [t \in Tree |-> IF t \in Held[p] THEN 1 ELSE 0]]
      /\ stored = [t \in Tree |-> 0] /\ addSeq = [t \in Tree |-> 0] /\ stub = [t \in Tree |-> 0]
      /\ applied = [t \in Tree |-> 0]
      /\ deleted = {} /\ watermark = 0 /\ resident = {} /\ pulling = {}
      /\ failed = {} /\ cut = {} /\ faults = 0
  BY DEF Init
<1>2. /\ phase = "down" /\ boot = NoBoot /\ caughtUp = FALSE
      /\ pending = [t \in Tree |-> "no"] /\ queue = <<>> /\ kind = [t \in Tree |-> "none"]
      /\ fetched = {} /\ job = IdleJob /\ step = [t \in Tree |-> "no"]
      /\ round = [p \in Peer |-> IdleRound]
  BY DEF Init
<1>3. DataOK
  <2>1. inline \in BOOLEAN
    BY <1>1, TreeAssumption
  <2>2. 0 \in 0..MaxVersion /\ 1 \in 0..MaxVersion /\ 0 \in 0..MaxFaults
    BY BoundAssumption
  <2>3. remote \in [Peer -> [Tree -> 0..MaxVersion]]
    BY <1>1, <2>2
  <2>. QED
    BY <1>1, <2>1, <2>2, <2>3 DEF DataOK
<1>4. TypeOK
  <2>1. LifeOK
    BY <1>2, NoBoots DEF LifeOK
  <2>2. QueueOK
    <3>1. queue \in Seq(Tree) /\ IsInjective(queue) /\ Range(queue) = {}
      BY <1>2, EmptySeq DEF IsInjective, Range
    <3>. QED
      BY <1>2, <3>1 DEF QueueOK
  <2>3. WorkOK
    BY <1>2 DEF WorkOK, IdleJob, Jobs
  <2>4. RoundOK
    BY <1>2, IdleRounds DEF RoundOK
  <2>. QED
    BY <1>3, <2>1, <2>2, <2>3, <2>4, TypeParts
<1>5. Behind = {}
  BY <1>1 DEF Behind
<1>6. StepInv
  BY <1>2 DEF StepInv, Working, IdleJob
<1>7. StoredInv
  BY <1>1, <1>2, IdleRounds DEF StoredInv
<1>8. RoundInv
  BY <1>2, IdleRounds DEF RoundInv
<1>9. MarkInv
  <2>1. MaxLastAddSeq \in Nat
    BY <1>3, MaxFacts DEF MaxIsMax, DataOK
  <2>. QED
    BY <2>1, <1>1, <1>2, NoBoots DEF MarkInv
<1>10. WatermarkCovers /\ BootInv /\ AttendInv
  BY <1>2, <1>5, NoBoots DEF WatermarkCovers, BootInv, AttendInv
<1>. QED
  BY <1>4, <1>6, <1>7, <1>8, <1>9, <1>10 DEF SyncInv

LEMMA StutterStep == SyncInv /\ UNCHANGED vars => SyncInv'
<1>. SUFFICES ASSUME SyncInv, UNCHANGED vars
              PROVE  SyncInv'
  OBVIOUS
<1>1. DataOK /\ \A p \in Peer : round[p].pc = "inline" => inline
  BY TypeParts DEF SyncInv, RoundInv
<1>2. UNCHANGED <<rest, persisted, process, syncer, resident, pulling, history, faults>>
  BY DEF vars
<1>3. /\ Behind' = Behind /\ Excused' = Excused /\ stored' = stored /\ addSeq' = addSeq
      /\ watermark' = watermark /\ inline' = inline /\ resident' = resident /\ pulling' = pulling
  BY <1>2 DEF Behind, Excused, persisted, history, rest
<1>4. DataOK'
  BY <1>1, <1>2, TypeFrames
<1>5. \A t \in Tree : addSeq[t] <= addSeq'[t]
  BY <1>1, <1>3 DEF DataOK
<1>. QED
  BY <1>2, <1>3, <1>4, <1>5, DataStep DEF SyncInv, StoredInv

\* The inductive invariant: each action of the specification preserves it.
LEMMA NextInv == SyncInv /\ [Next]_vars => SyncInv'
<1>1. ASSUME SyncInv, NEW p \in Peer,
             Diff(p) \/ Join(p) \/ Return(p) \/ Timeout(p) \/ InlineStep(p)
      PROVE  SyncInv'
  BY <1>1, DiffStep, JoinStep, ReturnStep, TimeoutStep, InlineStepStep
<1>2. ASSUME SyncInv, NEW p \in Peer, round[p].at # NoTree, InlineFails(p, round[p].at)
      PROVE  SyncInv'
  <2>1. round[p].at \in Tree
    BY <1>2, TypeParts DEF SyncInv, RoundOK, Rounds
  <2>. QED
    BY <1>2, <2>1, InlineFailsStep
<1>3. ASSUME SyncInv, Turn \/ Wake \/ Exit \/ Take
      PROVE  SyncInv'
  BY <1>3, TurnStep, WakeStep, ExitStep, TakeStep
<1>4. ASSUME SyncInv, NEW t \in Tree,
             JobStep(t) \/ Update(t) \/ UpdateFails(t) \/ Evict(t) \/ Delete(t)
      PROVE  SyncInv'
  BY <1>4, JobStepStep, UpdateStep, UpdateFailsStep, EvictStep, DeleteStep
<1>5. ASSUME SyncInv, NEW p \in Peer, NEW t \in Tree, PeerGrows(p, t) \/ HeadUpdate(p, t)
      PROVE  SyncInv'
  BY <1>5, PeerGrowsStep, HeadUpdateStep
<1>6. ASSUME SyncInv, BootStep \/ \E t \in Tree : BootLoadFails(t)
      PROVE  SyncInv'
  BY <1>6, BootSnapshotStep, BootPersistStep, BootLoadStep, BootLoadFailsStep DEF BootStep
<1>7. ASSUME SyncInv, Start \/ CloseSyncJob \/ CloseGate \/ Snapshot \/ CloseWithout \/ Crash
      PROVE  SyncInv'
  BY <1>7, StartStep, CloseSyncJobStep, CloseGateStep, SnapshotStep, EndStep
<1>. QED
  BY <1>1, <1>2, <1>3, <1>4, <1>5, <1>6, <1>7, StutterStep DEF Next

LEMMA Invariant == Spec => []SyncInv
BY InitInv, NextInv, PTL DEF Spec

\* Every variable keeps its type; above all, the job's queue holds an item
\* per tree that has a kind, once (syncjob.go: items and order).
THEOREM TypeCorrect == Spec => []TypeOK
<1>1. SyncInv => TypeOK
  BY DEF SyncInv
<1>. QED
  BY <1>1, Invariant, PTL

\* The watermark covers no tree the projection is behind on, whatever crashes
\* and closes came between (catchup.go, sdk.go's close-time snapshot).
THEOREM WatermarkTrue == Spec => []WatermarkCovers
<1>1. SyncInv => WatermarkCovers
  BY DEF SyncInv
<1>. QED
  BY <1>1, Invariant, PTL

\* In a caught-up session a tree that is behind is queued, parked, being
\* replayed, or a round's own: no step drops one.
THEOREM NoTreeDropped == Spec => []BehindIsAttended
<1>1. SyncInv => BehindIsAttended
  <2>. SUFFICES ASSUME SyncInv, caughtUp, NEW t \in Behind \ (failed \cup cut)
                PROVE  \/ t \in Range(queue) \cup Parked \cup pulling
                       \/ \E p \in Peer : t \in {round[p].at} \cup Range(round[p].todo)
    BY DEF BehindIsAttended
  <2>1. t \in Attended
    BY DEF SyncInv, AttendInv, Excused
  <2>. QED
    BY <2>1 DEF Attended, Carried, Inlined
<1>. QED
  BY <1>1, Invariant, PTL

\* A round that joined in a caught-up session and was answered leaves nothing
\* behind that is not parked, being replayed, or nobody's (SyncAll, syncjob.go
\* wait).
THEOREM RoundComplete == Spec => RoundLeavesNothing
<1>1. ASSUME SyncInv, NEW p \in Peer, round[p].pc = "wait", round[p].awaits = {}
      PROVE  round[p].owed \cap Behind \subseteq Parked \cup failed \cup cut \cup pulling
  BY <1>1 DEF SyncInv, RoundInv, Excused
<1>2. SyncInv =>
         \A p \in Peer :
            (round[p].pc = "wait" /\ round'[p].pc = "idle" /\ round[p].awaits = {}
               /\ phase' # "down") =>
                round[p].owed \cap Behind \subseteq Parked \cup failed \cup cut \cup pulling
  BY <1>1
<1>. QED
  BY <1>2, Invariant, PTL DEF RoundLeavesNothing
=============================================================================
