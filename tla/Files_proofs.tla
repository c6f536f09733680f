---------------------------- MODULE Files_proofs ----------------------------
(***************************************************************************)
(* Proofs about Files, for any number of calls, owners, rows, CARs and     *)
(* faults: an only copy is never reclaimed, and one root is uploaded once. *)
(*                                                                         *)
(* OnlyCopySurvives is not inductive: a row keeps its bytes because, until *)
(* its reference is linked, its owner's marker stands; the marker helps    *)
(* only if no pass planned to reclaim the root before it was written; and  *)
(* a row bound to a sibling relies on the sibling's link.  Inv says so:    *)
(*                                                                         *)
(*   Shape     types, and what rows, CARs, calls and plans refer to;       *)
(*   Receipts  a receipt is for content the nodes hold, and what they do   *)
(*             not hold is complete on the device, or gone;                *)
(*   NewCars   the CAR of a full attachment is young, and its alone until  *)
(*             the row is written;                                         *)
(*   Donors    the row that the index or a bound call names is linked;     *)
(*   Guarded   an unlinked row has its owner's marker;                     *)
(*   Spares    what a pass has planned to reclaim is no row's only copy,   *)
(*             nor a row's to come, until the pass gets there;             *)
(*   Kept      the CAR of an only copy has its metadata row.               *)
(*                                                                         *)
(* First come facts about each update and each action (what it changes,    *)
(* place by place), then the parts of Shape, then Safe by kinds of steps:  *)
(* Calm (jobs, readers, time), CallsMove (calls that write no row),        *)
(* Collects (the passes), and the remaining actions one by one.            *)
(***************************************************************************)
EXTENDS Files, TLAPS, FiniteSetTheorems

----------------------------------------------------------------------------
(* Types.                                                                  *)

Pc == {"idle", "bound", "placed", "built", "marked", "written", "linked", "recorded", "queued"}
Do == {"none", "remove", "offload", "heal", "link", "drop", "queue", "unmark"}

Rows  == [st : {"none", "live", "deleted"}, root : 0..MaxRoots,
          owner : Owner \cup {NoOwner}, signed : BOOLEAN]
Adds  == [pc : Pc, root : 0..MaxRoots, owner : Owner \cup {NoOwner}, file : 0..MaxFiles,
          bound : 0..MaxFiles, signed : BOOLEAN, open : BOOLEAN]
Tasks == [root : Root, do : Do, file : 0..MaxFiles, owner : Owner \cup {NoOwner},
          dead : SUBSET File]

Types ==
    /\ row \in [File -> Rows] /\ built \in 0..MaxRoots
    /\ car \in [Root -> {"absent", "partial", "complete", "offloaded"}]
    /\ refs \in [Root -> SUBSET File] /\ aged \subseteq Root
    /\ intent \in [Root -> Owner \cup {NoOwner}]
    /\ dedup \in 0..MaxFiles /\ job \subseteq File /\ net \subseteq Root
    /\ add \in [Adder -> Adds] /\ drive \in [File -> {"idle", "upload", "sign"}]
    /\ gc \in [pc : {"idle", "act"}, plan : SUBSET Tasks]
    /\ faults \in 0..MaxFaults /\ exposed \subseteq File

LEMMA ConstantFacts ==
    /\ MaxFiles \in Nat \ {0} /\ MaxRoots \in Nat \ {0} /\ MaxFaults \in Nat
    /\ \A f : f \in File <=> f \in Int /\ 1 <= f /\ f <= MaxFiles
    /\ \A r : r \in Root <=> r \in Int /\ 1 <= r /\ r <= MaxRoots
    /\ NoOwner \notin Owner
    /\ NoAdd \in Adds /\ NoRow \in Rows
    /\ NoAdd.pc = "idle" /\ NoAdd.root = 0 /\ NoAdd.file = 0 /\ NoAdd.bound = 0
    /\ ~NoAdd.signed /\ ~NoAdd.open
    /\ NoPass = [pc |-> "idle", plan |-> {}]
BY FilesAssumption DEF File, Root, NoAdd, NoRow, NoPass, Adds, Rows, Pc

----------------------------------------------------------------------------
(* What the updates of records leave.                                      *)

\* The same call of Attach, but for where it is.
SameCall(x, y) == /\ y.root = x.root /\ y.owner = x.owner
                  /\ y.bound = x.bound /\ y.signed = x.signed

At(x, pc)   == [x EXCEPT !.pc = pc]
SetOpen(x, p) == [x EXCEPT !.open = p]
Wrote(x, f) == [x EXCEPT !.pc = "written", !.file = f, !.open = FALSE]
Put(x, pc)  == [x EXCEPT !.pc = pc, !.bound = 0]

LEMMA AtFacts ==
    ASSUME NEW x \in Adds, NEW pc \in Pc
    PROVE  /\ At(x, pc) \in Adds /\ SameCall(x, At(x, pc))
           /\ At(x, pc).pc = pc /\ At(x, pc).file = x.file /\ At(x, pc).open = x.open
BY DEF Adds, At, SameCall

LEMMA SetOpenFacts ==
    ASSUME NEW x \in Adds, NEW p \in BOOLEAN
    PROVE  /\ SetOpen(x, p) \in Adds /\ SameCall(x, SetOpen(x, p))
           /\ SetOpen(x, p).pc = x.pc /\ SetOpen(x, p).file = x.file
           /\ SetOpen(x, p).open <=> p
BY DEF Adds, SetOpen, SameCall

LEMMA WroteFacts ==
    ASSUME NEW x \in Adds, NEW f \in File
    PROVE  /\ Wrote(x, f) \in Adds /\ SameCall(x, Wrote(x, f))
           /\ Wrote(x, f).pc = "written" /\ Wrote(x, f).file = f /\ ~Wrote(x, f).open
<1>1. f \in 0..MaxFiles
  BY ConstantFacts
<1>. QED
  BY <1>1 DEF Adds, Wrote, SameCall, Pc

LEMMA PutFacts ==
    ASSUME NEW x \in Adds, NEW pc \in Pc
    PROVE  /\ Put(x, pc) \in Adds
           /\ Put(x, pc).pc = pc /\ Put(x, pc).root = x.root
           /\ Put(x, pc).owner = x.owner /\ Put(x, pc).signed = x.signed
           /\ Put(x, pc).bound = 0 /\ Put(x, pc).file = x.file
           /\ Put(x, pc).open = x.open
<1>1. 0 \in 0..MaxFiles
  BY ConstantFacts
<1>. QED
  BY <1>1 DEF Adds, Put

Bind(x, root, owner, donor, signed, open) ==
    [x EXCEPT !.pc = "bound", !.root = root, !.owner = owner, !.bound = donor,
              !.signed = signed, !.open = open]
Place(x, owner) == [x EXCEPT !.pc = "placed", !.owner = owner]
Seal(x, root) == [x EXCEPT !.pc = "built", !.root = root]

LEMMA BindFacts ==
    ASSUME NEW x \in Adds, NEW root \in 0..MaxRoots, NEW o \in Owner, NEW donor \in 0..MaxFiles,
           NEW s \in BOOLEAN, NEW e \in BOOLEAN
    PROVE  LET y == Bind(x, root, o, donor, s, e)
           IN /\ y \in Adds /\ y.pc = "bound" /\ y.root = root /\ y.owner = o
              /\ y.file = x.file /\ y.bound = donor
              /\ (y.signed <=> s) /\ (y.open <=> e)
BY DEF Adds, Bind, Pc

LEMMA PlaceFacts ==
    ASSUME NEW x \in Adds, NEW owner \in Owner
    PROVE  /\ Place(x, owner) \in Adds
           /\ Place(x, owner).pc = "placed" /\ Place(x, owner).owner = owner
           /\ Place(x, owner).root = x.root
           /\ Place(x, owner).file = x.file /\ Place(x, owner).bound = x.bound
           /\ Place(x, owner).signed = x.signed /\ Place(x, owner).open = x.open
BY DEF Place, Adds, Pc

LEMMA SealFacts ==
    ASSUME NEW x \in Adds, NEW root \in 0..MaxRoots
    PROVE  /\ Seal(x, root) \in Adds
           /\ Seal(x, root).pc = "built" /\ Seal(x, root).root = root
           /\ Seal(x, root).owner = x.owner
           /\ Seal(x, root).file = x.file /\ Seal(x, root).bound = x.bound
           /\ Seal(x, root).signed = x.signed /\ Seal(x, root).open = x.open
BY DEF Seal, Adds, Pc

Sign(x, p) == [x EXCEPT !.signed = @ \/ p]
Bury(x)    == [x EXCEPT !.st = "deleted"]

LEMMA RowFacts ==
    ASSUME NEW x \in Rows
    PROVE  /\ \A p \in BOOLEAN : /\ Sign(x, p) \in Rows /\ Sign(x, p).st = x.st
                                 /\ Sign(x, p).root = x.root /\ Sign(x, p).owner = x.owner
                                 /\ Sign(x, p).signed <=> (x.signed \/ p)
           /\ Bury(x) \in Rows /\ Bury(x).st = "deleted" /\ Bury(x).root = x.root
           /\ Bury(x).owner = x.owner /\ Bury(x).signed = x.signed
<1>1. ASSUME NEW p \in BOOLEAN
      PROVE  /\ Sign(x, p) \in Rows /\ Sign(x, p).st = x.st
             /\ Sign(x, p).root = x.root /\ Sign(x, p).owner = x.owner
             /\ Sign(x, p).signed <=> (x.signed \/ p)
  BY DEF Rows, Sign
<1>2. /\ Bury(x) \in Rows /\ Bury(x).st = "deleted" /\ Bury(x).root = x.root
      /\ Bury(x).owner = x.owner /\ Bury(x).signed = x.signed
  BY DEF Rows, Bury
<1>. QED
  BY <1>1, <1>2

Follow(t, do) == [t EXCEPT !.do = do, !.dead = {}]
Linked(t, f) == [t EXCEPT !.do = "link", !.file = f]

LEMMA TaskFacts ==
    ASSUME NEW t \in Tasks
    PROVE  /\ \A do \in Do : /\ Follow(t, do) \in Tasks /\ Follow(t, do).root = t.root
                             /\ Follow(t, do).do = do /\ Follow(t, do).dead = {}
                             /\ Follow(t, do).file = t.file /\ Follow(t, do).owner = t.owner
           /\ \A f \in File : /\ Linked(t, f) \in Tasks /\ Linked(t, f).root = t.root
                              /\ Linked(t, f).do = "link" /\ Linked(t, f).dead = t.dead
                              /\ Linked(t, f).file = f
<1>1. ASSUME NEW do \in Do
      PROVE  /\ Follow(t, do) \in Tasks /\ Follow(t, do).root = t.root
             /\ Follow(t, do).do = do /\ Follow(t, do).dead = {}
             /\ Follow(t, do).file = t.file /\ Follow(t, do).owner = t.owner
  BY DEF Tasks, Follow
<1>2. ASSUME NEW f \in File
      PROVE  /\ Linked(t, f) \in Tasks /\ Linked(t, f).root = t.root
             /\ Linked(t, f).do = "link" /\ Linked(t, f).dead = t.dead
             /\ Linked(t, f).file = f
  <2>1. f \in 0..MaxFiles
    BY ConstantFacts
  <2>. QED
    BY <2>1 DEF Tasks, Linked, Do
<1>. QED
  BY <1>1, <1>2

\* The plan after a step of the pass.
LEMMA PlanFacts ==
    ASSUME gc \in [pc : {"idle", "act"}, plan : SUBSET Tasks], NEW t \in gc.plan
    PROVE  /\ Done(t) => gc' \in [pc : {"idle", "act"}, plan : SUBSET Tasks]
                         /\ gc'.pc = gc.pc /\ gc'.plan = gc.plan \ {t}
           /\ \A do \in Do : gc' = Step(t, do) =>
                   gc' \in [pc : {"idle", "act"}, plan : SUBSET Tasks]
                   /\ gc'.pc = gc.pc /\ gc'.plan = (gc.plan \ {t}) \cup {Follow(t, do)}
           /\ \A f \in File : gc' = [gc EXCEPT !.plan = (@ \ {t}) \cup {[t EXCEPT !.do = "link", !.file = f]}] =>
                   gc' \in [pc : {"idle", "act"}, plan : SUBSET Tasks]
                   /\ gc'.pc = gc.pc /\ gc'.plan = (gc.plan \ {t}) \cup {Linked(t, f)}
<1>0. t \in Tasks
  OBVIOUS
<1>1. \A P \in SUBSET Tasks : /\ [gc EXCEPT !.plan = P] \in [pc : {"idle", "act"}, plan : SUBSET Tasks]
                              /\ [gc EXCEPT !.plan = P].pc = gc.pc
                              /\ [gc EXCEPT !.plan = P].plan = P
  OBVIOUS
<1>2. ASSUME Done(t)
      PROVE  gc' \in [pc : {"idle", "act"}, plan : SUBSET Tasks]
             /\ gc'.pc = gc.pc /\ gc'.plan = gc.plan \ {t}
  <2>1. gc' = [gc EXCEPT !.plan = gc.plan \ {t}]
    BY <1>2 DEF Done
  <2>. QED
    BY <1>1, <2>1
<1>3. ASSUME NEW do \in Do, gc' = Step(t, do)
      PROVE  gc' \in [pc : {"idle", "act"}, plan : SUBSET Tasks]
             /\ gc'.pc = gc.pc /\ gc'.plan = (gc.plan \ {t}) \cup {Follow(t, do)}
  <2>1. gc' = [gc EXCEPT !.plan = (gc.plan \ {t}) \cup {Follow(t, do)}]
    BY <1>3 DEF Step, Follow
  <2>2. Follow(t, do) \in Tasks
    BY <1>0, TaskFacts
  <2>. QED
    BY <1>1, <2>1, <2>2
<1>4. ASSUME NEW f \in File, gc' = [gc EXCEPT !.plan = (@ \ {t}) \cup {[t EXCEPT !.do = "link", !.file = f]}]
      PROVE  gc' \in [pc : {"idle", "act"}, plan : SUBSET Tasks]
             /\ gc'.pc = gc.pc /\ gc'.plan = (gc.plan \ {t}) \cup {Linked(t, f)}
  <2>1. gc' = [gc EXCEPT !.plan = (gc.plan \ {t}) \cup {Linked(t, f)}]
    BY <1>4 DEF Linked
  <2>2. Linked(t, f) \in Tasks
    BY <1>0, TaskFacts
  <2>. QED
    BY <1>1, <2>1, <2>2
<1>. QED
  BY <1>2, <1>3, <1>4

----------------------------------------------------------------------------
(* What each step changes, place by place.                                 *)

\* The only call that goes on.
OnlyCall(a) == \A b \in Adder : b # a => add'[b] = add[b]

\* A call goes on and keeps what it read.
Goes(a, pc) == /\ OnlyCall(a) /\ SameCall(add[a], add'[a]) /\ add'[a].pc = pc
               /\ add'[a].file = add[a].file /\ add'[a].open = add[a].open

\* Every call either stays as it is or is over.
Ends == \A b \in Adder : add'[b] \in {add[b], NoAdd}

LEMMA GoFacts ==
    ASSUME Types, NEW a \in Adder, NEW pc \in Pc, Go(a, pc)
    PROVE  add' \in [Adder -> Adds] /\ Goes(a, pc)
<1>1. add' = [add EXCEPT ![a] = At(add[a], pc)]
  BY DEF Go, At
<1>2. At(add[a], pc) \in Adds
  BY AtFacts DEF Types
<1>3. add \in [Adder -> Adds]
  BY DEF Types
<1>4. add' \in [Adder -> Adds] /\ add'[a] = At(add[a], pc) /\ OnlyCall(a)
  BY <1>1, <1>2, <1>3 DEF OnlyCall
<1>5. add[a] \in Adds
  BY <1>3
<1>. QED
  BY <1>4, <1>5, AtFacts DEF Goes

LEMMA EndFacts ==
    ASSUME Types, NEW a \in Adder, add' = [add EXCEPT ![a] = NoAdd]
    PROVE  add' \in [Adder -> Adds] /\ OnlyCall(a) /\ Ends /\ add'[a] = NoAdd
<1>1. add \in [Adder -> Adds] /\ NoAdd \in Adds
  BY ConstantFacts DEF Types
<1>2. add' \in [Adder -> Adds] /\ OnlyCall(a) /\ add'[a] = NoAdd
  BY <1>1 DEF OnlyCall
<1>. QED
  BY <1>2 DEF Ends, OnlyCall

LEMMA AttachBoundFacts ==
    ASSUME Types, NEW a \in Adder, NEW o \in Owner, AttachBound(a, o)
    PROVE  /\ add[a].pc = "idle" /\ FileLeft /\ dedup \in File /\ Live(dedup)
           /\ add' \in [Adder -> Adds] /\ OnlyCall(a)
           /\ add'[a].pc = "bound" /\ add'[a].root = row[dedup].root /\ add'[a].owner = o
           /\ add'[a].file = 0 /\ add'[a].bound = dedup
           /\ (add'[a].signed <=> row[dedup].signed) /\ (add'[a].open <=> dedup \in exposed)
           /\ UNCHANGED <<local, drive, gc, faults, exposed>>
<1>1. add[a].pc = "idle" /\ FileLeft /\ dedup \in File /\ Live(dedup)
  BY DEF AttachBound, LiveFiles
<1>2. row[dedup].root \in 0..MaxRoots /\ row[dedup].signed \in BOOLEAN
  BY <1>1 DEF Types, Rows
<1>3. dedup \in 0..MaxFiles /\ NoAdd \in Adds /\ NoAdd.file = 0
  BY <1>1, ConstantFacts
<1>4. PICK e \in BOOLEAN : e = (dedup \in exposed)
  <2>1. (dedup \in exposed) \in BOOLEAN
    OBVIOUS
  <2>. QED
    BY <2>1, Zenon
<1>. DEFINE x == Bind(NoAdd, row[dedup].root, o, dedup, row[dedup].signed, e)
<1>5. /\ x \in Adds /\ x.pc = "bound" /\ x.root = row[dedup].root /\ x.owner = o
      /\ x.file = 0 /\ x.bound = dedup
      /\ (x.signed <=> row[dedup].signed) /\ (x.open <=> e)
  BY <1>2, <1>3, BindFacts
<1>6. add \in [Adder -> Adds]
  BY DEF Types
<1>7. add' \in [Adder -> Adds] /\ OnlyCall(a) /\ add'[a] = x
  <2>1. add' = [add EXCEPT ![a] = x]
    BY <1>4 DEF AttachBound, Bind
  <2>. HIDE DEF x
  <2>. QED
    BY <1>5, <1>6, <2>1 DEF OnlyCall
<1>8. UNCHANGED <<local, drive, gc, faults, exposed>>
  BY DEF AttachBound
<1>. HIDE DEF x
<1>. QED
  BY <1>1, <1>4, <1>5, <1>7, <1>8

LEMMA AttachFullFacts ==
    ASSUME Types, NEW a \in Adder, NEW o \in Owner, AttachFull(a, o)
    PROVE  /\ add[a].pc = "idle" /\ FileLeft
           /\ add' \in [Adder -> Adds] /\ OnlyCall(a)
           /\ add'[a].pc = "placed" /\ add'[a].root = 0 /\ add'[a].owner = o
           /\ add'[a].file = 0 /\ add'[a].bound = 0
           /\ ~add'[a].signed /\ ~add'[a].open
           /\ UNCHANGED <<local, drive, gc, faults, exposed>>
<1>1. /\ add[a].pc = "idle" /\ FileLeft
      /\ UNCHANGED <<local, drive, gc, faults, exposed>>
  BY DEF AttachFull
<1>. DEFINE x == Place(NoAdd, o)
<1>2. add' = [add EXCEPT ![a] = x]
  BY DEF AttachFull, Place
<1>3. /\ x \in Adds /\ x.pc = "placed" /\ x.root = 0 /\ x.owner = o
      /\ x.file = 0 /\ x.bound = 0 /\ ~x.signed /\ ~x.open
  BY ConstantFacts, PlaceFacts
<1>4. add \in [Adder -> Adds]
  BY DEF Types
<1>5. add' \in [Adder -> Adds] /\ OnlyCall(a) /\ add'[a] = x
  <2>. HIDE DEF x
  <2>. QED
    BY <1>2, <1>3, <1>4 DEF OnlyCall
<1>. HIDE DEF x
<1>. QED
  BY <1>1, <1>3, <1>5

LEMMA FinalizeFacts ==
    ASSUME Types, NEW a \in Adder, Finalize(a)
    PROVE  /\ add[a].pc = "placed" /\ built < MaxRoots
           /\ built' = built + 1 /\ built' \in Root
           /\ car' \in [Root -> {"absent", "partial", "complete", "offloaded"}]
           /\ car'[built'] = "complete" /\ \A r \in Root : r # built' => car'[r] = car[r]
           /\ add' \in [Adder -> Adds] /\ OnlyCall(a)
           /\ add'[a].pc = "built" /\ add'[a].root = built' /\ add'[a].owner = add[a].owner
           /\ add'[a].file = add[a].file /\ add'[a].bound = add[a].bound
           /\ add'[a].signed = add[a].signed /\ add'[a].open = add[a].open
           /\ UNCHANGED <<row, refs, aged, intent, dedup, job, net, drive, gc, faults, exposed>>
<1>1. /\ add[a].pc = "placed" /\ built < MaxRoots /\ built' = built + 1
      /\ UNCHANGED <<row, refs, aged, intent, dedup, job, net, drive, gc, faults, exposed>>
  BY DEF Finalize
<1>2. built' \in Root /\ built' \in 0..MaxRoots
  BY <1>1, ConstantFacts DEF Types
<1>3. car' = [car EXCEPT ![built'] = "complete"]
  BY <1>1 DEF Finalize
<1>4. /\ car' \in [Root -> {"absent", "partial", "complete", "offloaded"}]
      /\ car'[built'] = "complete" /\ \A r \in Root : r # built' => car'[r] = car[r]
  BY <1>2, <1>3 DEF Types
<1>7. add \in [Adder -> Adds] /\ add[a] \in Adds
  BY DEF Types
<1>. DEFINE x == Seal(add[a], built')
<1>5. add' = [add EXCEPT ![a] = x]
  BY <1>1 DEF Finalize, Seal
<1>6. /\ x \in Adds /\ x.pc = "built" /\ x.root = built' /\ x.owner = add[a].owner
      /\ x.file = add[a].file /\ x.bound = add[a].bound
      /\ x.signed = add[a].signed /\ x.open = add[a].open
  BY <1>2, <1>7, SealFacts
<1>8. add' \in [Adder -> Adds] /\ OnlyCall(a) /\ add'[a] = x
  <2>. HIDE DEF x
  <2>. QED
    BY <1>5, <1>6, <1>7 DEF OnlyCall
<1>. HIDE DEF x
<1>. QED
  BY <1>1, <1>2, <1>4, <1>6, <1>8

\* A call that stays where it is, but for its guard.
Stays(b) == /\ SameCall(add[b], add'[b]) /\ add'[b].pc = add[b].pc
            /\ add'[b].file = add[b].file

LEMMA MarkFacts ==
    ASSUME Types, NEW a \in Adder, Mark(a), add[a].root \in Root
    PROVE  LET r == add[a].root
               taken == intent[r] \notin {NoOwner, add[a].owner}
           IN /\ add[a].pc \in {"bound", "built"}
              /\ add' \in [Adder -> Adds]
              /\ SameCall(add[a], add'[a]) /\ add'[a].pc = "marked"
              /\ add'[a].file = add[a].file /\ (add'[a].open <=> add[a].open)
              /\ \A b \in Adder \ {a} : /\ Stays(b)
                                        /\ add[b].open => add'[b].open
                                        /\ taken /\ Opened(r, a, b) => add'[b].open
              /\ intent' \in [Root -> Owner \cup {NoOwner}]
              /\ intent'[r] = add[a].owner
              /\ \A q \in Root : q # r => intent'[q] = intent[q]
              /\ exposed' \in SUBSET File /\ exposed \subseteq exposed'
              /\ taken => Unlinked(r) \ {add[a].file} \subseteq exposed'
              /\ UNCHANGED <<row, built, car, refs, aged, dedup, job, net, drive, gc, faults>>
<1>. DEFINE r == add[a].root
            taken == intent[r] \notin {NoOwner, add[a].owner}
<1>1. /\ add[a].pc \in {"bound", "built"}
      /\ intent' = [intent EXCEPT ![r] = add[a].owner]
      /\ IF taken THEN Expose(r, a) ELSE UNCHANGED exposed
      /\ add' = [b \in Adder |-> IF b = a THEN [add[a] EXCEPT !.pc = "marked"]
                 ELSE [add[b] EXCEPT !.open = @ \/ (taken /\ Opened(r, a, b))]]
      /\ UNCHANGED <<row, built, car, refs, aged, dedup, job, net, drive, gc, faults>>
  BY DEF Mark
<1>2. add \in [Adder -> Adds] /\ add[a] \in Adds
  BY DEF Types
<1>3. /\ add'[a] \in Adds /\ SameCall(add[a], add'[a]) /\ add'[a].pc = "marked"
      /\ add'[a].file = add[a].file /\ (add'[a].open <=> add[a].open)
  <2>1. add'[a] = At(add[a], "marked")
    BY <1>1 DEF At
  <2>2. "marked" \in Pc
    BY DEF Pc
  <2>. QED
    BY <1>2, <2>1, <2>2, AtFacts
<1>4. ASSUME NEW b \in Adder \ {a}
      PROVE  /\ add'[b] \in Adds /\ Stays(b)
             /\ add'[b].open <=> (add[b].open \/ (taken /\ Opened(r, a, b)))
  <2>. DEFINE op == add[b].open \/ (taken /\ Opened(r, a, b))
  <2>1. add'[b] = SetOpen(add[b], op)
    BY <1>1 DEF SetOpen
  <2>. HIDE DEF op
  <2>2. PICK e \in BOOLEAN : e = op
    <3>1. op \in BOOLEAN
      BY DEF op
    <3>. QED
      BY <3>1, Zenon
  <2>3. add[b] \in Adds
    BY <1>2
  <2>4. /\ add'[b] \in Adds /\ SameCall(add[b], add'[b])
        /\ add'[b].pc = add[b].pc /\ add'[b].file = add[b].file /\ (add'[b].open <=> e)
    BY <2>1, <2>2, <2>3, SetOpenFacts
  <2>. QED
    BY <2>2, <2>4 DEF Stays, op
<1>5. add' \in [Adder -> Adds]
  <2>1. add' = [b \in Adder |-> add'[b]]
    BY <1>1
  <2>2. \A b \in Adder : add'[b] \in Adds
    BY <1>3, <1>4
  <2>. QED
    BY <2>1, <2>2
<1>6. /\ intent' \in [Root -> Owner \cup {NoOwner}] /\ intent'[r] = add[a].owner
      /\ \A q \in Root : q # r => intent'[q] = intent[q]
  <2>1. add[a].owner \in Owner \cup {NoOwner}
    BY <1>2 DEF Adds
  <2>. QED
    BY <1>1, <2>1 DEF Types
<1>7. /\ exposed' \in SUBSET File /\ exposed \subseteq exposed'
      /\ taken => Unlinked(r) \ {add[a].file} \subseteq exposed'
  BY <1>1 DEF Types, Expose, Unlinked, RowsOf
<1>. HIDE DEF r, taken
<1>8. \A b \in Adder \ {a} : /\ Stays(b) /\ (add[b].open => add'[b].open)
                             /\ taken /\ Opened(r, a, b) => add'[b].open
  BY <1>4
<1>. QED
  BY <1>1, <1>3, <1>5, <1>6, <1>7, <1>8 DEF r, taken

LEMMA RegisterFacts ==
    ASSUME Types, NEW a \in Adder, Register(a), NEW f \in File, f = NextFile
    PROVE  /\ add[a].pc = "marked"
           /\ row' \in [File -> Rows] /\ row'[f].st = "live" /\ row'[f].root = add[a].root
           /\ row'[f].owner = add[a].owner /\ (row'[f].signed <=> add[a].signed)
           /\ \A g \in File : g # f => row'[g] = row[g]
           /\ add' \in [Adder -> Adds] /\ OnlyCall(a) /\ SameCall(add[a], add'[a])
           /\ add'[a].pc = "written" /\ add'[a].file = f /\ ~add'[a].open
           /\ exposed' = IF add[a].open THEN exposed \cup {f} ELSE exposed
           /\ UNCHANGED <<built, car, refs, aged, intent, dedup, job, net, drive, gc, faults>>
<1>1. /\ add[a].pc = "marked"
      /\ exposed' = IF add[a].open THEN exposed \cup {f} ELSE exposed
      /\ UNCHANGED <<built, car, refs, aged, intent, dedup, job, net, drive, gc, faults>>
  BY DEF Register
<1>2. add \in [Adder -> Adds] /\ add[a] \in Adds /\ row \in [File -> Rows]
  BY DEF Types
<1>. DEFINE x == [st |-> "live", root |-> add[a].root, owner |-> add[a].owner,
                  signed |-> add[a].signed]
<1>3. x \in Rows
  BY <1>2 DEF Adds, Rows
<1>4. row' = [row EXCEPT ![f] = x]
  BY DEF Register
<1>5. row' \in [File -> Rows] /\ row'[f] = x /\ \A g \in File : g # f => row'[g] = row[g]
  <2>. HIDE DEF x
  <2>. QED
    BY <1>2, <1>3, <1>4
<1>6. add' = [add EXCEPT ![a] = Wrote(add[a], f)]
  BY DEF Register, Wrote
<1>7. /\ Wrote(add[a], f) \in Adds /\ SameCall(add[a], Wrote(add[a], f))
      /\ Wrote(add[a], f).pc = "written" /\ Wrote(add[a], f).file = f /\ ~Wrote(add[a], f).open
  BY <1>2, WroteFacts
<1>8. add' \in [Adder -> Adds] /\ OnlyCall(a) /\ add'[a] = Wrote(add[a], f)
  BY <1>2, <1>6, <1>7 DEF OnlyCall
<1>. QED
  BY <1>1, <1>5, <1>7, <1>8

\* The CAR is removed, with its references.
RemoveEffect(r) ==
    /\ car' \in [Root -> {"absent", "partial", "complete", "offloaded"}]
    /\ refs' \in [Root -> SUBSET File] /\ aged' = aged \ {r}
    /\ car'[r] = "absent" /\ refs'[r] = {}
    /\ \A q \in Root : q # r => car'[q] = car[q] /\ refs'[q] = refs[q]

LEMMA RemoveFacts ==
    ASSUME Types, NEW r \in Root, Remove(r)
    PROVE  RemoveEffect(r)
BY DEF Types, Remove, RemoveEffect

LEMMA RegisterFailsFacts ==
    ASSUME Types, NEW a \in Adder, RegisterFails(a), add[a].root \in Root
    PROVE  /\ add[a].pc = "marked" /\ faults < MaxFaults /\ faults' = faults + 1
           /\ add' \in [Adder -> Adds] /\ OnlyCall(a) /\ Ends /\ add'[a] = NoAdd
           /\ \/ /\ add[a].bound = 0 /\ RemoveEffect(add[a].root)
                 /\ intent' \in [Root -> Owner \cup {NoOwner}]
                 /\ intent'[add[a].root] = NoOwner
                 /\ \A q \in Root : q # add[a].root => intent'[q] = intent[q]
              \/ add[a].bound # 0 /\ UNCHANGED <<car, refs, aged, intent>>
           /\ UNCHANGED <<row, built, dedup, job, net, drive, gc, exposed>>
<1>1. /\ add[a].pc = "marked" /\ faults < MaxFaults /\ faults' = faults + 1
      /\ add' = [add EXCEPT ![a] = NoAdd]
      /\ UNCHANGED <<row, built, dedup, job, net, drive, gc, exposed>>
  BY DEF RegisterFails
<1>2. add' \in [Adder -> Adds] /\ OnlyCall(a) /\ Ends /\ add'[a] = NoAdd
  BY <1>1, EndFacts
<1>3. CASE add[a].bound = 0
  <2>1. Remove(add[a].root) /\ intent' = [intent EXCEPT ![add[a].root] = NoOwner]
    BY <1>3 DEF RegisterFails
  <2>2. RemoveEffect(add[a].root)
    BY <2>1, RemoveFacts
  <2>. QED
    BY <1>1, <1>2, <1>3, <2>1, <2>2 DEF Types
<1>4. CASE add[a].bound # 0
  <2>1. UNCHANGED <<car, refs, aged, intent>>
    BY <1>4 DEF RegisterFails
  <2>. QED
    BY <1>1, <1>2, <1>4, <2>1
<1>. QED
  BY <1>3, <1>4

LEMMA LinkFacts ==
    ASSUME Types, NEW a \in Adder, Link(a), add[a].root \in Root, add[a].file \in File
    PROVE  LET r == add[a].root
               f == add[a].file
           IN /\ add[a].pc = "written" /\ add' \in [Adder -> Adds] /\ OnlyCall(a)
              /\ \/ /\ Known(r)
                    /\ refs' \in [Root -> SUBSET File] /\ refs'[r] = refs[r] \cup {f}
                    /\ \A q \in Root : q # r => refs'[q] = refs[q]
                    /\ add'[a].pc = IF add[a].bound = 0 THEN "linked" ELSE "recorded"
                    /\ add'[a].root = r /\ add'[a].owner = add[a].owner
                    /\ add'[a].signed = add[a].signed
                    /\ add'[a].bound = 0 /\ add'[a].file = f
                    /\ exposed' = IF gc.pc = "idle" \/ add[a].bound = 0 THEN exposed \ {f}
                                                                        ELSE exposed \cup {f}
                 \/ ~Known(r) /\ add'[a] = NoAdd /\ Ends /\ UNCHANGED <<refs, exposed>>
              /\ UNCHANGED <<row, built, car, aged, intent, dedup, job, net, drive, gc, faults>>
<1>. DEFINE r == add[a].root
            f == add[a].file
            pc == IF add[a].bound = 0 THEN "linked" ELSE "recorded"
<1>1. /\ add[a].pc = "written"
      /\ UNCHANGED <<row, built, car, aged, intent, dedup, job, net, drive, gc, faults>>
  BY DEF Link
<1>2. add \in [Adder -> Adds] /\ add[a] \in Adds
  BY DEF Types
<1>3. CASE Known(r)
  <2>1. /\ refs' = [refs EXCEPT ![r] = @ \cup {f}]
        /\ exposed' = IF gc.pc = "idle" \/ add[a].bound = 0 THEN exposed \ {f}
                                                            ELSE exposed \cup {f}
    BY <1>3 DEF Link
  <2>2. /\ refs' \in [Root -> SUBSET File] /\ refs'[r] = refs[r] \cup {f}
        /\ \A q \in Root : q # r => refs'[q] = refs[q]
    BY <2>1 DEF Types
  <2>3. add' = [add EXCEPT ![a] = Put(add[a], pc)]
    BY <1>3 DEF Link, Put
  <2>4. pc \in Pc
    BY DEF Pc
  <2>. HIDE DEF pc
  <2>5. /\ Put(add[a], pc) \in Adds
        /\ Put(add[a], pc).pc = pc /\ Put(add[a], pc).root = r
        /\ Put(add[a], pc).owner = add[a].owner /\ Put(add[a], pc).signed = add[a].signed
        /\ Put(add[a], pc).bound = 0 /\ Put(add[a], pc).file = f
    BY <1>2, <2>4, PutFacts
  <2>6. add' \in [Adder -> Adds] /\ OnlyCall(a) /\ add'[a] = Put(add[a], pc)
    BY <1>2, <2>3, <2>5 DEF OnlyCall
  <2>. QED
    BY <1>1, <1>3, <2>1, <2>2, <2>5, <2>6 DEF pc
<1>4. CASE ~Known(r)
  <2>1. add' = [add EXCEPT ![a] = NoAdd] /\ UNCHANGED <<refs, exposed>>
    BY <1>4 DEF Link
  <2>2. add' \in [Adder -> Adds] /\ OnlyCall(a) /\ Ends /\ add'[a] = NoAdd
    BY <2>1, EndFacts
  <2>. QED
    BY <1>1, <1>4, <2>1, <2>2
<1>. QED
  BY <1>3, <1>4

LEMMA UnmarkFacts ==
    ASSUME Types, NEW a \in Adder, Unmark(a), add[a].root \in Root
    PROVE  LET r == add[a].root
           IN /\ add[a].pc = "queued"
              /\ add' \in [Adder -> Adds] /\ add'[a] = NoAdd
              /\ \A b \in Adder \ {a} : Stays(b) /\ (Opened(r, a, b) => add'[b].open)
              /\ intent' \in [Root -> Owner \cup {NoOwner}] /\ intent'[r] = NoOwner
              /\ \A q \in Root : q # r => intent'[q] = intent[q]
              /\ exposed' = exposed \cup (Unlinked(r) \ {add[a].file})
              /\ UNCHANGED <<row, built, car, refs, aged, dedup, job, net, drive, gc, faults>>
<1>. DEFINE r == add[a].root
<1>1. /\ add[a].pc = "queued"
      /\ intent' = [intent EXCEPT ![r] = NoOwner]
      /\ exposed' = exposed \cup (Unlinked(r) \ {add[a].file})
      /\ add' = [b \in Adder |-> IF b = a THEN NoAdd
                                 ELSE [add[b] EXCEPT !.open = Opened(r, a, b)]]
      /\ UNCHANGED <<row, built, car, refs, aged, dedup, job, net, drive, gc, faults>>
  BY DEF Unmark, Expose
<1>2. add \in [Adder -> Adds] /\ NoAdd \in Adds
  BY ConstantFacts DEF Types
<1>3. add'[a] = NoAdd
  BY <1>1
<1>4. ASSUME NEW b \in Adder \ {a}
      PROVE  add'[b] \in Adds /\ Stays(b) /\ (add'[b].open <=> Opened(r, a, b))
  <2>. DEFINE op == Opened(r, a, b)
  <2>1. add'[b] = SetOpen(add[b], op)
    BY <1>1 DEF SetOpen
  <2>2. op \in BOOLEAN
    <3>1. add[b].open \in BOOLEAN
      BY <1>2 DEF Adds
    <3>. QED
      BY <3>1 DEF Opened
  <2>. HIDE DEF op
  <2>3. add[b] \in Adds
    BY <1>2
  <2>4. /\ add'[b] \in Adds /\ SameCall(add[b], add'[b])
        /\ add'[b].pc = add[b].pc /\ add'[b].file = add[b].file /\ (add'[b].open <=> op)
    BY <2>1, <2>2, <2>3, SetOpenFacts
  <2>. QED
    BY <2>4 DEF Stays, op
<1>5. add' \in [Adder -> Adds]
  <2>1. add' = [b \in Adder |-> add'[b]]
    BY <1>1
  <2>2. \A b \in Adder : add'[b] \in Adds
    BY <1>2, <1>3, <1>4
  <2>. QED
    BY <2>1, <2>2
<1>6. /\ intent' \in [Root -> Owner \cup {NoOwner}] /\ intent'[r] = NoOwner
      /\ \A q \in Root : q # r => intent'[q] = intent[q]
  BY <1>1 DEF Types
<1>. HIDE DEF r
<1>7. \A b \in Adder \ {a} : Stays(b) /\ (Opened(r, a, b) => add'[b].open)
  BY <1>4
<1>. QED
  BY <1>1, <1>3, <1>5, <1>6, <1>7 DEF r

LEMMA CrashFacts ==
    ASSUME Types, Crash
    PROVE  /\ faults < MaxFaults /\ faults' = faults + 1
           /\ add' \in [Adder -> Adds] /\ Ends
           /\ drive' \in [File -> {"idle", "upload", "sign"}] /\ \A f \in File : drive'[f] = "idle"
           /\ gc' \in [pc : {"idle", "act"}, plan : SUBSET Tasks]
           /\ gc'.pc = "idle" /\ gc'.plan = {}
           /\ UNCHANGED <<row, built, car, refs, aged, intent, dedup, job, net, exposed>>
<1>1. /\ faults < MaxFaults /\ faults' = faults + 1
      /\ add' = [a \in Adder |-> NoAdd] /\ drive' = [f \in File |-> "idle"] /\ gc' = NoPass
      /\ UNCHANGED <<row, built, car, refs, aged, intent, dedup, job, net, exposed>>
  BY DEF Crash
<1>2. NoAdd \in Adds /\ NoPass = [pc |-> "idle", plan |-> {}]
  BY ConstantFacts
<1>3. add' \in [Adder -> Adds] /\ Ends
  BY <1>1, <1>2 DEF Ends
<1>4. /\ gc' \in [pc : {"idle", "act"}, plan : SUBSET Tasks]
      /\ gc'.pc = "idle" /\ gc'.plan = {}
  BY <1>1, <1>2
<1>. QED
  BY <1>1, <1>3, <1>4

LEMMA SetNetworkSignFacts ==
    ASSUME Types, NEW f \in File, SetNetworkSign(f)
    PROVE  /\ drive[f] = "sign"
           /\ row' \in [File -> Rows] /\ \A g \in File : g # f => row'[g] = row[g]
           /\ row'[f].st = row[f].st /\ row'[f].root = row[f].root
           /\ row'[f].owner = row[f].owner
           /\ row'[f].signed <=> (row[f].signed \/ Live(f))
           /\ drive' \in [File -> {"idle", "upload", "sign"}] /\ drive'[f] = "idle"
           /\ \A g \in File : g # f => drive'[g] = drive[g]
           /\ job' = job \ {f} /\ exposed' = exposed \ {f}
           /\ UNCHANGED <<built, car, refs, aged, intent, dedup, net, add, gc, faults>>
<1>1. /\ drive[f] = "sign" /\ drive' = [drive EXCEPT ![f] = "idle"]
      /\ job' = job \ {f} /\ exposed' = exposed \ {f}
      /\ UNCHANGED <<built, car, refs, aged, intent, dedup, net, add, gc, faults>>
  BY DEF SetNetworkSign
<1>2. row \in [File -> Rows] /\ row[f] \in Rows
  BY DEF Types
<1>. DEFINE op == Live(f)
<1>3. row' = [row EXCEPT ![f] = Sign(row[f], op)]
  BY DEF SetNetworkSign, Sign
<1>4. op \in BOOLEAN
  BY DEF Live
<1>. HIDE DEF op
<1>5. /\ Sign(row[f], op) \in Rows /\ Sign(row[f], op).st = row[f].st
      /\ Sign(row[f], op).root = row[f].root /\ Sign(row[f], op).owner = row[f].owner
      /\ Sign(row[f], op).signed <=> (row[f].signed \/ op)
  BY <1>2, <1>4, RowFacts
<1>6. /\ row' \in [File -> Rows] /\ row'[f] = Sign(row[f], op)
      /\ \A g \in File : g # f => row'[g] = row[g]
  BY <1>2, <1>3, <1>5
<1>7. /\ drive' \in [File -> {"idle", "upload", "sign"}] /\ drive'[f] = "idle"
      /\ \A g \in File : g # f => drive'[g] = drive[g]
  BY <1>1 DEF Types
<1>. QED
  BY <1>1, <1>5, <1>6, <1>7 DEF op

LEMMA DeleteFacts ==
    ASSUME Types, NEW f \in File, NEW here \in BOOLEAN, Delete(f, here), row[f].root \in Root
    PROVE  /\ Live(f)
           /\ row' \in [File -> Rows] /\ \A g \in File : g # f => row'[g] = row[g]
           /\ row'[f].st = "deleted" /\ row'[f].root = row[f].root
           /\ row'[f].owner = row[f].owner /\ row'[f].signed = row[f].signed
           /\ job' \subseteq job /\ job \ {f} \subseteq job'
           /\ refs' \in [Root -> SUBSET File]
           /\ \A r \in Root : refs'[r] \subseteq refs[r] /\ refs[r] \ {f} \subseteq refs'[r]
           /\ add' \in [Adder -> Adds]
           /\ \A a \in Adder : /\ Stays(a) /\ (add[a].open => add'[a].open)
                               /\ add[a].bound = f /\ add[a].pc \in {"bound", "marked"} => add'[a].open
           /\ f \notin exposed' /\ exposed \ {f} \subseteq exposed'
           /\ \A g \in exposed' \ exposed : \E a \in Adder : add[a].bound = f /\ add[a].pc = "written" /\ g = add[a].file
           /\ UNCHANGED <<built, car, aged, intent, dedup, net, drive, gc, faults>>
<1>1. /\ Live(f) /\ row' = [row EXCEPT ![f].st = "deleted"]
      /\ UNCHANGED <<built, car, aged, intent, dedup, net, drive, gc, faults>>
  BY DEF Delete
<1>2. row \in [File -> Rows] /\ row[f] \in Rows /\ add \in [Adder -> Adds]
  BY DEF Types
<1>3. /\ row' \in [File -> Rows] /\ row'[f] = Bury(row[f])
      /\ \A g \in File : g # f => row'[g] = row[g]
  <2>1. row' = [row EXCEPT ![f] = Bury(row[f])]
    BY <1>1 DEF Bury
  <2>. QED
    BY <1>2, <2>1, RowFacts
<1>4. /\ row'[f].st = "deleted" /\ row'[f].root = row[f].root
      /\ row'[f].owner = row[f].owner /\ row'[f].signed = row[f].signed
  BY <1>2, <1>3, RowFacts
<1>5. job' \subseteq job /\ job \ {f} \subseteq job'
  BY DEF Delete
<1>6. /\ refs' \in [Root -> SUBSET File]
      /\ \A r \in Root : refs'[r] \subseteq refs[r] /\ refs[r] \ {f} \subseteq refs'[r]
  BY DEF Delete, Types
<1>. DEFINE bound == {a \in Adder : add[a].bound = f}
<1>7. ASSUME NEW a \in Adder
      PROVE  /\ add'[a] \in Adds /\ Stays(a) /\ (add[a].open => add'[a].open)
             /\ add[a].bound = f /\ add[a].pc \in {"bound", "marked"} => add'[a].open
  <2>1. add' = [b \in Adder |-> IF b \in bound /\ add[b].pc \in {"bound", "marked"}
                                THEN [add[b] EXCEPT !.open = TRUE] ELSE add[b]]
    BY DEF Delete
  <2>2. add[a] \in Adds
    BY <1>2
  <2>3. CASE a \in bound /\ add[a].pc \in {"bound", "marked"}
    <3>1. add'[a] = SetOpen(add[a], TRUE)
      BY <2>1, <2>3 DEF SetOpen
    <3>2. /\ SetOpen(add[a], TRUE) \in Adds /\ SameCall(add[a], SetOpen(add[a], TRUE))
          /\ SetOpen(add[a], TRUE).pc = add[a].pc /\ SetOpen(add[a], TRUE).file = add[a].file
          /\ SetOpen(add[a], TRUE).open
      BY <2>2, SetOpenFacts
    <3>. QED
      BY <3>1, <3>2 DEF Stays
  <2>4. CASE ~(a \in bound /\ add[a].pc \in {"bound", "marked"})
    <3>1. add'[a] = add[a]
      BY <2>1, <2>4
    <3>. QED
      BY <2>2, <2>4, <3>1 DEF Stays, SameCall
  <2>. QED
    BY <2>3, <2>4
<1>8. add' \in [Adder -> Adds]
  <2>1. add' = [a \in Adder |-> add'[a]]
    BY DEF Delete
  <2>. QED
    BY <1>7, <2>1
<1>9. /\ f \notin exposed' /\ exposed \ {f} \subseteq exposed'
      /\ \A g \in exposed' \ exposed :
            \E a \in Adder : add[a].bound = f /\ add[a].pc = "written" /\ g = add[a].file
  BY DEF Delete
<1>. QED
  BY <1>1, <1>3, <1>4, <1>5, <1>6, <1>7, <1>8, <1>9

LEMMA SweepTaskFacts ==
    ASSUME Types, NEW r \in Root
    PROVE  LET t == SweepTask(r)
           IN /\ t \in Tasks /\ t.root = r /\ t.dead = refs[r] \ Used(r)
              /\ t.do \in {"none", "heal", "remove", "offload"}
              /\ t.do = "heal" => Used(r) = {} /\ r \in aged /\ t.owner = intent[r]
              /\ t.do = "remove" => Used(r) = {} /\ r \in aged /\ intent[r] = NoOwner
              /\ t.do = "offload" => Used(r) # {} /\ Durable(r)
<1>. DEFINE base == CASE Used(r) = {} /\ r \in aged /\ intent[r] # NoOwner -> Task(r, "heal")
                      [] Used(r) = {} /\ r \in aged /\ intent[r] = NoOwner -> Task(r, "remove")
                      [] car[r] = "partial" /\ Used(r) # {} /\ Durable(r) /\ r \in aged
                           -> Task(r, "offload")
                      [] OTHER -> Task(r, "none")
<1>1. SweepTask(r) = [base EXCEPT !.dead = refs[r] \ Used(r)]
  BY DEF SweepTask
<1>2. \A do \in {"none", "heal", "remove", "offload"} :
         /\ Task(r, do) \in Tasks /\ Task(r, do).root = r /\ Task(r, do).do = do
         /\ do = "heal" => Task(r, do).owner = intent[r]
  <2>1. intent[r] \in Owner \cup {NoOwner} /\ 0 \in 0..MaxFiles
    BY ConstantFacts DEF Types
  <2>. QED
    BY <2>1 DEF Task, Tasks, Do
<1>3. /\ base \in Tasks /\ base.root = r /\ base.do \in {"none", "heal", "remove", "offload"}
      /\ base.do = "heal" => Used(r) = {} /\ r \in aged /\ base.owner = intent[r]
      /\ base.do = "remove" => Used(r) = {} /\ r \in aged /\ intent[r] = NoOwner
      /\ base.do = "offload" => Used(r) # {} /\ Durable(r)
  <2>1. CASE Used(r) = {} /\ r \in aged /\ intent[r] # NoOwner
    <3>1. base = Task(r, "heal")
      BY <2>1
    <3>. QED
      BY <1>2, <2>1, <3>1
  <2>2. CASE Used(r) = {} /\ r \in aged /\ intent[r] = NoOwner
    <3>1. base = Task(r, "remove")
      BY <2>2
    <3>. QED
      BY <1>2, <2>2, <3>1
  <2>3. CASE car[r] = "partial" /\ Used(r) # {} /\ Durable(r) /\ r \in aged
    <3>1. base = Task(r, "offload")
      BY <2>3
    <3>. QED
      BY <1>2, <2>3, <3>1
  <2>4. CASE /\ ~(Used(r) = {} /\ r \in aged /\ intent[r] # NoOwner)
             /\ ~(Used(r) = {} /\ r \in aged /\ intent[r] = NoOwner)
             /\ ~(car[r] = "partial" /\ Used(r) # {} /\ Durable(r) /\ r \in aged)
    <3>1. base = Task(r, "none")
      BY <2>4
    <3>. QED
      BY <1>2, <3>1
  <2>. QED
    BY <2>1, <2>2, <2>3, <2>4
<1>. HIDE DEF base
<1>4. refs[r] \ Used(r) \in SUBSET File
  BY DEF Types
<1>5. \A b \in Tasks, S \in SUBSET File :
         LET t == [b EXCEPT !.dead = S]
         IN t \in Tasks /\ t.root = b.root /\ t.do = b.do /\ t.owner = b.owner /\ t.dead = S
  BY DEF Tasks
<1>. QED
  BY <1>1, <1>3, <1>4, <1>5

LEMMA FreeUpTaskFacts ==
    ASSUME Types, NEW r \in Root
    PROVE  LET t == FreeUpTask(r)
           IN /\ t \in Tasks /\ t.root = r /\ t.dead = {}
              /\ t.do \in {"none", "remove", "offload"}
              /\ t.do = "remove" => Used(r) = {} /\ r \in aged /\ intent[r] = NoOwner
              /\ t.do = "offload" => Used(r) # {} /\ Durable(r)
<1>. DEFINE freeable == car[r] \in {"partial", "complete"} /\ Durable(r)
<1>1. \A do \in {"none", "remove", "offload"} :
         Task(r, do) \in Tasks /\ Task(r, do).root = r /\ Task(r, do).do = do /\ Task(r, do).dead = {}
  <2>1. intent[r] \in Owner \cup {NoOwner} /\ 0 \in 0..MaxFiles
    BY ConstantFacts DEF Types
  <2>. QED
    BY <2>1 DEF Task, Tasks, Do
<1>2. CASE freeable /\ Used(r) # {}
  <2>1. FreeUpTask(r) = Task(r, "offload")
    BY <1>2 DEF FreeUpTask
  <2>. QED
    BY <1>1, <1>2, <2>1
<1>3. CASE freeable /\ Used(r) = {} /\ r \in aged /\ intent[r] = NoOwner
  <2>1. FreeUpTask(r) = Task(r, "remove")
    BY <1>3 DEF FreeUpTask
  <2>. QED
    BY <1>1, <1>3, <2>1
<1>4. CASE /\ ~(freeable /\ Used(r) # {})
           /\ ~(freeable /\ Used(r) = {} /\ r \in aged /\ intent[r] = NoOwner)
  <2>1. FreeUpTask(r) = Task(r, "none")
    BY <1>4 DEF FreeUpTask
  <2>. QED
    BY <1>1, <2>1
<1>. QED
  BY <1>2, <1>3, <1>4

\* What a pass may plan for a CAR.
Planned(t) ==
    /\ t \in Tasks /\ t.dead \subseteq refs[t.root] \ Used(t.root)
    /\ Known(t.root)
    /\ t.do \in {"none", "heal", "remove", "offload"}
    /\ t.do \in {"heal", "remove"} => Used(t.root) = {} /\ t.root \in aged
    /\ t.do = "heal" => t.owner = intent[t.root]
    /\ t.do = "remove" => intent[t.root] = NoOwner
    /\ t.do = "offload" => Used(t.root) # {} /\ Durable(t.root)

LEMMA StartFacts ==
    ASSUME Types, Sweep \/ FreeUp
    PROVE  /\ gc.pc = "idle"
           /\ gc' \in [pc : {"idle", "act"}, plan : SUBSET Tasks] /\ gc'.pc = "act"
           /\ \A t \in gc'.plan : Planned(t)
           /\ UNCHANGED <<local, add, drive, faults, exposed>>
<1>1. ASSUME NEW tasks, \A t \in tasks : Planned(t), Start(tasks)
      PROVE  /\ gc.pc = "idle"
             /\ gc' \in [pc : {"idle", "act"}, plan : SUBSET Tasks] /\ gc'.pc = "act"
             /\ \A t \in gc'.plan : Planned(t)
             /\ UNCHANGED <<local, add, drive, faults, exposed>>
  <2>1. /\ gc.pc = "idle" /\ gc' = [pc |-> "act", plan |-> Worth(tasks)]
        /\ UNCHANGED <<local, add, drive, faults, exposed>>
    BY <1>1 DEF Start
  <2>2. \A t \in Worth(tasks) : Planned(t) /\ t \in Tasks
    BY <1>1 DEF Worth, Planned
  <2>. HIDE DEF Worth
  <2>. QED
    BY <2>1, <2>2
<1>2. CASE Sweep
  <2>. DEFINE tasks == {SweepTask(r) : r \in {q \in Root : Known(q)}}
  <2>1. \A t \in tasks : Planned(t)
    BY SweepTaskFacts DEF Planned
  <2>2. Start(tasks)
    BY <1>2 DEF Sweep
  <2>. HIDE DEF tasks
  <2>. QED
    BY <1>1, <2>1, <2>2
<1>3. CASE FreeUp
  <2>1. PICK some \in SUBSET {q \in Root : Known(q)} : Start({FreeUpTask(r) : r \in some})
    BY <1>3 DEF FreeUp
  <2>. DEFINE tasks == {FreeUpTask(r) : r \in some}
  <2>2. \A t \in tasks : Planned(t)
    BY FreeUpTaskFacts DEF Planned
  <2>3. Start(tasks)
    BY <2>1
  <2>. HIDE DEF tasks
  <2>. QED
    BY <1>1, <2>2, <2>3
<1>. QED
  BY <1>2, <1>3

LEMMA ClearMarkerFacts ==
    ASSUME Types, NEW t \in gc.plan, ClearMarker(t)
    PROVE  /\ t.do = "unmark" /\ t \in Tasks
           /\ intent' \in [Root -> Owner \cup {NoOwner}] /\ intent'[t.root] = NoOwner
           /\ \A q \in Root : q # t.root => intent'[q] = intent[q]
           /\ exposed' = exposed \cup Unlinked(t.root)
           /\ add' \in [Adder -> Adds]
           /\ \A b \in Adder : /\ Stays(b) /\ (add[b].open => add'[b].open)
                               /\ add[b].root = t.root /\ add[b].pc = "marked" => add'[b].open
           /\ gc' \in [pc : {"idle", "act"}, plan : SUBSET Tasks]
           /\ gc'.pc = gc.pc /\ gc'.plan = gc.plan \ {t}
           /\ UNCHANGED <<row, built, car, refs, aged, dedup, job, net, drive, faults>>
<1>1. /\ t.do = "unmark" /\ intent' = [intent EXCEPT ![t.root] = NoOwner]
      /\ exposed' = exposed \cup Unlinked(t.root) /\ Done(t)
      /\ add' = [b \in Adder |-> [add[b] EXCEPT !.open = @ \/ (add[b].root = t.root /\ add[b].pc = "marked")]]
      /\ UNCHANGED <<row, built, car, refs, aged, dedup, job, net, drive, faults>>
  BY DEF ClearMarker
<1>2. t \in Tasks /\ t.root \in Root
  BY DEF Types, Tasks
<1>3. /\ gc' \in [pc : {"idle", "act"}, plan : SUBSET Tasks]
      /\ gc'.pc = gc.pc /\ gc'.plan = gc.plan \ {t}
  BY <1>1, PlanFacts DEF Types
<1>4. ASSUME NEW b \in Adder
      PROVE  /\ add'[b] \in Adds /\ Stays(b) /\ (add[b].open => add'[b].open)
             /\ add[b].root = t.root /\ add[b].pc = "marked" => add'[b].open
  <2>. DEFINE op == add[b].open \/ (add[b].root = t.root /\ add[b].pc = "marked")
  <2>1. add'[b] = SetOpen(add[b], op)
    BY <1>1 DEF SetOpen
  <2>2. op \in BOOLEAN
    OBVIOUS
  <2>. HIDE DEF op
  <2>3. add[b] \in Adds
    BY DEF Types
  <2>4. /\ add'[b] \in Adds /\ SameCall(add[b], add'[b])
        /\ add'[b].pc = add[b].pc /\ add'[b].file = add[b].file /\ (add'[b].open <=> op)
    BY <2>1, <2>2, <2>3, SetOpenFacts
  <2>. QED
    BY <2>4 DEF Stays, op
<1>5. add' \in [Adder -> Adds]
  <2>1. add' = [b \in Adder |-> add'[b]]
    BY <1>1
  <2>. QED
    BY <1>4, <2>1
<1>6. /\ intent' \in [Root -> Owner \cup {NoOwner}] /\ intent'[t.root] = NoOwner
      /\ \A q \in Root : q # t.root => intent'[q] = intent[q]
  BY <1>1, <1>2 DEF Types
<1>. QED
  BY <1>1, <1>2, <1>3, <1>4, <1>5, <1>6

----------------------------------------------------------------------------
(* What the rows, the CARs, the calls and the plan say of each other.      *)

\* Rows have a CAR and an owner, what is queued or driven is a row, and of
\* the rows of one CAR one is driven at a time.
RowsOK ==
    /\ \A f \in File : /\ row[f].st = "none" <=> row[f].root = 0
                       /\ row[f].root <= built
                       /\ row[f].st # "none" => row[f].owner \in Owner
                       /\ drive[f] # "idle" => row[f].st # "none"
    /\ \A f \in job : row[f].st # "none"
    /\ dedup # 0 => row[dedup].st # "none"
    /\ \A f, g \in File : f # g /\ drive[f] # "idle" /\ drive[g] # "idle"
                            => row[f].root # row[g].root

CarsOK ==
    /\ \A r \in Root : /\ built < r => car[r] = "absent"
                       /\ ~Known(r) => refs[r] = {}
                       /\ r \in aged => Known(r)
                       /\ \A f \in refs[r] : row[f].root = r
    /\ \A r \in net : r <= built /\ \E f \in File : row[f].root = r

\* No row is written yet.
Unregistered(a) == add[a].pc \in {"bound", "placed", "built", "marked"}

CallOK(a) ==
    /\ add[a].pc \in {"idle", "placed"} => add[a].root = 0 /\ add[a].bound = 0 /\ ~add[a].signed
    /\ add[a].pc \notin {"idle", "placed"} => 1 <= add[a].root /\ add[a].root <= built
    /\ add[a].pc # "idle" => add[a].owner \in Owner
    /\ Unregistered(a) => add[a].file = 0
    /\ add[a].pc \in {"written", "linked", "recorded", "queued"}
         => add[a].file \in File /\ row[add[a].file].root = add[a].root
    /\ add[a].pc \in {"built", "linked", "recorded", "queued"} => add[a].bound = 0
    /\ add[a].pc = "bound" => add[a].bound # 0
    /\ add[a].bound # 0 => row[add[a].bound].root = add[a].root

TaskOK(t) ==
    /\ t.root <= built
    /\ \A f \in t.dead : row[f].st = "deleted"
    /\ t.do \in {"link", "queue"} => t.file \in File /\ row[t.file].root = t.root

PlanOK == /\ gc.pc = "idle" => gc.plan = {}
          /\ \A t \in gc.plan : TaskOK(t)

\* The rows are a prefix of File, and there is room for those to come.
Pending == {a \in Adder : Unregistered(a)}
Registered == {f \in File : row[f].st # "none"}
Room == \E k \in 0..MaxFiles : /\ Registered = 1..k
                               /\ IsFiniteSet(Pending) /\ k + Cardinality(Pending) <= MaxFiles

Shape == Types /\ RowsOK /\ CarsOK /\ (\A a \in Adder : CallOK(a)) /\ PlanOK /\ Room

\* What every step does to the rows there are.
RowsGrow ==
    \A f \in File : row[f].st # "none" =>
        /\ row'[f].root = row[f].root /\ row'[f].owner = row[f].owner
        /\ row'[f].st # "none" /\ (row[f].st = "deleted" => row'[f].st = "deleted")

LEMMA RootFacts ==
    ASSUME Types, RowsOK
    PROVE  /\ \A f \in File : /\ row[f].root \in 0..MaxRoots /\ row[f].signed \in BOOLEAN
                              /\ row[f].st \in {"none", "live", "deleted"}
                              /\ row[f].st # "none" => row[f].root \in Root
           /\ \A a \in Adder : /\ add[a].root \in 0..MaxRoots /\ add[a].file \in 0..MaxFiles
                               /\ add[a].bound \in 0..MaxFiles
                               /\ CallOK(a) /\ add[a].pc \notin {"idle", "placed"} => add[a].root \in Root
                               /\ add[a].bound # 0 => add[a].bound \in File
<1>1. \A f \in File : row[f] \in Rows
  BY DEF Types
<1>2. \A a \in Adder : add[a] \in Adds
  BY DEF Types
<1>3. \A f \in File : /\ row[f].root \in 0..MaxRoots /\ row[f].signed \in BOOLEAN
                      /\ row[f].st \in {"none", "live", "deleted"}
  BY <1>1 DEF Rows
<1>4. \A f \in File : row[f].st # "none" => row[f].root \in Root
  BY <1>3, ConstantFacts DEF RowsOK
<1>5. \A a \in Adder : /\ add[a].root \in 0..MaxRoots /\ add[a].file \in 0..MaxFiles
                       /\ add[a].bound \in 0..MaxFiles
  BY <1>2 DEF Adds
<1>6. ASSUME NEW a \in Adder
      PROVE  /\ CallOK(a) /\ add[a].pc \notin {"idle", "placed"} => add[a].root \in Root
             /\ add[a].bound # 0 => add[a].bound \in File
  BY <1>5, ConstantFacts DEF CallOK
<1>. QED
  BY <1>3, <1>4, <1>5, <1>6

LEMMA RowsFrame ==
    ASSUME Types, RowsOK, RowsGrow, Registered' = Registered, \A f \in File : row'[f].root = row[f].root,
           built \in Int, built' \in Int, built <= built',
           drive' = drive, job' \subseteq job, dedup' = dedup
    PROVE  RowsOK'
<1>1. \A f \in File : row'[f].st = "none" <=> row[f].st = "none"
  BY DEF Registered
<1>2. \A f \in File : row[f].root \in Int
  BY RootFacts
<1>3. dedup # 0 => dedup \in File
  BY ConstantFacts DEF Types
<1>4. job \subseteq File
  BY DEF Types
<1>. QED
  BY <1>1, <1>2, <1>3, <1>4 DEF RowsOK, RowsGrow

\* A call that stays where it is, and one that does not move at all.
LEMMA CallKept ==
    ASSUME Types, RowsOK, RowsGrow, built \in Int, built' \in Int, built <= built',
           NEW a \in Adder, CallOK(a), Stays(a) \/ add'[a] = add[a]
    PROVE  CallOK(a)'
<1>1. /\ add'[a].root = add[a].root /\ add'[a].bound = add[a].bound
      /\ add'[a].signed = add[a].signed /\ add'[a].owner = add[a].owner
      /\ add'[a].pc = add[a].pc /\ add'[a].file = add[a].file
  BY DEF Stays, SameCall
<1>2. \A f \in File : row[f].root >= 1 => row'[f].root = row[f].root
  BY RootFacts DEF RowsOK, RowsGrow
<1>3. /\ add[a].bound # 0 => add[a].bound \in File /\ add[a].pc # "idle"
      /\ add[a].root \in Int
  BY RootFacts DEF CallOK
<1>. QED
  BY <1>1, <1>2, <1>3 DEF CallOK, Unregistered

LEMMA CallEnds ==
    ASSUME NEW a \in Adder, add'[a] = NoAdd
    PROVE  CallOK(a)'
BY ConstantFacts DEF CallOK, Unregistered

LEMMA TaskKept ==
    ASSUME Types, RowsOK, RowsGrow, built \in Int, built' \in Int, built <= built',
           NEW t \in Tasks, TaskOK(t)
    PROVE  TaskOK(t)'
<1>1. t.root \in Root /\ t.dead \subseteq File
  BY DEF Tasks
<1>2. t.root \in Int /\ t.root >= 1
  BY <1>1, ConstantFacts
<1>3. \A f \in File : row[f].root >= 1 => row'[f].root = row[f].root
  BY RootFacts DEF RowsOK, RowsGrow
<1>4. \A f \in t.dead : row'[f].st = "deleted"
  BY <1>1 DEF TaskOK, RowsGrow
<1>. QED
  BY <1>2, <1>3, <1>4 DEF TaskOK

LEMMA CarsFrame ==
    ASSUME Types, RowsOK, CarsOK, RowsGrow, built' = built,
           refs' \in [Root -> SUBSET File],
           \A r \in Root : /\ Known(r)' <=> Known(r)
                           /\ refs'[r] \subseteq refs[r],
           aged' \subseteq aged, net' = net
    PROVE  CarsOK'
<1>1. \A f \in File : row[f].root >= 1 => row'[f].root = row[f].root
  BY RootFacts DEF RowsOK, RowsGrow
<1>2. \A r \in Root : r \in Int /\ r >= 1
  BY ConstantFacts
<1>3. net \subseteq Root /\ \A r \in Root : refs[r] \subseteq File
  BY DEF Types
<1>. QED
  BY <1>1, <1>2, <1>3 DEF CarsOK, Known

LEMMA RoomFrame ==
    ASSUME Types, Room, Registered' = Registered, Pending' \subseteq Pending
    PROVE  Room'
<1>1. PICK k \in 0..MaxFiles : /\ Registered = 1..k
                               /\ IsFiniteSet(Pending) /\ k + Cardinality(Pending) <= MaxFiles
  BY DEF Room
<1>2. IsFiniteSet(Pending') /\ Cardinality(Pending') <= Cardinality(Pending)
  BY <1>1, FS_Subset
<1>3. Cardinality(Pending) \in Nat /\ Cardinality(Pending') \in Nat /\ MaxFiles \in Nat
  BY <1>1, <1>2, FS_CardinalityType, ConstantFacts
<1>4. k + Cardinality(Pending') <= MaxFiles
  BY <1>1, <1>2, <1>3
<1>. QED
  BY <1>1, <1>2, <1>4 DEF Room

\* A call begins where there is room for its row.
LEMMA RoomTaken ==
    ASSUME Types, Room, FileLeft, Registered' = Registered,
           NEW a, a \notin Pending, Pending' = Pending \cup {a}
    PROVE  Room'
<1>1. PICK k \in 0..MaxFiles : /\ Registered = 1..k
                               /\ IsFiniteSet(Pending) /\ k + Cardinality(Pending) <= MaxFiles
  BY DEF Room
<1>2. Cardinality(Pending) \in Nat /\ MaxFiles \in Nat
  BY <1>1, FS_CardinalityType, ConstantFacts
<1>3. {f \in File : row[f].st = "none"} = (k + 1)..MaxFiles
  <2>1. \A f \in File : row[f].st # "none" <=> f \in 1..k
    BY <1>1 DEF Registered
  <2>2. \A f : f \in (k + 1)..MaxFiles <=> f \in File /\ f \notin 1..k
    BY <1>1, ConstantFacts
  <2>. QED
    BY <2>1, <2>2
<1>4. Cardinality((k + 1)..MaxFiles) = MaxFiles - k
  <2>1. Cardinality((k + 1)..MaxFiles) = IF (k + 1) > MaxFiles THEN 0 ELSE MaxFiles - (k + 1) + 1
    BY <1>2, FS_Interval
  <2>. QED
    BY <1>2, <2>1
<1>5. MaxFiles - k > Cardinality(Pending)
  BY <1>3, <1>4 DEF FileLeft, Pending, Unregistered
<1>6. IsFiniteSet(Pending') /\ Cardinality(Pending') = Cardinality(Pending) + 1
  BY <1>1, FS_AddElement
<1>7. k + Cardinality(Pending') <= MaxFiles
  BY <1>2, <1>5, <1>6
<1>. QED
  BY <1>1, <1>6, <1>7 DEF Room

\* The row that a call registers is a new one.
LEMMA NextFileFacts ==
    ASSUME Types, Room, NEW a \in Pending
    PROVE  NextFile \in File /\ row[NextFile].st = "none"
<1>1. PICK k \in 0..MaxFiles : /\ Registered = 1..k
                               /\ IsFiniteSet(Pending) /\ k + Cardinality(Pending) <= MaxFiles
  BY DEF Room
<1>2. Cardinality(Pending) \in Nat /\ MaxFiles \in Nat /\ Cardinality(Pending) # 0
  BY <1>1, FS_CardinalityType, FS_EmptySet, ConstantFacts
<1>3. Cardinality(1..k) = k
  <2>1. Cardinality(1..k) = IF 1 > k THEN 0 ELSE k - 1 + 1
    BY <1>1, FS_Interval
  <2>. QED
    BY <1>1, <2>1
<1>4. NextFile = k + 1
  <2>1. NextFile = 1 + Cardinality(Registered)
    BY DEF NextFile, Registered
  <2>. QED
    BY <1>1, <1>3, <2>1
<1>5. k + 1 \in File /\ k + 1 \notin 1..k
  BY <1>1, <1>2, ConstantFacts
<1>. QED
  BY <1>1, <1>4, <1>5 DEF Registered

LEMMA RoomUsed ==
    ASSUME Types, Room, NEW a \in Pending, Pending' = Pending \ {a},
           Registered' = Registered \cup {NextFile}
    PROVE  Room'
<1>1. PICK k \in 0..MaxFiles : /\ Registered = 1..k
                               /\ IsFiniteSet(Pending) /\ k + Cardinality(Pending) <= MaxFiles
  BY DEF Room
<1>2. /\ Cardinality(Pending) \in Nat /\ MaxFiles \in Nat
      /\ IsFiniteSet(Pending') /\ Cardinality(Pending') = Cardinality(Pending) - 1
  BY <1>1, FS_CardinalityType, FS_RemoveElement, ConstantFacts
<1>3. Cardinality(1..k) = k
  <2>1. Cardinality(1..k) = IF 1 > k THEN 0 ELSE k - 1 + 1
    BY <1>1, FS_Interval
  <2>. QED
    BY <1>1, <2>1
<1>4. NextFile = k + 1
  <2>1. NextFile = 1 + Cardinality(Registered)
    BY DEF NextFile, Registered
  <2>. QED
    BY <1>1, <1>3, <2>1
<1>5. Registered' = 1..(k + 1)
  BY <1>1, <1>4
<1>6. k + 1 \in 0..MaxFiles /\ (k + 1) + Cardinality(Pending') <= MaxFiles
  <2>1. NextFile \in File
    BY NextFileFacts
  <2>. QED
    BY <1>1, <1>2, <1>4, <2>1, ConstantFacts
<1>. QED
  BY <1>2, <1>5, <1>6 DEF Room

----------------------------------------------------------------------------
(* Why no collector takes an only copy.                                    *)

\* A receipt, written or on its way, is for content the nodes hold; what they
\* do not hold is complete here, or gone.
Receipts ==
    /\ \A f \in File : row[f].signed \/ drive[f] = "sign" => row[f].root \in net
    /\ \A a \in Adder : add[a].signed => add[a].root \in net
    /\ \A r \in Root \ net : car[r] \in {"absent", "complete"}

\* A full attachment whose content the index does not name yet: its CAR is
\* young, and its alone until the row is written.
First(a) == add[a].pc \in {"built", "marked", "written", "linked"} /\ add[a].bound = 0
NewCars ==
    \A a \in Adder : First(a) =>
        /\ add[a].root \notin aged
        /\ Unregistered(a) => /\ Known(add[a].root)
                              /\ \A f \in File : row[f].root # add[a].root
                              /\ \A b \in Adder \ {a} : add[b].root # add[a].root

\* The row that another attachment is bound to, or will be, is linked.
Bound(a) == add[a].pc \in {"bound", "marked"} /\ add[a].bound # 0
DonorLinked(a) ==
    Bound(a) /\ ~add[a].open /\ add[a].root \notin net
      => Live(add[a].bound) /\ add[a].bound \in refs[add[a].root]
IndexLinked ==
    dedup \in LiveFiles /\ row[dedup].root \notin net => dedup \in refs[row[dedup].root]
FirstLinked(a) ==
    add[a].pc = "linked" /\ Live(add[a].file) /\ add[a].root \notin net
      => add[a].file \in refs[add[a].root]
Donors == IndexLinked /\ \A a \in Adder : DonorLinked(a) /\ FirstLinked(a)

\* A row is linked or its owner's marker is there.
RowGuarded(f) ==
    Live(f) /\ row[f].root \notin net /\ f \notin exposed /\ f \notin refs[row[f].root]
      => intent[row[f].root] = row[f].owner
MarkGuarded(a) ==
    add[a].pc = "marked" /\ ~add[a].open /\ add[a].root \notin net
      => intent[add[a].root] = add[a].owner
LinkGuarded(a) ==
    add[a].pc \in {"linked", "recorded", "queued"} /\ Live(add[a].file) /\ add[a].root \notin net
      => add[a].file \in refs[add[a].root] \cup exposed
Guarded == /\ \A f \in File : RowGuarded(f)
           /\ \A a \in Adder : MarkGuarded(a) /\ LinkGuarded(a)

\* What a pass has planned to reclaim is nobody's only copy, and cannot
\* become one before the pass gets there; what it heals has one owner's rows.
Spared(t) ==
    t.root \notin net =>
        /\ t.do # "offload"
        /\ t.do \in {"heal", "remove", "drop"} =>
            /\ dedup \notin RowsOf(t.root)
            /\ \A a \in Adder : add[a].root = t.root =>
                 ~First(a) /\ (Bound(a) => add[a].open)
            /\ \A f \in RowsOf(t.root) :
                 f \in exposed \/ (t.do = "heal" /\ row[f].owner = t.owner)
Spares == \A t \in gc.plan : Spared(t)

\* The CAR of an only copy has its metadata row.
Kept == \A f \in File : Live(f) /\ row[f].root \notin net /\ f \notin exposed => Known(row[f].root)

Safe == Receipts /\ NewCars /\ Donors /\ Guarded /\ Spares /\ Kept
Inv  == Shape /\ Safe

\* The rows keep what they are but for the receipt.
SameRows == \A f \in File : /\ row'[f].st = row[f].st /\ row'[f].root = row[f].root
                            /\ row'[f].owner = row[f].owner

\* A step of a job, a reader or time: no call and no pass is touched, nor a
\* CAR that the nodes do not hold.
Calm ==
    /\ SameRows /\ UNCHANGED <<built, intent, dedup, add, gc>> /\ net \subseteq net'
    /\ exposed' \subseteq exposed
    /\ \A f \in File : f \in exposed \ exposed' => row[f].root \in net
    /\ \A r \in Root : \/ car'[r] = car[r] /\ refs'[r] = refs[r]
                       \/ r \in net
    /\ \A a \in Adder : First(a) => add[a].root \notin aged'
    /\ \A f \in File : row'[f].signed \/ drive'[f] = "sign" => row[f].root \in net'

LEMMA InvFacts ==
    ASSUME Inv
    PROVE  /\ Types /\ RowsOK /\ CarsOK /\ PlanOK /\ Room /\ \A a \in Adder : CallOK(a)
           /\ Receipts /\ NewCars /\ Donors /\ Guarded /\ Spares /\ Kept
           /\ built \in Int /\ gc.plan \subseteq Tasks
           /\ \A t \in gc.plan : TaskOK(t) /\ t \in Tasks /\ t.root \in Root
           /\ \A f \in File : row[f].st # "none" => row[f].root \in Root
           /\ \A a \in Adder : /\ add[a].pc \notin {"idle", "placed"} => add[a].root \in Root
                               /\ add[a].bound # 0 => add[a].bound \in File
<1>1. /\ Types /\ RowsOK /\ CarsOK /\ PlanOK /\ Room /\ \A a \in Adder : CallOK(a)
      /\ Receipts /\ NewCars /\ Donors /\ Guarded /\ Spares /\ Kept
  BY DEF Inv, Shape, Safe
<1>2. built \in Int /\ gc.plan \subseteq Tasks
  BY <1>1 DEF Types
<1>3. \A t \in gc.plan : TaskOK(t) /\ t \in Tasks /\ t.root \in Root
  BY <1>1, <1>2 DEF PlanOK, Tasks
<1>. QED
  BY <1>1, <1>2, <1>3, RootFacts

\* Nobody has uploaded a CAR that no row names yet.
LEMMA NewIsHere ==
    ASSUME Inv, NEW a \in Adder, First(a), Unregistered(a)
    PROVE  add[a].root \notin net
BY InvFacts DEF NewCars, CarsOK

LEMMA CalmKeeps ==
    ASSUME Inv, Calm, Types', RowsOK', CarsOK'
    PROVE  Inv'
<1>1. RowsGrow /\ Registered' = Registered /\ Pending' = Pending /\ built \in Int /\ built' \in Int /\ built <= built'
  BY InvFacts DEF Calm, SameRows, RowsGrow, Registered, Pending, Unregistered
<1>2. \A a \in Adder : CallOK(a)'
  <2>1. \A a \in Adder : add'[a] = add[a]
    BY DEF Calm
  <2>. QED
    BY <1>1, <2>1, InvFacts, CallKept
<1>3. PlanOK'
  <2>1. gc' = gc
    BY DEF Calm
  <2>2. \A t \in gc.plan : TaskOK(t)'
    BY <1>1, InvFacts, TaskKept
  <2>. QED
    BY <2>1, <2>2, InvFacts DEF PlanOK
<1>4. Room'
  BY <1>1, InvFacts, RoomFrame
<1>5. \A f \in File : (Live(f)' <=> Live(f)) /\ (row[f].root \notin net' /\ f \notin exposed' => f \notin exposed)
  BY DEF Calm, SameRows, Live
<1>6. \A r \in Root : r \notin net' => car'[r] = car[r] /\ refs'[r] = refs[r]
  BY DEF Calm
<1>7. Receipts'
  BY <1>6, InvFacts DEF Calm, SameRows, Receipts
<1>8. NewCars'
  <2>1. \A a \in Adder : (First(a)' <=> First(a)) /\ (Unregistered(a)' <=> Unregistered(a))
    BY DEF Calm, First, Unregistered
  <2>2. \A a \in Adder : First(a) /\ Unregistered(a) => add[a].root \in Root \ net
    BY InvFacts, NewIsHere DEF First
  <2>3. \A a \in Adder : First(a) /\ Unregistered(a) => Known(add[a].root)'
    BY <2>2, InvFacts DEF Calm, NewCars, Known
  <2>. QED
    BY <2>1, <2>3, InvFacts DEF Calm, SameRows, NewCars
<1>9. UNCHANGED <<add, intent, dedup>> /\ net \subseteq net' /\ SameRows
  BY DEF Calm
<1>10. \A a \in Adder : /\ add[a].pc \notin {"idle", "placed"} => add[a].root \in Root
                        /\ add[a].pc \in {"linked", "recorded", "queued"}
                             => add[a].file \in File /\ row[add[a].file].root = add[a].root
                        /\ Bound(a) => add[a].bound \in File
  BY InvFacts DEF CallOK, Bound
<1>11. Donors'
  <2>1. IndexLinked'
    <3>1. dedup \in LiveFiles => dedup \in File /\ row[dedup].root \in Root
      BY InvFacts DEF LiveFiles, Live
    <3>. QED
      BY <1>5, <1>6, <1>9, <3>1, InvFacts DEF Donors, IndexLinked, LiveFiles, SameRows
  <2>2. ASSUME NEW a \in Adder
        PROVE  DonorLinked(a)' /\ FirstLinked(a)'
    <3>1. DonorLinked(a) /\ FirstLinked(a)
      BY InvFacts DEF Donors
    <3>2. Bound(a) => add[a].root \in Root
      BY <1>10 DEF Bound
    <3>. QED
      BY <1>5, <1>6, <1>9, <1>10, <3>1, <3>2 DEF DonorLinked, FirstLinked, Bound
  <2>. QED
    BY <2>1, <2>2 DEF Donors
<1>12. Guarded'
  <2>1. ASSUME NEW f \in File
        PROVE  RowGuarded(f)'
    <3>1. RowGuarded(f) /\ (Live(f) => row[f].root \in Root)
      BY InvFacts DEF Guarded, Live
    <3>. QED
      BY <1>5, <1>6, <1>9, <3>1 DEF RowGuarded, SameRows
  <2>2. ASSUME NEW a \in Adder
        PROVE  MarkGuarded(a)' /\ LinkGuarded(a)'
    <3>1. MarkGuarded(a) /\ LinkGuarded(a)
      BY InvFacts DEF Guarded
    <3>. QED
      BY <1>5, <1>6, <1>9, <1>10, <3>1 DEF MarkGuarded, LinkGuarded
  <2>. QED
    BY <2>1, <2>2 DEF Guarded
<1>13. Spares'
  <2>1. \A r \in Root : RowsOf(r)' = RowsOf(r)
    BY <1>5 DEF Calm, SameRows, RowsOf
  <2>2. \A a \in Adder : (First(a)' <=> First(a)) /\ (Bound(a)' <=> Bound(a))
    BY DEF Calm, First, Bound
  <2>3. ASSUME NEW t \in gc.plan
        PROVE  Spared(t)'
    <3>1. t.root \in Root /\ Spared(t)
      BY InvFacts DEF Spares
    <3>. QED
      BY <1>5, <2>1, <2>2, <3>1 DEF Calm, SameRows, Spared, RowsOf
  <2>. QED
    BY <2>3 DEF Spares, Calm
<1>14. Kept'
  <2>1. \A f \in File : Live(f) => row[f].root \in Root
    BY InvFacts DEF Live
  <2>. QED
    BY <1>5, <1>6, <2>1, InvFacts DEF Calm, SameRows, Kept, Known
<1>. QED
  BY <1>2, <1>3, <1>4, <1>7, <1>8, <1>11, <1>12, <1>13, <1>14 DEF Inv, Shape, Safe

LEMMA YoungCars ==
    ASSUME Inv, aged' \subseteq aged
    PROVE  \A a \in Adder : First(a) => add[a].root \notin aged'
BY InvFacts DEF NewCars

\* The receipts of the rows where neither they nor the jobs change.
LEMMA SameReceipts ==
    ASSUME Inv, row' = row, net \subseteq net', \A f \in File : drive'[f] = "sign" => row[f].root \in net'
    PROVE  SameRows /\ \A f \in File : row'[f].signed \/ drive'[f] = "sign" => row[f].root \in net'
BY InvFacts DEF Receipts, SameRows

LEMMA JobIsMootKeeps ==
    ASSUME Inv, NEW f \in File, JobIsMoot(f)
    PROVE  Inv'
<1>1. job' \subseteq job
      /\ UNCHANGED <<row, built, car, refs, aged, intent, dedup, net, add, drive, gc, faults, exposed>>
  BY DEF JobIsMoot
<1>2. Types' /\ RowsOK' /\ CarsOK'
  BY <1>1, InvFacts DEF Types, RowsOK, CarsOK, Known
<1>3. Calm
  BY <1>1, YoungCars, SameReceipts, InvFacts DEF Calm, Receipts
<1>. QED
  BY <1>2, <1>3, CalmKeeps

LEMMA RetryKeeps ==
    ASSUME Inv, NEW f \in File, Retry(f)
    PROVE  Inv'
<1>1. job' = job \cup {f} /\ row[f].st # "none"
      /\ UNCHANGED <<row, built, car, refs, aged, intent, dedup, net, add, drive, gc, faults, exposed>>
  BY DEF Retry, Unsigned, Live
<1>2. Types' /\ RowsOK' /\ CarsOK'
  BY <1>1, InvFacts DEF Types, RowsOK, CarsOK, Known
<1>3. Calm
  BY <1>1, YoungCars, SameReceipts, InvFacts DEF Calm, Receipts
<1>. QED
  BY <1>2, <1>3, CalmKeeps

LEMMA DriveStartKeeps ==
    ASSUME Inv, NEW f \in File, DriveStart(f)
    PROVE  Inv'
<1>1. /\ drive[f] = "idle" /\ Unsigned(f) /\ ~Locked(row[f].root)
      /\ drive' = [drive EXCEPT ![f] = IF SiblingSigned(f) THEN "sign" ELSE "upload"]
      /\ aged' \subseteq aged
      /\ UNCHANGED <<row, built, car, refs, intent, dedup, job, net, add, gc, faults, exposed>>
  BY DEF DriveStart
<1>2. /\ drive' \in [File -> {"idle", "upload", "sign"}]
      /\ drive'[f] = IF SiblingSigned(f) THEN "sign" ELSE "upload"
      /\ \A g \in File : g # f => drive'[g] = drive[g]
  BY <1>1, InvFacts DEF Types
<1>3. row[f].st # "none" /\ row[f].root \in Root
  BY <1>1, InvFacts DEF Unsigned, Live
<1>4. Types'
  BY <1>1, <1>2, InvFacts DEF Types
<1>5. RowsOK'
  <2>1. \A g \in File : drive[g] # "idle" => row[g].root # row[f].root
    BY <1>1, InvFacts DEF Locked, Types
  <2>. QED
    BY <1>1, <1>2, <1>3, <2>1, InvFacts DEF RowsOK
<1>6. CarsOK'
  BY <1>1, InvFacts DEF CarsOK, Known
<1>7. SiblingSigned(f) => row[f].root \in net
  BY <1>3, InvFacts DEF SiblingSigned, Receipts, CarsOK, Types
<1>8. Calm
  <2>1. \A g \in File : drive'[g] = "sign" => row[g].root \in net
    BY <1>2, <1>7, InvFacts DEF Receipts
  <2>. QED
    BY <1>1, <2>1, YoungCars, SameReceipts DEF Calm
<1>. QED
  BY <1>4, <1>5, <1>6, <1>8, CalmKeeps

LEMMA UploadKeeps ==
    ASSUME Inv, NEW f \in File, Upload(f)
    PROVE  Inv'
<1>1. /\ drive[f] = "upload" /\ aged' \subseteq aged
      /\ \/ net' = net \cup {row[f].root} /\ drive' = [drive EXCEPT ![f] = "sign"]
         \/ net' = net /\ drive' = [drive EXCEPT ![f] = "idle"]
      /\ UNCHANGED <<row, built, car, refs, intent, dedup, job, add, gc, faults, exposed>>
  BY DEF Upload
<1>2. /\ drive' \in [File -> {"idle", "upload", "sign"}] /\ net \subseteq net'
      /\ drive'[f] = "sign" => row[f].root \in net'
      /\ \A g \in File : g # f => drive'[g] = drive[g]
  BY <1>1, InvFacts DEF Types
<1>3. row[f].st # "none" /\ row[f].root \in Root /\ row[f].root <= built
  BY <1>1, InvFacts DEF RowsOK
<1>4. Types'
  BY <1>1, <1>2, <1>3, InvFacts DEF Types
<1>5. RowsOK'
  BY <1>1, <1>2, <1>3, InvFacts DEF RowsOK
<1>6. CarsOK'
  BY <1>1, <1>3, InvFacts DEF CarsOK, Known
<1>7. Calm
  <2>1. \A g \in File : drive'[g] = "sign" => row[g].root \in net'
    BY <1>2, InvFacts DEF Receipts
  <2>. QED
    BY <1>1, <1>2, <2>1, YoungCars, SameReceipts DEF Calm
<1>. QED
  BY <1>4, <1>5, <1>6, <1>7, CalmKeeps

LEMMA SetNetworkSignKeeps ==
    ASSUME Inv, NEW f \in File, SetNetworkSign(f)
    PROVE  Inv'
<1>1. /\ drive[f] = "sign"
      /\ row' \in [File -> Rows] /\ \A g \in File : g # f => row'[g] = row[g]
      /\ row'[f].st = row[f].st /\ row'[f].root = row[f].root
      /\ row'[f].owner = row[f].owner
      /\ drive' \in [File -> {"idle", "upload", "sign"}] /\ drive'[f] = "idle"
      /\ \A g \in File : g # f => drive'[g] = drive[g]
      /\ job' = job \ {f} /\ exposed' = exposed \ {f}
      /\ UNCHANGED <<built, car, refs, aged, intent, dedup, net, add, gc, faults>>
  BY InvFacts, SetNetworkSignFacts
<1>2. SameRows
  BY <1>1 DEF SameRows
<1>3. row[f].root \in net
  BY <1>1, InvFacts DEF Receipts
<1>4. Types'
  BY <1>1, InvFacts DEF Types
<1>5. RowsOK'
  <2>. HIDE DEF SameRows
  <2>1. \A g \in File : /\ row'[g].st = row[g].st /\ row'[g].root = row[g].root
                        /\ row'[g].owner = row[g].owner
                        /\ (drive'[g] # "idle" => drive[g] # "idle")
    BY <1>1, <1>2 DEF SameRows
  <2>2. dedup # 0 => dedup \in File
    BY InvFacts, ConstantFacts DEF Types
  <2>3. job' \subseteq job /\ job \subseteq File /\ built' = built /\ dedup' = dedup
    BY <1>1, InvFacts DEF Types
  <2>. QED
    BY <2>1, <2>2, <2>3, InvFacts DEF RowsOK
<1>6. CarsOK'
  <2>1. \A r \in Root : refs[r] \subseteq File
    BY InvFacts DEF Types
  <2>. QED
    BY <1>1, <1>2, <2>1, InvFacts DEF CarsOK, Known, SameRows
<1>7. Calm
  <2>1. \A g \in File : row'[g].signed \/ drive'[g] = "sign" => row[g].root \in net'
    BY <1>1, <1>3, InvFacts DEF Receipts
  <2>2. aged' \subseteq aged
    BY <1>1
  <2>3. net' = net /\ net \subseteq net'
    BY <1>1
  <2>. QED
    BY <1>1, <1>2, <1>3, <2>1, <2>2, <2>3, YoungCars DEF Calm
<1>. QED
  BY <1>4, <1>5, <1>6, <1>7, CalmKeeps

LEMMA DriveFailsKeeps ==
    ASSUME Inv, NEW f \in File, DriveFails(f)
    PROVE  Inv'
<1>1. /\ drive' = [drive EXCEPT ![f] = "idle"] /\ faults' \in 0..MaxFaults
      /\ UNCHANGED <<row, built, car, refs, aged, intent, dedup, job, net, add, gc, exposed>>
  BY InvFacts, ConstantFacts DEF DriveFails, local, Types
<1>2. /\ drive' \in [File -> {"idle", "upload", "sign"}] /\ drive'[f] = "idle"
      /\ \A g \in File : g # f => drive'[g] = drive[g]
  BY <1>1, InvFacts DEF Types
<1>3. Types' /\ RowsOK' /\ CarsOK'
  BY <1>1, <1>2, InvFacts DEF Types, RowsOK, CarsOK, Known
<1>4. Calm
  <2>1. \A g \in File : drive'[g] = "sign" => row[g].root \in net
    BY <1>2, InvFacts DEF Receipts
  <2>. QED
    BY <1>1, <2>1, YoungCars, SameReceipts DEF Calm
<1>. QED
  BY <1>3, <1>4, CalmKeeps

LEMMA UserOffloadKeeps ==
    ASSUME Inv, NEW f \in File, UserOffload(f)
    PROVE  Inv'
<1>. DEFINE r == row[f].root
<1>1. /\ Live(f) /\ row[f].signed /\ car[r] \in {"partial", "complete"}
      /\ car' = [car EXCEPT ![r] = "offloaded"]
      /\ UNCHANGED <<row, built, refs, aged, intent, dedup, job, net, add, drive, gc, faults, exposed>>
  BY DEF UserOffload, Offload, Known
<1>2. r \in Root /\ r \in net
  BY <1>1, InvFacts DEF Receipts, Live
<1>3. /\ car' \in [Root -> {"absent", "partial", "complete", "offloaded"}]
      /\ car'[r] = "offloaded" /\ \A q \in Root : q # r => car'[q] = car[q]
  BY <1>1, <1>2, InvFacts DEF Types
<1>4. Types' /\ RowsOK'
  BY <1>1, <1>3, InvFacts DEF Types, RowsOK
<1>5. CarsOK'
  BY <1>1, <1>2, <1>3, InvFacts DEF CarsOK, Known
<1>6. Calm
  BY <1>1, <1>2, <1>3, YoungCars, SameReceipts, InvFacts DEF Calm, Receipts
<1>. QED
  BY <1>4, <1>5, <1>6, CalmKeeps

LEMMA ReadKeeps ==
    ASSUME Inv, NEW f \in File, Read(f)
    PROVE  Inv'
<1>. DEFINE r == row[f].root
<1>1. /\ Live(f) /\ aged' = aged \ {r}
      /\ UNCHANGED <<row, built, intent, dedup, job, net, add, drive, gc, faults, exposed>>
  BY DEF Read
<1>2. r \in Root /\ r <= built
  BY <1>1, InvFacts DEF Live, RowsOK
<1>3. \/ UNCHANGED <<car, refs>>
      \/ /\ row[f].signed
         /\ car' \in [Root -> {"absent", "partial", "complete", "offloaded"}]
         /\ car'[r] # "absent" /\ \A q \in Root : q # r => car'[q] = car[q]
         /\ refs' \in [Root -> SUBSET File] /\ refs[r] \subseteq refs'[r] /\ refs'[r] \subseteq refs[r] \cup {f}
         /\ \A q \in Root : q # r => refs'[q] = refs[q]
  BY <1>2, InvFacts DEF Read, Types
<1>4. Types' /\ RowsOK'
  BY <1>1, <1>3, InvFacts DEF Types, RowsOK
<1>5. CarsOK'
  <2>1. \A q \in Root : /\ Known(q) => Known(q)'
                        /\ refs'[q] = refs[q] \/ (q = r /\ Known(q)' /\ refs'[q] \subseteq refs[q] \cup {f})
                        /\ built < q => car'[q] = car[q]
    <3>1. \A q \in Root : q \in Int
      BY ConstantFacts
    <3>. QED
      BY <1>2, <1>3, <3>1, InvFacts DEF Known
  <2>2. aged' \subseteq aged
    BY <1>1
  <2>. HIDE DEF r
  <2>3. r = row[f].root
    BY DEF r
  <2>. QED
    BY <1>1, <2>1, <2>2, <2>3, InvFacts DEF CarsOK
<1>6. Calm
  <2>1. row[f].signed => r \in net
    BY InvFacts DEF Receipts
  <2>2. \A q \in Root : \/ car'[q] = car[q] /\ refs'[q] = refs[q]
                        \/ q \in net
    BY <1>2, <1>3, <2>1
  <2>3. aged' \subseteq aged
    BY <1>1
  <2>4. \A g \in File : drive'[g] = "sign" => row[g].root \in net
    BY <1>1, InvFacts DEF Receipts
  <2>. QED
    BY <1>1, <2>2, <2>3, <2>4, YoungCars, SameReceipts DEF Calm
<1>. QED
  BY <1>4, <1>5, <1>6, CalmKeeps

LEMMA AgeKeeps ==
    ASSUME Inv, NEW r \in Root, Age(r)
    PROVE  Inv'
<1>1. /\ Known(r) /\ \A a \in Adding(r) : add[a].bound # 0
      /\ aged' = aged \cup {r}
      /\ UNCHANGED <<row, built, car, refs, intent, dedup, job, net, add, drive, gc, faults, exposed>>
  BY DEF Age
<1>2. Types' /\ RowsOK' /\ CarsOK'
  BY <1>1, InvFacts DEF Types, RowsOK, CarsOK, Known
<1>3. \A a \in Adder : First(a) => add[a].root \notin aged'
  BY <1>1, InvFacts DEF NewCars, First, Adding
<1>4. Calm
  BY <1>1, <1>3, SameReceipts, InvFacts DEF Calm, Receipts
<1>. QED
  BY <1>2, <1>4, CalmKeeps

----------------------------------------------------------------------------
(* Calls that go on, end or lose their guard: no row, CAR or index entry   *)
(* changes.                                                                *)
Moves(a) ==
    \/ add'[a] = NoAdd
    \/ /\ SameCall(add[a], add'[a]) /\ add'[a].file = add[a].file /\ (add[a].open => add'[a].open)
       /\ \/ add'[a].pc = add[a].pc
          \/ add[a].pc \in {"bound", "built"} /\ add'[a].pc = "marked"
          \/ add[a].pc = "recorded" /\ add'[a].pc = "queued"

CallsMove ==
    /\ UNCHANGED <<row, built, car, refs, aged, dedup, net>> /\ exposed \subseteq exposed'
    /\ \A a \in Adder : Moves(a)
    /\ \A f \in File : drive'[f] \in {drive[f], "idle"}
    /\ gc'.plan \subseteq gc.plan /\ (gc'.pc = "idle" => gc'.plan = {})
    /\ \A f \in job' : row[f].st # "none"

LEMMA MovesFacts ==
    ASSUME Inv, NEW a \in Adder, Moves(a), row' = row, built' = built
    PROVE  /\ CallOK(a)'
           /\ add'[a].root \in {add[a].root, 0} /\ add'[a].root \in 0..MaxRoots
           /\ add'[a].signed => add[a].signed /\ add'[a].root = add[a].root
           /\ Unregistered(a)' => Unregistered(a)
           /\ First(a)' => First(a) /\ add'[a].root = add[a].root
           /\ Bound(a)' => /\ Bound(a) /\ add'[a].root = add[a].root
                           /\ add'[a].bound = add[a].bound /\ (add[a].open => add'[a].open)
           /\ add'[a].pc = "linked" => /\ add[a].pc = "linked" /\ add'[a].root = add[a].root
                                       /\ add'[a].file = add[a].file
<1>1. CallOK(a) /\ add[a].root \in 0..MaxRoots
  BY InvFacts, RootFacts
<1>2. CASE add'[a] = NoAdd
  BY <1>1, <1>2, ConstantFacts DEF CallOK, Unregistered, First, Bound
<1>3. CASE add'[a] # NoAdd
  BY <1>1, <1>3 DEF CallOK, Unregistered, First, Bound, Moves, SameCall
<1>. QED
  BY <1>2, <1>3

LEMMA CallsMoveKeeps ==
    ASSUME Inv, CallsMove, Types', Guarded'
    PROVE  Inv'
<1>1. /\ UNCHANGED <<row, built, car, refs, aged, dedup, net>> /\ exposed \subseteq exposed'
      /\ \A a \in Adder : Moves(a)
      /\ \A f \in File : drive'[f] \in {drive[f], "idle"}
      /\ gc'.plan \subseteq gc.plan /\ (gc'.pc = "idle" => gc'.plan = {})
      /\ \A f \in job' : row[f].st # "none"
  BY DEF CallsMove
<1>2. /\ \A a \in Adder : CallOK(a)'
      /\ \A a \in Adder : add'[a].root \in {add[a].root, 0} /\ add'[a].root \in 0..MaxRoots
      /\ \A a \in Adder : add'[a].signed => add[a].signed /\ add'[a].root = add[a].root
      /\ \A a \in Adder : Unregistered(a)' => Unregistered(a)
      /\ \A a \in Adder : First(a)' => First(a) /\ add'[a].root = add[a].root
      /\ \A a \in Adder : Bound(a)' => /\ Bound(a) /\ add'[a].root = add[a].root
                                       /\ add'[a].bound = add[a].bound /\ (add[a].open => add'[a].open)
      /\ \A a \in Adder : add'[a].pc = "linked" => /\ add[a].pc = "linked" /\ add'[a].root = add[a].root
                                                   /\ add'[a].file = add[a].file
  BY <1>1, MovesFacts
<1>3. RowsOK'
  BY <1>1, InvFacts DEF RowsOK
<1>4. CarsOK'
  BY <1>1, InvFacts DEF CarsOK, Known
<1>5. PlanOK'
  BY <1>1, InvFacts DEF PlanOK, TaskOK
<1>6. Room'
  <2>1. Registered' = Registered /\ Pending' \subseteq Pending
    BY <1>1, <1>2 DEF Registered, Pending
  <2>. QED
    BY <2>1, InvFacts, RoomFrame
<1>7. Receipts'
  BY <1>1, <1>2, InvFacts DEF Receipts
<1>8. NewCars'
  <2>1. ASSUME NEW a \in Adder, First(a)'
        PROVE  /\ add'[a].root \notin aged'
               /\ Unregistered(a)' => /\ Known(add[a].root)'
                                      /\ \A f \in File : row'[f].root # add'[a].root
                                      /\ \A b \in Adder \ {a} : add'[b].root # add'[a].root
    <3>1. First(a) /\ add'[a].root = add[a].root /\ add[a].root # 0
      BY <1>2, <2>1, InvFacts DEF First, CallOK
    <3>2. add[a].root \notin aged
      BY <3>1, InvFacts DEF NewCars
    <3>3. ASSUME Unregistered(a)'
          PROVE  /\ Known(add[a].root) /\ \A f \in File : row[f].root # add[a].root
                 /\ \A b \in Adder \ {a} : add[b].root # add[a].root
      BY <1>2, <3>1, <3>3, InvFacts DEF NewCars
    <3>. QED
      BY <1>1, <1>2, <3>1, <3>2, <3>3 DEF Known
  <2>. QED
    BY <2>1 DEF NewCars
<1>9. Donors'
  <2>1. IndexLinked'
    BY <1>1, InvFacts DEF Donors, IndexLinked, LiveFiles, Live
  <2>2. ASSUME NEW a \in Adder
        PROVE  DonorLinked(a)' /\ FirstLinked(a)'
    <3>1. DonorLinked(a) /\ FirstLinked(a)
      BY InvFacts DEF Donors
    <3>2. \A f : Live(f)' <=> Live(f)
      BY <1>1 DEF Live
    <3>. QED
      BY <1>1, <1>2, <3>1, <3>2 DEF DonorLinked, FirstLinked
  <2>. QED
    BY <2>1, <2>2 DEF Donors
<1>10. Spares'
  <2>1. \A r : RowsOf(r)' = RowsOf(r)
    BY <1>1 DEF RowsOf, Live
  <2>2. ASSUME NEW t \in gc'.plan
        PROVE  Spared(t)'
    <3>1. t.root \in Root /\ Spared(t) /\ t.root # 0
      BY <1>1, InvFacts, ConstantFacts DEF Spares
    <3>. QED
      BY <1>1, <1>2, <2>1, <3>1 DEF Spared
  <2>. QED
    BY <2>2 DEF Spares
<1>11. Kept'
  BY <1>1, InvFacts DEF Kept, Known, Live
<1>. QED
  BY <1>2, <1>3, <1>4, <1>5, <1>6, <1>7, <1>8, <1>9, <1>10, <1>11 DEF Inv, Shape, Safe, CallsMove

LEMMA EndsGuarded ==
    ASSUME Inv, Ends, UNCHANGED <<row, refs, net, intent, exposed>>
    PROVE  Guarded'
<1>1. \A f \in File : RowGuarded(f)'
  BY InvFacts DEF Guarded, RowGuarded, Live
<1>2. ASSUME NEW a \in Adder
      PROVE  MarkGuarded(a)' /\ LinkGuarded(a)'
  <2>1. MarkGuarded(a) /\ LinkGuarded(a)
    BY InvFacts DEF Guarded
  <2>2. CASE add'[a] = NoAdd
    BY <2>2, ConstantFacts DEF MarkGuarded, LinkGuarded
  <2>3. CASE add'[a] = add[a]
    BY <2>1, <2>3 DEF MarkGuarded, LinkGuarded, Live
  <2>. QED
    BY <2>2, <2>3 DEF Ends
<1>. QED
  BY <1>1, <1>2 DEF Guarded

LEMMA EndsMove ==
    ASSUME Types, Ends
    PROVE  \A a \in Adder : Moves(a)
<1>1. ASSUME NEW a \in Adder, add'[a] = add[a]
      PROVE  Moves(a)
  BY <1>1 DEF Moves, SameCall
<1>. QED
  BY <1>1 DEF Ends, Moves

LEMMA AttachFailsKeeps ==
    ASSUME Inv, NEW a \in Adder, AttachFails(a)
    PROVE  Inv'
<1>1. /\ add' = [add EXCEPT ![a] = NoAdd] /\ faults < MaxFaults /\ faults' = faults + 1
      /\ UNCHANGED <<row, built, car, refs, aged, intent, dedup, job, net, drive, gc, exposed>>
  BY DEF AttachFails
<1>2. add' \in [Adder -> Adds] /\ Ends
  BY <1>1, InvFacts, EndFacts
<1>3. Types'
  BY <1>1, <1>2, InvFacts, ConstantFacts DEF Types
<1>4. CallsMove
  BY <1>1, <1>2, InvFacts, EndsMove DEF CallsMove, RowsOK, PlanOK
<1>. QED
  BY <1>1, <1>2, <1>3, <1>4, EndsGuarded, CallsMoveKeeps

LEMMA CrashKeeps ==
    ASSUME Inv, Crash
    PROVE  Inv'
<1>1. /\ faults < MaxFaults /\ faults' = faults + 1
      /\ add' \in [Adder -> Adds] /\ Ends
      /\ drive' \in [File -> {"idle", "upload", "sign"}] /\ \A f \in File : drive'[f] = "idle"
      /\ gc' \in [pc : {"idle", "act"}, plan : SUBSET Tasks] /\ gc'.plan = {}
      /\ UNCHANGED <<row, built, car, refs, aged, intent, dedup, job, net, exposed>>
  BY InvFacts, CrashFacts
<1>2. Types'
  BY <1>1, InvFacts, ConstantFacts DEF Types
<1>3. CallsMove
  BY <1>1, InvFacts, EndsMove DEF CallsMove, RowsOK
<1>. QED
  BY <1>1, <1>2, <1>3, EndsGuarded, CallsMoveKeeps

LEMMA EndKeeps ==
    ASSUME Inv, End
    PROVE  Inv'
<1>1. /\ gc' = NoPass
      /\ UNCHANGED <<row, built, car, refs, aged, intent, dedup, job, net, add, drive, faults, exposed>>
  BY DEF End, local
<1>2. gc' \in [pc : {"idle", "act"}, plan : SUBSET Tasks] /\ gc'.plan = {}
  BY <1>1, ConstantFacts
<1>3. Types' /\ Ends
  BY <1>1, <1>2, InvFacts DEF Types, Ends
<1>4. CallsMove
  BY <1>1, <1>2, <1>3, InvFacts, EndsMove DEF CallsMove, RowsOK
<1>. QED
  BY <1>1, <1>3, <1>4, EndsGuarded, CallsMoveKeeps

LEMMA EnqueueKeeps ==
    ASSUME Inv, NEW a \in Adder, Enqueue(a)
    PROVE  Inv'
<1>1. /\ add[a].pc = "recorded" /\ Go(a, "queued")
      /\ job' \subseteq job \cup {add[a].file}
      /\ UNCHANGED <<row, built, car, refs, aged, intent, dedup, net, drive, gc, faults, exposed>>
  BY DEF Enqueue
<1>2. add' \in [Adder -> Adds] /\ Goes(a, "queued")
  BY <1>1, InvFacts, GoFacts DEF Pc
<1>3. add[a].file \in File /\ row[add[a].file].st # "none"
  BY <1>1, InvFacts DEF CallOK, RowsOK
<1>4. Types'
  BY <1>1, <1>2, <1>3, InvFacts DEF Types
<1>5. \A b \in Adder : b # a => add'[b] = add[b]
  BY <1>2 DEF Goes, OnlyCall
<1>6. \A b \in Adder : Moves(b)
  BY <1>1, <1>2, <1>5 DEF Goes, Moves, SameCall
<1>7. CallsMove
  BY <1>1, <1>3, <1>6, InvFacts DEF CallsMove, RowsOK, PlanOK
<1>8. Guarded'
  <2>1. \A f \in File : RowGuarded(f)'
    BY <1>1, InvFacts DEF Guarded, RowGuarded, Live
  <2>2. ASSUME NEW b \in Adder
        PROVE  MarkGuarded(b)' /\ LinkGuarded(b)'
    <3>1. MarkGuarded(b) /\ LinkGuarded(b)
      BY InvFacts DEF Guarded
    <3>2. CASE b = a
      BY <1>1, <1>2, <3>1, <3>2 DEF Goes, SameCall, MarkGuarded, LinkGuarded, Live
    <3>3. CASE b # a
      BY <1>1, <1>5, <3>1, <3>3 DEF MarkGuarded, LinkGuarded, Live
    <3>. QED
      BY <3>2, <3>3
  <2>. QED
    BY <2>1, <2>2 DEF Guarded
<1>. QED
  BY <1>4, <1>7, <1>8, CallsMoveKeeps

\* The marker of a CAR changes hands or goes: what it guarded is set apart.
LEMMA MarkerLost ==
    ASSUME Inv, NEW r \in Root, NEW skip,
           UNCHANGED <<row, refs, net>>, exposed \subseteq exposed',
           \A q \in Root : q # r => intent'[q] = intent[q],
           Unlinked(r) \ {skip} \subseteq exposed',
           skip \in RowsOf(r) /\ r \notin net => skip \in refs[r] \cup exposed,
           NEW f \in File
    PROVE  RowGuarded(f)'
<1>1. RowGuarded(f) /\ (Live(f) => row[f].root \in Root)
  BY InvFacts DEF Guarded, Live
<1>2. CASE row[f].root = r
  BY <1>1, <1>2 DEF RowGuarded, Unlinked, RowsOf, Live
<1>3. CASE row[f].root # r
  BY <1>1, <1>3 DEF RowGuarded, Live
<1>. QED
  BY <1>2, <1>3

LEMMA UnmarkKeeps ==
    ASSUME Inv, NEW a \in Adder, Unmark(a)
    PROVE  Inv'
<1>. DEFINE r == add[a].root
<1>0. r \in Root
  BY InvFacts DEF Unmark
<1>1. /\ add[a].pc = "queued"
      /\ add' \in [Adder -> Adds] /\ add'[a] = NoAdd
      /\ \A b \in Adder \ {a} : Stays(b) /\ (Opened(r, a, b) => add'[b].open)
      /\ intent' \in [Root -> Owner \cup {NoOwner}]
      /\ \A q \in Root : q # r => intent'[q] = intent[q]
      /\ exposed' = exposed \cup (Unlinked(r) \ {add[a].file})
      /\ UNCHANGED <<row, built, car, refs, aged, dedup, job, net, drive, gc, faults>>
  BY <1>0, InvFacts, UnmarkFacts
<1>2. exposed' \subseteq File
  BY <1>1, InvFacts DEF Types, Unlinked, RowsOf
<1>3. Types'
  BY <1>1, <1>2, InvFacts DEF Types
<1>4. \A b \in Adder : Moves(b)
  BY <1>1 DEF Moves, Stays, Opened
<1>5. CallsMove
  BY <1>1, <1>4, InvFacts DEF CallsMove, RowsOK, PlanOK
<1>6. Guarded'
  <2>1. ASSUME NEW f \in File
        PROVE  RowGuarded(f)'
    <3>1. add[a].file \in RowsOf(r) /\ r \notin net => add[a].file \in refs[r] \cup exposed
      BY <1>1, InvFacts DEF Guarded, LinkGuarded, RowsOf
    <3>. HIDE DEF r
    <3>. QED
      BY <1>0, <1>1, <3>1, MarkerLost
  <2>2. ASSUME NEW b \in Adder
        PROVE  MarkGuarded(b)' /\ LinkGuarded(b)'
    <3>1. MarkGuarded(b) /\ LinkGuarded(b)
      BY InvFacts DEF Guarded
    <3>2. CASE b = a
      BY <1>1, <3>2, ConstantFacts DEF MarkGuarded, LinkGuarded
    <3>3. CASE b # a
      <4>1. Stays(b) /\ (Opened(r, a, b) => add'[b].open)
        BY <1>1, <3>3
      <4>2. add[b].pc \notin {"idle", "placed"} => add[b].root \in Root
        BY InvFacts
      <4>. QED
        BY <1>1, <3>1, <3>3, <4>1, <4>2 DEF MarkGuarded, LinkGuarded, Live, Stays, SameCall, Opened
    <3>. QED
      BY <3>2, <3>3
  <2>. QED
    BY <2>1, <2>2 DEF Guarded
<1>. QED
  BY <1>3, <1>5, <1>6, CallsMoveKeeps

LEMMA ClearMarkerKeeps ==
    ASSUME Inv, NEW t \in gc.plan, ClearMarker(t)
    PROVE  Inv'
<1>1. /\ t.root \in Root /\ intent' \in [Root -> Owner \cup {NoOwner}]
      /\ \A q \in Root : q # t.root => intent'[q] = intent[q]
      /\ exposed' = exposed \cup Unlinked(t.root)
      /\ add' \in [Adder -> Adds]
      /\ \A b \in Adder : /\ Stays(b) /\ (add[b].open => add'[b].open)
                          /\ add[b].root = t.root /\ add[b].pc = "marked" => add'[b].open
      /\ gc' \in [pc : {"idle", "act"}, plan : SUBSET Tasks]
      /\ gc'.pc = gc.pc /\ gc'.plan \subseteq gc.plan
      /\ UNCHANGED <<row, built, car, refs, aged, dedup, job, net, drive, faults>>
  BY InvFacts, ClearMarkerFacts
<1>2. exposed' \subseteq File
  BY <1>1, InvFacts DEF Types, Unlinked, RowsOf
<1>3. Types'
  BY <1>1, <1>2, InvFacts DEF Types
<1>4. \A b \in Adder : Moves(b)
  BY <1>1 DEF Moves, Stays
<1>5. CallsMove
  BY <1>1, <1>4, InvFacts DEF CallsMove, RowsOK, PlanOK
<1>6. Guarded'
  <2>1. ASSUME NEW f \in File
        PROVE  RowGuarded(f)'
    BY <1>1, InvFacts DEF Guarded, RowGuarded, Unlinked, RowsOf, Live
  <2>2. ASSUME NEW b \in Adder
        PROVE  MarkGuarded(b)' /\ LinkGuarded(b)'
    <3>1. MarkGuarded(b) /\ LinkGuarded(b)
      BY InvFacts DEF Guarded
    <3>2. add[b].pc \notin {"idle", "placed"} => add[b].root \in Root
      BY InvFacts
    <3>. QED
      BY <1>1, <3>1, <3>2 DEF MarkGuarded, LinkGuarded, Live, Stays, SameCall
  <2>. QED
    BY <2>1, <2>2 DEF Guarded
<1>. QED
  BY <1>3, <1>5, <1>6, CallsMoveKeeps

LEMMA MarkKeeps ==
    ASSUME Inv, NEW a \in Adder, Mark(a)
    PROVE  Inv'
<1>. DEFINE r == add[a].root
            taken == intent[r] \notin {NoOwner, add[a].owner}
<1>0. r \in Root
  BY InvFacts DEF Mark
<1>1. /\ add[a].pc \in {"bound", "built"}
      /\ add' \in [Adder -> Adds]
      /\ SameCall(add[a], add'[a]) /\ add'[a].pc = "marked"
      /\ add'[a].file = add[a].file /\ (add'[a].open <=> add[a].open)
      /\ \A b \in Adder \ {a} : /\ Stays(b) /\ (add[b].open => add'[b].open)
                                /\ taken /\ Opened(r, a, b) => add'[b].open
      /\ intent' \in [Root -> Owner \cup {NoOwner}]
      /\ intent'[r] = add[a].owner
      /\ \A q \in Root : q # r => intent'[q] = intent[q]
      /\ exposed' \in SUBSET File /\ exposed \subseteq exposed'
      /\ taken => Unlinked(r) \ {add[a].file} \subseteq exposed'
      /\ UNCHANGED <<row, built, car, refs, aged, dedup, job, net, drive, gc, faults>>
  BY <1>0, InvFacts, MarkFacts
<1>3. Types'
  BY <1>1, InvFacts DEF Types
<1>4. \A b \in Adder : Moves(b)
  <2>. HIDE DEF r, taken
  <2>. QED
    BY <1>1 DEF Moves, Stays
<1>5. CallsMove
  BY <1>1, <1>4, InvFacts DEF CallsMove, RowsOK, PlanOK
<1>6. Guarded'
  <2>0. add[a].file \notin File
    BY <1>1, InvFacts, ConstantFacts DEF CallOK, Unregistered
  <2>1. ASSUME NEW f \in File
        PROVE  RowGuarded(f)'
    <3>1. CASE taken
      <4>1. add[a].file \notin RowsOf(r)
        BY <2>0 DEF RowsOf
      <4>. HIDE DEF r
      <4>. QED
        BY <1>0, <1>1, <3>1, <4>1, MarkerLost
    <3>2. CASE ~taken
      <4>1. RowGuarded(f)
        BY InvFacts DEF Guarded
      <4>2. Live(f) => row[f].root \in Root /\ row[f].owner # NoOwner
        BY InvFacts, ConstantFacts DEF Live, RowsOK
      <4>3. \A q \in Root : intent[q] # NoOwner => intent'[q] = intent[q]
        BY <1>0, <1>1, <3>2
      <4>. QED
        BY <1>1, <4>1, <4>2, <4>3 DEF RowGuarded, Live
    <3>. QED
      BY <3>1, <3>2
  <2>2. ASSUME NEW b \in Adder
        PROVE  MarkGuarded(b)' /\ LinkGuarded(b)'
    <3>1. MarkGuarded(b) /\ LinkGuarded(b)
      BY InvFacts DEF Guarded
    <3>2. CASE b = a
      BY <1>1, <3>2 DEF MarkGuarded, LinkGuarded, SameCall
    <3>3. CASE b # a
      <4>1. Stays(b) /\ (add[b].open => add'[b].open) /\ (taken /\ Opened(r, a, b) => add'[b].open)
        BY <1>1, <3>3
      <4>2. add[b].pc \notin {"idle", "placed"} => add[b].root \in Root /\ add[b].owner # NoOwner
        BY InvFacts, ConstantFacts DEF CallOK
      <4>3. LinkGuarded(b)'
        BY <1>1, <3>1, <4>1 DEF LinkGuarded, Live, Stays, SameCall
      <4>4. MarkGuarded(b)'
        <5>1. SUFFICES ASSUME add[b].pc = "marked", ~add'[b].open, add[b].root \notin net
                       PROVE  intent'[add[b].root] = add[b].owner
          BY <1>1, <4>1 DEF MarkGuarded, Stays, SameCall
        <5>2. intent[add[b].root] = add[b].owner
          BY <3>1, <4>1, <5>1 DEF MarkGuarded
        <5>3. CASE add[b].root = r
          BY <1>1, <3>3, <4>1, <4>2, <5>1, <5>2, <5>3 DEF Opened
        <5>4. CASE add[b].root # r
          BY <1>1, <4>2, <5>1, <5>2, <5>4
        <5>. QED
          BY <5>3, <5>4
      <4>. QED
        BY <4>3, <4>4
    <3>. QED
      BY <3>2, <3>3
  <2>. QED
    BY <2>1, <2>2 DEF Guarded
<1>. QED
  BY <1>3, <1>5, <1>6, CallsMoveKeeps

----------------------------------------------------------------------------
(* The collector: no row, call, marker or index entry changes.             *)

\* Nothing depends on the CAR but what is set apart.
Spare(r) == /\ dedup \notin RowsOf(r) /\ RowsOf(r) \subseteq exposed
            /\ \A a \in Adder : add[a].root = r => ~First(a) /\ (Bound(a) => add[a].open)

\* The CAR stays and so do the references of its live rows.
KeepsCar(r) == /\ car'[r] = car[r]
             /\ \A f \in File : Live(f) /\ f \in refs[r] => f \in refs'[r]

Collects ==
    /\ UNCHANGED <<row, built, intent, dedup, net, add, drive, exposed>>
    /\ aged' \subseteq aged
    /\ \A r \in Root \ net : KeepsCar(r) \/ (Spare(r) /\ car'[r] = "absent")
    /\ \A t \in gc'.plan \ gc.plan : t.root \in Root /\ TaskOK(t) /\ Spared(t)
    /\ gc'.pc = "idle" => gc'.plan = {}
    /\ \A f \in job' : row[f].st # "none"

LEMMA CollectsKeeps ==
    ASSUME Inv, Collects, Types', CarsOK'
    PROVE  Inv'
<1>1. /\ UNCHANGED <<row, built, intent, dedup, net, add, drive, exposed>>
      /\ aged' \subseteq aged
      /\ \A r \in Root \ net : KeepsCar(r) \/ (Spare(r) /\ car'[r] = "absent")
      /\ \A t \in gc'.plan \ gc.plan : t.root \in Root /\ TaskOK(t) /\ Spared(t)
      /\ gc'.pc = "idle" => gc'.plan = {}
      /\ \A f \in job' : row[f].st # "none"
  BY DEF Collects
<1>2. RowsOK'
  BY <1>1, InvFacts DEF RowsOK
<1>3. \A a \in Adder : CallOK(a)'
  BY <1>1, InvFacts DEF CallOK, Unregistered
<1>4. PlanOK'
  BY <1>1, InvFacts DEF PlanOK, TaskOK
<1>5. Room'
  <2>1. Registered' = Registered /\ Pending' = Pending
    BY <1>1 DEF Registered, Pending, Unregistered
  <2>. QED
    BY <2>1, InvFacts, RoomFrame
<1>6. Receipts'
  BY <1>1, InvFacts DEF Receipts, KeepsCar
<1>7. /\ \A a \in Adder : /\ (First(a)' <=> First(a)) /\ (Bound(a)' <=> Bound(a))
                          /\ (Unregistered(a)' <=> Unregistered(a))
      /\ \A f : Live(f)' <=> Live(f)
      /\ \A r : RowsOf(r)' = RowsOf(r)
  BY <1>1 DEF First, Bound, Unregistered, Live, RowsOf
<1>8. NewCars'
  <2>1. ASSUME NEW a \in Adder, First(a), Unregistered(a)
        PROVE  Known(add[a].root)'
    <3>1. add[a].root \in Root \ net /\ Known(add[a].root) /\ ~Spare(add[a].root)
      BY <2>1, NewIsHere, InvFacts DEF NewCars, First, Spare
    <3>. QED
      BY <1>1, <3>1 DEF KeepsCar, Known
  <2>. QED
    BY <1>1, <1>7, <2>1, InvFacts DEF NewCars
<1>9. Donors'
  <2>1. IndexLinked'
    <3>1. dedup \in LiveFiles => dedup \in RowsOf(row[dedup].root) /\ row[dedup].root \in Root
      BY InvFacts DEF LiveFiles, RowsOf, Live
    <3>. QED
      BY <1>1, <3>1, InvFacts DEF Donors, IndexLinked, LiveFiles, Live, KeepsCar, Spare
  <2>2. ASSUME NEW a \in Adder
        PROVE  DonorLinked(a)' /\ FirstLinked(a)'
    <3>1. DonorLinked(a) /\ FirstLinked(a)
      BY InvFacts DEF Donors
    <3>2. /\ Bound(a) => add[a].root \in Root /\ add[a].bound \in File
          /\ add[a].pc = "linked" => add[a].root \in Root /\ add[a].file \in File /\ First(a)
      BY InvFacts DEF Bound, CallOK, First
    <3>3. DonorLinked(a)'
      BY <1>1, <1>7, <3>1, <3>2 DEF DonorLinked, KeepsCar, Spare
    <3>4. FirstLinked(a)'
      BY <1>1, <1>7, <3>1, <3>2 DEF FirstLinked, KeepsCar, Spare
    <3>. QED
      BY <3>3, <3>4
  <2>. QED
    BY <2>1, <2>2 DEF Donors
<1>10. Guarded'
  <2>1. ASSUME NEW f \in File
        PROVE  RowGuarded(f)'
    <3>1. RowGuarded(f) /\ (Live(f) => row[f].root \in Root /\ f \in RowsOf(row[f].root))
      BY InvFacts DEF Guarded, Live, RowsOf
    <3>. QED
      BY <1>1, <1>7, <3>1 DEF RowGuarded, KeepsCar, Spare
  <2>2. ASSUME NEW a \in Adder
        PROVE  MarkGuarded(a)' /\ LinkGuarded(a)'
    <3>1. MarkGuarded(a) /\ LinkGuarded(a)
      BY InvFacts DEF Guarded
    <3>2. add[a].pc \in {"linked", "recorded", "queued"} /\ Live(add[a].file)
            => /\ add[a].root \in Root /\ add[a].file \in File
               /\ add[a].file \in RowsOf(add[a].root)
      BY InvFacts DEF CallOK, RowsOf
    <3>3. MarkGuarded(a)'
      BY <1>1, <3>1 DEF MarkGuarded
    <3>4. LinkGuarded(a)'
      BY <1>1, <1>7, <3>1, <3>2 DEF LinkGuarded, KeepsCar, Spare
    <3>. QED
      BY <3>3, <3>4
  <2>. QED
    BY <2>1, <2>2 DEF Guarded
<1>11. Spares'
  <2>1. ASSUME NEW t \in gc'.plan
        PROVE  Spared(t)'
    <3>1. Spared(t)
      BY <1>1, InvFacts DEF Spares
    <3>. QED
      BY <1>1, <1>7, <3>1 DEF Spared
  <2>. QED
    BY <2>1 DEF Spares
<1>12. Kept'
  <2>1. \A f \in File : Live(f) => row[f].root \in Root /\ f \in RowsOf(row[f].root)
    BY InvFacts DEF Live, RowsOf
  <2>. QED
    BY <1>1, <1>7, <2>1, InvFacts DEF Kept, Known, KeepsCar, Spare
<1>. QED
  BY <1>2, <1>3, <1>4, <1>5, <1>6, <1>8, <1>9, <1>10, <1>11, <1>12 DEF Inv, Shape, Safe

LEMMA StartKeeps ==
    ASSUME Inv, Sweep \/ FreeUp
    PROVE  Inv'
<1>1. /\ gc' \in [pc : {"idle", "act"}, plan : SUBSET Tasks] /\ gc'.pc = "act"
      /\ \A t \in gc'.plan : Planned(t)
      /\ UNCHANGED <<row, built, car, refs, aged, intent, dedup, job, net, add, drive, faults, exposed>>
  BY InvFacts, StartFacts DEF local
<1>2. ASSUME NEW t, Planned(t)
      PROVE  t.root \in Root /\ TaskOK(t) /\ Spared(t)
  <2>1. /\ t \in Tasks /\ t.root \in Root /\ Known(t.root)
        /\ t.do \in {"none", "heal", "remove", "offload"}
    BY <1>2 DEF Planned, Tasks
  <2>2. refs[t.root] \subseteq File /\ \A f \in refs[t.root] : row[f].root = t.root
    BY <2>1, InvFacts DEF CarsOK, Types
  <2>3. TaskOK(t)
    <3>1. t.root <= built
      <4>1. t.root \in Int /\ ~(built < t.root)
        BY <2>1, InvFacts, ConstantFacts DEF CarsOK, Known
      <4>. QED
        BY <4>1, InvFacts
    <3>2. \A f \in t.dead : row[f].st = "deleted"
      <4>1. \A f \in File : row[f].st \in {"none", "live", "deleted"} /\ (row[f].st = "none" <=> row[f].root = 0)
        BY InvFacts, RootFacts DEF RowsOK
      <4>. QED
        BY <1>2, <2>1, <2>2, <4>1, ConstantFacts DEF Planned, Used, Live
    <3>. QED
      BY <2>1, <3>1, <3>2 DEF TaskOK
  <2>4. Spared(t)
    <3>1. SUFFICES ASSUME t.root \notin net
                   PROVE  /\ t.do # "offload"
                          /\ t.do \in {"heal", "remove"} =>
                               /\ dedup \notin RowsOf(t.root)
                               /\ \A a \in Adder : add[a].root = t.root =>
                                    ~First(a) /\ (Bound(a) => add[a].open)
                               /\ \A f \in RowsOf(t.root) :
                                    f \in exposed \/ (t.do = "heal" /\ row[f].owner = t.owner)
      BY <2>1 DEF Spared
    <3>2. t.do # "offload"
      BY <1>2, <2>2, <3>1, InvFacts DEF Planned, Used, Durable, Receipts
    <3>3. SUFFICES ASSUME t.do \in {"heal", "remove"}
                   PROVE  /\ dedup \notin RowsOf(t.root)
                          /\ \A a \in Adder : add[a].root = t.root =>
                               ~First(a) /\ (Bound(a) => add[a].open)
                          /\ \A f \in RowsOf(t.root) :
                               f \in exposed \/ (t.do = "heal" /\ row[f].owner = t.owner)
      BY <3>2
    <3>4. t.root \in aged /\ \A f \in refs[t.root] : ~Live(f)
      BY <1>2, <3>3 DEF Planned, Used
    <3>5. dedup \notin RowsOf(t.root)
      BY <3>1, <3>4, InvFacts DEF Donors, IndexLinked, RowsOf, LiveFiles
    <3>6. ASSUME NEW a \in Adder, add[a].root = t.root
          PROVE  ~First(a) /\ (Bound(a) => add[a].open)
      BY <3>1, <3>4, <3>6, InvFacts DEF NewCars, Donors, DonorLinked
    <3>7. ASSUME NEW f \in RowsOf(t.root), f \notin exposed
          PROVE  t.do = "heal" /\ row[f].owner = t.owner
      <4>1. f \in File /\ Live(f) /\ row[f].root = t.root /\ row[f].owner \in Owner /\ f \notin refs[t.root]
        BY <3>4, <3>7, InvFacts DEF RowsOf, Live, RowsOK
      <4>2. intent[t.root] = row[f].owner
        BY <3>1, <3>7, <4>1, InvFacts DEF Guarded, RowGuarded
      <4>. QED
        BY <1>2, <3>3, <4>1, <4>2, ConstantFacts DEF Planned
    <3>. QED
      BY <3>5, <3>6, <3>7
  <2>. QED
    BY <2>1, <2>3, <2>4
<1>3. Types' /\ CarsOK'
  BY <1>1, InvFacts DEF Types, CarsOK, Known
<1>4. Collects
  BY <1>1, <1>2, InvFacts DEF Collects, KeepsCar, RowsOK
<1>. QED
  BY <1>3, <1>4, CollectsKeeps

\* The task that takes another's place in the plan.
LEMMA StepFacts ==
    ASSUME Inv, NEW t \in gc.plan
    PROVE  /\ t \in Tasks /\ t.root \in Root /\ TaskOK(t) /\ Spared(t) /\ gc.pc # "idle"
           /\ Done(t) => /\ gc' \in [pc : {"idle", "act"}, plan : SUBSET Tasks]
                         /\ gc'.pc # "idle" /\ gc'.plan \subseteq gc.plan
           /\ \A do \in Do : gc' = Step(t, do) =>
                 /\ gc' \in [pc : {"idle", "act"}, plan : SUBSET Tasks] /\ gc'.pc # "idle"
                 /\ \A u \in gc'.plan \ gc.plan :
                       u.root = t.root /\ u.do = do /\ u.dead = {} /\ u.file = t.file /\ u.owner = t.owner
<1>1. t \in Tasks /\ t.root \in Root /\ TaskOK(t) /\ Spared(t) /\ gc.pc # "idle"
  BY InvFacts DEF Spares, PlanOK
<1>2. gc \in [pc : {"idle", "act"}, plan : SUBSET Tasks]
  BY InvFacts DEF Types
<1>3. Done(t) => /\ gc' \in [pc : {"idle", "act"}, plan : SUBSET Tasks]
                 /\ gc'.pc = gc.pc /\ gc'.plan = gc.plan \ {t}
  BY <1>2, PlanFacts
<1>4. ASSUME NEW do \in Do, gc' = Step(t, do)
      PROVE  /\ gc' \in [pc : {"idle", "act"}, plan : SUBSET Tasks]
             /\ gc'.pc = gc.pc /\ gc'.plan = (gc.plan \ {t}) \cup {Follow(t, do)}
             /\ Follow(t, do).root = t.root /\ Follow(t, do).do = do /\ Follow(t, do).dead = {}
             /\ Follow(t, do).file = t.file /\ Follow(t, do).owner = t.owner
  <2>1. /\ gc' \in [pc : {"idle", "act"}, plan : SUBSET Tasks]
        /\ gc'.pc = gc.pc /\ gc'.plan = (gc.plan \ {t}) \cup {Follow(t, do)}
    BY <1>2, <1>4, PlanFacts
  <2>2. /\ Follow(t, do).root = t.root /\ Follow(t, do).do = do /\ Follow(t, do).dead = {}
        /\ Follow(t, do).file = t.file /\ Follow(t, do).owner = t.owner
    BY <1>1, TaskFacts
  <2>. QED
    BY <2>1, <2>2
<1>. QED
  BY <1>1, <1>3, <1>4

LEMMA PruneKeeps ==
    ASSUME Inv, NEW t \in gc.plan, Prune(t)
    PROVE  Inv'
<1>1. /\ refs' = [refs EXCEPT ![t.root] = @ \ t.dead]
      /\ Done(t) \/ (gc' = Step(t, t.do) /\ t.do \in Do)
      /\ UNCHANGED <<row, built, car, aged, intent, dedup, job, net, add, drive, faults, exposed>>
  BY StepFacts DEF Prune, Tasks
<1>2. /\ t.root \in Root /\ TaskOK(t) /\ Spared(t)
      /\ gc' \in [pc : {"idle", "act"}, plan : SUBSET Tasks] /\ gc'.pc # "idle"
      /\ \A u \in gc'.plan \ gc.plan :
            u.root = t.root /\ u.do = t.do /\ u.dead = {} /\ u.file = t.file /\ u.owner = t.owner
  BY <1>1, StepFacts
<1>3. /\ refs' \in [Root -> SUBSET File]
      /\ \A r \in Root : refs'[r] \subseteq refs[r] /\ refs[r] \ t.dead \subseteq refs'[r]
  BY <1>1, <1>2, InvFacts DEF Types
<1>4. Types' /\ CarsOK'
  BY <1>1, <1>2, <1>3, InvFacts DEF Types, CarsOK, Known
<1>5. Collects
  <2>1. \A u \in gc'.plan \ gc.plan : u.root \in Root /\ TaskOK(u) /\ Spared(u)
    BY <1>2 DEF TaskOK, Spared
  <2>2. \A r \in Root : KeepsCar(r)
    BY <1>1, <1>2, <1>3 DEF KeepsCar, TaskOK, Live
  <2>. QED
    BY <1>1, <1>2, <2>1, <2>2, InvFacts DEF Collects, RowsOK
<1>. QED
  BY <1>4, <1>5, CollectsKeeps

\* The CAR of a task that reclaims it.
LEMMA RemoveIsSpare ==
    ASSUME Inv, NEW t \in gc.plan, t.do \in {"remove", "drop"}, t.root \notin net
    PROVE  Spare(t.root)
BY StepFacts DEF Spared, Spare

LEMMA RemovedCars ==
    ASSUME Inv, NEW r \in Root, RemoveEffect(r), UNCHANGED <<row, built, net>>
    PROVE  CarsOK' /\ \A q \in Root : q # r => KeepsCar(q)
BY InvFacts DEF RemoveEffect, CarsOK, Known, KeepsCar

LEMMA ReclaimKeeps ==
    ASSUME Inv, NEW t \in gc.plan, Reclaim(t)
    PROVE  Inv'
<1>1. /\ t.do \in {"remove", "offload"} /\ Done(t)
      /\ UNCHANGED <<row, built, intent, dedup, job, net, add, drive, faults, exposed>>
  BY DEF Reclaim
<1>2. /\ t.root \in Root /\ TaskOK(t) /\ Spared(t)
      /\ gc' \in [pc : {"idle", "act"}, plan : SUBSET Tasks] /\ gc'.pc # "idle"
      /\ gc'.plan \subseteq gc.plan
  BY <1>1, StepFacts
<1>3. CASE t.do = "remove"
  <2>1. RemoveEffect(t.root)
    BY <1>2, <1>3, InvFacts, RemoveFacts DEF Reclaim
  <2>2. CarsOK' /\ \A q \in Root : q # t.root => KeepsCar(q)
    BY <1>1, <1>2, <2>1, RemovedCars
  <2>3. Types'
    BY <1>1, <1>2, <2>1, InvFacts DEF Types, RemoveEffect
  <2>4. t.root \notin net => Spare(t.root) /\ car'[t.root] = "absent"
    BY <1>3, <2>1, RemoveIsSpare DEF RemoveEffect
  <2>5. aged' \subseteq aged
    BY <2>1 DEF RemoveEffect
  <2>6. Collects
    BY <1>1, <1>2, <2>2, <2>4, <2>5, InvFacts DEF Collects, RowsOK
  <2>. QED
    BY <2>2, <2>3, <2>6, CollectsKeeps
<1>4. CASE t.do = "offload"
  <2>1. t.root \in net
    BY <1>2, <1>4 DEF Spared
  <2>2. Offload(t.root) /\ UNCHANGED <<refs, aged>>
    BY <1>4 DEF Reclaim
  <2>3. /\ car' \in [Root -> {"absent", "partial", "complete", "offloaded"}]
        /\ car'[t.root] = "absent" <=> car[t.root] = "absent"
        /\ \A q \in Root : q # t.root => car'[q] = car[q]
    BY <1>2, <2>2, InvFacts DEF Offload, Types, Known
  <2>4. Types' /\ CarsOK'
    BY <1>1, <1>2, <2>2, <2>3, InvFacts DEF Types, CarsOK, Known
  <2>5. \A q \in Root \ net : KeepsCar(q)
    BY <2>1, <2>2, <2>3 DEF KeepsCar
  <2>6. Collects
    BY <1>1, <1>2, <2>2, <2>5, InvFacts DEF Collects, RowsOK
  <2>. QED
    BY <2>4, <2>6, CollectsKeeps
<1>. QED
  BY <1>1, <1>3, <1>4

LEMMA ResolveKeeps ==
    ASSUME Inv, NEW t \in gc.plan, Resolve(t)
    PROVE  Inv'
<1>1. /\ t.dead = {} /\ t.do = "heal"
      /\ UNCHANGED <<row, built, car, refs, aged, intent, dedup, job, net, add, drive, faults, exposed>>
  BY DEF Resolve, local
<1>2. t \in Tasks /\ t.root \in Root /\ TaskOK(t) /\ Spared(t)
  BY StepFacts
<1>3. /\ gc' \in [pc : {"idle", "act"}, plan : SUBSET Tasks] /\ gc'.pc # "idle"
      /\ \A u \in gc'.plan \ gc.plan : u.root \in Root /\ TaskOK(u) /\ Spared(u)
  <2>1. CASE \E f \in RowsOf(t.root) :
               gc' = [gc EXCEPT !.plan = (@ \ {t}) \cup {[t EXCEPT !.do = "link", !.file = f]}]
    <3>1. PICK f \in RowsOf(t.root) :
               gc' = [gc EXCEPT !.plan = (@ \ {t}) \cup {[t EXCEPT !.do = "link", !.file = f]}]
      BY <2>1
    <3>2. f \in File /\ row[f].root = t.root
      BY DEF RowsOf
    <3>3. gc \in [pc : {"idle", "act"}, plan : SUBSET Tasks]
      BY InvFacts DEF Types
    <3>4. /\ gc' \in [pc : {"idle", "act"}, plan : SUBSET Tasks]
          /\ gc'.pc = gc.pc /\ gc'.plan = (gc.plan \ {t}) \cup {Linked(t, f)}
      BY <3>1, <3>2, <3>3, PlanFacts
    <3>5. /\ Linked(t, f).root = t.root /\ Linked(t, f).do = "link"
          /\ Linked(t, f).dead = t.dead /\ Linked(t, f).file = f
      BY <1>2, <3>2, TaskFacts
    <3>6. TaskOK(Linked(t, f)) /\ Spared(Linked(t, f))
      BY <1>1, <1>2, <3>2, <3>5 DEF TaskOK, Spared
    <3>. QED
      BY <1>2, <3>4, <3>5, <3>6, StepFacts
  <2>2. CASE {f \in RowsOf(t.root) : row[f].owner = t.owner} = {} /\ gc' = Step(t, "drop")
    <3>1. "drop" \in Do
      BY DEF Do
    <3>2. /\ gc' \in [pc : {"idle", "act"}, plan : SUBSET Tasks] /\ gc'.pc # "idle"
          /\ \A u \in gc'.plan \ gc.plan : u.root = t.root /\ u.do = "drop" /\ u.dead = {}
      BY <2>2, <3>1, StepFacts
    <3>. QED
      BY <1>1, <1>2, <2>2, <3>2 DEF TaskOK, Spared
  <2>. QED
    BY <2>1, <2>2 DEF Resolve
<1>4. Types' /\ CarsOK'
  BY <1>1, <1>3, InvFacts DEF Types, CarsOK, Known
<1>5. Collects
  BY <1>1, <1>3, InvFacts DEF Collects, KeepsCar, RowsOK
<1>. QED
  BY <1>4, <1>5, CollectsKeeps

LEMMA RelinkKeeps ==
    ASSUME Inv, NEW t \in gc.plan, Relink(t)
    PROVE  Inv'
<1>1. /\ t.do = "link"
      /\ \/ /\ Known(t.root) /\ gc' = Step(t, "queue")
            /\ refs' = [refs EXCEPT ![t.root] = @ \cup {t.file}]
         \/ Done(t) /\ UNCHANGED refs
      /\ UNCHANGED <<row, built, car, aged, intent, dedup, job, net, add, drive, faults, exposed>>
  BY DEF Relink
<1>2. /\ t.root \in Root /\ TaskOK(t) /\ Spared(t)
      /\ t.file \in File /\ row[t.file].root = t.root
  BY <1>1, StepFacts DEF TaskOK
<1>3. /\ gc' \in [pc : {"idle", "act"}, plan : SUBSET Tasks] /\ gc'.pc # "idle"
      /\ \A u \in gc'.plan \ gc.plan : u.root = t.root /\ u.do = "queue" /\ u.dead = {} /\ u.file = t.file
  <2>1. "queue" \in Do
    BY DEF Do
  <2>. QED
    BY <1>1, <2>1, StepFacts
<1>4. /\ refs' \in [Root -> SUBSET File]
      /\ \A r \in Root : refs[r] \subseteq refs'[r]
      /\ \A r \in Root : refs'[r] = refs[r] \/ (r = t.root /\ Known(r) /\ refs'[r] = refs[r] \cup {t.file})
  BY <1>1, <1>2, InvFacts DEF Types
<1>5. Types' /\ CarsOK'
  BY <1>1, <1>2, <1>3, <1>4, InvFacts DEF Types, CarsOK, Known
<1>6. Collects
  <2>1. \A u \in gc'.plan \ gc.plan : u.root \in Root /\ TaskOK(u) /\ Spared(u)
    BY <1>2, <1>3 DEF TaskOK, Spared
  <2>2. \A r \in Root : KeepsCar(r)
    BY <1>1, <1>4 DEF KeepsCar
  <2>. QED
    BY <1>1, <1>3, <2>1, <2>2, InvFacts DEF Collects, RowsOK
<1>. QED
  BY <1>5, <1>6, CollectsKeeps

LEMMA RequeueKeeps ==
    ASSUME Inv, NEW t \in gc.plan, Requeue(t)
    PROVE  Inv'
<1>1. /\ t.do = "queue" /\ job' = job \cup {t.file} /\ gc' = Step(t, "unmark")
      /\ UNCHANGED <<row, built, car, refs, aged, intent, dedup, net, add, drive, faults, exposed>>
  BY DEF Requeue
<1>2. /\ t.root \in Root /\ TaskOK(t) /\ t.file \in File /\ row[t.file].st # "none"
  <2>1. t.root \in Root /\ TaskOK(t) /\ t.file \in File /\ row[t.file].root = t.root
    BY <1>1, StepFacts DEF TaskOK
  <2>. QED
    BY <2>1, InvFacts, ConstantFacts DEF RowsOK
<1>3. /\ gc' \in [pc : {"idle", "act"}, plan : SUBSET Tasks] /\ gc'.pc # "idle"
      /\ \A u \in gc'.plan \ gc.plan : u.root = t.root /\ u.do = "unmark" /\ u.dead = {}
  <2>1. "unmark" \in Do
    BY DEF Do
  <2>. QED
    BY <1>1, <2>1, StepFacts
<1>4. Types' /\ CarsOK'
  BY <1>1, <1>2, <1>3, InvFacts DEF Types, CarsOK, Known
<1>5. Collects
  <2>1. \A u \in gc'.plan \ gc.plan : u.root \in Root /\ TaskOK(u) /\ Spared(u)
    BY <1>2, <1>3 DEF TaskOK, Spared
  <2>. QED
    BY <1>1, <1>2, <1>3, <2>1, InvFacts DEF Collects, KeepsCar, RowsOK
<1>. QED
  BY <1>4, <1>5, CollectsKeeps

LEMMA DropOrphanKeeps ==
    ASSUME Inv, NEW t \in gc.plan, DropOrphan(t)
    PROVE  Inv'
<1>1. /\ t.do = "drop" /\ Remove(t.root) /\ gc' = Step(t, "unmark")
      /\ UNCHANGED <<row, built, intent, dedup, job, net, add, drive, faults, exposed>>
  BY DEF DropOrphan
<1>2. t.root \in Root /\ TaskOK(t)
  BY StepFacts
<1>3. /\ gc' \in [pc : {"idle", "act"}, plan : SUBSET Tasks] /\ gc'.pc # "idle"
      /\ \A u \in gc'.plan \ gc.plan : u.root = t.root /\ u.do = "unmark" /\ u.dead = {}
  <2>1. "unmark" \in Do
    BY DEF Do
  <2>. QED
    BY <1>1, <2>1, StepFacts
<1>4. RemoveEffect(t.root)
  BY <1>1, <1>2, InvFacts, RemoveFacts
<1>5. CarsOK' /\ \A q \in Root : q # t.root => KeepsCar(q)
  BY <1>1, <1>2, <1>4, RemovedCars
<1>6. Types'
  BY <1>1, <1>3, <1>4, InvFacts DEF Types, RemoveEffect
<1>7. Collects
  <2>1. \A u \in gc'.plan \ gc.plan : u.root \in Root /\ TaskOK(u) /\ Spared(u)
    BY <1>2, <1>3 DEF TaskOK, Spared
  <2>2. t.root \notin net => Spare(t.root) /\ car'[t.root] = "absent"
    BY <1>1, <1>4, RemoveIsSpare DEF RemoveEffect
  <2>3. aged' \subseteq aged
    BY <1>4 DEF RemoveEffect
  <2>. QED
    BY <1>1, <1>3, <1>5, <2>1, <2>2, <2>3, InvFacts DEF Collects, RowsOK
<1>. QED
  BY <1>5, <1>6, <1>7, CollectsKeeps

----------------------------------------------------------------------------
(* Calls that make a CAR, a row, a reference or the index entry.           *)

\* The calls that a step leaves alone.
LEMMA SameCalls ==
    ASSUME Inv, RowsGrow, built' \in Int, built <= built', NEW b \in Adder, add'[b] = add[b]
    PROVE  /\ CallOK(b)'
           /\ First(b)' <=> First(b)
           /\ Bound(b)' <=> Bound(b)
           /\ Unregistered(b)' <=> Unregistered(b)
<1>1. CallOK(b)'
  BY InvFacts, CallKept
<1>. QED
  BY <1>1 DEF First, Bound, Unregistered

LEMMA SamePlan ==
    ASSUME Inv, RowsGrow, built' \in Int, built <= built', gc' = gc
    PROVE  PlanOK'
<1>1. \A t \in gc.plan : TaskOK(t)'
  BY InvFacts, TaskKept
<1>. QED
  BY <1>1, InvFacts DEF PlanOK

LEMMA AttachBoundKeeps ==
    ASSUME Inv, NEW a \in Adder, NEW o \in Owner, AttachBound(a, o)
    PROVE  Inv'
<1>1. /\ add[a].pc = "idle" /\ FileLeft /\ dedup \in File /\ Live(dedup)
      /\ add' \in [Adder -> Adds] /\ \A b \in Adder : b # a => add'[b] = add[b]
      /\ add'[a].pc = "bound" /\ add'[a].root = row[dedup].root /\ add'[a].owner = o
      /\ add'[a].file = 0 /\ add'[a].bound = dedup
      /\ (add'[a].signed <=> row[dedup].signed) /\ (add'[a].open <=> dedup \in exposed)
      /\ UNCHANGED <<row, built, car, refs, aged, intent, dedup, job, net, drive, gc, faults, exposed>>
  BY InvFacts, AttachBoundFacts DEF OnlyCall, local
<1>2. dedup # 0 /\ row[dedup].root \in Root /\ row[dedup].root <= built
  BY <1>1, InvFacts, ConstantFacts DEF Live, RowsOK
<1>3. Types' /\ RowsOK' /\ CarsOK'
  BY <1>1, InvFacts DEF Types, RowsOK, CarsOK, Known
<1>4. RowsGrow /\ built' \in Int /\ built <= built'
  BY <1>1, InvFacts DEF RowsGrow
<1>5. \A b \in Adder \ {a} : /\ CallOK(b)' /\ (First(b)' <=> First(b))
                             /\ (Bound(b)' <=> Bound(b))
                             /\ (Unregistered(b)' <=> Unregistered(b))
  BY <1>1, <1>4, SameCalls
<1>6. Unregistered(a)' /\ ~Unregistered(a) /\ ~First(a)' /\ Bound(a)'
  BY <1>1, <1>2 DEF Unregistered, First, Bound
<1>7. CallOK(a)'
  <2>1. 1 <= add'[a].root
    BY <1>1, <1>2, ConstantFacts
  <2>. QED
    BY <1>1, <1>2, <2>1 DEF CallOK, Unregistered
<1>8. PlanOK'
  BY <1>1, <1>4, SamePlan
<1>9. Room'
  <2>1. Registered' = Registered /\ Pending' = Pending \cup {a} /\ a \notin Pending
    BY <1>1, <1>5, <1>6 DEF Registered, Pending
  <2>. QED
    BY <1>1, <2>1, InvFacts, RoomTaken
<1>10. Receipts'
  BY <1>1, InvFacts DEF Receipts
<1>11. NewCars'
  BY <1>1, <1>5, <1>6, InvFacts DEF NewCars, Known
<1>12. Donors'
  <2>1. IndexLinked'
    BY <1>1, InvFacts DEF Donors, IndexLinked, LiveFiles, Live
  <2>2. DonorLinked(a)'
    BY <1>1, InvFacts DEF Donors, IndexLinked, DonorLinked, LiveFiles, Live
  <2>3. FirstLinked(a)'
    BY <1>1 DEF FirstLinked
  <2>4. \A b \in Adder \ {a} : DonorLinked(b)' /\ FirstLinked(b)'
    BY <1>1, <1>5, InvFacts DEF Donors, DonorLinked, FirstLinked, Live
  <2>. QED
    BY <2>1, <2>2, <2>3, <2>4 DEF Donors
<1>13. Guarded'
  <2>1. \A f \in File : RowGuarded(f)'
    BY <1>1, InvFacts DEF Guarded, RowGuarded, Live
  <2>2. MarkGuarded(a)' /\ LinkGuarded(a)'
    BY <1>1 DEF MarkGuarded, LinkGuarded
  <2>3. \A b \in Adder \ {a} : MarkGuarded(b)' /\ LinkGuarded(b)'
    BY <1>1, InvFacts DEF Guarded, MarkGuarded, LinkGuarded, Live
  <2>. QED
    BY <2>1, <2>2, <2>3 DEF Guarded
<1>14. Spares'
  <2>1. ASSUME NEW t \in gc.plan
        PROVE  Spared(t)'
    <3>1. Spared(t)
      BY InvFacts DEF Spares
    <3>2. \A r : RowsOf(r)' = RowsOf(r)
      BY <1>1 DEF RowsOf, Live
    <3>3. dedup \in RowsOf(row[dedup].root)
      BY <1>1 DEF RowsOf
    <3>. QED
      BY <1>1, <1>5, <3>1, <3>2, <3>3 DEF Spared
  <2>. QED
    BY <1>1, <2>1 DEF Spares
<1>15. Kept'
  BY <1>1, InvFacts DEF Kept, Known, Live
<1>. QED
  BY <1>3, <1>5, <1>7, <1>8, <1>9, <1>10, <1>11, <1>12, <1>13, <1>14, <1>15 DEF Inv, Shape, Safe

LEMMA AttachFullKeeps ==
    ASSUME Inv, NEW a \in Adder, NEW o \in Owner, AttachFull(a, o)
    PROVE  Inv'
<1>1. /\ add[a].pc = "idle" /\ FileLeft
      /\ add' \in [Adder -> Adds] /\ \A b \in Adder : b # a => add'[b] = add[b]
      /\ add'[a].pc = "placed" /\ add'[a].root = 0 /\ add'[a].owner = o
      /\ add'[a].file = 0 /\ add'[a].bound = 0
      /\ ~add'[a].signed /\ ~add'[a].open
      /\ UNCHANGED <<row, built, car, refs, aged, intent, dedup, job, net, drive, gc, faults, exposed>>
  BY InvFacts, AttachFullFacts DEF OnlyCall, local
<1>3. Types' /\ RowsOK' /\ CarsOK'
  BY <1>1, InvFacts DEF Types, RowsOK, CarsOK, Known
<1>4. RowsGrow /\ built' \in Int /\ built <= built'
  BY <1>1, InvFacts DEF RowsGrow
<1>5. \A b \in Adder \ {a} : /\ CallOK(b)' /\ (First(b)' <=> First(b))
                             /\ (Bound(b)' <=> Bound(b))
                             /\ (Unregistered(b)' <=> Unregistered(b))
  BY <1>1, <1>4, SameCalls
<1>6. Unregistered(a)' /\ ~Unregistered(a) /\ ~First(a)' /\ ~Bound(a)'
  BY <1>1 DEF Unregistered, First, Bound
<1>7. CallOK(a)'
  BY <1>1 DEF CallOK, Unregistered
<1>8. PlanOK'
  BY <1>1, <1>4, SamePlan
<1>9. Room'
  <2>1. Registered' = Registered /\ Pending' = Pending \cup {a} /\ a \notin Pending
    BY <1>1, <1>5, <1>6 DEF Registered, Pending
  <2>. QED
    BY <1>1, <2>1, InvFacts, RoomTaken
<1>10. Receipts'
  BY <1>1, InvFacts DEF Receipts
<1>11. NewCars'
  <2>1. \A b \in Adder : First(b) => add[b].root # 0
    BY InvFacts, ConstantFacts DEF First
  <2>. QED
    BY <1>1, <1>5, <1>6, <2>1, InvFacts DEF NewCars, Known
<1>12. Donors'
  <2>1. IndexLinked'
    BY <1>1, InvFacts DEF Donors, IndexLinked, LiveFiles, Live
  <2>2. DonorLinked(a)'
    BY <1>6 DEF DonorLinked
  <2>3. FirstLinked(a)'
    BY <1>1 DEF FirstLinked
  <2>4. \A b \in Adder \ {a} : DonorLinked(b)' /\ FirstLinked(b)'
    BY <1>1, <1>5, InvFacts DEF Donors, DonorLinked, FirstLinked, Live
  <2>. QED
    BY <2>1, <2>2, <2>3, <2>4 DEF Donors
<1>13. Guarded'
  <2>1. \A f \in File : RowGuarded(f)'
    BY <1>1, InvFacts DEF Guarded, RowGuarded, Live
  <2>2. MarkGuarded(a)' /\ LinkGuarded(a)'
    BY <1>1 DEF MarkGuarded, LinkGuarded
  <2>3. \A b \in Adder \ {a} : MarkGuarded(b)' /\ LinkGuarded(b)'
    BY <1>1, InvFacts DEF Guarded, MarkGuarded, LinkGuarded, Live
  <2>. QED
    BY <2>1, <2>2, <2>3 DEF Guarded
<1>14. Spares'
  <2>1. ASSUME NEW t \in gc.plan
        PROVE  Spared(t)'
    <3>1. Spared(t)
      BY InvFacts DEF Spares
    <3>2. \A r : RowsOf(r)' = RowsOf(r)
      BY <1>1 DEF RowsOf, Live
    <3>3. t.root # 0
      BY InvFacts, ConstantFacts
    <3>. QED
      BY <1>1, <1>5, <1>6, <3>1, <3>2, <3>3 DEF Spared
  <2>. QED
    BY <1>1, <2>1 DEF Spares
<1>15. Kept'
  BY <1>1, InvFacts DEF Kept, Known, Live
<1>. QED
  BY <1>3, <1>5, <1>7, <1>8, <1>9, <1>10, <1>11, <1>12, <1>13, <1>14, <1>15 DEF Inv, Shape, Safe

LEMMA FinalizeKeeps ==
    ASSUME Inv, NEW a \in Adder, Finalize(a)
    PROVE  Inv'
<1>. DEFINE new == built + 1
<1>1. /\ add[a].pc = "placed" /\ built < MaxRoots
      /\ built' = new /\ new \in Root
      /\ car' \in [Root -> {"absent", "partial", "complete", "offloaded"}]
      /\ car'[new] = "complete" /\ \A r \in Root : r # new => car'[r] = car[r]
      /\ add' \in [Adder -> Adds] /\ \A b \in Adder : b # a => add'[b] = add[b]
      /\ add'[a].pc = "built" /\ add'[a].root = new /\ add'[a].owner = add[a].owner
      /\ add'[a].file = 0 /\ add'[a].bound = 0
      /\ ~add'[a].signed /\ add[a].owner \in Owner
      /\ UNCHANGED <<row, refs, aged, intent, dedup, job, net, drive, gc, faults, exposed>>
  <2>1. built' = new
    BY DEF Finalize
  <2>2. add[a].pc = "placed" /\ add[a].file = 0 /\ add[a].bound = 0 /\ ~add[a].signed /\ add[a].owner \in Owner
    BY InvFacts DEF Finalize, CallOK, Unregistered
  <2>. QED
    BY <2>1, <2>2, InvFacts, FinalizeFacts DEF OnlyCall
<1>2. new \in Int /\ built < new /\ new >= 1
  BY InvFacts, <1>1, ConstantFacts
<1>. HIDE DEF new
<1>3. /\ ~Known(new) /\ new \notin aged /\ new \notin net
      /\ refs[new] = {} /\ \A f \in File : row[f].root # new
  <2>1. \A f \in File : row[f].root <= built /\ row[f].root \in Int
    BY InvFacts, RootFacts, ConstantFacts DEF RowsOK
  <2>2. \A r \in net : r <= built /\ r \in Int
    BY InvFacts, ConstantFacts DEF CarsOK, Types
  <2>. QED
    BY <1>1, <1>2, <2>1, <2>2, InvFacts DEF CarsOK, Known
<1>4. \A b \in Adder : add[b].root # new
  <2>1. \A b \in Adder : add[b].root <= built /\ add[b].root \in Int
    BY InvFacts, RootFacts, ConstantFacts DEF CallOK, Types
  <2>. QED
    BY <1>2, <2>1, InvFacts
<1>5. Types'
  BY <1>1, ConstantFacts, InvFacts DEF Types
<1>6. RowsGrow /\ built' \in Int /\ built <= built' /\ Registered' = Registered
  BY <1>1, <1>2, InvFacts DEF RowsGrow, Registered
<1>7. RowsOK'
  BY <1>1, <1>6, InvFacts, RowsFrame
<1>8. CarsOK'
  <2>1. \A r \in Root : r \in Int
    BY ConstantFacts
  <2>2. \A r \in Root : built' < r => built < r /\ r # new
    <3>1. built \in Int /\ built' = new
      BY <1>1, InvFacts
    <3>. QED
      BY <1>2, <2>1, <3>1
  <2>3. \A r \in net : r \in Int /\ r <= built => r <= built'
    BY <1>1, <1>2, InvFacts
  <2>4. net \subseteq Root
    BY InvFacts DEF Types
  <2>. QED
    BY <1>1, <1>3, <2>1, <2>2, <2>3, <2>4, InvFacts DEF CarsOK, Known
<1>9. \A b \in Adder \ {a} : /\ CallOK(b)' /\ (First(b)' <=> First(b))
                             /\ (Bound(b)' <=> Bound(b))
                             /\ (Unregistered(b)' <=> Unregistered(b))
  BY <1>1, <1>6, SameCalls
<1>10. Unregistered(a)' /\ Unregistered(a) /\ ~Bound(a)'
  BY <1>1 DEF Unregistered, Bound
<1>11. CallOK(a)'
  BY <1>1, <1>2 DEF CallOK, Unregistered
<1>12. PlanOK'
  BY <1>1, <1>6, SamePlan
<1>13. Room'
  <2>1. Pending' \subseteq Pending
    BY <1>9, <1>10 DEF Pending
  <2>. QED
    BY <1>6, <2>1, InvFacts, RoomFrame
<1>14. Receipts'
  BY <1>1, InvFacts DEF Receipts
<1>15. NewCars'
  <2>1. ASSUME NEW b \in Adder \ {a}, First(b)
        PROVE  /\ add[b].root \notin aged
               /\ Unregistered(b) => /\ Known(add[b].root)'
                                     /\ \A f \in File : row[f].root # add[b].root
                                     /\ \A c \in Adder \ {b} : add'[c].root # add[b].root
    <3>1. add[b].root \in Root /\ add[b].root # new
      BY <1>4, <2>1, InvFacts DEF First
    <3>. QED
      BY <1>1, <2>1, <3>1, InvFacts DEF NewCars, Known
  <2>2. /\ new \notin aged /\ car'[new] # "absent" /\ \A f \in File : row[f].root # new
        /\ \A b \in Adder \ {a} : add'[b].root # new
    BY <1>1, <1>3, <1>4
  <2>3. ASSUME NEW b \in Adder, First(b)'
        PROVE  /\ add'[b].root \notin aged'
               /\ Unregistered(b)' => /\ Known(add[b].root)'
                                      /\ \A f \in File : row'[f].root # add'[b].root
                                      /\ \A c \in Adder \ {b} : add'[c].root # add'[b].root
    <3>1. CASE b = a
      BY <1>1, <2>2, <3>1 DEF Known
    <3>2. CASE b # a
      BY <1>1, <1>9, <2>1, <2>3, <3>2
    <3>. QED
      BY <3>1, <3>2
  <2>. QED
    BY <2>3 DEF NewCars
<1>16. Donors'
  <2>1. IndexLinked'
    BY <1>1, InvFacts DEF Donors, IndexLinked, LiveFiles, Live
  <2>2. DonorLinked(a)' /\ FirstLinked(a)'
    BY <1>1, <1>10 DEF DonorLinked, FirstLinked
  <2>3. \A b \in Adder \ {a} : DonorLinked(b)' /\ FirstLinked(b)'
    BY <1>1, <1>9, InvFacts DEF Donors, DonorLinked, FirstLinked, Live
  <2>. QED
    BY <2>1, <2>2, <2>3 DEF Donors
<1>17. Guarded'
  <2>1. \A f \in File : RowGuarded(f)'
    BY <1>1, InvFacts DEF Guarded, RowGuarded, Live
  <2>2. MarkGuarded(a)' /\ LinkGuarded(a)'
    BY <1>1 DEF MarkGuarded, LinkGuarded
  <2>3. \A b \in Adder \ {a} : MarkGuarded(b)' /\ LinkGuarded(b)'
    BY <1>1, InvFacts DEF Guarded, MarkGuarded, LinkGuarded, Live
  <2>. QED
    BY <2>1, <2>2, <2>3 DEF Guarded
<1>18. Spares'
  <2>1. ASSUME NEW t \in gc.plan
        PROVE  Spared(t)'
    <3>1. Spared(t) /\ t.root # new
      <4>1. t.root <= built /\ t.root \in Int
        BY InvFacts, ConstantFacts DEF TaskOK
      <4>. QED
        BY <1>2, <4>1, InvFacts DEF Spares
    <3>2. \A r : RowsOf(r)' = RowsOf(r)
      BY <1>1 DEF RowsOf, Live
    <3>. QED
      BY <1>1, <1>9, <3>1, <3>2 DEF Spared
  <2>. QED
    BY <1>1, <2>1 DEF Spares
<1>19. Kept'
  <2>1. \A f \in File : Live(f) => row[f].root \in Root /\ row[f].root # new
    BY <1>3, InvFacts DEF Live
  <2>. QED
    BY <1>1, <2>1, InvFacts DEF Kept, Known, Live
<1>. QED
  BY <1>5, <1>7, <1>8, <1>9, <1>11, <1>12, <1>13, <1>14, <1>15, <1>16, <1>17, <1>18, <1>19
     DEF Inv, Shape, Safe

LEMMA RegisterKeeps ==
    ASSUME Inv, NEW a \in Adder, Register(a)
    PROVE  Inv'
<1>1. a \in Pending /\ add[a].pc = "marked"
  BY DEF Register, Pending, Unregistered
<1>2. PICK f \in File : f = NextFile /\ row[f].st = "none"
  BY <1>1, InvFacts, NextFileFacts
<1>3. /\ row' \in [File -> Rows] /\ row'[f].st = "live" /\ row'[f].root = add[a].root
      /\ row'[f].owner = add[a].owner /\ (row'[f].signed <=> add[a].signed)
      /\ \A g \in File : g # f => row'[g] = row[g]
      /\ add' \in [Adder -> Adds] /\ \A b \in Adder : b # a => add'[b] = add[b]
      /\ add'[a].root = add[a].root /\ add'[a].owner = add[a].owner
      /\ add'[a].bound = add[a].bound /\ add'[a].signed = add[a].signed
      /\ add'[a].pc = "written" /\ add'[a].file = f /\ ~add'[a].open
      /\ exposed' = IF add[a].open THEN exposed \cup {f} ELSE exposed
      /\ UNCHANGED <<built, car, refs, aged, intent, dedup, job, net, drive, gc, faults>>
  BY <1>2, InvFacts, RegisterFacts DEF OnlyCall, SameCall
<1>4. /\ add[a].root \in Root /\ 1 <= add[a].root /\ add[a].root <= built /\ add[a].owner \in Owner
      /\ add[a].root # 0 /\ CallOK(a)
  BY <1>1, InvFacts, ConstantFacts DEF CallOK
<1>5. /\ drive[f] = "idle" /\ f \notin job /\ dedup # f /\ row[f].root = 0 /\ ~Live(f)
      /\ f \notin Registered /\ f \notin LiveFiles
  <2>1. f # 0
    BY ConstantFacts
  <2>. QED
    BY <1>2, <2>1, InvFacts DEF RowsOK, Live, Registered, LiveFiles
<1>6. /\ RowsGrow /\ built' \in Int /\ built <= built'
      /\ Registered' = Registered \cup {f}
      /\ \A g : g \in File /\ g # f => (Live(g)' <=> Live(g))
  BY <1>2, <1>3, InvFacts DEF RowsGrow, Registered, Live
<1>7. Types'
  BY <1>3, InvFacts DEF Types
<1>8. RowsOK'
  <2>1. dedup # 0 => dedup \in File
    BY InvFacts, ConstantFacts DEF Types
  <2>2. job \subseteq File
    BY InvFacts DEF Types
  <2>3. \A g \in File : drive[g] # "idle" => g # f
    BY <1>5
  <2>. QED
    BY <1>3, <1>4, <1>5, <2>1, <2>2, <2>3, InvFacts DEF RowsOK
<1>9. CarsOK'
  <2>1. \A r \in Root : r # 0 /\ refs[r] \subseteq File
    BY InvFacts, ConstantFacts DEF Types
  <2>2. net \subseteq Root
    BY InvFacts DEF Types
  <2>. QED
    BY <1>3, <1>5, <2>1, <2>2, InvFacts DEF CarsOK, Known
<1>10. \A b \in Adder \ {a} : /\ CallOK(b)' /\ (First(b)' <=> First(b))
                              /\ (Bound(b)' <=> Bound(b))
                              /\ (Unregistered(b)' <=> Unregistered(b))
  BY <1>3, <1>6, SameCalls
<1>11. ~Unregistered(a)' /\ Unregistered(a) /\ ~Bound(a)' /\ (First(a)' => First(a))
       /\ (First(a) \/ Bound(a))
  BY <1>1, <1>3 DEF Unregistered, Bound, First
<1>12. CallOK(a)'
  <2>1. add[a].bound # 0 => add[a].bound \in File /\ add[a].bound # f /\ row[add[a].bound].root = add[a].root
    BY <1>4, <1>5, InvFacts DEF CallOK
  <2>. QED
    BY <1>2, <1>3, <1>4, <2>1 DEF CallOK, Unregistered
<1>13. PlanOK'
  BY <1>3, <1>6, SamePlan
<1>14. Room'
  <2>1. Pending' = Pending \ {a}
    BY <1>10, <1>11 DEF Pending
  <2>. QED
    BY <1>1, <1>2, <1>6, <2>1, InvFacts, RoomUsed
<1>15. Receipts'
  BY <1>3, <1>5, InvFacts DEF Receipts
<1>16. NewCars'
  <2>1. ASSUME NEW b \in Adder, First(b)'
        PROVE  /\ add'[b].root \notin aged'
               /\ Unregistered(b)' => /\ Known(add[b].root)'
                                      /\ \A g \in File : row'[g].root # add'[b].root
                                      /\ \A c \in Adder \ {b} : add'[c].root # add'[b].root
    <3>1. CASE b = a
      BY <1>3, <1>11, <2>1, <3>1, InvFacts DEF NewCars
    <3>2. CASE b # a
      <4>1. First(b) /\ (Unregistered(b)' => Unregistered(b)) /\ add'[b] = add[b]
        BY <1>3, <1>10, <2>1, <3>2
      <4>. QED
        BY <1>3, <3>2, <4>1, InvFacts DEF NewCars, Known
    <3>. QED
      BY <3>1, <3>2
  <2>. QED
    BY <2>1 DEF NewCars
<1>17. Donors'
  <2>1. IndexLinked'
    BY <1>3, <1>5, <1>6, InvFacts DEF Donors, IndexLinked, LiveFiles
  <2>2. DonorLinked(a)' /\ FirstLinked(a)'
    BY <1>3, <1>11 DEF DonorLinked, FirstLinked
  <2>3. ASSUME NEW b \in Adder \ {a}
        PROVE  DonorLinked(b)' /\ FirstLinked(b)'
    <3>1. DonorLinked(b) /\ FirstLinked(b) /\ add'[b] = add[b]
      BY <1>3, InvFacts DEF Donors
    <3>2. /\ Bound(b) => add[b].bound \in File
          /\ add[b].pc = "linked" => /\ add[b].file \in File /\ row[add[b].file].root = add[b].root
                                     /\ add[b].root \in Root
      BY InvFacts DEF Bound, CallOK
    <3>3. add[b].pc = "linked" => add[b].file # f
      BY <1>5, <3>2, ConstantFacts
    <3>4. DonorLinked(b)'
      <4>1. Bound(b)' /\ Live(add[b].bound) => (Live(add[b].bound)' /\ Bound(b))
        BY <1>3, <1>5, <1>10, <3>2 DEF Live
      <4>. QED
        BY <1>3, <1>10, <3>1, <4>1 DEF DonorLinked
    <3>5. FirstLinked(b)'
      BY <1>3, <1>6, <3>1, <3>2, <3>3 DEF FirstLinked
    <3>. QED
      BY <3>4, <3>5
  <2>. QED
    BY <2>1, <2>2, <2>3 DEF Donors
<1>18. Guarded'
  <2>1. ASSUME NEW g \in File
        PROVE  RowGuarded(g)'
    <3>1. CASE g = f
      BY <1>1, <1>3, <3>1, InvFacts DEF Guarded, MarkGuarded, RowGuarded
    <3>2. CASE g # f
      BY <1>3, <1>6, <3>2, InvFacts DEF Guarded, RowGuarded
    <3>. QED
      BY <3>1, <3>2
  <2>2. MarkGuarded(a)' /\ LinkGuarded(a)'
    BY <1>3 DEF MarkGuarded, LinkGuarded
  <2>3. ASSUME NEW b \in Adder \ {a}
        PROVE  MarkGuarded(b)' /\ LinkGuarded(b)'
    <3>1. MarkGuarded(b) /\ LinkGuarded(b) /\ add'[b] = add[b]
      BY <1>3, InvFacts DEF Guarded
    <3>2. add[b].pc \in {"linked", "recorded", "queued"} => add[b].file \in File /\ add[b].file # f
      BY <1>5, InvFacts, ConstantFacts DEF CallOK
    <3>. QED
      BY <1>3, <1>6, <3>1, <3>2 DEF MarkGuarded, LinkGuarded
  <2>. QED
    BY <2>1, <2>2, <2>3 DEF Guarded
<1>19. Spares'
  <2>1. ASSUME NEW t \in gc.plan
        PROVE  Spared(t)'
    <3>1. Spared(t)
      BY InvFacts DEF Spares
    <3>2. /\ \A r : RowsOf(r)' \subseteq RowsOf(r) \cup {f}
          /\ \A r : f \in RowsOf(r)' => r = add[a].root
      BY <1>3, <1>6 DEF RowsOf
    <3>3. t.root = add[a].root /\ t.root \notin net /\ t.do \in {"heal", "remove", "drop"} => f \in exposed'
      BY <1>3, <1>11, <3>1 DEF Spared
    <3>4. exposed \subseteq exposed' /\ dedup' = dedup /\ dedup # f
      BY <1>3, <1>5
    <3>5. \A b \in Adder : /\ add'[b].root = add[b].root
                           /\ First(b)' => First(b)
                           /\ Bound(b)' => Bound(b) /\ (add[b].open => add'[b].open)
      BY <1>3, <1>10, <1>11
    <3>6. \A g \in File : g # f => row'[g] = row[g]
      BY <1>3
    <3>7. \A r : RowsOf(r)' \subseteq File
      BY DEF RowsOf
    <3>. QED
      BY <1>3, <3>1, <3>2, <3>3, <3>4, <3>5, <3>6, <3>7 DEF Spared
  <2>. QED
    BY <1>3, <2>1 DEF Spares
<1>20. Kept'
  <2>1. add[a].root \notin net /\ f \notin exposed' => Known(add[a].root)
    <3>1. SUFFICES ASSUME add[a].root \notin net, ~add[a].open
                   PROVE  Known(add[a].root)
      BY <1>3
    <3>2. CASE First(a)
      BY <1>11, <3>2, InvFacts DEF NewCars
    <3>3. CASE Bound(a)
      BY <1>4, <3>1, <3>3, InvFacts DEF Donors, DonorLinked, CarsOK
    <3>. QED
      BY <1>11, <3>2, <3>3
  <2>. QED
    BY <1>3, <1>6, <2>1, InvFacts DEF Kept, Known
<1>. QED
  BY <1>7, <1>8, <1>9, <1>10, <1>12, <1>13, <1>14, <1>15, <1>16, <1>17, <1>18, <1>19, <1>20
     DEF Inv, Shape, Safe

LEMMA RegisterFailsKeeps ==
    ASSUME Inv, NEW a \in Adder, RegisterFails(a)
    PROVE  Inv'
<1>. DEFINE r == add[a].root
<1>0. r \in Root /\ add[a].pc = "marked"
  BY InvFacts DEF RegisterFails
<1>1. /\ faults < MaxFaults /\ faults' = faults + 1
      /\ add' \in [Adder -> Adds] /\ Ends /\ add'[a] = NoAdd
      /\ \A b \in Adder : b # a => add'[b] = add[b]
      /\ \/ /\ add[a].bound = 0 /\ RemoveEffect(r)
            /\ intent' \in [Root -> Owner \cup {NoOwner}]
            /\ \A q \in Root : q # r => intent'[q] = intent[q]
         \/ add[a].bound # 0 /\ UNCHANGED <<car, refs, aged, intent>>
      /\ UNCHANGED <<row, built, dedup, job, net, drive, gc, exposed>>
  BY <1>0, InvFacts, RegisterFailsFacts DEF OnlyCall
<1>2. CASE add[a].bound # 0
  <2>1. Types'
    BY <1>1, <1>2, InvFacts, ConstantFacts DEF Types
  <2>2. CallsMove
    BY <1>1, <1>2, InvFacts, EndsMove DEF CallsMove, RowsOK, PlanOK
  <2>. QED
    BY <1>1, <1>2, <2>1, <2>2, EndsGuarded, CallsMoveKeeps
<1>3. CASE add[a].bound = 0
  <2>1. First(a) /\ Unregistered(a) /\ r \notin net
    BY <1>0, <1>3, NewIsHere DEF First, Unregistered
  <2>2. /\ \A f \in File : row[f].root # r
        /\ \A b \in Adder \ {a} : add[b].root # r
    BY <2>1, InvFacts DEF NewCars
  <2>. HIDE DEF r
  <2>3. /\ RemoveEffect(r) /\ intent' \in [Root -> Owner \cup {NoOwner}]
        /\ \A q \in Root : q # r => intent'[q] = intent[q] /\ car'[q] = car[q] /\ refs'[q] = refs[q]
        /\ aged' \subseteq aged /\ car'[r] = "absent"
    BY <1>1, <1>3 DEF RemoveEffect
  <2>4. CarsOK'
    BY <1>0, <1>1, <2>3, RemovedCars
  <2>5. Types' /\ RowsOK'
    BY <1>1, <2>3, InvFacts, ConstantFacts DEF Types, RemoveEffect, RowsOK
  <2>6. RowsGrow /\ built' \in Int /\ built <= built'
    BY <1>1, InvFacts DEF RowsGrow
  <2>7. \A b \in Adder \ {a} : /\ CallOK(b)' /\ (First(b)' <=> First(b))
                               /\ (Bound(b)' <=> Bound(b))
                               /\ (Unregistered(b)' <=> Unregistered(b))
    BY <1>1, <2>6, SameCalls
  <2>8. CallOK(a)' /\ ~First(a)' /\ ~Bound(a)' /\ ~Unregistered(a)' /\ add'[a].root = 0
    BY <1>1, CallEnds, ConstantFacts DEF First, Bound, Unregistered
  <2>9. PlanOK'
    BY <1>1, <2>6, SamePlan
  <2>10. Room'
    <3>1. Registered' = Registered /\ Pending' \subseteq Pending
      BY <1>1, <2>7, <2>8 DEF Registered, Pending
    <3>. QED
      BY <3>1, InvFacts, RoomFrame
  <2>11. Receipts'
    BY <1>1, <2>3, InvFacts, ConstantFacts DEF Receipts
  <2>12. NewCars'
    <3>1. ASSUME NEW b \in Adder, First(b)'
          PROVE  /\ add'[b].root \notin aged'
                 /\ Unregistered(b)' => /\ Known(add[b].root)'
                                        /\ \A g \in File : row'[g].root # add'[b].root
                                        /\ \A c \in Adder \ {b} : add'[c].root # add'[b].root
      <4>1. b # a /\ First(b) /\ add'[b] = add[b] /\ (Unregistered(b)' => Unregistered(b))
        BY <1>1, <2>7, <2>8, <3>1
      <4>2. add[b].root \in Root /\ add[b].root # r /\ add[b].root # 0
        BY <2>2, <4>1, InvFacts, ConstantFacts DEF First
      <4>. QED
        BY <1>1, <2>3, <2>8, <4>1, <4>2, InvFacts DEF NewCars, Known
    <3>. QED
      BY <3>1 DEF NewCars
  <2>13. \A g : Live(g)' <=> Live(g)
    BY <1>1 DEF Live
  <2>14. Donors'
    <3>1. IndexLinked'
      <4>1. dedup \in LiveFiles => row[dedup].root \in Root /\ row[dedup].root # r
        BY <2>2, InvFacts DEF LiveFiles, Live
      <4>. QED
        BY <1>1, <2>3, <2>13, <4>1, InvFacts DEF Donors, IndexLinked, LiveFiles
    <3>2. DonorLinked(a)' /\ FirstLinked(a)'
      BY <1>1, <2>8, ConstantFacts DEF DonorLinked, FirstLinked
    <3>3. ASSUME NEW b \in Adder \ {a}
          PROVE  DonorLinked(b)' /\ FirstLinked(b)'
      <4>1. DonorLinked(b) /\ FirstLinked(b) /\ add'[b] = add[b] /\ add[b].root # r
        BY <1>1, <2>2, InvFacts DEF Donors
      <4>2. Bound(b) \/ add[b].pc = "linked" => add[b].root \in Root
        BY InvFacts DEF Bound
      <4>. QED
        BY <1>1, <2>3, <2>7, <2>13, <4>1, <4>2 DEF DonorLinked, FirstLinked
    <3>. QED
      BY <3>1, <3>2, <3>3 DEF Donors
  <2>15. Guarded'
    <3>1. ASSUME NEW f \in File
          PROVE  RowGuarded(f)'
      <4>1. RowGuarded(f) /\ (Live(f) => row[f].root \in Root) /\ row[f].root # r
        BY <2>2, InvFacts DEF Guarded, Live
      <4>. QED
        BY <1>1, <2>3, <2>13, <4>1 DEF RowGuarded
    <3>2. MarkGuarded(a)' /\ LinkGuarded(a)'
      BY <1>1, ConstantFacts DEF MarkGuarded, LinkGuarded
    <3>3. ASSUME NEW b \in Adder \ {a}
          PROVE  MarkGuarded(b)' /\ LinkGuarded(b)'
      <4>1. /\ MarkGuarded(b) /\ LinkGuarded(b) /\ add'[b] = add[b] /\ add[b].root # r
            /\ add[b].pc \notin {"idle", "placed"} => add[b].root \in Root
        BY <1>1, <2>2, InvFacts DEF Guarded
      <4>. QED
        BY <1>1, <2>3, <2>13, <4>1 DEF MarkGuarded, LinkGuarded
    <3>. QED
      BY <3>1, <3>2, <3>3 DEF Guarded
  <2>16. Spares'
    <3>1. ASSUME NEW t \in gc.plan
          PROVE  Spared(t)'
      <4>1. Spared(t) /\ t.root # 0
        BY InvFacts, ConstantFacts DEF Spares
      <4>2. \A q : RowsOf(q)' = RowsOf(q)
        BY <1>1, <2>13 DEF RowsOf
      <4>. QED
        BY <1>1, <2>7, <2>8, <4>1, <4>2 DEF Spared
    <3>. QED
      BY <1>1, <3>1 DEF Spares
  <2>17. Kept'
    <3>1. \A f \in File : Live(f) => row[f].root \in Root /\ row[f].root # r
      BY <2>2, InvFacts DEF Live
    <3>. QED
      BY <1>1, <2>3, <2>13, <3>1, InvFacts DEF Kept, Known
  <2>. QED
    BY <2>4, <2>5, <2>7, <2>8, <2>9, <2>10, <2>11, <2>12, <2>14, <2>15, <2>16, <2>17
       DEF Inv, Shape, Safe
<1>. QED
  BY <1>2, <1>3

LEMMA LinkKeeps ==
    ASSUME Inv, NEW a \in Adder, Link(a)
    PROVE  Inv'
<1>. DEFINE r == add[a].root
            f == add[a].file
<1>0. /\ add[a].pc = "written" /\ r \in Root /\ f \in File /\ row[f].root = r /\ CallOK(a)
      /\ r # 0 /\ f # 0
  BY InvFacts, ConstantFacts DEF Link, CallOK
<1>. HIDE DEF r, f
<1>1. /\ add' \in [Adder -> Adds] /\ \A b \in Adder : b # a => add'[b] = add[b]
      /\ \/ /\ Known(r)
            /\ refs' \in [Root -> SUBSET File] /\ refs'[r] = refs[r] \cup {f}
            /\ \A q \in Root : q # r => refs'[q] = refs[q]
            /\ add'[a].pc = IF add[a].bound = 0 THEN "linked" ELSE "recorded"
            /\ add'[a].root = r /\ add'[a].owner = add[a].owner
            /\ add'[a].signed = add[a].signed
            /\ add'[a].bound = 0 /\ add'[a].file = f
            /\ exposed' = IF gc.pc = "idle" \/ add[a].bound = 0 THEN exposed \ {f}
                                                                ELSE exposed \cup {f}
         \/ ~Known(r) /\ add'[a] = NoAdd /\ Ends /\ UNCHANGED <<refs, exposed>>
      /\ UNCHANGED <<row, built, car, aged, intent, dedup, job, net, drive, gc, faults>>
  BY <1>0, InvFacts, LinkFacts DEF OnlyCall, r, f
<1>2. CASE ~Known(r)
  <2>1. Types'
    BY <1>1, <1>2, InvFacts DEF Types
  <2>2. CallsMove
    BY <1>1, <1>2, InvFacts, EndsMove DEF CallsMove, RowsOK, PlanOK
  <2>. QED
    BY <1>1, <1>2, <2>1, <2>2, EndsGuarded, CallsMoveKeeps
<1>3. CASE Known(r)
  <2>1. /\ refs' \in [Root -> SUBSET File] /\ refs'[r] = refs[r] \cup {f}
        /\ \A q \in Root : q # r => refs'[q] = refs[q]
        /\ \A q \in Root : refs[q] \subseteq refs'[q]
        /\ add'[a].pc = IF add[a].bound = 0 THEN "linked" ELSE "recorded"
        /\ add'[a].root = r /\ add'[a].owner = add[a].owner
        /\ add'[a].signed = add[a].signed
        /\ add'[a].bound = 0 /\ add'[a].file = f
        /\ exposed' = IF gc.pc = "idle" \/ add[a].bound = 0 THEN exposed \ {f}
                                                            ELSE exposed \cup {f}
        /\ exposed' \subseteq File /\ exposed \ {f} \subseteq exposed'
        /\ exposed' \subseteq exposed \cup {f}
    BY <1>0, <1>1, <1>3, InvFacts DEF Types
  <2>2. Types' /\ RowsOK'
    BY <1>1, <2>1, InvFacts DEF Types, RowsOK
  <2>3. CarsOK'
    BY <1>0, <1>1, <1>3, <2>1, InvFacts DEF CarsOK, Known
  <2>4. RowsGrow /\ built' \in Int /\ built <= built'
    BY <1>1, InvFacts DEF RowsGrow
  <2>5. \A b \in Adder \ {a} : /\ CallOK(b)' /\ (First(b)' <=> First(b))
                               /\ (Bound(b)' <=> Bound(b))
                               /\ (Unregistered(b)' <=> Unregistered(b))
    BY <1>1, <2>4, SameCalls
  <2>6. ~Unregistered(a)' /\ ~Unregistered(a) /\ ~Bound(a)' /\ (First(a)' => First(a))
        /\ (add[a].bound = 0 => First(a)) /\ r = add[a].root
    BY <1>0, <2>1 DEF Unregistered, Bound, First, r
  <2>7. CallOK(a)'
    BY <1>0, <1>1, <2>1, <2>6 DEF CallOK, Unregistered
  <2>8. PlanOK'
    BY <1>1, <2>4, SamePlan
  <2>9. Room'
    <3>1. Registered' = Registered /\ Pending' \subseteq Pending
      BY <1>1, <2>5, <2>6 DEF Registered, Pending
    <3>. QED
      BY <3>1, InvFacts, RoomFrame
  <2>10. Receipts'
    BY <1>1, <2>1, <2>6, InvFacts DEF Receipts
  <2>11. NewCars'
    <3>1. ASSUME NEW b \in Adder, First(b)'
          PROVE  /\ add'[b].root \notin aged'
                 /\ Unregistered(b)' => /\ Known(add[b].root)'
                                        /\ \A g \in File : row'[g].root # add'[b].root
                                        /\ \A c \in Adder \ {b} : add'[c].root # add'[b].root
      <4>1. CASE b = a
        BY <1>1, <2>1, <2>6, <3>1, <4>1, InvFacts DEF NewCars
      <4>2. CASE b # a
        BY <1>1, <2>1, <2>5, <2>6, <3>1, <4>2, InvFacts DEF NewCars, Known
      <4>. QED
        BY <4>1, <4>2
    <3>. QED
      BY <3>1 DEF NewCars
  <2>12. \A g : Live(g)' <=> Live(g)
    BY <1>1 DEF Live
  <2>13. Donors'
    <3>1. IndexLinked'
      <4>1. dedup \in LiveFiles => row[dedup].root \in Root
        BY InvFacts DEF LiveFiles, Live
      <4>. QED
        BY <1>1, <2>1, <2>12, <4>1, InvFacts DEF Donors, IndexLinked, LiveFiles
    <3>2. DonorLinked(a)' /\ FirstLinked(a)'
      BY <2>1, <2>6 DEF DonorLinked, FirstLinked
    <3>3. ASSUME NEW b \in Adder \ {a}
          PROVE  DonorLinked(b)' /\ FirstLinked(b)'
      <4>1. DonorLinked(b) /\ FirstLinked(b) /\ add'[b] = add[b]
        BY <1>1, InvFacts DEF Donors
      <4>2. Bound(b) \/ add[b].pc = "linked" => add[b].root \in Root
        BY InvFacts DEF Bound
      <4>. QED
        BY <1>1, <2>1, <2>5, <2>12, <4>1, <4>2 DEF DonorLinked, FirstLinked
    <3>. QED
      BY <3>1, <3>2, <3>3 DEF Donors
  <2>14. Guarded'
    <3>1. ASSUME NEW g \in File
          PROVE  RowGuarded(g)'
      <4>1. CASE g = f
        BY <1>0, <1>1, <2>1, <4>1 DEF RowGuarded
      <4>2. CASE g # f
        <5>1. RowGuarded(g) /\ (Live(g) => row[g].root \in Root)
          BY InvFacts DEF Guarded, Live
        <5>. QED
          BY <1>1, <2>1, <2>12, <4>2, <5>1 DEF RowGuarded
      <4>. QED
        BY <4>1, <4>2
    <3>2. MarkGuarded(a)' /\ LinkGuarded(a)'
      BY <2>1 DEF MarkGuarded, LinkGuarded
    <3>3. ASSUME NEW b \in Adder \ {a}
          PROVE  MarkGuarded(b)' /\ LinkGuarded(b)'
      <4>1. /\ MarkGuarded(b) /\ LinkGuarded(b) /\ add'[b] = add[b]
            /\ add[b].pc \notin {"idle", "placed"} => add[b].root \in Root
            /\ add[b].pc \in {"linked", "recorded", "queued"}
                 => add[b].file \in File /\ row[add[b].file].root = add[b].root
        BY <1>1, InvFacts DEF Guarded, CallOK
      <4>2. MarkGuarded(b)'
        BY <1>1, <4>1 DEF MarkGuarded
      <4>3. LinkGuarded(b)'
        <5>1. CASE add[b].file = f
          BY <1>0, <1>1, <2>1, <4>1, <5>1 DEF LinkGuarded
        <5>2. CASE add[b].file # f
          BY <1>1, <2>1, <2>12, <4>1, <5>2 DEF LinkGuarded
        <5>. QED
          BY <5>1, <5>2
      <4>. QED
        BY <4>2, <4>3
    <3>. QED
      BY <3>1, <3>2, <3>3 DEF Guarded
  <2>15. Spares'
    <3>1. ASSUME NEW t \in gc.plan
          PROVE  Spared(t)'
      <4>1. Spared(t) /\ gc.pc # "idle"
        BY StepFacts
      <4>2. \A q : RowsOf(q)' = RowsOf(q)
        BY <1>1, <2>12 DEF RowsOf
      <4>3. \A b \in Adder : /\ add'[b].root = add[b].root
                             /\ First(b)' => First(b)
                             /\ Bound(b)' => Bound(b) /\ (add[b].open => add'[b].open)
        BY <1>1, <2>1, <2>5, <2>6
      <4>4. t.root = r /\ t.root \notin net /\ t.do \in {"heal", "remove", "drop"} => exposed \subseteq exposed'
        BY <2>1, <2>6, <4>1 DEF Spared
      <4>5. f \in RowsOf(t.root) => t.root = r
        BY <1>0 DEF RowsOf
      <4>6. t.root \notin net /\ t.do \in {"heal", "remove", "drop"}
              => RowsOf(t.root) \cap exposed \subseteq exposed'
        BY <2>1, <4>4, <4>5
      <4>. QED
        BY <1>1, <4>1, <4>2, <4>3, <4>6 DEF Spared
    <3>. QED
      BY <1>1, <3>1 DEF Spares
  <2>16. Kept'
    BY <1>0, <1>1, <1>3, <2>1, <2>12, InvFacts DEF Kept, Known
  <2>. QED
    BY <2>2, <2>3, <2>5, <2>7, <2>8, <2>9, <2>10, <2>11, <2>13, <2>14, <2>15, <2>16
       DEF Inv, Shape, Safe
<1>. QED
  BY <1>2, <1>3

LEMMA RecordContentKeeps ==
    ASSUME Inv, NEW a \in Adder, RecordContent(a)
    PROVE  Inv'
<1>1. /\ add[a].pc = "linked" /\ dedup' = add[a].file /\ Go(a, "recorded")
      /\ UNCHANGED <<row, built, car, refs, aged, intent, job, net, drive, gc, faults, exposed>>
  BY DEF RecordContent
<1>2. /\ add' \in [Adder -> Adds] /\ \A b \in Adder : b # a => add'[b] = add[b]
      /\ SameCall(add[a], add'[a]) /\ add'[a].pc = "recorded"
      /\ add'[a].file = add[a].file /\ add'[a].open = add[a].open
  <2>1. "recorded" \in Pc
    BY DEF Pc
  <2>. QED
    BY <1>1, <2>1, InvFacts, GoFacts DEF Goes, OnlyCall
<1>3. /\ add[a].root \in Root /\ add[a].file \in File /\ row[add[a].file].root = add[a].root
      /\ row[add[a].file].st # "none" /\ CallOK(a) /\ add[a].bound = 0
  BY <1>1, InvFacts, ConstantFacts DEF CallOK, RowsOK
<1>4. Types'
  <2>1. add[a].file \in 0..MaxFiles
    BY <1>3, ConstantFacts
  <2>. QED
    BY <1>1, <1>2, <2>1, InvFacts DEF Types
<1>5. RowsOK' /\ CarsOK'
  BY <1>1, <1>3, InvFacts DEF RowsOK, CarsOK, Known
<1>6. RowsGrow /\ built' \in Int /\ built <= built'
  BY <1>1, InvFacts DEF RowsGrow
<1>7. \A b \in Adder \ {a} : /\ CallOK(b)' /\ (First(b)' <=> First(b))
                             /\ (Bound(b)' <=> Bound(b))
                             /\ (Unregistered(b)' <=> Unregistered(b))
  BY <1>2, <1>6, SameCalls
<1>8. /\ ~Unregistered(a)' /\ ~Unregistered(a) /\ ~Bound(a)' /\ ~First(a)' /\ First(a)
      /\ \A b \in Adder : add'[b].root = add[b].root /\ (add[b].open => add'[b].open)
  BY <1>1, <1>2, <1>3 DEF Unregistered, Bound, First, SameCall
<1>9. CallOK(a)'
  BY <1>1, <1>2, <1>3 DEF CallOK, Unregistered, SameCall
<1>10. PlanOK'
  BY <1>1, <1>6, SamePlan
<1>11. Room'
  <2>1. Registered' = Registered /\ Pending' \subseteq Pending
    BY <1>1, <1>7, <1>8 DEF Registered, Pending
  <2>. QED
    BY <2>1, InvFacts, RoomFrame
<1>12. Receipts'
  BY <1>1, <1>2, InvFacts DEF Receipts, SameCall
<1>13. NewCars'
  BY <1>1, <1>2, <1>7, <1>8, InvFacts DEF NewCars, Known
<1>14. \A g : Live(g)' <=> Live(g)
  BY <1>1 DEF Live
<1>15. Donors'
  <2>1. IndexLinked'
    BY <1>1, <1>3, <1>14, InvFacts DEF Donors, FirstLinked, IndexLinked, LiveFiles
  <2>2. DonorLinked(a)' /\ FirstLinked(a)'
    BY <1>2, <1>8 DEF DonorLinked, FirstLinked
  <2>3. \A b \in Adder \ {a} : DonorLinked(b)' /\ FirstLinked(b)'
    BY <1>1, <1>2, <1>7, <1>14, InvFacts DEF Donors, DonorLinked, FirstLinked
  <2>. QED
    BY <2>1, <2>2, <2>3 DEF Donors
<1>16. Guarded'
  <2>1. \A f \in File : RowGuarded(f)'
    BY <1>1, <1>14, InvFacts DEF Guarded, RowGuarded
  <2>2. MarkGuarded(a)' /\ LinkGuarded(a)'
    BY <1>1, <1>2, <1>14, InvFacts DEF Guarded, MarkGuarded, LinkGuarded, SameCall
  <2>3. \A b \in Adder \ {a} : MarkGuarded(b)' /\ LinkGuarded(b)'
    BY <1>1, <1>2, <1>14, InvFacts DEF Guarded, MarkGuarded, LinkGuarded
  <2>. QED
    BY <2>1, <2>2, <2>3 DEF Guarded
<1>17. Spares'
  <2>1. ASSUME NEW t \in gc.plan
        PROVE  Spared(t)'
    <3>1. Spared(t)
      BY InvFacts DEF Spares
    <3>2. \A q : RowsOf(q)' = RowsOf(q)
      BY <1>1, <1>14 DEF RowsOf
    <3>3. t.root \notin net /\ t.do \in {"heal", "remove", "drop"} => dedup' \notin RowsOf(t.root)
      <4>1. add[a].file \in RowsOf(t.root) => add[a].root = t.root
        BY <1>3 DEF RowsOf
      <4>. QED
        BY <1>1, <1>8, <3>1, <4>1 DEF Spared
    <3>4. \A b \in Adder : (First(b)' => First(b)) /\ (Bound(b)' => Bound(b))
      BY <1>7, <1>8
    <3>. QED
      BY <1>1, <1>8, <3>1, <3>2, <3>3, <3>4 DEF Spared
  <2>. QED
    BY <1>1, <2>1 DEF Spares
<1>18. Kept'
  BY <1>1, <1>14, InvFacts DEF Kept, Known
<1>. QED
  BY <1>4, <1>5, <1>7, <1>9, <1>10, <1>11, <1>12, <1>13, <1>15, <1>16, <1>17, <1>18
     DEF Inv, Shape, Safe

LEMMA DeleteKeeps ==
    ASSUME Inv, NEW f \in File, NEW here \in BOOLEAN, Delete(f, here)
    PROVE  Inv'
<1>0. Live(f) /\ row[f].root \in Root /\ row[f].st # "none"
  BY InvFacts DEF Delete, Live
<1>1. /\ row' \in [File -> Rows] /\ \A g \in File : g # f => row'[g] = row[g]
      /\ row'[f].st = "deleted" /\ row'[f].root = row[f].root
      /\ row'[f].owner = row[f].owner /\ row'[f].signed = row[f].signed
      /\ job' \subseteq job
      /\ refs' \in [Root -> SUBSET File]
      /\ \A r \in Root : refs'[r] \subseteq refs[r] /\ refs[r] \ {f} \subseteq refs'[r]
      /\ add' \in [Adder -> Adds]
      /\ \A a \in Adder : /\ Stays(a) /\ (add[a].open => add'[a].open)
                          /\ add[a].bound = f /\ add[a].pc \in {"bound", "marked"} => add'[a].open
      /\ exposed \ {f} \subseteq exposed'
      /\ \A g \in exposed' \ exposed :
            \E a \in Adder : add[a].bound = f /\ add[a].pc = "written" /\ g = add[a].file
      /\ UNCHANGED <<built, car, aged, intent, dedup, net, drive, gc, faults>>
  BY <1>0, InvFacts, DeleteFacts
<1>2. Types'
  <2>1. exposed' \subseteq File
    BY <1>1, InvFacts DEF CallOK, Types
  <2>. QED
    BY <1>1, <2>1, InvFacts DEF Types
<1>3. /\ RowsGrow /\ built' \in Int /\ built <= built' /\ Registered' = Registered
      /\ \A g \in File : row'[g].root = row[g].root /\ row'[g].signed = row[g].signed
                         /\ row'[g].owner = row[g].owner
      /\ \A g \in File : Live(g)' <=> Live(g) /\ g # f
  BY <1>0, <1>1, InvFacts DEF RowsGrow, Registered, Live
<1>4. RowsOK'
  BY <1>1, <1>3, InvFacts, RowsFrame
<1>5. CarsOK'
  BY <1>1, <1>3, InvFacts, CarsFrame DEF Known
<1>6. \A a \in Adder : CallOK(a)'
  BY <1>1, <1>3, InvFacts, CallKept
<1>7. PlanOK'
  BY <1>1, <1>3, SamePlan
<1>8. \A a \in Adder : /\ (First(a)' <=> First(a)) /\ (Bound(a)' <=> Bound(a))
                       /\ (Unregistered(a)' <=> Unregistered(a))
                       /\ add'[a].root = add[a].root /\ add'[a].owner = add[a].owner
                       /\ add'[a].bound = add[a].bound /\ add'[a].signed = add[a].signed
                       /\ add'[a].pc = add[a].pc /\ add'[a].file = add[a].file
                       /\ (add[a].open => add'[a].open)
  BY <1>1 DEF First, Bound, Unregistered, Stays, SameCall
<1>9. Room'
  <2>1. Pending' \subseteq Pending
    BY <1>8 DEF Pending
  <2>. QED
    BY <1>3, <2>1, InvFacts, RoomFrame
<1>10. Receipts'
  BY <1>1, <1>3, <1>8, InvFacts DEF Receipts
<1>11. NewCars'
  BY <1>1, <1>3, <1>8, InvFacts DEF NewCars, Known
<1>12. Donors'
  <2>1. IndexLinked'
    <3>1. dedup \in LiveFiles => dedup \in File /\ row[dedup].root \in Root
      BY InvFacts DEF LiveFiles, Live
    <3>2. dedup \in LiveFiles' => dedup \in LiveFiles /\ dedup # f
      BY <1>3 DEF LiveFiles
    <3>. QED
      BY <1>1, <1>3, <3>1, <3>2, InvFacts DEF Donors, IndexLinked
  <2>2. ASSUME NEW a \in Adder
        PROVE  DonorLinked(a)' /\ FirstLinked(a)'
    <3>1. DonorLinked(a) /\ FirstLinked(a)
      BY InvFacts DEF Donors
    <3>2. /\ Bound(a) => add[a].bound \in File /\ add[a].root \in Root
          /\ Bound(a) /\ add[a].bound = f => add'[a].open
          /\ add[a].pc = "linked" => add[a].file \in File /\ add[a].root \in Root
      BY <1>1, InvFacts DEF Bound, CallOK
    <3>. QED
      BY <1>1, <1>3, <1>8, <3>1, <3>2 DEF DonorLinked, FirstLinked
  <2>. QED
    BY <2>1, <2>2 DEF Donors
<1>13. Guarded'
  <2>1. ASSUME NEW g \in File
        PROVE  RowGuarded(g)'
    <3>1. RowGuarded(g) /\ (Live(g) => row[g].root \in Root)
      BY InvFacts DEF Guarded, Live
    <3>. QED
      BY <1>1, <1>3, <3>1 DEF RowGuarded
  <2>2. ASSUME NEW a \in Adder
        PROVE  MarkGuarded(a)' /\ LinkGuarded(a)'
    <3>1. /\ MarkGuarded(a) /\ LinkGuarded(a)
          /\ add[a].pc \in {"linked", "recorded", "queued"} => add[a].file \in File /\ add[a].root \in Root
      BY InvFacts DEF Guarded, CallOK
    <3>. QED
      BY <1>1, <1>3, <1>8, <3>1 DEF MarkGuarded, LinkGuarded
  <2>. QED
    BY <2>1, <2>2 DEF Guarded
<1>14. Spares'
  <2>1. ASSUME NEW t \in gc.plan
        PROVE  Spared(t)'
    <3>1. Spared(t)
      BY InvFacts DEF Spares
    <3>2. \A q : RowsOf(q)' \subseteq RowsOf(q) \ {f} /\ RowsOf(q) \subseteq File
      BY <1>3 DEF RowsOf
    <3>. QED
      BY <1>1, <1>3, <1>8, <3>1, <3>2 DEF Spared
  <2>. QED
    BY <1>1, <2>1 DEF Spares
<1>15. Kept'
  BY <1>1, <1>3, InvFacts DEF Kept, Known
<1>. QED
  BY <1>2, <1>4, <1>5, <1>6, <1>7, <1>9, <1>10, <1>11, <1>12, <1>13, <1>14, <1>15
     DEF Inv, Shape, Safe

----------------------------------------------------------------------------
(* The invariant of Spec.                                                  *)
LEMMA InvInit == Init => Inv
<1>. SUFFICES ASSUME Init PROVE Inv
  OBVIOUS
<1>1. /\ \A f \in File : row[f] = NoRow /\ drive[f] = "idle"
      /\ row = [f \in File |-> NoRow] /\ drive = [f \in File |-> "idle"]
      /\ \A f \in File : row[f].st = "none" /\ row[f].root = 0 /\ ~row[f].signed
  BY DEF Init, NoRow
<1>2. /\ \A a \in Adder : add[a] = NoAdd
      /\ \A a \in Adder : /\ add[a].pc = "idle" /\ add[a].root = 0 /\ add[a].bound = 0
                          /\ ~add[a].signed /\ add[a].file = 0
      /\ add = [a \in Adder |-> NoAdd]
  BY ConstantFacts DEF Init
<1>3. /\ built = 0 /\ car = [r \in Root |-> "absent"] /\ refs = [r \in Root |-> {}]
      /\ aged = {} /\ intent = [r \in Root |-> NoOwner] /\ dedup = 0 /\ job = {} /\ net = {}
      /\ faults = 0 /\ exposed = {}
  BY DEF Init
<1>4. gc = [pc |-> "idle", plan |-> {}] /\ gc.plan = {}
  BY ConstantFacts DEF Init
<1>5. Types
  BY <1>1, <1>2, <1>3, <1>4, ConstantFacts DEF Types
<1>6. RowsOK
  BY <1>1, <1>3 DEF RowsOK
<1>7. CarsOK
  BY <1>3 DEF CarsOK, Known
<1>8. \A a \in Adder : CallOK(a) /\ ~Unregistered(a) /\ ~First(a) /\ ~Bound(a)
  BY <1>2 DEF CallOK, Unregistered, First, Bound
<1>9. PlanOK
  BY <1>4 DEF PlanOK
<1>10. Room
  <2>1. Registered = 1..0 /\ Pending = {}
    BY <1>1, <1>8 DEF Registered, Pending
  <2>2. IsFiniteSet(Pending) /\ 0 + Cardinality(Pending) <= MaxFiles /\ 0 \in 0..MaxFiles
    BY <2>1, FS_EmptySet, ConstantFacts
  <2>. QED
    BY <2>1, <2>2 DEF Room
<1>11. Receipts
  BY <1>1, <1>2, <1>3 DEF Receipts
<1>12. NewCars
  BY <1>8 DEF NewCars
<1>13. Donors
  BY <1>1, <1>2, <1>8 DEF Donors, IndexLinked, DonorLinked, FirstLinked, LiveFiles, Live, Init
<1>14. Guarded
  BY <1>1, <1>2 DEF Guarded, RowGuarded, MarkGuarded, LinkGuarded, Live
<1>15. Spares /\ Kept
  BY <1>1, <1>4 DEF Spares, Kept, Live
<1>. QED
  BY <1>5, <1>6, <1>7, <1>8, <1>9, <1>10, <1>11, <1>12, <1>13, <1>14, <1>15 DEF Inv, Shape, Safe

LEMMA InvStutters ==
    ASSUME Inv, UNCHANGED vars
    PROVE  Inv'
<1>1. UNCHANGED <<row, built, car, refs, aged, intent, dedup, job, net, add, drive, gc, faults, exposed>>
  BY DEF vars
<1>2. Types' /\ RowsOK' /\ CarsOK'
  BY <1>1, InvFacts DEF Types, RowsOK, CarsOK, Known
<1>3. Calm
  BY <1>1, YoungCars, SameReceipts, InvFacts DEF Calm, Receipts
<1>. QED
  BY <1>2, <1>3, CalmKeeps

LEMMA InvNext == Inv /\ [Next]_vars => Inv'
<1>. SUFFICES ASSUME Inv, [Next]_vars PROVE Inv'
  OBVIOUS
<1>1. ASSUME NEW a \in Adder, Attaching(a)
      PROVE  Inv'
  BY <1>1, AttachBoundKeeps, AttachFullKeeps, RegisterFailsKeeps, AttachFailsKeeps DEF Attaching
<1>2. ASSUME NEW a \in Adder, Continue(a)
      PROVE  Inv'
  BY <1>2, FinalizeKeeps, MarkKeeps, RegisterKeeps, LinkKeeps, RecordContentKeeps, EnqueueKeeps, UnmarkKeeps
     DEF Continue
<1>3. ASSUME NEW f \in File, Drive(f) \/ DriveFails(f)
      PROVE  Inv'
  BY <1>3, JobIsMootKeeps, DriveStartKeeps, UploadKeeps, SetNetworkSignKeeps, DriveFailsKeeps
     DEF Drive
<1>4. ASSUME NEW f \in File, User(f)
      PROVE  Inv'
  BY <1>4, DeleteKeeps, UserOffloadKeeps, ReadKeeps, RetryKeeps DEF User
<1>5. ASSUME Act
      PROVE  Inv'
  <2>1. PICK t \in gc.plan : \/ Prune(t) \/ Reclaim(t) \/ Resolve(t) \/ Relink(t)
                             \/ Requeue(t) \/ DropOrphan(t) \/ ClearMarker(t)
    BY <1>5 DEF Act, Busy
  <2>. QED
    BY <2>1, PruneKeeps, ReclaimKeeps, ResolveKeeps, RelinkKeeps, RequeueKeeps,
       DropOrphanKeeps, ClearMarkerKeeps
<1>. QED
  BY <1>1, <1>2, <1>3, <1>4, <1>5, AgeKeeps, StartKeeps, EndKeeps, CrashKeeps, InvStutters
     DEF Next, Collect

LEMMA InvHolds == Spec => []Inv
BY InvInit, InvNext, PTL DEF Spec

LEMMA StrayTyped ==
    ASSUME stray \in BOOLEAN, [Next]_vars
    PROVE  (stray \in BOOLEAN)'
<1>1. ASSUME NEW a \in Adder, Attaching(a) \/ Continue(a)
      PROVE  stray' \in BOOLEAN
  BY <1>1 DEF Attaching, AttachBound, AttachFull, RegisterFails, AttachFails, Continue, Finalize, Mark,
              Register, Link, RecordContent, Enqueue, Unmark, local
<1>2. ASSUME NEW f \in File, Drive(f) \/ DriveFails(f) \/ User(f)
      PROVE  stray' \in BOOLEAN
  BY <1>2 DEF Drive, JobIsMoot, DriveStart, Upload, SetNetworkSign, DriveFails, User, Delete,
              UserOffload, Read, Retry, local
<1>3. CASE Sweep \/ FreeUp \/ End
  BY <1>3 DEF Sweep, FreeUp, Start, End, local
<1>4. CASE Act
  BY <1>4 DEF Act, Prune, Reclaim, Resolve, Relink, Requeue, DropOrphan, ClearMarker, local
<1>5. CASE Crash
  BY <1>5 DEF Crash
<1>6. ASSUME NEW r \in Root, Age(r)
      PROVE  stray' \in BOOLEAN
  BY <1>6 DEF Age
<1>. QED
  BY <1>1, <1>2, <1>3, <1>4, <1>5, <1>6 DEF Next, Collect, vars

LEMMA InvIsSafe == Inv /\ stray \in BOOLEAN => OnlyCopySurvives
<1>. SUFFICES ASSUME Inv, stray \in BOOLEAN PROVE OnlyCopySurvives
  OBVIOUS
<1>1. TypeOK
  <2>1. \A f \in File : /\ row[f].st \in {"none", "live", "deleted"}
                        /\ row[f].st = "none" <=> row[f].root = 0
                        /\ row[f].root \in 0..built
    BY InvFacts, RootFacts DEF RowsOK
  <2>2. \A r \in Root : refs[r] \subseteq {f \in File : row[f].root = r}
    BY InvFacts DEF CarsOK, Types
  <2>3. \A r \in Root : (~Known(r) => refs[r] = {}) /\ (r \in aged => Known(r))
    BY InvFacts DEF CarsOK
  <2>4. net \subseteq 1..built
    <3>1. \A r \in net : r \in Int /\ 1 <= r /\ r <= built
      BY InvFacts, ConstantFacts DEF CarsOK, Types
    <3>. QED
      BY <3>1, InvFacts
  <2>5. dedup \in {0} \cup {f \in File : row[f].st # "none"}
    BY InvFacts, ConstantFacts DEF RowsOK, Types
  <2>6. job \subseteq {f \in File : row[f].st # "none"}
    BY InvFacts DEF RowsOK, Types
  <2>7. \A f, g \in File : (f # g /\ drive[f] \in {"upload", "sign"} /\ drive[g] \in {"upload", "sign"})
                              => row[f].root # row[g].root
    BY InvFacts DEF RowsOK
  <2>8. aged \subseteq {r \in Root : Known(r)}
    BY <2>3, InvFacts DEF Types
  <2>9. /\ built \in 0..MaxRoots
        /\ car \in [Root -> {"absent", "partial", "complete", "offloaded"}]
        /\ intent \in [Root -> Owner \cup {NoOwner}]
        /\ drive \in [File -> {"idle", "upload", "sign"}]
        /\ faults \in 0..MaxFaults /\ exposed \subseteq File
    BY InvFacts DEF Types
  <2>. QED
    BY <2>1, <2>2, <2>3, <2>4, <2>5, <2>6, <2>7, <2>8, <2>9 DEF TypeOK
<1>2. ASSUME NEW f \in File, Unsigned(f), row[f].root \notin net, f \notin exposed
      PROVE  car[row[f].root] = "complete"
  <2>1. row[f].root \in Root /\ Known(row[f].root)
    BY <1>2, InvFacts DEF Unsigned, Live, Kept
  <2>. QED
    BY <1>2, <2>1, InvFacts DEF Receipts, Known
<1>. QED
  BY <1>1, <1>2 DEF OnlyCopySurvives

(***************************************************************************)
(* The only copy of a file survives: whatever crash or failed step falls   *)
(* between the writes of an attachment, and whatever the collector decided *)
(* on an earlier state, a live row without a receipt whose content the     *)
(* nodes do not hold has complete bytes on the device.  The rows that a    *)
(* second attachment of the same content or the deletion of their donor    *)
(* left without a guard (exposed) are excepted, and only they can be lost  *)
(* (OnlyCopyIsKept is the claim for them, which fails).                    *)
(***************************************************************************)
THEOREM OnlyCopyStays == Spec => []OnlyCopySurvives
<1>1. Init => stray \in BOOLEAN
  BY DEF Init
<1>2. stray \in BOOLEAN /\ [Next]_vars => (stray \in BOOLEAN)'
  BY StrayTyped
<1>3. Spec => [](stray \in BOOLEAN)
  BY <1>1, <1>2, PTL DEF Spec
<1>. QED
  BY <1>3, InvHolds, InvIsSafe, PTL

----------------------------------------------------------------------------
(* One upload for the rows of a root.                                      *)

\* Nothing failed and no row is gone.
Intact == faults = 0 /\ \A f \in File : row[f].st # "deleted"

\* Then a job that runs is still queued, and every root the nodes hold has a
\* row with its receipt, or about to get it: the upload and the receipt are
\* two steps, with the root locked between them.
Uploaded ==
    Intact =>
      /\ \A f \in File : drive[f] # "idle" => f \in job
      /\ \A r \in net : \E g \in RowsOf(r) : row[g].signed \/ drive[g] = "sign"

LEMMA UploadedInit == Init => Uploaded
<1>. SUFFICES ASSUME Init PROVE Uploaded
  OBVIOUS
<1>1. \A f \in File : drive[f] = "idle"
  BY DEF Init
<1>2. net = {}
  BY DEF Init
<1>. QED
  BY <1>1, <1>2 DEF Uploaded

\* A step that no row, no job under way and no node takes part in.
Quiet == /\ UNCHANGED <<row, drive, net>> /\ faults' \in {faults, faults + 1}
         /\ \A f \in File : f \in job /\ drive[f] # "idle" => f \in job'

LEMMA QuietKeeps ==
    ASSUME Inv, Uploaded, Quiet
    PROVE  Uploaded'
<1>1. faults \in Nat
  BY InvFacts, ConstantFacts DEF Types
<1>2. Intact' => Intact
  BY <1>1 DEF Intact, Quiet
<1>3. \A r : RowsOf(r)' = RowsOf(r)
  BY DEF Quiet, RowsOf, Live
<1>. QED
  BY <1>2, <1>3 DEF Uploaded, Quiet

LEMMA CallsAreQuiet ==
    ASSUME Inv, NEW a \in Adder, Attaching(a) \/ (Continue(a) /\ ~Register(a))
    PROVE  Quiet
<1>1. ASSUME NEW o \in Owner, AttachBound(a, o) \/ AttachFull(a, o)
      PROVE  Quiet
  BY <1>1 DEF AttachBound, AttachFull, Quiet, local
<1>2. CASE RegisterFails(a) \/ AttachFails(a)
  BY <1>2 DEF RegisterFails, AttachFails, Quiet, local
<1>5. CASE Finalize(a)
  BY <1>5 DEF Finalize, Quiet
<1>3. CASE Mark(a) \/ Link(a) \/ RecordContent(a) \/ Unmark(a)
  BY <1>3 DEF Mark, Link, RecordContent, Unmark, Quiet
<1>4. CASE Enqueue(a)
  BY <1>4 DEF Enqueue, Quiet
<1>. QED
  BY <1>1, <1>2, <1>3, <1>4, <1>5 DEF Attaching, Continue

LEMMA PassIsQuiet ==
    ASSUME Sweep \/ FreeUp \/ Collect
    PROVE  Quiet
<1>1. ASSUME NEW tasks, Start(tasks)
      PROVE  Quiet
  BY <1>1 DEF Start, Quiet, local
<1>2. CASE End
  BY <1>2 DEF End, Quiet, local
<1>3. CASE Act
  <2>1. PICK t : \/ Prune(t) \/ Reclaim(t) \/ Resolve(t) \/ Relink(t)
                 \/ Requeue(t) \/ DropOrphan(t) \/ ClearMarker(t)
    BY <1>3 DEF Act
  <2>2. CASE Prune(t) \/ Reclaim(t) \/ Resolve(t)
    BY <2>2 DEF Prune, Reclaim, Resolve, Quiet, local
  <2>3. CASE Relink(t) \/ Requeue(t) \/ DropOrphan(t) \/ ClearMarker(t)
    BY <2>3 DEF Relink, Requeue, DropOrphan, ClearMarker, Quiet
  <2>. QED
    BY <2>1, <2>2, <2>3
<1>. QED
  BY <1>1, <1>2, <1>3 DEF Sweep, FreeUp, Collect

LEMMA RegisterUploaded ==
    ASSUME Inv, Uploaded, NEW a \in Adder, Register(a)
    PROVE  Uploaded'
<1>1. PICK f \in File : f = NextFile /\ row[f].st = "none"
  BY InvFacts, NextFileFacts DEF Register, Pending, Unregistered
<1>2. /\ row'[f].st = "live" /\ \A g \in File : g # f => row'[g] = row[g]
      /\ UNCHANGED <<job, net, drive, faults>>
  BY <1>1, InvFacts, RegisterFacts
<1>3. Intact' => Intact
  BY <1>1, <1>2 DEF Intact
<1>4. \A r : \A g \in RowsOf(r) : g # f /\ g \in RowsOf(r)' /\ row'[g] = row[g]
  BY <1>1, <1>2 DEF RowsOf, Live
<1>. QED
  BY <1>2, <1>3, <1>4 DEF Uploaded

LEMMA DriveUploaded ==
    ASSUME Inv, Uploaded, NEW f \in File, Drive(f) \/ DriveFails(f)
    PROVE  Uploaded'
<1>1. CASE JobIsMoot(f)
  <2>1. Quiet
    BY <1>1 DEF JobIsMoot, Quiet
  <2>. QED
    BY <2>1, QuietKeeps
<1>2. CASE DriveStart(f)
  <2>1. /\ f \in job /\ drive[f] = "idle"
        /\ UNCHANGED <<row, job, net, faults>>
    BY <1>2 DEF DriveStart
  <2>2. \A g \in File : g # f => drive'[g] = drive[g]
    BY <1>2, InvFacts DEF DriveStart, Types
  <2>3. /\ Intact' <=> Intact
        /\ \A r : RowsOf(r)' = RowsOf(r)
    BY <2>1 DEF Intact, RowsOf, Live
  <2>4. /\ \A g \in File : row[g].signed \/ drive[g] = "sign" => row'[g].signed \/ drive'[g] = "sign"
        /\ \A g \in File : drive'[g] # "idle" => drive[g] # "idle" \/ g = f
    BY <2>1, <2>2
  <2>5. \A r : RowsOf(r) \subseteq File
    BY DEF RowsOf
  <2>. QED
    BY <2>1, <2>3, <2>4, <2>5 DEF Uploaded
<1>3. CASE Upload(f)
  <2>1. /\ drive[f] = "upload"
        /\ \/ net' = net \cup {row[f].root} /\ drive'[f] = "sign"
           \/ net' = net /\ drive'[f] = "idle"
        /\ \A g \in File : g # f => drive'[g] = drive[g]
        /\ UNCHANGED <<row, job, faults>>
    BY <1>3, InvFacts DEF Upload, Types
  <2>2. /\ Intact' <=> Intact
        /\ \A r : RowsOf(r)' = RowsOf(r)
    BY <2>1 DEF Intact, RowsOf, Live
  <2>3. Intact => f \in RowsOf(row[f].root)
    BY <2>1, InvFacts, RootFacts DEF Intact, RowsOK, RowsOf, Live
  <2>4. \A g \in File : row[g].signed \/ drive[g] = "sign" => row'[g].signed \/ drive'[g] = "sign"
    BY <2>1
  <2>5. \A r : RowsOf(r) \subseteq File
    BY DEF RowsOf
  <2>. QED
    BY <2>1, <2>2, <2>3, <2>4, <2>5 DEF Uploaded
<1>4. CASE SetNetworkSign(f)
  <2>1. /\ drive[f] = "sign"
        /\ \A g \in File : g # f => row'[g] = row[g] /\ drive'[g] = drive[g]
        /\ row'[f].st = row[f].st /\ row'[f].root = row[f].root
        /\ row'[f].signed <=> (row[f].signed \/ Live(f))
        /\ drive'[f] = "idle" /\ job' = job \ {f}
        /\ UNCHANGED <<net, faults>>
    BY <1>4, InvFacts, SetNetworkSignFacts
  <2>2. \A g \in File : row'[g].st = row[g].st /\ row'[g].root = row[g].root
    BY <2>1
  <2>3. /\ Intact' <=> Intact
        /\ \A r : RowsOf(r)' = RowsOf(r)
    BY <2>1, <2>2 DEF Intact, RowsOf, Live
  <2>4. Intact => Live(f)
    BY <2>1, InvFacts, RootFacts DEF Intact, RowsOK, Live
  <2>5. Intact => \A g \in File : row[g].signed \/ drive[g] = "sign" => row'[g].signed \/ drive'[g] = "sign"
    BY <2>1, <2>4
  <2>6. \A r : RowsOf(r) \subseteq File
    BY DEF RowsOf
  <2>. QED
    BY <2>1, <2>3, <2>5, <2>6 DEF Uploaded
<1>5. CASE DriveFails(f)
  <2>1. /\ drive[f] # "idle" /\ row' = row
        /\ f \in job => faults' = faults + 1
        /\ f \notin job => faults' = faults
    BY <1>5 DEF DriveFails, local
  <2>2. faults \in Nat
    BY InvFacts, ConstantFacts DEF Types
  <2>3. ~Intact'
    BY <2>1, <2>2 DEF Intact, Uploaded
  <2>. QED
    BY <2>3 DEF Uploaded
<1>. QED
  BY <1>1, <1>2, <1>3, <1>4, <1>5 DEF Drive

LEMMA UserUploaded ==
    ASSUME Inv, Uploaded, NEW f \in File, User(f)
    PROVE  Uploaded'
<1>1. ASSUME NEW here \in BOOLEAN, Delete(f, here)
      PROVE  Uploaded'
  <2>1. row'[f].st = "deleted"
    BY <1>1, InvFacts, DeleteFacts DEF Delete, Live
  <2>. QED
    BY <2>1 DEF Uploaded, Intact
<1>2. CASE UserOffload(f) \/ Read(f)
  <2>1. Quiet
    BY <1>2 DEF UserOffload, Read, Quiet
  <2>. QED
    BY <2>1, QuietKeeps
<1>3. CASE Retry(f)
  <2>1. Quiet
    BY <1>3 DEF Retry, Quiet
  <2>. QED
    BY <2>1, QuietKeeps
<1>. QED
  BY <1>1, <1>2, <1>3 DEF User

LEMMA UploadedNext == Inv /\ Uploaded /\ [Next]_vars => Uploaded'
<1>. SUFFICES ASSUME Inv, Uploaded, [Next]_vars PROVE Uploaded'
  OBVIOUS
<1>1. ASSUME NEW r \in Root, Age(r)
      PROVE  Quiet
  BY <1>1 DEF Age, Quiet
<1>2. CASE Crash
  <2>1. faults' = faults + 1 /\ faults \in Nat
    BY <1>2, InvFacts, ConstantFacts DEF Crash, Types
  <2>. QED
    BY <2>1 DEF Uploaded, Intact
<1>3. CASE UNCHANGED vars
  BY <1>3, QuietKeeps DEF vars, Quiet
<1>. QED
  BY <1>1, <1>2, <1>3, QuietKeeps, CallsAreQuiet, PassIsQuiet, RegisterUploaded, DriveUploaded,
     UserUploaded DEF Next

\* An upload starts in DriveStart, which looked for a sibling's receipt.
LEMMA UploadsOnce ==
    ASSUME Inv, Uploaded, [Next]_vars, NEW f \in File,
           drive[f] = "idle", drive'[f] = "upload", Undisturbed(row[f].root)
    PROVE  row[f].root \notin net
<1>1. ~Quiet
  BY DEF Quiet
<1>2. ~Crash
  BY DEF Crash
<1>3. \A g \in File : Drive(g) \/ DriveFails(g) => DriveStart(f)
  <2>1. SUFFICES ASSUME NEW g \in File, Drive(g) \/ DriveFails(g) PROVE DriveStart(f)
    OBVIOUS
  <2>2. drive \in [File -> {"idle", "upload", "sign"}]
    BY InvFacts DEF Types
  <2>. QED
    BY <2>1, <2>2 DEF Drive, JobIsMoot, DriveStart, Upload, SetNetworkSign, DriveFails
<1>4. \A g \in File : ~User(g)
  BY DEF User, Delete, UserOffload, Read, Retry
<1>5. \A a \in Adder : ~Attaching(a) /\ ~Continue(a)
  BY <1>1, CallsAreQuiet DEF Register
<1>6. \A r \in Root : ~Age(r)
  BY DEF Age
<1>7. DriveStart(f)
  BY <1>2, <1>3, <1>4, <1>5, <1>6, <1>1, PassIsQuiet DEF Next, vars
<1>8. Unsigned(f) /\ ~Locked(row[f].root) /\ ~SiblingSigned(f)
  <2>1. drive'[f] = IF SiblingSigned(f) THEN "sign" ELSE "upload"
    BY <1>7, InvFacts DEF DriveStart, Types
  <2>. QED
    BY <1>7, <2>1 DEF DriveStart
<1>9. Intact
  BY DEF Undisturbed, Intact
<1>10. SUFFICES ASSUME row[f].root \in net PROVE FALSE
  OBVIOUS
<1>11. PICK g \in RowsOf(row[f].root) : row[g].signed \/ drive[g] = "sign"
  BY <1>9, <1>10 DEF Uploaded
<1>12. g \in File /\ Live(g) /\ row[g].root = row[f].root
  BY DEF RowsOf
<1>13. row[g].signed /\ g # f
  BY <1>8, <1>11, <1>12 DEF Locked, Unsigned
<1>14. g \in refs[row[f].root]
  BY <1>13 DEF Undisturbed
<1>. QED
  BY <1>8, <1>12, <1>13, <1>14 DEF SiblingSigned

(***************************************************************************)
(* Rows that share a root share one upload: undisturbed, a job that finds  *)
(* the nodes holding its root never uploads it again; the lock of the root *)
(* keeps it back until the sibling's receipt is there to be copied         *)
(* (lockRoot, siblingSign).                                                *)
(***************************************************************************)
THEOREM UploadsAreShared == Spec => ShareOneUpload
<1>1. Inv /\ Uploaded /\ [Next]_vars =>
        [\A f \in File : (drive[f] = "idle" /\ drive'[f] = "upload" /\ Undisturbed(row[f].root))
                            => row[f].root \notin net]_vars
  BY UploadsOnce
<1>2. Spec => []Uploaded
  BY InvHolds, InvNext, UploadedInit, UploadedNext, PTL DEF Spec
<1>. QED
  BY <1>1, <1>2, InvHolds, PTL DEF Spec, ShareOneUpload
=============================================================================
