-------------------------------- MODULE Files --------------------------------
(***************************************************************************)
(* Files of one space on one device: attaching (internal/files/upload),    *)
(* the local store of CARs (internal/files/store), the queue that backs    *)
(* them up (internal/files/status), deletion and offload (spaceimpl), and  *)
(* the two passes that reclaim bytes (internal/files/gc).                  *)
(*                                                                         *)
(* No transaction spans the file's row (a CRDT record), the CAR's metadata *)
(* row, the queue and the key-value table, so each write is a step, and    *)
(* calls, jobs, a collector, a crash and a deletion that syncs in fall     *)
(* between any two.                                                        *)
(*                                                                         *)
(* All attachments carry the same plaintext: the dedup index has one       *)
(* entry.  A full attachment seals it with a key of its own, so its root   *)
(* is new.  Time is abstract: a CAR is aged once its last access lies      *)
(* further back than the grace period (and the TTL of a partial).          *)
(***************************************************************************)
EXTENDS Integers, FiniteSets

CONSTANTS
    Adder,      \* concurrent calls of Attach
    Owner,      \* objects that files are attached to
    MaxFiles,   \* bound: rows registered
    MaxRoots,   \* bound: CARs built
    MaxFaults,  \* bound: crashes, failed steps
    NoOwner     \* no attach-intent marker

ASSUME FilesAssumption ==
    /\ MaxFiles \in Nat \ {0} /\ MaxRoots \in Nat \ {0} /\ MaxFaults \in Nat
    /\ NoOwner \notin Owner

VARIABLES
    row,      \* the rows of the payloads objects, by fileId
    built,    \* roots made so far
    car,      \* a CAR's metadata row and bytes
    refs,     \* the fileIds a CAR's metadata row names
    aged,     \* CARs not accessed for the grace period
    intent,   \* the attach-intent marker of a root: the owner written there
    dedup,    \* the file the dedup index names, 0 when none
    job,      \* files with a persisted durable job
    net,      \* roots the file nodes hold
    stray,    \* a CAR is in place that no metadata row names
    add,      \* each call of Attach: where it is and what it read
    drive,    \* each running job
    gc,       \* the collector's pass
    faults,
    exposed   \* files whose marker another call took: see Expose

vars == <<row, built, car, refs, aged, intent, dedup, job, net, stray, add, drive, gc,
          faults, exposed>>
local == <<row, built, car, refs, aged, intent, dedup, job, net, stray>>

File == 1..MaxFiles
Root == 1..MaxRoots

NoRow  == [st |-> "none", root |-> 0, owner |-> NoOwner, signed |-> FALSE]
NoAdd  == [pc |-> "idle", root |-> 0, owner |-> NoOwner, file |-> 0,
           bound |-> 0, signed |-> FALSE, open |-> FALSE]
NoPass == [pc |-> "idle", plan |-> {}]

Live(f)      == row[f].st = "live"
Unsigned(f)  == Live(f) /\ ~row[f].signed
LiveFiles    == {f \in File : Live(f)}
RowsOf(r)    == {f \in File : Live(f) /\ row[f].root = r}
Adding(r)    == {a \in Adder : add[a].pc # "idle" /\ add[a].root = r}
Known(r)     == car[r] # "absent"           \* the CAR has a metadata row

TypeOK ==
    /\ \A f \in File : /\ row[f].st \in {"none", "live", "deleted"}
                       /\ row[f].st = "none" <=> row[f].root = 0
                       /\ row[f].root \in 0..built
    /\ built \in 0..MaxRoots
    /\ car \in [Root -> {"absent", "partial", "complete", "offloaded"}]
    /\ \A r \in Root : refs[r] \subseteq {f \in File : row[f].root = r}
    /\ \A r \in Root : ~Known(r) => refs[r] = {}
    /\ aged \subseteq {r \in Root : Known(r)}
    /\ intent \in [Root -> Owner \cup {NoOwner}]
    /\ dedup \in {0} \cup {f \in File : row[f].st # "none"}
    /\ job \subseteq {f \in File : row[f].st # "none"}
    /\ net \subseteq 1..built /\ stray \in BOOLEAN
    /\ drive \in [File -> {"idle", "upload", "sign"}]
    /\ \A f, g \in File : (f # g /\ drive[f] \in {"upload", "sign"} /\ drive[g] \in {"upload", "sign"})
                             => row[f].root # row[g].root
    /\ faults \in 0..MaxFaults
    /\ exposed \subseteq File

Init ==
    /\ row = [f \in File |-> NoRow] /\ built = 0
    /\ car = [r \in Root |-> "absent"] /\ refs = [r \in Root |-> {}]
    /\ aged = {} /\ intent = [r \in Root |-> NoOwner]
    /\ dedup = 0 /\ job = {} /\ net = {}
    /\ add = [a \in Adder |-> NoAdd] /\ drive = [f \in File |-> "idle"]
    /\ gc = NoPass
    /\ stray = FALSE /\ faults = 0 /\ exposed = {}

-----------------------------------------------------------------------------
(***************************************************************************)
(* Two attachments of one content share its marker, and the guard of one   *)
(* goes with the other's: the marker names one owner and is cleared by     *)
(* whoever ends first.  exposed collects the files this leaves without a   *)
(* guard between their row and their reference, open the calls that are    *)
(* about to write such a row.  A bound row is exposed too when its donor   *)
(* is deleted before it is linked, or when it is linked while a pass is    *)
(* under way: the pass may have read the references before.                *)
(***************************************************************************)
Unlinked(r)     == {f \in RowsOf(r) : f \notin refs[r]}
Expose(r, a)    == exposed' = exposed \cup (Unlinked(r) \ {add[a].file})
Opened(r, a, b) == add[b].open \/ (b # a /\ add[b].root = r /\ add[b].pc = "marked")

Remove(r)   == /\ car' = [car EXCEPT ![r] = "absent"]
               /\ refs' = [refs EXCEPT ![r] = {}]
               /\ aged' = aged \ {r}
Offload(r)  == car' = [car EXCEPT ![r] = IF Known(r) THEN "offloaded" ELSE "absent"]
Go(a, pc)   == add' = [add EXCEPT ![a].pc = pc]

\* Another row may still be registered.
FileLeft == Cardinality({f \in File : row[f].st = "none"}) >
            Cardinality({a \in Adder : add[a].pc \in {"bound", "placed", "built", "marked"}})
NextFile == 1 + Cardinality({f \in File : row[f].st # "none"})

\* addBound: the dedup index names a live row, whose receipt is read now.
AttachBound(a, o) ==
    /\ add[a].pc = "idle" /\ FileLeft
    /\ dedup \in LiveFiles
    /\ add' = [add EXCEPT ![a] = [NoAdd EXCEPT !.pc = "bound", !.root = row[dedup].root,
                  !.owner = o, !.bound = dedup, !.signed = row[dedup].signed,
                  !.open = dedup \in exposed]]
    /\ UNCHANGED <<local, drive, gc, faults, exposed>>

\* addFull: seal, build and finalize a CAR of its own.  The file is renamed
\* into place, and nobody knows its root ...
Placing == {a \in Adder : add[a].pc = "placed"}

\* Another CAR may still be built.
CarLeft == built + Cardinality(Placing) + (IF stray THEN 1 ELSE 0) < MaxRoots

AttachFull(a, o) ==
    /\ add[a].pc = "idle" /\ FileLeft
    /\ dedup \notin LiveFiles
    /\ CarLeft
    /\ add' = [add EXCEPT ![a] = [NoAdd EXCEPT !.pc = "placed", !.owner = o]]
    /\ UNCHANGED <<local, drive, gc, faults, exposed>>

\* ... until its metadata row is written; failing that, it is removed again.
Finalize(a) ==
    /\ add[a].pc = "placed" /\ built < MaxRoots
    /\ built' = built + 1
    /\ car' = [car EXCEPT ![built + 1] = "complete"]
    /\ add' = [add EXCEPT ![a].pc = "built", ![a].root = built + 1]
    /\ UNCHANGED <<row, refs, aged, intent, dedup, job, net, stray, drive, gc, faults, exposed>>

\* The marker, before the row; it replaces the marker of another owner.
Mark(a) ==
    LET r == add[a].root taken == intent[r] \notin {NoOwner, add[a].owner} IN
    /\ add[a].pc \in {"bound", "built"}
    /\ intent' = [intent EXCEPT ![r] = add[a].owner]
    /\ IF taken THEN Expose(r, a) ELSE UNCHANGED exposed
    /\ add' = [b \in Adder |-> IF b = a THEN [add[a] EXCEPT !.pc = "marked"]
                               ELSE [add[b] EXCEPT !.open = @ \/ (taken /\ Opened(r, a, b))]]
    /\ UNCHANGED <<row, built, stray, car, refs, aged, dedup, job, net, drive, gc, faults>>

Register(a) ==
    LET f == NextFile IN
    /\ add[a].pc = "marked"
    /\ row' = [row EXCEPT ![f] = [st |-> "live", root |-> add[a].root, owner |-> add[a].owner,
                                  signed |-> add[a].signed]]
    /\ add' = [add EXCEPT ![a].pc = "written", ![a].file = f, ![a].open = FALSE]
    /\ exposed' = IF add[a].open THEN exposed \cup {f} ELSE exposed
    /\ UNCHANGED <<built, stray, car, refs, aged, intent, dedup, job, net, drive, gc, faults>>

\* No row was written: a full attachment drops its CAR and marker, a bound
\* one leaves the marker.
RegisterFails(a) ==
    /\ add[a].pc = "marked" /\ faults < MaxFaults
    /\ IF add[a].bound = 0
         THEN Remove(add[a].root) /\ intent' = [intent EXCEPT ![add[a].root] = NoOwner]
         ELSE UNCHANGED <<car, refs, aged, intent>>
    /\ add' = [add EXCEPT ![a] = NoAdd]
    /\ faults' = faults + 1
    /\ UNCHANGED <<row, built, stray, dedup, job, net, drive, gc, exposed>>

\* AddRefs; it fails when the CAR's metadata row is gone, and Attach with it.
Link(a) ==
    LET r == add[a].root f == add[a].file IN
    /\ add[a].pc = "written"
    /\ IF Known(r)
         THEN /\ refs' = [refs EXCEPT ![r] = @ \cup {f}]
              /\ add' = [add EXCEPT ![a].pc = IF add[a].bound = 0 THEN "linked" ELSE "recorded", ![a].bound = 0]
              /\ exposed' = IF gc.pc = "idle" \/ add[a].bound = 0 THEN exposed \ {f} ELSE exposed \cup {f}
         ELSE /\ add' = [add EXCEPT ![a] = NoAdd]
              /\ UNCHANGED <<refs, exposed>>
    /\ UNCHANGED <<row, built, stray, car, aged, intent, dedup, job, net, drive, gc, faults>>

RecordContent(a) ==
    /\ add[a].pc = "linked"
    /\ dedup' = add[a].file
    /\ Go(a, "recorded")
    /\ UNCHANGED <<row, built, stray, car, refs, aged, intent, job, net, drive, gc, faults, exposed>>

Enqueue(a) ==
    /\ add[a].pc = "recorded"
    /\ job' = IF add[a].signed THEN job ELSE job \cup {add[a].file}
    /\ Go(a, "queued")
    /\ UNCHANGED <<row, built, stray, car, refs, aged, intent, dedup, net, drive, gc, faults, exposed>>

Unmark(a) ==
    LET r == add[a].root IN
    /\ add[a].pc = "queued"
    /\ intent' = [intent EXCEPT ![r] = NoOwner]
    /\ Expose(r, a)
    /\ add' = [b \in Adder |-> IF b = a THEN NoAdd
                               ELSE [add[b] EXCEPT !.open = Opened(r, a, b)]]
    /\ UNCHANGED <<row, built, stray, car, refs, aged, dedup, job, net, drive, gc, faults>>

\* A step fails, or the caller's context ends: everything stays where it is,
\* but a CAR without its row, if it can be removed.
AttachFails(a) ==
    /\ add[a].pc # "idle" /\ faults < MaxFaults
    /\ add' = [add EXCEPT ![a] = NoAdd]
    /\ stray' \in {stray, stray \/ a \in Placing}
    /\ faults' = faults + 1
    /\ UNCHANGED <<row, built, car, refs, aged, intent, dedup, job, net, drive, gc, exposed>>
-----------------------------------------------------------------------------
(* The queue's jobs (RunFileJob, DriveDurable).  A job may be due at any    *)
(* time; an attempt that fails leaves it queued.                            *)
NeverSigned(f) == FALSE     \* mutant: every job uploads
SiblingSigned(f) == \E g \in refs[row[f].root] \ {f} : Live(g) /\ row[g].signed
Locked(r) == \E g \in File : row[g].root = r /\ drive[g] \in {"upload", "sign"}

\* The row is gone or signed: the job has nothing to do and leaves the queue.
JobIsMoot(f) ==
    /\ f \in job /\ drive[f] = "idle" /\ ~Unsigned(f)
    /\ job' = job \ {f}
    /\ UNCHANGED <<row, built, stray, car, refs, aged, intent, dedup, net, add, drive, gc, faults, exposed>>

\* With the root's lock held: complete bytes, then a sibling's receipt or
\* an upload.  Opening the CAR is an access.
DriveStart(f) ==
    LET r == row[f].root IN
    /\ f \in job /\ drive[f] = "idle" /\ Unsigned(f)
    /\ ~Locked(r) /\ car[r] = "complete"
    /\ drive' = [drive EXCEPT ![f] = IF SiblingSigned(f) THEN "sign" ELSE "upload"]
    /\ aged' = aged \ {r}
    /\ UNCHANGED <<row, built, stray, car, refs, intent, dedup, job, net, add, gc, faults, exposed>>

\* The bytes are read once more; gone, the attempt fails.
Upload(f) ==
    LET r == row[f].root IN
    /\ drive[f] = "upload"
    /\ IF car[r] = "complete"
         THEN net' = net \cup {r} /\ drive' = [drive EXCEPT ![f] = "sign"] /\ aged' = aged \ {r}
         ELSE drive' = [drive EXCEPT ![f] = "idle"] /\ UNCHANGED <<net, aged>>
    /\ UNCHANGED <<row, built, stray, car, refs, intent, dedup, job, add, gc, faults, exposed>>

\* The receipt is written (a deleted row absorbs it) and runOne drops the
\* job, whatever was enqueued meanwhile.
SetNetworkSign(f) ==
    /\ drive[f] = "sign"
    /\ row' = [row EXCEPT ![f].signed = @ \/ Live(f)]
    /\ drive' = [drive EXCEPT ![f] = "idle"]
    /\ job' = job \ {f}
    /\ exposed' = exposed \ {f}
    /\ UNCHANGED <<built, stray, car, refs, aged, intent, dedup, net, add, gc, faults>>

\* Mutant: the failed attempt takes its job along.
DriveFailsForGood(f) ==
    /\ drive[f] \in {"upload", "sign"} /\ faults < MaxFaults
    /\ faults' = faults + 1
    /\ job' = job \ {f}
    /\ drive' = [drive EXCEPT ![f] = "idle"]
    /\ UNCHANGED <<row, built, stray, car, refs, aged, intent, dedup, net, add, gc, exposed>>

\* A broker call, the PUT or the row's write fails; or Remove, which took the
\* job out of the queue, cancels the attempt.
DriveFails(f) ==
    /\ drive[f] \in {"upload", "sign"}
    /\ IF f \in job THEN faults < MaxFaults /\ faults' = faults + 1 ELSE UNCHANGED faults
    /\ drive' = [drive EXCEPT ![f] = "idle"]
    /\ UNCHANGED <<local, add, gc, exposed>>

-----------------------------------------------------------------------------
(* What the user and other devices do.                                      *)

\* DeleteRows, synced in or called here; here the job and the reference go
\* with it, unless the process dies in between.
Delete(f, here) ==
    /\ Live(f)
    /\ row' = [row EXCEPT ![f].st = "deleted"]
    /\ IF here THEN /\ job' = job \ {f}
                    /\ refs' = [refs EXCEPT ![row[f].root] = @ \ {f}]
               ELSE UNCHANGED <<job, refs>>
    /\ LET bound == {a \in Adder : add[a].bound = f} IN
       /\ exposed' = (exposed \cup {add[a].file : a \in {b \in bound : add[b].pc = "written"}}) \ {f}
       /\ add' = [a \in Adder |-> IF a \in bound /\ add[a].pc \in {"bound", "marked"}
                                  THEN [add[a] EXCEPT !.open = TRUE] ELSE add[a]]
    /\ UNCHANGED <<built, stray, car, aged, intent, dedup, net, drive, gc, faults>>

\* Files().Offload: this row's receipt is enough, whoever else uses the root.
UserOffload(f) ==
    /\ Live(f) /\ row[f].signed
    /\ car[row[f].root] \in {"partial", "complete"}
    /\ Offload(row[f].root)
    /\ UNCHANGED <<row, built, stray, refs, aged, intent, dedup, job, net, add, drive, gc, faults, exposed>>

\* Open of a row: bytes that are here are read; a durable file's bytes that
\* are not are seeded from the network and arrive block by block.
Read(f) ==
    LET r == row[f].root IN
    /\ Live(f)
    /\ \/ car[r] \in {"partial", "complete"} /\ r \in aged /\ UNCHANGED <<car, refs>>
       \/ /\ row[f].signed /\ car[r] = "partial"
          /\ car' = [car EXCEPT ![r] = "complete"] /\ UNCHANGED refs
       \/ /\ row[f].signed /\ car[r] \in {"absent", "offloaded"}
          /\ car' = [car EXCEPT ![r] = "partial"]
          /\ refs' = [refs EXCEPT ![r] = @ \cup {f}]
    /\ aged' = aged \ {r}
    /\ UNCHANGED <<row, built, stray, intent, dedup, job, net, add, drive, gc, faults, exposed>>

Retry(f) ==
    /\ Unsigned(f) /\ f \notin job /\ car[row[f].root] = "complete"
    /\ job' = job \cup {f}
    /\ UNCHANGED <<row, built, stray, car, refs, aged, intent, dedup, net, add, drive, gc, faults, exposed>>

\* The grace period is far longer than building and registering a CAR takes.
Age(r) ==
    /\ Known(r) /\ r \notin aged
    /\ \A a \in Adding(r) : add[a].bound # 0
    /\ aged' = aged \cup {r}
    /\ UNCHANGED <<row, built, stray, car, refs, intent, dedup, job, net, add, drive, gc, faults, exposed>>

\* The process dies: what is not in a collection is gone, but for the files.
Crash ==
    /\ faults < MaxFaults
    /\ faults' = faults + 1
    /\ add' = [a \in Adder |-> NoAdd] /\ drive' = [f \in File |-> "idle"]
    /\ gc' = NoPass
    /\ stray' = (stray \/ Placing # {})
    /\ UNCHANGED <<row, built, car, refs, aged, intent, dedup, job, net, exposed>>
-----------------------------------------------------------------------------
(***************************************************************************)
(* The collector.  A pass judges every CAR's metadata against the rows and *)
(* the markers at once (the code reads the rows first and the metadata as  *)
(* it goes), and acts on what it planned once the iteration is closed.     *)
(***************************************************************************)
Used(r)     == {f \in refs[r] : Live(f)}
Durable(r)  == \A f \in Used(r) : row[f].signed
Task(r, do) == [root |-> r, do |-> do, file |-> 0,
                owner |-> IF do = "heal" THEN intent[r] ELSE NoOwner, dead |-> {}]

\* Mutant: a marker does not hold the sweep back.
SweepUnmarked(r) ==
    [(CASE Used(r) = {} /\ r \in aged -> Task(r, "remove")
        [] car[r] = "partial" /\ Used(r) # {} /\ Durable(r) /\ r \in aged -> Task(r, "offload")
        [] OTHER -> Task(r, "none")) EXCEPT !.dead = refs[r] \ Used(r)]

SweepTask(r) ==
    [(CASE Used(r) = {} /\ r \in aged /\ intent[r] # NoOwner -> Task(r, "heal")
        [] Used(r) = {} /\ r \in aged /\ intent[r] = NoOwner -> Task(r, "remove")
        [] car[r] = "partial" /\ Used(r) # {} /\ Durable(r) /\ r \in aged -> Task(r, "offload")
        [] OTHER -> Task(r, "none")) EXCEPT !.dead = refs[r] \ Used(r)]

FreeUpTask(r) ==
    LET freeable == car[r] \in {"partial", "complete"} /\ Durable(r) IN
    CASE freeable /\ Used(r) # {} -> Task(r, "offload")
      [] freeable /\ Used(r) = {} /\ r \in aged /\ intent[r] = NoOwner -> Task(r, "remove")
      [] OTHER -> Task(r, "none")

Worth(tasks) == {t \in tasks : t.do # "none" \/ t.dead # {}}

Start(tasks) == /\ gc.pc = "idle"
                /\ gc' = [pc |-> "act", plan |-> Worth(tasks)]
                /\ UNCHANGED <<local, add, drive, faults, exposed>>

\* Sweep takes all it finds, FreeUp stops when it has enough.
Sweep  == Start({SweepTask(r) : r \in {q \in Root : Known(q)}})
FreeUp == \E some \in SUBSET {q \in Root : Known(q)} : Start({FreeUpTask(r) : r \in some})

Step(t, do) == [gc EXCEPT !.plan = (@ \ {t}) \cup {[t EXCEPT !.do = do, !.dead = {}]}]
Done(t)     == gc' = [gc EXCEPT !.plan = @ \ {t}]

Prune(t) ==
    /\ t.dead # {}
    /\ refs' = [refs EXCEPT ![t.root] = @ \ t.dead]
    /\ IF t.do = "none" THEN Done(t) ELSE gc' = Step(t, t.do)
    /\ UNCHANGED <<row, built, stray, car, aged, intent, dedup, job, net, add, drive, faults, exposed>>

Reclaim(t) ==
    /\ t.dead = {} /\ t.do \in {"remove", "offload"}
    /\ IF t.do = "remove" THEN Remove(t.root) ELSE Offload(t.root) /\ UNCHANGED <<refs, aged>>
    /\ Done(t)
    /\ UNCHANGED <<row, built, stray, intent, dedup, job, net, add, drive, faults, exposed>>

\* healIntent: a live row of the marker's owner with this root, if any.
Resolve(t) ==
    LET found == {f \in RowsOf(t.root) : row[f].owner = t.owner} IN
    /\ t.dead = {} /\ t.do = "heal"
    /\ \/ \E f \in found : gc' = [gc EXCEPT !.plan = (@ \ {t}) \cup {[t EXCEPT !.do = "link", !.file = f]}]
       \/ found = {} /\ gc' = Step(t, "drop")
    /\ UNCHANGED <<local, add, drive, faults, exposed>>

Relink(t) ==
    /\ t.do = "link"
    /\ IF Known(t.root)
         THEN refs' = [refs EXCEPT ![t.root] = @ \cup {t.file}] /\ gc' = Step(t, "queue")
         ELSE Done(t) /\ UNCHANGED refs
    /\ UNCHANGED <<row, built, stray, car, aged, intent, dedup, job, net, add, drive, faults, exposed>>

Requeue(t) ==
    /\ t.do = "queue"
    /\ job' = job \cup {t.file}
    /\ gc' = Step(t, "unmark")
    /\ UNCHANGED <<row, built, stray, car, refs, aged, intent, dedup, net, add, drive, faults, exposed>>

DropOrphan(t) ==
    /\ t.do = "drop"
    /\ Remove(t.root)
    /\ gc' = Step(t, "unmark")
    /\ UNCHANGED <<row, built, stray, intent, dedup, job, net, add, drive, faults, exposed>>

ClearMarker(t) ==
    /\ t.do = "unmark"
    /\ intent' = [intent EXCEPT ![t.root] = NoOwner]
    /\ exposed' = exposed \cup Unlinked(t.root)
    /\ add' = [b \in Adder |-> [add[b] EXCEPT !.open = @ \/ (add[b].root = t.root /\ add[b].pc = "marked")]]
    /\ Done(t)
    /\ UNCHANGED <<row, built, stray, car, refs, aged, dedup, job, net, drive, faults>>

\* One task at a time, in the order of the iteration (left open here).
Busy == {t \in gc.plan : t.do \in {"link", "queue", "drop", "unmark"}}
Act  == /\ gc.pc = "act"
        /\ \E t \in IF Busy = {} THEN gc.plan ELSE Busy :
              Prune(t) \/ Reclaim(t) \/ Resolve(t) \/ Relink(t) \/ Requeue(t) \/ DropOrphan(t) \/ ClearMarker(t)
End  == /\ gc.pc = "act" /\ gc.plan = {}
        /\ gc' = NoPass
        /\ UNCHANGED <<local, add, drive, faults, exposed>>
-----------------------------------------------------------------------------
Attaching(a) == \/ \E o \in Owner : AttachBound(a, o) \/ AttachFull(a, o)
                \/ RegisterFails(a) \/ AttachFails(a)
Continue(a)  == Finalize(a) \/ Mark(a) \/ Register(a) \/ Link(a) \/ RecordContent(a) \/ Enqueue(a) \/ Unmark(a)
Drive(f)     == JobIsMoot(f) \/ DriveStart(f) \/ Upload(f) \/ SetNetworkSign(f)
User(f)      == \/ \E here \in BOOLEAN : Delete(f, here)
                \/ UserOffload(f) \/ Read(f) \/ Retry(f)
Collect      == Act \/ End

Next ==
    \/ \E a \in Adder : Attaching(a) \/ Continue(a)
    \/ \E f \in File : Drive(f) \/ DriveFails(f) \/ User(f)
    \/ \E r \in Root : Age(r)
    \/ Sweep \/ FreeUp \/ Collect
    \/ Crash

Spec == Init /\ [][Next]_vars

\* A call of Attach, a job that can run and a pass go on; time passes; the
\* embedder sweeps again and again (Files.GCInterval), whatever FreeUp it asks
\* for in between.
Fairness ==
    /\ \A a \in Adder : WF_vars(Continue(a))
    /\ \A f \in File : WF_vars(Drive(f))
    /\ \A r \in Root : WF_vars(Age(r))
    /\ SF_vars(Sweep) /\ WF_vars(Collect)

FairSpec == Spec /\ Fairness
-----------------------------------------------------------------------------
(***************************************************************************)
(* The only copy of a file is never dropped: as long as a live row has no  *)
(* receipt and the nodes do not hold its content, its bytes are complete   *)
(* on the device that attached it, whatever crashed between the row, the   *)
(* reference, the job and the marker, and whatever the collector had       *)
(* planned (files.md, Local cache).  Rows that lost their guard to another *)
(* attachment of the same content, or their donor before they were linked, *)
(* are set apart: OnlyCopyIsKept is the claim without the exception.  The  *)
(* types, and the lock of a root, come with it.                            *)
(***************************************************************************)
OnlyCopySurvives ==
    /\ TypeOK
    /\ \A f \in File : (Unsigned(f) /\ row[f].root \notin net /\ f \notin exposed)
                          => car[row[f].root] = "complete"

(***************************************************************************)
(* The same of every row, as files.md states it.  Two attachments of one   *)
(* content, or one and the deletion of its donor, violate it.              *)
(***************************************************************************)
OnlyCopyIsKept ==
    \A f \in File : (Unsigned(f) /\ row[f].root \notin net) => car[row[f].root] = "complete"

(***************************************************************************)
(* files.md, Attach and backup: "a crash never leaves an unsigned row that *)
(* GC treats as garbage or the queue forgets".  An unsigned row with its   *)
(* bytes, at rest, has a job, or a marker the sweep will heal, which it    *)
(* does for CARs without a live reference only.                            *)
(***************************************************************************)
NeverForgotten ==
    \A f \in File : (Unsigned(f) /\ car[row[f].root] = "complete" /\ Adding(row[f].root) = {} /\ gc.pc = "idle")
        => \/ f \in job
           \/ intent[row[f].root] # NoOwner /\ \A g \in refs[row[f].root] : ~Live(g)

(***************************************************************************)
(* Rows that share a root share one upload: while nothing failed, no row   *)
(* was deleted and the signed rows are linked, content the nodes hold is   *)
(* not uploaded once more, but its receipt is taken from a sibling         *)
(* (lockRoot, siblingSign).                                                *)
(***************************************************************************)
Undisturbed(r) == /\ faults = 0 /\ exposed = {}
                  /\ \A g \in File : row[g].st # "deleted"
                  /\ \A g \in RowsOf(r) : row[g].signed => g \in refs[r]
ShareOneUpload ==
    [][\A f \in File : (drive[f] = "idle" /\ drive'[f] = "upload" /\ Undisturbed(row[f].root))
                          => row[f].root \notin net]_vars

(***************************************************************************)
(* Nothing the store knows of is left behind: a CAR with a metadata row,   *)
(* without a live row and without an attach under way is deleted in the    *)
(* end, whatever of its marker, references, job and metadata a crash or a  *)
(* failed cleanup left.  A CAR that lost its call before it had a metadata *)
(* row is set apart (stray): no pass sees it.                              *)
(***************************************************************************)
Orphan(r) == Known(r) /\ RowsOf(r) = {} /\ Adding(r) = {}
OrphansGo == \A r \in Root : Orphan(r) ~> ~Orphan(r)

(***************************************************************************)
(* A crash leaves no trace of a build (build.go, Build), files and all.    *)
(* One between the rename and the metadata row does.                       *)
(***************************************************************************)
NoTraceLeft == ~stray

(***************************************************************************)
(* A queued file is backed up, unless it is deleted or its bytes are given *)
(* up through another row: jobs of one root wait for each other and take   *)
(* each other's receipts, and none leaves the queue undone.                *)
(***************************************************************************)
QueuedIsBackedUp ==
    \A f \in File : (f \in job /\ Unsigned(f)) ~> (~Unsigned(f) \/ car[row[f].root] # "complete")

\* Both, under the fairness of the queue's and the collector's loops.
FilesSettle == OrphansGo /\ QueuedIsBackedUp
=============================================================================
