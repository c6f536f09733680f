-------------------------- MODULE GlobalP2P_proofs ---------------------------
(***************************************************************************)
(* Proofs about the internet-wide peers, for any devices, relays, spaces,  *)
(* peers and bounds.  AccountRecord: its type invariant, and that what a   *)
(* device publishes names every sibling of the newest record it has read   *)
(* or written.  GlobalPeers: that the stores follow the records, and that  *)
(* no dial goes to a peer that was connected when the connector looked.    *)
(***************************************************************************)
EXTENDS AccountRecord, GlobalPeers, TLAPS, FiniteSetTheorems, SequenceTheorems

----------------------------------------------------------------------------
(* The inductive invariant.                                                *)

\* The rows a step computes, before the timestamps are renumbered.
PacketOf(P) == [at : P, version : Nat, names : Names]
CycleOf(P)  == [pc : {"idle", "publish", "again", "republish"}, self : 0..MaxDue, after : P]
BaseOf(P)   == [at : P, names : Names]

StampsTyped ==
    /\ held \in [Relay -> PacketOf(Place)]
    /\ cycle \in [Device -> CycleOf(Place)]
    /\ best \in [Device -> BaseOf(Place)]

RestTyped ==
    /\ release \in Releases /\ due \in [Device -> 1..MaxDue]
    /\ last \in [Device -> Names] /\ file \in [Device -> Names]
    /\ old \in [Device -> [Device -> 0..MaxDue]]
    /\ peers \in [Device -> [Device -> {"no", "met", "relay"}]]
    /\ near \in [Device -> SUBSET Device]
    /\ lagging \in SUBSET Device /\ faults \in 0..MaxFaults

\* No entry is ahead of the one its device should have.
Owed(names) == \A e \in Device : names[e] <= due[e]

\* An empty place is NoPacket.
PacketInv ==
    \A r \in Relay : /\ held[r].at = 0 => held[r].version = 0 /\ held[r].names = Nobody
                     /\ Owed(held[r].names)

\* A write has an entry to make, and a second one an answer to go past.
CycleInv ==
    \A d \in Device : /\ cycle[d].self <= due[d]
                      /\ cycle[d].pc # "idle" => cycle[d].self # 0
                      /\ cycle[d].pc = "republish" => cycle[d].after # 0
                      /\ Owed(last[d])

\* The same of a file, and only an entry that is overdue gets too old.
FileInv ==
    \A d \in Device : Owed(file[d]) /\ \A e \in Device : old[d][e] < due[e]

\* Who has not read an older record since has those its newest one named, but
\* for the entries that are too old for it.
BaseInv ==
    \A d \in Device \ lagging : \A e \in Device \ {d} :
        last[d][e] = best[d].names[e] \/ Expired(d, e, best[d].names[e])

AccountInv == StampsTyped /\ RestTyped /\ PacketInv /\ CycleInv /\ FileInv /\ BaseInv

----------------------------------------------------------------------------
(* Sets and their sizes.                                                   *)

\* An image is no larger than what it is the image of.
LEMMA ImageFacts ==
    ASSUME NEW S, IsFiniteSet(S), NEW f
    PROVE  /\ IsFiniteSet({f[x] : x \in S})
           /\ Cardinality({f[x] : x \in S}) <= Cardinality(S)
<1>. DEFINE T == {f[x] : x \in S}
            g == [x \in S |-> f[x]]
<1>1. g \in Surjection(S, T)
  BY DEF Surjection
<1>. QED
  BY <1>1, FS_Surjection

\* A bounded set of numbers has a greatest member: of the sets of what
\* exceeds a member, a smallest one is empty.
LEMMA GreatestExists ==
    ASSUME NEW n \in Nat, NEW S \in SUBSET (0..n), S # {}
    PROVE  \E x \in S : \A y \in S : y <= x
<1>. DEFINE Above(x) == {y \in S : y > x}
            Aboves == {Above(x) : x \in S}
<1>1. IsFiniteSet(S)
  <2>1. IsFiniteSet(0..n)
    BY FS_Interval
  <2>. QED
    BY <2>1, FS_Subset
<1>2. IsWellFoundedOn(StrictSubsetOrdering(S), SUBSET S)
  BY <1>1, FS_StrictSubsetOrderingWellFounded, FS_FiniteSubsetsOfFinite
<1>3. Aboves \subseteq SUBSET S /\ Aboves # {}
  OBVIOUS
<1>4. PICK m \in Aboves : \A a \in Aboves : <<a, m>> \notin StrictSubsetOrdering(S)
  <2>. HIDE DEF Aboves
  <2>. QED
    BY <1>2, <1>3, WFMin
<1>5. PICK x \in S : m = Above(x)
  OBVIOUS
<1>6. Above(x) = {}
  <2>. SUFFICES ASSUME NEW y \in Above(x) PROVE FALSE
    OBVIOUS
  <2>0. y \in S /\ y > x /\ x \in S
    OBVIOUS
  <2>1. Above(y) \in Aboves
    BY <2>0
  <2>2. Above(y) \subseteq Above(x) /\ y \in Above(x) /\ y \notin Above(y)
    <3>1. \A z \in S : z \in Int
      OBVIOUS
    <3>2. \A z \in S : z > y => z > x
      BY <2>0, <3>1
    <3>3. ~(y > y)
      BY <2>0, <3>1
    <3>. QED
      BY <2>0, <3>2, <3>3
  <2>3. <<Above(y), Above(x)>> \in StrictSubsetOrdering(S)
    BY <2>2 DEF StrictSubsetOrdering
  <2>. QED
    BY <1>4, <1>5, <2>1, <2>3
<1>. QED
  BY <1>6

----------------------------------------------------------------------------
(* Timestamps.                                                             *)

LEMMA PlaceFacts ==
    /\ Cardinality(Relay) \in Nat /\ Cardinality(Device) \in Nat
    /\ Place \subseteq Nat /\ 0 \in Place
    /\ Place = 0..(Cardinality(Relay) + 2 * Cardinality(Device))
BY AccountAssumption, FS_CardinalityType DEF Place

\* The packet a cycle reads is one of those held, or none.
LEMMA NewestFacts ==
    ASSUME AccountInv, NEW rs \in SUBSET Relay
    PROVE  /\ Newest(rs) \in PacketOf(Place)
           /\ Newest(rs).at = 0 => Newest(rs).names = Nobody
           /\ Owed(Newest(rs).names)
<1>. DEFINE ps == {held[r] : r \in rs}
            ats == {p.at : p \in ps}
<1>1. CASE ps = {}
  <2>1. Newest(rs) = NoPacket
    BY <1>1 DEF Newest
  <2>2. NoPacket \in PacketOf(Place) /\ NoPacket.names = Nobody
    BY PlaceFacts, AccountAssumption DEF NoPacket, PacketOf, Names, Nobody
  <2>3. Owed(Nobody)
    BY DEF Owed, Nobody, AccountInv, RestTyped
  <2>. QED
    BY <2>1, <2>2, <2>3
<1>2. CASE ps # {}
  <2>1. \A p \in ps : p \in PacketOf(Place)
    BY DEF AccountInv, StampsTyped
  <2>2. ats \in SUBSET (0..(Cardinality(Relay) + 2 * Cardinality(Device))) /\ ats # {}
    BY <1>2, <2>1, PlaceFacts DEF PacketOf
  <2>3. PICK n \in ats : \A m \in ats : m <= n
    <3>1. Cardinality(Relay) + 2 * Cardinality(Device) \in Nat
      BY PlaceFacts
    <3>. HIDE DEF ats
    <3>. QED
      BY <2>2, <3>1, GreatestExists
  <2>4. \E p \in ps : \A q \in ps : q.at <= p.at
    BY <2>3
  <2>5. Newest(rs) \in ps
    BY <1>2, <2>4 DEF Newest
  <2>6. PICK r \in rs : Newest(rs) = held[r]
    BY <2>5
  <2>. QED
    BY <2>6, <2>1, <2>5 DEF AccountInv, PacketInv
<1>. QED
  BY <1>1, <1>2

\* Renumbering keeps an empty place empty and a used one used, and is within
\* as many places as there are timestamps.
LEMMA SettleFacts ==
    ASSUME NEW h \in [Relay -> PacketOf(Nat)], NEW c \in [Device -> CycleOf(Nat)],
           NEW b \in [Device -> BaseOf(Nat)], Settle(h, c, b)
    PROVE  /\ StampsTyped'
           /\ \A r \in Relay : /\ held'[r].at = 0 <=> h[r].at = 0
                               /\ held'[r].version = h[r].version /\ held'[r].names = h[r].names
           /\ \A d \in Device : /\ cycle'[d].pc = c[d].pc /\ cycle'[d].self = c[d].self
                                /\ cycle'[d].after = 0 <=> c[d].after = 0
           /\ \A d \in Device : best'[d].names = b[d].names
<1>. DEFINE H == {h[r].at : r \in Relay}
            C == {c[d].after : d \in Device}
            B == {b[d].at : d \in Device}
            used == H \cup C \cup B
            Before(p) == {q \in used : 0 < q /\ q <= p}
            Where(p) == Cardinality(Before(p))
<1>1. /\ IsFiniteSet(used)
      /\ Cardinality(used) <= Cardinality(Relay) + 2 * Cardinality(Device)
  <2>1. IsFiniteSet(H) /\ Cardinality(H) <= Cardinality(Relay)
    <3>. DEFINE f == [r \in Relay |-> h[r].at]
    <3>1. H = {f[r] : r \in Relay}
      OBVIOUS
    <3>. HIDE DEF f, H
    <3>. QED
      BY <3>1, ImageFacts, AccountAssumption
  <2>2. IsFiniteSet(C) /\ Cardinality(C) <= Cardinality(Device)
    <3>. DEFINE f == [d \in Device |-> c[d].after]
    <3>1. C = {f[d] : d \in Device}
      OBVIOUS
    <3>. HIDE DEF f, C
    <3>. QED
      BY <3>1, ImageFacts, AccountAssumption
  <2>3. IsFiniteSet(B) /\ Cardinality(B) <= Cardinality(Device)
    <3>. DEFINE f == [d \in Device |-> b[d].at]
    <3>1. B = {f[d] : d \in Device}
      OBVIOUS
    <3>. HIDE DEF f, B
    <3>. QED
      BY <3>1, ImageFacts, AccountAssumption
  <2>. HIDE DEF H, C, B
  <2>4. IsFiniteSet(H \cup C) /\ Cardinality(H \cup C) <= Cardinality(H) + Cardinality(C)
    <3>1. IsFiniteSet(H \cup C)
          /\ Cardinality(H \cup C) = Cardinality(H) + Cardinality(C) - Cardinality(H \cap C)
      BY <2>1, <2>2, FS_Union
    <3>2. Cardinality(H) \in Nat /\ Cardinality(C) \in Nat /\ Cardinality(H \cap C) \in Nat
      BY <2>1, <2>2, FS_CardinalityType, FS_Intersection
    <3>. QED
      BY <3>1, <3>2
  <2>5. IsFiniteSet(used) /\ Cardinality(used) <= Cardinality(H \cup C) + Cardinality(B)
    <3>1. IsFiniteSet(used)
          /\ Cardinality(used) = Cardinality(H \cup C) + Cardinality(B) - Cardinality((H \cup C) \cap B)
      BY <2>3, <2>4, FS_Union
    <3>2. Cardinality(H \cup C) \in Nat /\ Cardinality(B) \in Nat /\ Cardinality((H \cup C) \cap B) \in Nat
      BY <2>3, <2>4, FS_CardinalityType, FS_Intersection
    <3>. QED
      BY <3>1, <3>2
  <2>6. /\ Cardinality(H) \in Nat /\ Cardinality(C) \in Nat /\ Cardinality(B) \in Nat
        /\ Cardinality(H \cup C) \in Nat /\ Cardinality(used) \in Nat
    BY <2>1, <2>2, <2>3, <2>4, <2>5, FS_CardinalityType
  <2>. QED
    BY <2>1, <2>2, <2>3, <2>4, <2>5, <2>6, PlaceFacts
<1>2. used \subseteq Nat
  BY DEF PacketOf, CycleOf, BaseOf
<1>3. \A p : IsFiniteSet(Before(p)) /\ Where(p) \in Place
  <2>. SUFFICES ASSUME NEW p PROVE IsFiniteSet(Before(p)) /\ Where(p) \in Place
    OBVIOUS
  <2>1. Before(p) \in SUBSET used
    OBVIOUS
  <2>. HIDE DEF Before, used
  <2>2. IsFiniteSet(Before(p)) /\ Where(p) <= Cardinality(used)
    BY <1>1, <2>1, FS_Subset
  <2>3. Where(p) \in Nat /\ Cardinality(used) \in Nat
    BY <1>1, <2>2, FS_CardinalityType
  <2>. QED
    BY <1>1, <2>2, <2>3, PlaceFacts
<1>4. \A p \in used : Where(p) = 0 <=> p = 0
  <2>. SUFFICES ASSUME NEW p \in used PROVE Where(p) = 0 <=> p = 0
    OBVIOUS
  <2>1. p \in Nat /\ (Before(p) = {} <=> p = 0)
    <3>. HIDE DEF used
    <3>1. p \in Nat
      BY <1>2
    <3>2. ASSUME p = 0 PROVE Before(p) = {}
      <4>1. \A q \in used : ~(0 < q /\ q <= 0)
        BY <1>2
      <4>. QED
        BY <3>2, <4>1
    <3>3. ASSUME p # 0 PROVE p \in Before(p)
      BY <3>1, <3>3
    <3>. QED
      BY <3>1, <3>2, <3>3
  <2>. HIDE DEF Before, used
  <2>. QED
    BY <1>3, <2>1, FS_EmptySet
<1>5. /\ held'  = [r \in Relay |-> [h[r] EXCEPT !.at = Where(@)]]
      /\ cycle' = [d \in Device |-> [c[d] EXCEPT !.after = Where(@)]]
      /\ best'  = [d \in Device |-> [b[d] EXCEPT !.at = Where(@)]]
  BY DEF Settle
<1>6. /\ \A r \in Relay : h[r].at \in used
      /\ \A d \in Device : c[d].after \in used
  OBVIOUS
<1>. HIDE DEF used, Where
<1>7. held' \in [Relay -> PacketOf(Place)]
  BY <1>3, <1>5 DEF PacketOf, Where
<1>8. cycle' \in [Device -> CycleOf(Place)]
  BY <1>3, <1>5 DEF CycleOf, Where
<1>9. best' \in [Device -> BaseOf(Place)]
  BY <1>3, <1>5 DEF BaseOf, Where
<1>10. \A r \in Relay : /\ held'[r].at = 0 <=> h[r].at = 0
                        /\ held'[r].version = h[r].version /\ held'[r].names = h[r].names
  BY <1>4, <1>5, <1>6 DEF PacketOf
<1>11. \A d \in Device : /\ cycle'[d].pc = c[d].pc /\ cycle'[d].self = c[d].self
                         /\ cycle'[d].after = 0 <=> c[d].after = 0
  BY <1>4, <1>5, <1>6 DEF CycleOf
<1>12. \A d \in Device : best'[d].names = b[d].names
  BY <1>5 DEF BaseOf
<1>. QED
  BY <1>7, <1>8, <1>9, <1>10, <1>11, <1>12 DEF StampsTyped
\* Spreading the timestamps leaves everything else.
LEMMA SpreadFacts ==
    ASSUME StampsTyped
    PROVE  /\ Spread(held) \in [Relay -> PacketOf(Nat)]
           /\ \A r \in Relay : /\ Spread(held)[r].at = 0 <=> held[r].at = 0
                               /\ Spread(held)[r].version = held[r].version
                               /\ Spread(held)[r].names = held[r].names
           /\ SpreadCycle \in [Device -> CycleOf(Nat)]
           /\ \A d \in Device : /\ SpreadCycle[d].pc = cycle[d].pc /\ SpreadCycle[d].self = cycle[d].self
                                /\ SpreadCycle[d].after = 0 <=> cycle[d].after = 0
           /\ Spread(best) \in [Device -> BaseOf(Nat)]
           /\ \A d \in Device : Spread(best)[d].names = best[d].names
<1>1. /\ held \in [Relay -> PacketOf(Nat)] /\ cycle \in [Device -> CycleOf(Nat)]
      /\ best \in [Device -> BaseOf(Nat)]
  BY PlaceFacts DEF StampsTyped, PacketOf, CycleOf, BaseOf
<1>2. /\ Spread(held) = [r \in Relay |-> [held[r] EXCEPT !.at = 2 * @]]
      /\ SpreadCycle = [d \in Device |-> [cycle[d] EXCEPT !.after = 2 * @]]
      /\ Spread(best) = [d \in Device |-> [best[d] EXCEPT !.at = 2 * @]]
  BY <1>1 DEF Spread, SpreadCycle
<1>3. /\ Spread(held) \in [Relay -> PacketOf(Nat)]
      /\ \A r \in Relay : /\ Spread(held)[r].at = 0 <=> held[r].at = 0
                          /\ Spread(held)[r].version = held[r].version
                          /\ Spread(held)[r].names = held[r].names
  BY <1>1, <1>2 DEF PacketOf
<1>4. /\ SpreadCycle \in [Device -> CycleOf(Nat)]
      /\ \A d \in Device : /\ SpreadCycle[d].pc = cycle[d].pc /\ SpreadCycle[d].self = cycle[d].self
                           /\ SpreadCycle[d].after = 0 <=> cycle[d].after = 0
  <2>1. ASSUME NEW d \in Device
        PROVE  LET row == [cycle[d] EXCEPT !.after = 2 * @]
               IN  /\ row \in CycleOf(Nat) /\ row.pc = cycle[d].pc /\ row.self = cycle[d].self
                   /\ row.after = 0 <=> cycle[d].after = 0
    <3>1. cycle[d] \in CycleOf(Nat)
      BY <1>1
    <3>. QED
      BY <3>1 DEF CycleOf
  <2>. QED
    BY <1>2, <2>1
<1>5. /\ Spread(best) \in [Device -> BaseOf(Nat)]
      /\ \A d \in Device : Spread(best)[d].names = best[d].names
  BY <1>1, <1>2 DEF BaseOf
<1>. QED
  BY <1>3, <1>4, <1>5

----------------------------------------------------------------------------
(* The steps.                                                              *)

LEMMA Bounds ==
    MaxDue \in Nat \ {0} /\ 0 \in 0..MaxDue /\ Nobody \in Names
BY AccountAssumption DEF Nobody, Names

\* A record read becomes the base.
LEMMA TakeOver ==
    ASSUME AccountInv, NEW d \in Device, NEW p \in PacketOf(Place), Owed(p.names), NEW saved \in BOOLEAN,
           SetLast(d, p, saved), Apply(d, p.names), best' = Best(d, p), UNCHANGED old
    PROVE  /\ last' \in [Device -> Names] /\ \A x \in Device : Owed(last'[x])
           /\ file' \in [Device -> Names] /\ \A x \in Device : Owed(file'[x])
           /\ peers' \in [Device -> [Device -> {"no", "met", "relay"}]]
           /\ near' \in [Device -> SUBSET Device]
           /\ lagging' \in SUBSET Device
           /\ best' \in [Device -> BaseOf(Place)]
           /\ BaseInv'
<1>1. /\ p.at \in Place /\ p.names \in Names
      /\ last \in [Device -> Names] /\ best \in [Device -> BaseOf(Place)]
      /\ lagging \in SUBSET Device
      /\ near \in [Device -> SUBSET Device]
      /\ peers \in [Device -> [Device -> {"no", "met", "relay"}]]
  BY DEF AccountInv, StampsTyped, RestTyped, PacketOf
<1>2. last' \in [Device -> Names] /\ last'[d] = p.names
      /\ \A x \in Device \ {d} : last'[x] = last[x]
  BY <1>1 DEF SetLast
<1>3. \A x \in Device : Owed(last'[x])
  BY <1>2 DEF AccountInv, CycleInv
<1>9. file' \in [Device -> Names] /\ \A x \in Device : Owed(file'[x])
  <2>1. file \in [Device -> Names] /\ \A x \in Device : Owed(file[x])
    BY DEF AccountInv, RestTyped, FileInv
  <2>2. file' = [file EXCEPT ![d] = p.names] \/ file' = file
    BY <2>1 DEF SetLast, Save
  <2>. QED
    BY <1>1, <2>1, <2>2
<1>4. near' \in [Device -> SUBSET Device]
  BY <1>1 DEF Apply, Named
<1>5. peers' \in [Device -> [Device -> {"no", "met", "relay"}]]
  BY <1>1 DEF Apply
<1>6. lagging' \in SUBSET Device
  BY <1>1 DEF SetLast
<1>7. best' \in [Device -> BaseOf(Place)]
  BY <1>1 DEF Best, BaseOf
<1>8. BaseInv'
  <2>. SUFFICES ASSUME NEW x \in Device, x \notin lagging', NEW e \in Device \ {x}
                PROVE  last'[x][e] = best'[x].names[e] \/ Expired(x, e, best'[x].names[e])
    BY DEF BaseInv, Expired
  <2>1. CASE x # d
    <3>1. x \notin lagging /\ best'[x] = best[x] /\ last'[x] = last[x]
      BY <1>1, <1>2, <2>1 DEF SetLast, Best
    <3>. QED
      BY <3>1 DEF AccountInv, BaseInv
  <2>2. CASE x = d
    <3>1. ~ (p.at < best[d].at)
      BY <2>2 DEF SetLast
    <3>2. best'[d].names = p.names
      BY <1>1, <3>1 DEF Best
    <3>. QED
      BY <1>2, <2>2, <3>2
  <2>. QED
    BY <2>1, <2>2
<1>. QED
  BY <1>2, <1>3, <1>4, <1>5, <1>6, <1>7, <1>8, <1>9

LEMMA FaultlessTyped ==
    ASSUME RestTyped, NEW ok, Faultless(ok)
    PROVE  faults' \in 0..MaxFaults
BY AccountAssumption DEF RestTyped, Faultless, Fault

\* Either way the record and the siblings stay as they should be.
LEMMA ReadKeeps ==
    ASSUME AccountInv, NEW d \in Device, NEW rs \in SUBSET Relay, NEW takes \in BOOLEAN,
           NEW saved \in BOOLEAN, UNCHANGED old,
           IF takes THEN /\ SetLast(d, Newest(rs), saved) /\ Apply(d, Newest(rs).names)
                         /\ best' = Best(d, Newest(rs))
           ELSE saved /\ UNCHANGED <<record, siblings>>
    PROVE  /\ last' \in [Device -> Names] /\ \A x \in Device : Owed(last'[x])
           /\ file' \in [Device -> Names] /\ \A x \in Device : Owed(file'[x])
           /\ peers' \in [Device -> [Device -> {"no", "met", "relay"}]]
           /\ near' \in [Device -> SUBSET Device]
           /\ lagging' \in SUBSET Device
           /\ best' \in [Device -> BaseOf(Place)]
           /\ BaseInv'
<1>1. CASE takes
  BY <1>1, TakeOver, NewestFacts
<1>2. CASE ~takes
  <2>1. UNCHANGED <<last, file, best, lagging, peers, near>>
    BY <1>2 DEF record, siblings
  <2>. QED
    BY <2>1 DEF AccountInv, StampsTyped, RestTyped, CycleInv, FileInv, BaseInv, Expired
<1>. QED
  BY <1>1, <1>2

\* The rest of the invariant, where the relays and the entries due are left.
LEMMA Combine ==
    ASSUME AccountInv, UNCHANGED <<release, due, held, old>>, faults' \in 0..MaxFaults,
           last' \in [Device -> Names], \A x \in Device : Owed(last'[x]),
           file' \in [Device -> Names], \A x \in Device : Owed(file'[x]),
           peers' \in [Device -> [Device -> {"no", "met", "relay"}]],
           near' \in [Device -> SUBSET Device],
           lagging' \in SUBSET Device,
           best' \in [Device -> BaseOf(Place)],
           BaseInv',
           cycle' \in [Device -> CycleOf(Place)],
           \A x \in Device : /\ cycle'[x].self <= due[x]
                             /\ cycle'[x].pc # "idle" => cycle'[x].self # 0
                             /\ cycle'[x].pc = "republish" => cycle'[x].after # 0
    PROVE  AccountInv'
<1>1. StampsTyped'
  BY DEF AccountInv, StampsTyped
<1>2. RestTyped'
  BY DEF AccountInv, RestTyped
<1>3. PacketInv'
  BY DEF AccountInv, PacketInv, Owed
<1>4. CycleInv'
  BY DEF CycleInv, Owed
<1>5. FileInv'
  BY DEF AccountInv, FileInv, Owed
<1>. QED
  BY <1>1, <1>2, <1>3, <1>4, <1>5 DEF AccountInv

LEMMA ResolveKeeps ==
    ASSUME AccountInv, NEW d \in Device, NEW heard \in SUBSET Relay, NEW opens \in BOOLEAN,
           NEW saved \in BOOLEAN, Resolve(d, heard, opens, saved)
    PROVE  AccountInv'
<1>. DEFINE p == Newest(heard)
            takes == p.at # 0 /\ opens
<1>1. /\ last' \in [Device -> Names] /\ \A x \in Device : Owed(last'[x])
      /\ file' \in [Device -> Names] /\ \A x \in Device : Owed(file'[x])
      /\ peers' \in [Device -> [Device -> {"no", "met", "relay"}]]
      /\ near' \in [Device -> SUBSET Device]
      /\ lagging' \in SUBSET Device
      /\ best' \in [Device -> BaseOf(Place)]
      /\ BaseInv'
  <2>1. /\ IF takes THEN SetLast(d, p, saved) /\ Apply(d, p.names) /\ best' = Best(d, p)
           ELSE saved /\ UNCHANGED <<record, siblings>>
        /\ UNCHANGED old
    BY DEF Resolve
  <2>2. takes \in BOOLEAN
    OBVIOUS
  <2>. HIDE DEF takes
  <2>. QED
    BY <2>1, <2>2, ReadKeeps
<1>2. UNCHANGED <<release, due, held, old>> /\ faults' \in 0..MaxFaults
  BY FaultlessTyped DEF Resolve, AccountInv
<1>3. \/ cycle' = cycle
      \/ cycle' = [cycle EXCEPT ![d] = [pc |-> "publish", self |-> due[d], after |-> p.at]]
  BY DEF Resolve
<1>4. cycle \in [Device -> CycleOf(Place)] /\ due \in [Device -> 1..MaxDue] /\ p.at \in Place
  BY NewestFacts DEF AccountInv, StampsTyped, RestTyped, PacketOf
<1>. HIDE DEF p
<1>5. cycle' \in [Device -> CycleOf(Place)]
  BY <1>3, <1>4, Bounds DEF CycleOf
<1>6. \A x \in Device : /\ cycle'[x].self <= due[x]
                        /\ cycle'[x].pc # "idle" => cycle'[x].self # 0
                        /\ cycle'[x].pc = "republish" => cycle'[x].after # 0
  BY <1>3, <1>4, Bounds DEF AccountInv, CycleInv
<1>. QED
  BY <1>1, <1>2, <1>5, <1>6, Combine

LEMMA ResolveAgainKeeps ==
    ASSUME AccountInv, NEW d \in Device, NEW heard \in SUBSET Relay, NEW opens \in BOOLEAN,
           NEW saved \in BOOLEAN, ResolveAgain(d, heard, opens, saved)
    PROVE  AccountInv'
<1>. DEFINE p == Newest(heard)
            takes == p.at # 0 /\ opens /\ p.version <= release[d]
<1>1. /\ last' \in [Device -> Names] /\ \A x \in Device : Owed(last'[x])
      /\ file' \in [Device -> Names] /\ \A x \in Device : Owed(file'[x])
      /\ peers' \in [Device -> [Device -> {"no", "met", "relay"}]]
      /\ near' \in [Device -> SUBSET Device]
      /\ lagging' \in SUBSET Device
      /\ best' \in [Device -> BaseOf(Place)]
      /\ BaseInv'
  <2>1. /\ IF takes THEN SetLast(d, p, saved) /\ Apply(d, p.names) /\ best' = Best(d, p)
           ELSE saved /\ UNCHANGED <<record, siblings>>
        /\ UNCHANGED old
    BY DEF ResolveAgain
  <2>2. takes \in BOOLEAN
    OBVIOUS
  <2>. HIDE DEF takes
  <2>. QED
    BY <2>1, <2>2, ReadKeeps
<1>2. UNCHANGED <<release, due, held, old>> /\ faults' \in 0..MaxFaults
  BY FaultlessTyped DEF ResolveAgain, AccountInv
<1>3. /\ cycle[d].pc = "again"
      /\ cycle' = [cycle EXCEPT ![d] =
             IF p.at = 0 THEN Idle ELSE [@ EXCEPT !.pc = "republish", !.after = p.at]]
  BY DEF ResolveAgain
<1>4. cycle \in [Device -> CycleOf(Place)] /\ due \in [Device -> 1..MaxDue] /\ p.at \in Place
  BY NewestFacts DEF AccountInv, StampsTyped, RestTyped, PacketOf
<1>. HIDE DEF p
<1>5. /\ cycle' \in [Device -> CycleOf(Place)]
      /\ \A x \in Device \ {d} : cycle'[x] = cycle[x]
      /\ \/ cycle'[d].pc = "idle" /\ cycle'[d].self = 0
         \/ cycle'[d].self = cycle[d].self /\ cycle'[d].after # 0
  BY <1>3, <1>4, Bounds, PlaceFacts DEF CycleOf, Idle
<1>6. \A x \in Device : /\ cycle'[x].self <= due[x]
                        /\ cycle'[x].pc # "idle" => cycle'[x].self # 0
                        /\ cycle'[x].pc = "republish" => cycle'[x].after # 0
  BY <1>3, <1>4, <1>5, Bounds DEF AccountInv, CycleInv
<1>. QED
  BY <1>1, <1>2, <1>5, <1>6, Combine
\* What a write leaves, whichever relays it reached and answered.
LEMMA PublishFacts ==
    ASSUME AccountInv, NEW d \in Device, NEW reached \in SUBSET Relay, NEW answered \in SUBSET Relay,
           NEW saved \in BOOLEAN, Publish(d, reached, answered, saved)
    PROVE  /\ StampsTyped'
           /\ \A r \in Relay : /\ held'[r].at = 0 => held'[r].version = 0 /\ held'[r].names = Nobody
                               /\ held'[r].names = held[r].names \/ held'[r].names = Merged(d)
           /\ \A x \in Device : /\ cycle'[x].self <= due[x]
                                /\ cycle'[x].pc # "idle" => cycle'[x].self # 0
                                /\ cycle'[x].pc = "republish" => cycle'[x].after # 0
           /\ file' = file \/ file' = [file EXCEPT ![d] = Merged(d)]
           /\ \/ UNCHANGED <<last, lagging>> /\ \A x \in Device : best'[x].names = best[x].names
              \/ /\ last' = [last EXCEPT ![d] = Merged(d)]
                 /\ \A x \in Device \ {d} : best'[x].names = best[x].names
                 /\ \/ lagging' = lagging \ {d} /\ best'[d].names = Merged(d)
                    \/ lagging' = lagging /\ best'[d].names = best[d].names
<1>. DEFINE names == Merged(d)
            packet(at) == [at |-> at, version |-> release[d], names |-> names]
            takers(at) == {r \in reached : 2 * held[r].at < at}
            stored(at) == takers(at) \cap answered # {}
            stale(at) == answered = Relay /\ takers(at) = {}
            h(at) == [r \in Relay |-> IF r \in takers(at) THEN packet(at) ELSE Spread(held)[r]]
            done == [SpreadCycle EXCEPT ![d] = Idle]
            next(at) == [x \in Device |-> [AfterRefusal(d, stale(at))[x] EXCEPT !.after = 2 * @]]
            newer(at) == IF at < 2 * best[d].at THEN Spread(best)
                         ELSE [Spread(best) EXCEPT ![d] = [at |-> at, names |-> names]]
<1>1. PICK at \in Places(cycle[d].after) :
         IF stored(at)
         THEN /\ last' = [last EXCEPT ![d] = names]
              /\ Save(d, names, saved)
              /\ lagging' = IF at < 2 * best[d].at THEN lagging ELSE lagging \ {d}
              /\ Settle(h(at), done, newer(at))
         ELSE UNCHANGED <<last, file, lagging>> /\ Settle(h(at), next(at), Spread(best))
  BY DEF Publish
<1>2. /\ StampsTyped /\ RestTyped /\ PacketInv /\ CycleInv
      /\ release[d] \in Nat /\ cycle[d] \in CycleOf(Place) /\ last[d] \in Names
  BY AccountAssumption DEF AccountInv, StampsTyped, RestTyped
<1>3. at \in Nat /\ at # 0
  BY PlaceFacts DEF Places
<1>4. names \in Names
  BY <1>2, Bounds DEF Merged, CycleOf, Names
<1>. HIDE DEF names
<1>17. file' = file \/ file' = [file EXCEPT ![d] = names]
  <2>1. file \in [Device -> Names]
    BY <1>2 DEF RestTyped
  <2>2. file' = [file EXCEPT ![d] = IF saved THEN names ELSE file[d]] \/ file' = file
    BY <1>1 DEF Save
  <2>. QED
    BY <2>1, <2>2
<1>5. /\ h(at) \in [Relay -> PacketOf(Nat)]
      /\ \A r \in Relay : \/ h(at)[r].at # 0 /\ h(at)[r].names = names
                          \/ /\ h(at)[r].at = 0 <=> held[r].at = 0
                             /\ h(at)[r].version = held[r].version /\ h(at)[r].names = held[r].names
  <2>1. packet(at) \in PacketOf(Nat) /\ packet(at).at # 0 /\ packet(at).names = names
    BY <1>2, <1>3, <1>4 DEF PacketOf
  <2>. HIDE DEF packet, takers
  <2>. QED
    BY <1>2, <2>1, SpreadFacts
<1>6. /\ done \in [Device -> CycleOf(Nat)] /\ done[d] = Idle
      /\ \A x \in Device \ {d} : /\ done[x].pc = cycle[x].pc /\ done[x].self = cycle[x].self
                                 /\ done[x].after = 0 <=> cycle[x].after = 0
  <2>1. Idle \in CycleOf(Nat)
    BY Bounds DEF Idle, CycleOf
  <2>. QED
    BY <1>2, <2>1, SpreadFacts
<1>7. AfterRefusal(d, stale(at)) \in [Device -> CycleOf(Place)]
  BY <1>2, Bounds, PlaceFacts DEF AfterRefusal, StampsTyped, CycleOf, Idle
<1>8. \A x \in Device : LET row == AfterRefusal(d, stale(at))[x]
                        IN  \/ row = cycle[x]
                            \/ row = Idle
                            \/ row.pc = "again" /\ row.self = cycle[x].self /\ cycle[x].pc # "idle"
  BY <1>2 DEF AfterRefusal, StampsTyped, CycleOf
<1>9. /\ next(at) \in [Device -> CycleOf(Nat)]
      /\ \A x \in Device : LET row == AfterRefusal(d, stale(at))[x]
                           IN  /\ next(at)[x].pc = row.pc /\ next(at)[x].self = row.self
                               /\ next(at)[x].after = 0 <=> row.after = 0
  <2>. HIDE DEF stale
  <2>1. ASSUME NEW x \in Device
        PROVE  LET row == AfterRefusal(d, stale(at))[x]
                   sp == [row EXCEPT !.after = 2 * @]
               IN  /\ sp \in CycleOf(Nat) /\ sp.pc = row.pc /\ sp.self = row.self
                   /\ sp.after = 0 <=> row.after = 0
    <3>. DEFINE row == AfterRefusal(d, stale(at))[x]
    <3>1. row \in CycleOf(Nat)
      BY <1>7, PlaceFacts DEF CycleOf
    <3>. HIDE DEF row
    <3>2. LET sp == [row EXCEPT !.after = 2 * @]
          IN  /\ sp \in CycleOf(Nat) /\ sp.pc = row.pc /\ sp.self = row.self
              /\ sp.after = 0 <=> row.after = 0
      BY <3>1 DEF CycleOf
    <3>. QED
      BY <3>2 DEF row
  <2>. QED
    BY <2>1
<1>10. /\ newer(at) \in [Device -> BaseOf(Nat)]
       /\ \A x \in Device \ {d} : newer(at)[x].names = best[x].names
       /\ IF at < 2 * best[d].at THEN newer(at)[d].names = best[d].names
          ELSE newer(at)[d].names = names
  <2>1. [at |-> at, names |-> names] \in BaseOf(Nat)
    BY <1>3, <1>4 DEF BaseOf
  <2>. QED
    BY <1>2, <2>1, SpreadFacts
<1>11. Spread(best) \in [Device -> BaseOf(Nat)] /\ \A x \in Device : Spread(best)[x].names = best[x].names
  BY <1>2, SpreadFacts
<1>12. \A x \in Device : /\ cycle[x].self <= due[x]
                         /\ cycle[x].pc # "idle" => cycle[x].self # 0
                         /\ cycle[x].pc = "republish" => cycle[x].after # 0
                         /\ 0 <= due[x]
  BY <1>2 DEF CycleInv, RestTyped
<1>13. \A r \in Relay : held[r].at = 0 => held[r].version = 0 /\ held[r].names = Nobody
  BY <1>2 DEF PacketInv
<1>14. Idle.pc = "idle" /\ Idle.self = 0
  BY DEF Idle
<1>. HIDE DEF h, done, next, newer
<1>15. CASE stored(at)
  <2>1. /\ last' = [last EXCEPT ![d] = names]
        /\ lagging' = IF at < 2 * best[d].at THEN lagging ELSE lagging \ {d}
        /\ Settle(h(at), done, newer(at))
    BY <1>1, <1>15
  <2>2. /\ StampsTyped'
        /\ \A r \in Relay : /\ held'[r].at = 0 <=> h(at)[r].at = 0
                            /\ held'[r].version = h(at)[r].version /\ held'[r].names = h(at)[r].names
        /\ \A x \in Device : /\ cycle'[x].pc = done[x].pc /\ cycle'[x].self = done[x].self
                             /\ cycle'[x].after = 0 <=> done[x].after = 0
        /\ \A x \in Device : best'[x].names = newer(at)[x].names
    BY <1>5, <1>6, <1>10, <2>1, SettleFacts
  <2>3. \A r \in Relay : /\ held'[r].at = 0 => held'[r].version = 0 /\ held'[r].names = Nobody
                         /\ held'[r].names = held[r].names \/ held'[r].names = names
    BY <1>5, <1>13, <2>2
  <2>4. \A x \in Device : /\ cycle'[x].self <= due[x]
                          /\ cycle'[x].pc # "idle" => cycle'[x].self # 0
                          /\ cycle'[x].pc = "republish" => cycle'[x].after # 0
    BY <1>6, <1>12, <1>14, <2>2
  <2>5. /\ last' = [last EXCEPT ![d] = names]
        /\ \A x \in Device \ {d} : best'[x].names = best[x].names
        /\ \/ lagging' = lagging \ {d} /\ best'[d].names = names
           \/ lagging' = lagging /\ best'[d].names = best[d].names
    BY <1>10, <2>1, <2>2
  <2>. QED
    BY <1>17, <2>2, <2>3, <2>4, <2>5 DEF names
<1>16. CASE ~stored(at)
  <2>1. UNCHANGED <<last, lagging>> /\ Settle(h(at), next(at), Spread(best))
    BY <1>1, <1>16
  <2>2. /\ StampsTyped'
        /\ \A r \in Relay : /\ held'[r].at = 0 <=> h(at)[r].at = 0
                            /\ held'[r].version = h(at)[r].version /\ held'[r].names = h(at)[r].names
        /\ \A x \in Device : /\ cycle'[x].pc = next(at)[x].pc /\ cycle'[x].self = next(at)[x].self
                             /\ cycle'[x].after = 0 <=> next(at)[x].after = 0
        /\ \A x \in Device : best'[x].names = Spread(best)[x].names
    BY <1>5, <1>9, <1>11, <2>1, SettleFacts
  <2>3. \A r \in Relay : /\ held'[r].at = 0 => held'[r].version = 0 /\ held'[r].names = Nobody
                         /\ held'[r].names = held[r].names \/ held'[r].names = names
    BY <1>5, <1>13, <2>2
  <2>4. \A x \in Device : /\ cycle'[x].self <= due[x]
                          /\ cycle'[x].pc # "idle" => cycle'[x].self # 0
                          /\ cycle'[x].pc = "republish" => cycle'[x].after # 0
    BY <1>8, <1>9, <1>12, <1>14, <2>2
  <2>. QED
    BY <1>11, <1>17, <2>1, <2>2, <2>3, <2>4 DEF names
<1>. QED
  BY <1>15, <1>16

LEMMA PublishKeeps ==
    ASSUME AccountInv, NEW d \in Device, NEW reached \in SUBSET Relay, NEW answered \in SUBSET Relay,
           NEW saved \in BOOLEAN, Publish(d, reached, answered, saved)
    PROVE  AccountInv'
<1>1. UNCHANGED <<release, due, old, peers, near>> /\ faults' \in 0..MaxFaults
  BY FaultlessTyped DEF Publish, siblings, AccountInv
<1>2. /\ Merged(d) \in Names /\ Owed(Merged(d))
      /\ \A e \in Device \ {d} : \/ Merged(d)[e] = last[d][e]
                                 \/ Merged(d)[e] = 0 /\ Expired(d, e, last[d][e])
  <2>1. /\ \A e \in Device : due[e] \in 1..MaxDue
        /\ cycle[d].self \in 0..MaxDue /\ cycle[d].self # 0 /\ cycle[d].self <= due[d]
        /\ last[d] \in Names /\ Owed(last[d])
    BY DEF Publish, AccountInv, StampsTyped, RestTyped, CycleInv, CycleOf
  <2>. QED
    BY <2>1, Bounds DEF Merged, Named, Names, Owed
<1>3. /\ last \in [Device -> Names] /\ lagging \in SUBSET Device /\ BaseInv
      /\ \A x \in Device : Owed(last[x])
      /\ \A r \in Relay : Owed(held[r].names)
      /\ file \in [Device -> Names] /\ \A x \in Device : Owed(file[x])
  BY DEF AccountInv, RestTyped, CycleInv, PacketInv, FileInv
<1>12. \/ UNCHANGED <<last, lagging>> /\ \A x \in Device : best'[x].names = best[x].names
       \/ /\ last' = [last EXCEPT ![d] = Merged(d)]
          /\ \A x \in Device \ {d} : best'[x].names = best[x].names
          /\ \/ lagging' = lagging \ {d} /\ best'[d].names = Merged(d)
             \/ lagging' = lagging /\ best'[d].names = best[d].names
  BY PublishFacts
<1>4. last' \in [Device -> Names] /\ lagging' \in SUBSET Device /\ \A x \in Device : Owed(last'[x])
  <2>1. UNCHANGED <<last, lagging>> \/ (/\ last' = [last EXCEPT ![d] = Merged(d)]
                                       /\ lagging' \in {lagging, lagging \ {d}})
    BY <1>12
  <2>. QED
    BY <1>2, <1>3, <2>1
<1>10. file' \in [Device -> Names] /\ \A x \in Device : Owed(file'[x])
  <2>1. file' = file \/ file' = [file EXCEPT ![d] = Merged(d)]
    BY PublishFacts
  <2>. QED
    BY <1>2, <1>3, <2>1
<1>11. FileInv'
  BY <1>1, <1>10 DEF AccountInv, FileInv, Owed
<1>5. StampsTyped'
  BY PublishFacts
<1>6. RestTyped'
  BY <1>1, <1>4, <1>10 DEF AccountInv, RestTyped
<1>7. PacketInv'
  <2>1. \A r \in Relay : /\ held'[r].at = 0 => held'[r].version = 0 /\ held'[r].names = Nobody
                         /\ Owed(held'[r].names)
    BY <1>2, <1>3, PublishFacts
  <2>. QED
    BY <1>1, <2>1 DEF PacketInv, Owed
<1>8. CycleInv'
  <2>1. \A x \in Device : /\ cycle'[x].self <= due[x]
                          /\ cycle'[x].pc # "idle" => cycle'[x].self # 0
                          /\ cycle'[x].pc = "republish" => cycle'[x].after # 0
    BY PublishFacts
  <2>. QED
    BY <1>1, <1>4, <2>1 DEF CycleInv, Owed
<1>9. BaseInv'
  <2>. SUFFICES ASSUME NEW x \in Device, x \notin lagging', NEW e \in Device \ {x}
                PROVE  last'[x][e] = best'[x].names[e] \/ Expired(x, e, best'[x].names[e])
    BY <1>1 DEF BaseInv, Expired
  <2>0. x \notin lagging => last[x][e] = best[x].names[e] \/ Expired(x, e, best[x].names[e])
    BY <1>3 DEF BaseInv
  <2>1. CASE UNCHANGED <<last, lagging>> /\ \A y \in Device : best'[y].names = best[y].names
    BY <2>0, <2>1
  <2>2. CASE /\ last' = [last EXCEPT ![d] = Merged(d)]
             /\ \A y \in Device \ {d} : best'[y].names = best[y].names
             /\ \/ lagging' = lagging \ {d} /\ best'[d].names = Merged(d)
                \/ lagging' = lagging /\ best'[d].names = best[d].names
    <3>1. CASE x # d
      BY <1>3, <2>0, <2>2, <3>1
    <3>2. CASE x = d /\ lagging' = lagging \ {d} /\ best'[d].names = Merged(d)
      BY <1>3, <2>2, <3>2
    <3>3. CASE x = d /\ lagging' = lagging /\ best'[d].names = best[d].names
      <4>1. last'[x] = Merged(d)
        BY <1>3, <2>2, <3>3
      <4>2. Merged(d)[e] = last[d][e] \/ (Merged(d)[e] = 0 /\ Expired(d, e, last[d][e]))
        BY <1>2, <3>3
      <4>. QED
        BY <2>0, <3>3, <4>1, <4>2
    <3>. QED
      BY <2>2, <3>1, <3>2, <3>3
  <2>. QED
    BY <1>12, <2>1, <2>2
<1>. QED
  BY <1>5, <1>6, <1>7, <1>8, <1>9, <1>11 DEF AccountInv

LEMMA OutOfDateKeeps ==
    ASSUME AccountInv, NEW d \in Device, OutOfDate(d)
    PROVE  AccountInv'
<1>1. /\ UNCHANGED <<release, held, last, file, old, best, lagging, cycle, peers, near, faults>>
      /\ due' \in [Device -> 1..MaxDue] /\ \A e \in Device : due[e] <= due'[e]
      /\ due \in [Device -> 1..MaxDue] /\ StampsTyped /\ last \in [Device -> Names]
  BY Bounds DEF OutOfDate, record, siblings, AccountInv, RestTyped
<1>2. StampsTyped' /\ RestTyped' /\ BaseInv'
  BY <1>1 DEF AccountInv, StampsTyped, RestTyped, BaseInv, Expired
<1>3. ASSUME NEW names \in Names, Owed(names)
      PROVE  \A e \in Device : names[e] <= due'[e]
  BY <1>1, <1>3, Bounds DEF Owed, Names
<1>4. \A r \in Relay : held[r].names \in Names
  BY <1>1 DEF StampsTyped, PacketOf
<1>5. PacketInv'
  BY <1>1, <1>3, <1>4 DEF AccountInv, PacketInv, Owed
<1>6. \A x \in Device : cycle[x].self \in Nat /\ due[x] \in Nat /\ due'[x] \in Nat
  BY <1>1, Bounds DEF StampsTyped, CycleOf
<1>7. CycleInv'
  BY <1>1, <1>3, <1>6 DEF AccountInv, CycleInv, Owed
<1>8. FileInv'
  <2>1. \A x, e \in Device : old[x][e] \in Nat /\ old[x][e] < due[e]
    BY Bounds DEF AccountInv, RestTyped, FileInv
  <2>2. \A x, e \in Device : old'[x][e] < due'[e]
    BY <1>1, <1>6, <2>1
  <2>3. \A x \in Device : file[x] \in Names /\ Owed(file[x])
    BY DEF AccountInv, RestTyped, FileInv
  <2>. QED
    BY <1>1, <1>3, <2>2, <2>3 DEF FileInv, Owed
<1>. QED
  BY <1>2, <1>5, <1>7, <1>8 DEF AccountInv

LEMMA GrowOldKeeps ==
    ASSUME AccountInv, NEW d \in Device, NEW e \in Device, GrowOld(d, e)
    PROVE  AccountInv'
<1>1. /\ UNCHANGED <<release, due, held, last, file, best, lagging, cycle, peers, near, faults>>
      /\ old[d][e] < due[e] - 1 /\ old' = [old EXCEPT ![d][e] = due[e] - 1]
  BY DEF GrowOld, record, siblings
<1>2. /\ due[e] \in 1..MaxDue /\ old \in [Device -> [Device -> 0..MaxDue]]
      /\ \A x, y \in Device : old[x][y] < due[y] /\ due[y] \in Nat /\ old[x][y] \in Nat
  BY Bounds DEF AccountInv, RestTyped, FileInv
<1>3. /\ due[e] - 1 \in 0..MaxDue /\ due[e] - 1 < due[e]
  BY <1>2, Bounds
<1>4. old' \in [Device -> [Device -> 0..MaxDue]]
  BY <1>1, <1>2, <1>3
<1>5. \A x, y \in Device : old[x][y] <= old'[x][y] /\ old'[x][y] < due[y]
  BY <1>1, <1>2, <1>3
<1>6. StampsTyped' /\ RestTyped' /\ PacketInv' /\ CycleInv'
  BY <1>1, <1>4 DEF AccountInv, StampsTyped, RestTyped, PacketInv, CycleInv, Owed
<1>7. FileInv'
  BY <1>1, <1>5 DEF AccountInv, FileInv, Owed
<1>8. BaseInv'
  <2>1. \A x, y \in Device : best[x].names[y] \in Nat
    BY Bounds DEF AccountInv, StampsTyped, BaseOf, Names
  <2>2. \A x, y \in Device : old'[x][y] \in Nat /\ old[x][y] \in Nat
    BY <1>4, Bounds, <1>2
  <2>3. ASSUME NEW x \in Device, NEW y \in Device
        PROVE  Expired(x, y, best[x].names[y]) => Expired(x, y, best[x].names[y])'
    <3>1. best[x].names[y] <= old[x][y] => best[x].names[y] <= old'[x][y]
      BY <1>5, <2>1, <2>2
    <3>. QED
      BY <1>1, <3>1 DEF Expired
  <2>4. BaseInv
    BY DEF AccountInv
  <2>. QED
    BY <1>1, <2>3, <2>4 DEF BaseInv
<1>. QED
  BY <1>6, <1>7, <1>8 DEF AccountInv

LEMMA SiblingKeeps ==
    ASSUME AccountInv, NEW d \in Device, NEW e \in Device,
           Handshake(d, e) \/ FallSilent(d, e)
    PROVE  AccountInv'
<1>1. UNCHANGED <<release, due, held, last, file, old, best, lagging, cycle, faults>>
  BY DEF Handshake, FallSilent, record
<1>2. /\ peers \in [Device -> [Device -> {"no", "met", "relay"}]]
      /\ near \in [Device -> SUBSET Device]
  BY DEF AccountInv, RestTyped
<1>3. near' \in [Device -> SUBSET Device]
  BY <1>2 DEF Handshake, FallSilent
<1>4. peers' \in [Device -> [Device -> {"no", "met", "relay"}]]
  <2>1. CASE FallSilent(d, e)
    BY <1>2, <2>1 DEF FallSilent
  <2>2. CASE Handshake(d, e)
    <3>. DEFINE known == IF peers[d][e] = "no" THEN "met" ELSE peers[d][e]
    <3>1. peers' = [peers EXCEPT ![d] = [peers[d] EXCEPT ![e] = known]]
      BY <2>2 DEF Handshake
    <3>2. known \in {"no", "met", "relay"} /\ peers[d] \in [Device -> {"no", "met", "relay"}]
      BY <1>2
    <3>. HIDE DEF known
    <3>3. [peers[d] EXCEPT ![e] = known] \in [Device -> {"no", "met", "relay"}]
      BY <3>2
    <3>. QED
      BY <1>2, <3>1, <3>3
  <2>. QED
    BY <2>1, <2>2
<1>. QED
  BY <1>1, <1>3, <1>4 DEF AccountInv, StampsTyped, RestTyped, PacketInv, CycleInv, FileInv, BaseInv,
                          Expired, Owed

LEMMA WipeKeeps ==
    ASSUME AccountInv, NEW r \in Relay, Wipe(r)
    PROVE  AccountInv'
<1>1. /\ UNCHANGED <<release, due, last, file, old, best, lagging, cycle, peers, near>>
      /\ held' = [held EXCEPT ![r] = NoPacket]
  BY DEF Wipe, record, siblings
<1>2. faults' \in 0..MaxFaults
  BY AccountAssumption DEF Wipe, Fault, AccountInv, RestTyped
<1>3. /\ NoPacket \in PacketOf(Place) /\ NoPacket.names = Nobody /\ NoPacket.version = 0
      /\ Owed(Nobody)
  BY PlaceFacts, Bounds DEF NoPacket, PacketOf, Owed, Nobody, AccountInv, RestTyped
<1>4. StampsTyped'
  BY <1>1, <1>3 DEF AccountInv, StampsTyped
<1>5. RestTyped' /\ CycleInv' /\ FileInv' /\ BaseInv'
  BY <1>1, <1>2 DEF AccountInv, RestTyped, CycleInv, FileInv, BaseInv, Expired, Owed
<1>6. PacketInv'
  BY <1>1, <1>3 DEF AccountInv, StampsTyped, PacketInv, Owed
<1>. QED
  BY <1>4, <1>5, <1>6 DEF AccountInv

LEMMA RestartKeeps ==
    ASSUME AccountInv, NEW d \in Device, NEW kept \in BOOLEAN, Restart(d, kept)
    PROVE  AccountInv'
<1>. DEFINE found == LoadRecord(d, kept)
<1>1. /\ UNCHANGED <<release, due, held, file, old>>
      /\ cycle' = [cycle EXCEPT ![d] = Idle]
      /\ last' = [last EXCEPT ![d] = found]
      /\ \/ /\ found = last[d] \/ d \in lagging'
            /\ UNCHANGED best /\ lagging' \in {lagging, lagging \cup {d}}
         \/ /\ best' = [best EXCEPT ![d] = [at |-> 0, names |-> Nobody]]
            /\ lagging' = lagging \ {d} /\ found = Nobody
      /\ peers' = [peers EXCEPT ![d] = [e \in Device |-> IF e \in Named(d, found) THEN "relay" ELSE "no"]]
      /\ near' = [near EXCEPT ![d] = {e \in Named(d, found) : found[e] = due[e]}]
  BY DEF Restart, LoadRecord
<1>2. faults' \in 0..MaxFaults
  BY AccountAssumption DEF Restart, Fault, AccountInv, RestTyped
<1>3. found \in Names /\ Owed(found)
  BY Bounds DEF LoadRecord, AccountInv, RestTyped, FileInv, Owed, Nobody
<1>4. Idle \in CycleOf(Place) /\ Idle.pc = "idle" /\ Idle.self = 0
  BY Bounds, PlaceFacts DEF Idle, CycleOf
<1>5. [at |-> 0, names |-> Nobody] \in BaseOf(Place)
  BY Bounds, PlaceFacts DEF BaseOf
<1>6. /\ StampsTyped /\ due \in [Device -> 1..MaxDue] /\ last \in [Device -> Names]
      /\ peers \in [Device -> [Device -> {"no", "met", "relay"}]]
      /\ near \in [Device -> SUBSET Device] /\ lagging \in SUBSET Device /\ BaseInv
  BY DEF AccountInv, RestTyped
<1>. HIDE DEF found
<1>7. StampsTyped'
  BY <1>1, <1>4, <1>5, <1>6 DEF StampsTyped
<1>8. RestTyped'
  <2>1. last' \in [Device -> Names] /\ near' \in [Device -> SUBSET Device] /\ lagging' \in SUBSET Device
    BY <1>1, <1>3, <1>6 DEF Named
  <2>2. peers' \in [Device -> [Device -> {"no", "met", "relay"}]]
    BY <1>1, <1>6
  <2>. QED
    BY <1>1, <1>2, <2>1, <2>2 DEF AccountInv, RestTyped
<1>9. PacketInv'
  BY <1>1 DEF AccountInv, PacketInv, Owed
<1>10. CycleInv'
  BY <1>1, <1>3, <1>4, <1>6, Bounds DEF AccountInv, StampsTyped, CycleInv, Owed
<1>11. BaseInv'
  <2>1. CASE /\ found = last[d] \/ d \in lagging'
             /\ UNCHANGED best /\ lagging' \in {lagging, lagging \cup {d}}
    BY <1>1, <1>6, <2>1 DEF BaseInv, Expired
  <2>2. CASE /\ best' = [best EXCEPT ![d] = [at |-> 0, names |-> Nobody]]
             /\ lagging' = lagging \ {d} /\ found = Nobody
    BY <1>1, <1>6, <2>2 DEF BaseInv, Expired, StampsTyped
  <2>. QED
    BY <1>1, <2>1, <2>2
<1>12. FileInv'
  BY <1>1 DEF AccountInv, FileInv, Owed
<1>. QED
  BY <1>7, <1>8, <1>9, <1>10, <1>11, <1>12 DEF AccountInv

LEMMA StepKeeps == AccountInv /\ [Next]_vars => AccountInv'
<1>. SUFFICES ASSUME AccountInv, [Next]_vars PROVE AccountInv'
  OBVIOUS
<1>1. CASE UNCHANGED vars
  BY <1>1 DEF vars, AccountInv, StampsTyped, RestTyped, PacketInv, CycleInv, FileInv, BaseInv, Expired, Owed
<1>2. CASE \E d \in Device : Cycle(d)
  BY <1>2, ResolveKeeps, ResolveAgainKeeps, PublishKeeps DEF Cycle
<1>3. CASE \E d \in Device : OutOfDate(d) \/ \E kept \in BOOLEAN : Restart(d, kept)
  BY <1>3, OutOfDateKeeps, RestartKeeps
<1>4. CASE \E d, e \in Device : GrowOld(d, e) \/ Handshake(d, e) \/ FallSilent(d, e)
  BY <1>4, GrowOldKeeps, SiblingKeeps
<1>5. CASE \E r \in Relay : Wipe(r)
  BY <1>5, WipeKeeps
<1>. QED
  BY <1>1, <1>2, <1>3, <1>4, <1>5 DEF Next

LEMMA InitHolds == Init => AccountInv
<1>. SUFFICES ASSUME Init PROVE AccountInv
  OBVIOUS
<1>1. /\ NoPacket \in PacketOf(Place) /\ NoPacket.at = 0 /\ NoPacket.version = 0
      /\ NoPacket.names = Nobody
  BY PlaceFacts, Bounds DEF NoPacket, PacketOf
<1>2. Idle \in CycleOf(Place) /\ Idle.pc = "idle" /\ Idle.self = 0
  BY Bounds, PlaceFacts DEF Idle, CycleOf
<1>3. [at |-> 0, names |-> Nobody] \in BaseOf(Place)
  BY Bounds, PlaceFacts DEF BaseOf
<1>4. due = [d \in Device |-> 1] /\ Owed(Nobody)
  BY DEF Init, Owed, Nobody
<1>5. StampsTyped
  BY <1>1, <1>2, <1>3 DEF Init, StampsTyped
<1>6. RestTyped
  <2>1. /\ release \in Releases /\ due = [d \in Device |-> 1]
        /\ last = [d \in Device |-> Nobody] /\ file = last
        /\ old = [d \in Device |-> Nobody]
        /\ peers = [d \in Device |-> [e \in Device |-> "no"]]
        /\ near = [d \in Device |-> {}] /\ lagging = {} /\ faults = 0
    BY DEF Init
  <2>2. 1 \in 1..MaxDue /\ 0 \in 0..MaxFaults /\ Nobody \in [Device -> 0..MaxDue]
    BY Bounds, AccountAssumption DEF Names
  <2>. QED
    BY <2>1, <2>2, Bounds DEF RestTyped
<1>7. PacketInv
  BY <1>1, <1>4 DEF Init, PacketInv
<1>8. CycleInv
  BY <1>2, <1>4 DEF Init, CycleInv
<1>9. BaseInv
  BY DEF Init, BaseInv
<1>10. FileInv
  BY <1>4 DEF Init, FileInv, Nobody
<1>. QED
  BY <1>5, <1>6, <1>7, <1>8, <1>9, <1>10 DEF AccountInv

LEMMA Inductive == Spec => []AccountInv
BY InitHolds, StepKeeps, PTL DEF Spec

----------------------------------------------------------------------------
(* The theorems.                                                           *)

LEMMA InvImpliesType == AccountInv => TypeOK
<1>. SUFFICES ASSUME AccountInv PROVE TypeOK
  OBVIOUS
<1>1. StampsTyped /\ RestTyped /\ PacketInv /\ CycleInv /\ FileInv
  BY DEF AccountInv
<1>2. \A r \in Relay : /\ held[r].at \in Place /\ held[r].names \in Names
                       /\ held[r].at = 0 <=> held[r] = NoPacket
  <2>. SUFFICES ASSUME NEW r \in Relay
                PROVE  /\ held[r].at \in Place /\ held[r].names \in Names
                       /\ held[r].at = 0 <=> held[r] = NoPacket
    OBVIOUS
  <2>1. held[r] \in PacketOf(Place)
    BY <1>1 DEF StampsTyped
  <2>2. held[r].at = 0 => held[r].version = 0 /\ held[r].names = Nobody
    BY <1>1 DEF PacketInv
  <2>. QED
    BY <2>1, <2>2 DEF PacketOf, NoPacket
<1>3. \A d \in Device : /\ cycle[d].pc \in {"idle", "publish", "again", "republish"}
                        /\ cycle[d].after \in Place /\ cycle[d].self \in 0..due[d]
                        /\ cycle[d].pc = "republish" => cycle[d].after # 0
                        /\ \A e \in Device : last[d][e] <= due[e] /\ file[d][e] <= due[e]
  <2>. SUFFICES ASSUME NEW d \in Device
                PROVE  /\ cycle[d].pc \in {"idle", "publish", "again", "republish"}
                       /\ cycle[d].after \in Place /\ cycle[d].self \in 0..due[d]
                       /\ cycle[d].pc = "republish" => cycle[d].after # 0
                       /\ \A e \in Device : last[d][e] <= due[e] /\ file[d][e] <= due[e]
    OBVIOUS
  <2>1. cycle[d] \in CycleOf(Place) /\ due[d] \in 1..MaxDue
    BY <1>1 DEF StampsTyped, RestTyped
  <2>. QED
    BY <1>1, <2>1, Bounds DEF CycleOf, CycleInv, FileInv, Owed
<1>4. \A d \in Device : best[d].at \in Place /\ best[d].names \in Names
  BY <1>1 DEF StampsTyped, BaseOf
<1>5. \A d, e \in Device : old[d][e] \in 0..(due[e] - 1)
  <2>1. \A d, e \in Device : /\ old[d][e] \in Nat /\ due[e] \in Nat /\ old[d][e] < due[e]
    BY <1>1, Bounds DEF RestTyped, FileInv
  <2>. QED
    BY <2>1
<1>. QED
  BY <1>1, <1>2, <1>3, <1>4, <1>5 DEF TypeOK, RestTyped

\* The types: a place for every timestamp in use, an empty place for a relay
\* that holds nothing, no entry ahead of its device's, and a second write only
\* past an answer (SealAt), for any devices, relays and releases.
THEOREM TypeCorrect == Spec => []TypeOK
BY Inductive, InvImpliesType, PTL

\* No write of a device drops a sibling of the newest record the device has
\* read or written, unless the sibling's entry is too old for it (Merge:
\* MaxAge).  Devices that have read an older record since, or began again from
\* a file a failed save left behind (lagging), are excepted: BaseIsNewest is
\* the claim for them, which fails.
THEOREM SiblingsKept == Spec => SiblingsAreKept
<1>. DEFINE Kept == \A d \in Device \ lagging : Publishes(d) => KeepsSiblings(d)
<1>1. AccountInv => Kept
  <2>. SUFFICES ASSUME AccountInv, NEW d \in Device \ lagging, Publishes(d),
                       NEW e \in Device, best[d].names[e] # 0, ~Expired(d, e, best[d].names[e])
                PROVE  Merged(d)[e] # 0
    BY DEF KeepsSiblings
  <2>1. cycle[d].pc \in {"publish", "republish"}
    BY DEF Publishes
  <2>2. cycle[d].self # 0
    BY <2>1 DEF AccountInv, CycleInv
  <2>3. e # d => last[d][e] = best[d].names[e]
    BY DEF AccountInv, BaseInv
  <2>. QED
    BY <2>2, <2>3 DEF Merged, Named
<1>2. AccountInv /\ [Next]_vars => [Kept]_vars
  BY <1>1
<1>. QED
  BY Inductive, <1>2, PTL DEF Spec, SiblingsAreKept

----------------------------------------------------------------------------
(* GlobalPeers.  The goroutines that fold a peer's records into the stores *)
(* interleave: what makes the stores true in the end is that a recompute   *)
(* which believes itself alone is (Alone), that what it has read is still  *)
(* so or will be read again (Latest), and that a peer nobody is at and     *)
(* nobody waits for is in the stores as its records have it (Truth).       *)
----------------------------------------------------------------------------
(* Types, which grow with the clock.                                       *)

Steps == {"idle", "drop", "forget", "ticket", "store"}

RowsOf(n)    == [Space -> [Peer -> 0..n]]
EntriesOf(n) == {e \in [Peer -> [seen : 0..n, relay : 0..n]] : \A p \in Peer \ Own : e[p] = NoEntry}
ViewsOf(n)   == [spaces : SUBSET Space, seen : 0..n, ticket : 0..n, sibling : BOOLEAN]
TasksOf(n)   ==
    {t \in [kind : {"apply", "recompute", "reconcile", "tick"}, space : Space \cup {NoPeer},
            peer : Peer \cup {NoPeer}, at : 0..n] :
        /\ t.kind \in {"apply", "recompute"} => t.peer \in Peer
        /\ t.kind \in {"apply", "reconcile"} => t.space \in Space}
JobsOf(n)    ==
    {j \in [todo : SUBSET Peer, pc : Steps, peer : Peer \cup {NoPeer}, view : ViewsOf(n),
            alone : BOOLEAN] :
        /\ j.pc = "idle" <=> j.peer = NoPeer
        /\ j.view.sibling => j.peer \in Own
        /\ j.pc \in {"drop", "forget"} => Gone(j.view)}

SpacesTyped ==
    /\ rows \in RowsOf(clock) /\ members \subseteq Space \X Peer /\ loaded \subseteq Space
RecordsTyped ==
    /\ records \in RowsOf(clock) /\ entry \in EntriesOf(clock)
    /\ \A s \in Space \ loaded : \A p \in Peer : records[s][p] = 0
QueueTyped == queue \in Seq(TasksOf(clock)) /\ Len(queue) <= QueueSize /\ round \subseteq Space
JobsTyped == job \in [Thread -> JobsOf(clock)] /\ unsure \subseteq Peer
StoresTyped ==
    /\ global \in [Peer -> SUBSET Space] /\ account \subseteq Own /\ ticket \in [Peer -> 0..clock]
StatusTyped ==
    /\ lastSeen \in [Peer -> 0..clock] /\ failures \in [Peer -> 0..MaxFailures]
    /\ horizon \in 0..clock /\ lan \subseteq Peer /\ backoff \subseteq Peer
LinksTyped ==
    /\ live \subseteq Peer /\ pending \subseteq Peer
    /\ link \in [Peer -> {"none", "knock", "admitted", "pooled"}]
    /\ \A p \in Peer : /\ p \in live => link[p] = "pooled"
                       /\ link[p] = "admitted" => p \in pending
DialSteps == {"planned", "picking", "asking", "dialing", "window", "backoff"}
DialTyped ==
    /\ dial \in [pc : DialSteps \cup {"idle"}, peer : Peer \cup {NoPeer}, blind : BOOLEAN]
    /\ dial.pc # "idle" => dial.peer \in Peer
BoundsTyped ==
    /\ clock \in Nat /\ story \in Stories /\ writes \in 0..story.writes
    /\ churn \in 0..story.churn /\ links \in 0..story.links

PeersTyped ==
    /\ SpacesTyped /\ RecordsTyped /\ QueueTyped /\ JobsTyped /\ StoresTyped /\ StatusTyped
    /\ LinksTyped /\ DialTyped /\ BoundsTyped

LEMMA GlobalFacts ==
    /\ IsFiniteSet(Space) /\ IsFiniteSet(Peer) /\ NoPeer \notin Peer /\ Own \subseteq Peer
    /\ MaxFailures \in Nat \ {0} /\ QueueSize \in Nat \ {0}
    /\ \A s \in Stories : /\ s.writes \in Nat /\ s.churn \in Nat /\ s.links \in Nat
                          /\ s.rows \in [Space -> [Peer -> 0..1]]
                          /\ s.peers \subseteq Peer /\ s.loaded \subseteq Space
                          /\ Cardinality(s.loaded) <= QueueSize
BY GlobalAssumption DEF GlobalAssumption

\* A time that is past stays one.
LEMMA TimesGrow ==
    ASSUME NEW m \in Nat, NEW n \in Nat, m <= n
    PROVE  /\ RowsOf(m) \subseteq RowsOf(n) /\ EntriesOf(m) \subseteq EntriesOf(n)
           /\ ViewsOf(m) \subseteq ViewsOf(n) /\ TasksOf(m) \subseteq TasksOf(n)
           /\ JobsOf(m) \subseteq JobsOf(n)
           /\ [Peer -> 0..m] \subseteq [Peer -> 0..n] /\ 0..m \subseteq 0..n
           /\ Seq(TasksOf(m)) \subseteq Seq(TasksOf(n))
<1>1. 0..m \subseteq 0..n
  OBVIOUS
<1>2. [Peer -> 0..m] \subseteq [Peer -> 0..n]
  BY <1>1
<1>3. RowsOf(m) \subseteq RowsOf(n)
  BY <1>2 DEF RowsOf
<1>4. EntriesOf(m) \subseteq EntriesOf(n)
  <2>1. [seen : 0..m, relay : 0..m] \subseteq [seen : 0..n, relay : 0..n]
    BY <1>1
  <2>. QED
    BY <2>1 DEF EntriesOf
<1>5. ViewsOf(m) \subseteq ViewsOf(n)
  BY <1>1 DEF ViewsOf
<1>6. TasksOf(m) \subseteq TasksOf(n)
  BY <1>1 DEF TasksOf
<1>7. JobsOf(m) \subseteq JobsOf(n)
  BY <1>5 DEF JobsOf
<1>8. Seq(TasksOf(m)) \subseteq Seq(TasksOf(n))
  BY <1>6, SeqMonotonic
<1>. QED
  BY <1>1, <1>2, <1>3, <1>4, <1>5, <1>6, <1>7, <1>8

----------------------------------------------------------------------------
(* Views.                                                                  *)

LEMMA MaxFacts ==
    ASSUME NEW n \in Nat, NEW S \in SUBSET (0..n), S # {}
    PROVE  Max(S) \in S /\ \A x \in S : Max(S) >= x
<1>1. PICK x \in S : \A y \in S : x >= y
  BY GreatestExists
<1>. QED
  BY <1>1 DEF Max

LEMMA FoldFacts ==
    ASSUME NEW n \in Nat, NEW read \in RowsOf(n), entry \in EntriesOf(n), loaded \subseteq Space,
           NEW p \in Peer
    PROVE  /\ Fold(read, p) \in ViewsOf(n)
           /\ Fold(read, p).sibling => p \in Own
           /\ Gone(Fold(read, p)) => Fold(read, p).ticket = 0
<1>. DEFINE S == {0} \cup {read[s][p] : s \in loaded}
            row == Max(S)
            e == entry[p]
            view == [spaces  |-> {s \in loaded : read[s][p] # 0},
                     seen    |-> Max({row, e.seen}),
                     ticket  |-> IF e.relay # 0 /\ (e.seen > row \/ row = 0)
                                 THEN e.relay ELSE row,
                     sibling |-> e # NoEntry]
<1>1. Fold(read, p) = view
  BY DEF Fold
<1>2. S \in SUBSET (0..n) /\ S # {}
  BY DEF RowsOf
<1>3. row \in S /\ row \in 0..n
  <2>. HIDE DEF S
  <2>. QED
    BY <1>2, MaxFacts
<1>4. e.seen \in 0..n /\ e.relay \in 0..n /\ (p \notin Own => e = NoEntry)
  BY DEF EntriesOf
<1>5. Max({row, e.seen}) \in 0..n
  <2>. HIDE DEF row, e
  <2>. QED
    BY <1>3, <1>4, MaxFacts
<1>. HIDE DEF row, e
<1>6. view \in ViewsOf(n)
  BY <1>3, <1>4, <1>5 DEF ViewsOf
<1>7. view.sibling => p \in Own
  BY <1>4
<1>8. ASSUME Gone(view) PROVE view.ticket = 0
  <2>1. view.spaces = {} /\ e = NoEntry
    BY <1>8 DEF Gone
  <2>2. e.relay = 0
    BY <2>1 DEF NoEntry
  <2>3. row = 0
    BY <1>3, <2>1
  <2>. QED
    BY <2>2, <2>3
<1>. QED
  BY <1>1, <1>6, <1>7, <1>8

\* What the records say of a peer changes with its rows and its entry only.
LEMMA ViewStill ==
    ASSUME NEW p \in Peer,
           entry'[p] = entry[p],
           \A s \in loaded \cap loaded' : records'[s][p] = records[s][p],
           \A s \in loaded \ loaded' : records[s][p] = 0,
           \A s \in loaded' \ loaded : records'[s][p] = 0
    PROVE  View(p)' = View(p)
<1>1. {s \in loaded' : records'[s][p] # 0} = {s \in loaded : records[s][p] # 0}
  OBVIOUS
<1>2. {0} \cup {records'[s][p] : s \in loaded'} = {0} \cup {records[s][p] : s \in loaded}
  <2>1. \A s \in loaded' : records'[s][p] \in {0} \cup {records[s1][p] : s1 \in loaded}
    OBVIOUS
  <2>2. \A s \in loaded : records[s][p] \in {0} \cup {records'[s1][p] : s1 \in loaded'}
    OBVIOUS
  <2>. QED
    BY <2>1, <2>2
<1>. QED
  BY <1>1, <1>2 DEF View, Fold

----------------------------------------------------------------------------
(* The inductive invariant.                                                *)

\* Somebody will look at the peer.
Waits(p) ==
    \/ \E t \in Thread : p \in job[t].todo
    \/ \E i \in DOMAIN queue : queue[i].kind = "recompute" /\ queue[i].peer = p

AtWork(p) == \E t \in Thread : job[t].peer = p

\* What a recompute has written so far.
Told(t) ==
    /\ job[t].pc = "forget" => global[job[t].peer] = {} /\ job[t].peer \notin account
    /\ job[t].pc = "store" =>
          \/ ticket[job[t].peer] = job[t].view.ticket
          \/ ticket[job[t].peer] = 0 /\ job[t].view.seen <= horizon

\* A recompute that believes itself alone with its peer is.
Alone ==
    \A t, u \in Thread :
        t # u /\ job[t].pc # "idle" /\ job[u].peer = job[t].peer => ~job[t].alone

\* ... and what it has read is still so, or will be read again.
Latest ==
    \A t \in Thread, p \in Peer : job[t].peer = p /\ job[t].alone =>
        Waits(p) \/ (job[t].view = View(p) /\ Told(t))

\* A peer that is not set apart is being looked at, waits to be, or is in the
\* stores as its records have it.
Truth == \A p \in Peer \ unsure : AtWork(p) \/ Waits(p) \/ Agrees(p, View(p))

Core == Alone /\ Latest /\ Truth

PeersInv == PeersTyped /\ Core

LEMMA JobFacts ==
    ASSUME JobsTyped, NEW t \in Thread
    PROVE  /\ job[t].todo \subseteq Peer /\ job[t].pc \in Steps /\ job[t].alone \in BOOLEAN
           /\ job[t].view \in ViewsOf(clock) /\ job[t].peer \in Peer \cup {NoPeer}
           /\ job[t].pc = "idle" <=> job[t].peer = NoPeer
           /\ job[t].pc # "idle" => job[t].peer \in Peer
           /\ job[t].view.sibling => job[t].peer \in Own
           /\ job[t].pc \in {"drop", "forget"} => Gone(job[t].view)
<1>1. job[t] \in JobsOf(clock)
  BY DEF JobsTyped
<1>. QED
  BY <1>1, GlobalFacts DEF JobsOf

\* No recompute begins, goes on or ends, and no peer is forgotten.
Aside ==
    /\ \A t \in Thread : /\ job'[t].pc = job[t].pc /\ job'[t].peer = job[t].peer
                         /\ job'[t].view = job[t].view /\ job'[t].alone = job[t].alone
    /\ \A p \in Peer : Waits(p) => Waits(p)'
    /\ \A p \in Peer : View(p)' = View(p) \/ Waits(p)'
    /\ UNCHANGED <<unsure, global, account, ticket>>
    /\ horizon' \in Nat /\ horizon <= horizon'

LEMMA AsideCore ==
    ASSUME PeersInv, Aside
    PROVE  Core'
<1>1. JobsTyped /\ clock \in Nat /\ horizon \in Nat
  BY DEF PeersInv, PeersTyped, BoundsTyped, StatusTyped
<1>2. \A t \in Thread : /\ job'[t].pc = job[t].pc /\ job'[t].peer = job[t].peer
                        /\ job'[t].view = job[t].view /\ job'[t].alone = job[t].alone
  BY DEF Aside
<1>3. Alone'
  BY <1>2 DEF PeersInv, Core, Alone
<1>4. Latest'
  <2>. SUFFICES ASSUME NEW t \in Thread, NEW p \in Peer, job'[t].peer = p, job'[t].alone, ~Waits(p)'
                PROVE  job'[t].view = View(p)' /\ Told(t)'
    BY DEF Latest
  <2>1. job[t].peer = p /\ job[t].alone
    BY <1>2
  <2>3. ~Waits(p) /\ View(p)' = View(p)
    BY DEF Aside
  <2>4. job[t].view = View(p) /\ Told(t)
    BY <2>1, <2>3 DEF PeersInv, Core, Latest
  <2>5. job[t].view.seen \in Nat
    BY <1>1, JobFacts DEF ViewsOf
  <2>6. Told(t)'
    BY <1>1, <1>2, <2>4, <2>5 DEF Aside, Told
  <2>. QED
    BY <1>2, <2>3, <2>4, <2>6
<1>5. Truth'
  <2>. SUFFICES ASSUME NEW p \in Peer \ unsure, ~AtWork(p)', ~Waits(p)'
                PROVE  Agrees(p, View(p))'
    BY DEF Truth, Aside
  <2>1. ~AtWork(p) /\ ~Waits(p) /\ View(p)' = View(p)
    BY <1>2 DEF Aside, AtWork
  <2>2. Agrees(p, View(p))
    BY <2>1 DEF PeersInv, Core, Truth
  <2>3. View(p).seen \in Nat
    <3>1. View(p) \in ViewsOf(clock)
      BY <1>1, FoldFacts DEF View, PeersInv, PeersTyped, RecordsTyped, SpacesTyped
    <3>. QED
      BY <1>1, <3>1 DEF ViewsOf
  <2>. QED
    BY <1>1, <2>1, <2>2, <2>3 DEF Agrees, InStores, Aside
<1>. QED
  BY <1>3, <1>4, <1>5 DEF Core

\* A goroutine writes what it has read of a peer, and goes on or ends.
OwnStep(t, p) ==
    /\ job[t].peer = p
    /\ \A u \in Thread \ {t} : job'[u] = job[u]
    /\ job'[t].todo = job[t].todo
    /\ \A q \in Peer \ {p} : /\ global'[q] = global[q] /\ ticket'[q] = ticket[q]
                             /\ q \in account' <=> q \in account
    /\ UNCHANGED <<queue, records, entry, loaded, horizon>>

GoesOn(t, p) ==
    /\ job'[t].peer = p /\ job'[t].pc # "idle"
    /\ job'[t].alone = job[t].alone /\ job'[t].view = job[t].view
    /\ UNCHANGED unsure
    /\ job[t].view = View(p) /\ Told(t) => Told(t)'

Finishes(t, p) ==
    /\ job'[t].peer = NoPeer /\ job'[t].pc = "idle"
    /\ unsure' = IF job[t].alone THEN unsure \ {p} ELSE unsure \cup {p}
    /\ job[t].view = View(p) /\ Told(t) => Agrees(p, View(p))'

LEMMA OwnStepCore ==
    ASSUME PeersInv, NEW t \in Thread, NEW p \in Peer, OwnStep(t, p),
           GoesOn(t, p) \/ Finishes(t, p)
    PROVE  Core'
<1>1. JobsTyped /\ Alone /\ Latest /\ Truth
  BY DEF PeersInv, PeersTyped, Core
<1>2. \A u \in Thread : /\ job[u].pc = "idle" <=> job[u].peer = NoPeer
                        /\ job[u].pc # "idle" => job[u].peer \in Peer
  BY <1>1, JobFacts
<1>3. p # NoPeer /\ job[t].pc # "idle" /\ job[t].peer = p
  BY <1>2, GlobalFacts DEF OwnStep
<1>4. \A u \in Thread \ {t} : job'[u] = job[u]
  BY DEF OwnStep
<1>5. job'[t].peer = p \/ job'[t].peer = NoPeer
  BY DEF GoesOn, Finishes
<1>6. \A q \in Peer : View(q)' = View(q)
  BY DEF OwnStep, View, Fold
<1>7. \A q : Waits(q)' <=> Waits(q)
  <2>1. \A u \in Thread : job'[u].todo = job[u].todo
    BY <1>4 DEF OwnStep
  <2>2. queue' = queue
    BY DEF OwnStep
  <2>. QED
    BY <2>1, <2>2 DEF Waits
<1>8. Alone'
  <2>. SUFFICES ASSUME NEW u \in Thread, NEW v \in Thread, u # v, job'[u].pc # "idle",
                       job'[v].peer = job'[u].peer
                PROVE  ~job'[u].alone
    BY DEF Alone
  <2>1. \A w \in Thread : job'[w].peer = NoPeer \/ job'[w].peer = job[w].peer
    BY <1>3, <1>4, <1>5
  <2>2. job'[u].peer # NoPeer /\ job'[u].alone = job[u].alone /\ job[u].pc # "idle"
    <3>1. CASE u = t
      BY <1>3, <3>1, GlobalFacts DEF GoesOn, Finishes
    <3>2. CASE u # t
      BY <1>2, <1>4, <3>2, GlobalFacts
    <3>. QED
      BY <3>1, <3>2
  <2>3. job[u].peer = job'[u].peer /\ job[v].peer = job'[v].peer
    BY <2>1, <2>2
  <2>. QED
    BY <1>1, <2>2, <2>3 DEF Alone
<1>9. Latest'
  <2>. SUFFICES ASSUME NEW u \in Thread, NEW q \in Peer, job'[u].peer = q, job'[u].alone
                PROVE  Waits(q)' \/ (job'[u].view = View(q)' /\ Told(u)')
    BY DEF Latest
  <2>1. CASE u = t
    <3>1. q = p /\ GoesOn(t, p)
      BY <1>5, <2>1, GlobalFacts DEF Finishes
    <3>2. job[t].alone /\ job'[t].view = job[t].view
      BY <2>1, <3>1 DEF GoesOn
    <3>3. Waits(p) \/ (job[t].view = View(p) /\ Told(t))
      BY <1>1, <1>3, <3>2 DEF Latest
    <3>. QED
      BY <1>6, <1>7, <2>1, <3>1, <3>2, <3>3 DEF GoesOn
  <2>2. CASE u # t
    <3>1. job'[u] = job[u] /\ job[u].peer = q /\ job[u].alone /\ job[u].pc # "idle"
      BY <1>2, <1>4, <2>2, GlobalFacts
    <3>2. q # p
      BY <1>1, <1>3, <2>2, <3>1 DEF Alone
    <3>3. Waits(q) \/ (job[u].view = View(q) /\ Told(u))
      BY <1>1, <3>1 DEF Latest
    <3>4. Told(u) => Told(u)'
      BY <3>1, <3>2 DEF Told, OwnStep
    <3>. QED
      BY <1>6, <1>7, <3>1, <3>3, <3>4
  <2>. QED
    BY <2>1, <2>2
<1>10. Truth'
  <2>. SUFFICES ASSUME NEW q \in Peer \ unsure', ~AtWork(q)', ~Waits(q)'
                PROVE  Agrees(q, View(q))'
    BY DEF Truth
  <2>1. ~Waits(q) /\ View(q)' = View(q)
    BY <1>6, <1>7
  <2>2. CASE q = p
    <3>1. Finishes(t, p) /\ job[t].alone
      BY <2>2 DEF GoesOn, AtWork, Finishes
    <3>2. job[t].view = View(p) /\ Told(t)
      BY <1>1, <1>3, <2>1, <2>2, <3>1 DEF Latest
    <3>. QED
      BY <2>2, <3>1, <3>2 DEF Finishes
  <2>3. CASE q # p
    <3>1. q \notin unsure
      BY <2>3 DEF GoesOn, Finishes
    <3>2. ~AtWork(q)
      <4>. SUFFICES ASSUME NEW u \in Thread, job[u].peer = q PROVE FALSE
        BY DEF AtWork
      <4>1. u # t
        BY <1>3, <2>3
      <4>. QED
        BY <1>4, <4>1 DEF AtWork
    <3>3. Agrees(q, View(q))
      BY <1>1, <2>1, <3>1, <3>2 DEF Truth
    <3>. QED
      BY <2>1, <2>3, <3>3 DEF Agrees, InStores, OwnStep
  <2>. QED
    BY <2>2, <2>3
<1>. QED
  BY <1>8, <1>9, <1>10 DEF Core

\* The goroutines at a peer learn that they are not alone.
LEMMA OverlapFacts ==
    ASSUME NEW p, NEW B, NEW u \in Thread
    PROVE  /\ u \in At(p, B) => Overlap(p, B)[u] = [job[u] EXCEPT !.alone = FALSE]
           /\ u \notin At(p, B) => Overlap(p, B)[u] = job[u]
           /\ u \in At(p, B) <=> u \notin B /\ job[u].peer = p
BY DEF Overlap, At

\* The fields of a goroutine's work that are left alone.
Same(u) ==
    /\ job'[u].todo = job[u].todo /\ job'[u].pc = job[u].pc
    /\ job'[u].peer = job[u].peer /\ job'[u].view = job[u].view

Begun(t, p, b) ==
    [todo |-> job[t].todo \ {p}, peer |-> p, view |-> View(p),
     pc |-> IF Gone(View(p)) THEN "drop" ELSE "ticket", alone |-> b]

\* A goroutine has read a peer; whoever was at it is not alone any more.
Begins(t, p) ==
    /\ job[t].pc = "idle" /\ p \in job[t].todo
    /\ job'[t] = Begun(t, p, TRUE) \/ job'[t] = Begun(t, p, FALSE)
    /\ job'[t] = Begun(t, p, TRUE) => \A u \in Thread \ {t} : job[u].peer # p
    /\ \A u \in Thread \ {t} :
         IF job[u].peer = p THEN job'[u] = [job[u] EXCEPT !.alone = FALSE] ELSE job'[u] = job[u]
    /\ DOMAIN job' = Thread

LEMMA ReadIs ==
    ASSUME JobsTyped, NEW t \in Thread, NEW p \in Peer, Read(t, p)
    PROVE  Begins(t, p)
<1>. DEFINE over == Overlap(p, {t})
            new == [todo |-> job[t].todo \ {p}, peer |-> p, view |-> View(p),
                    pc |-> IF Gone(View(p)) THEN "drop" ELSE "ticket",
                    alone |-> At(p, {t}) = {}]
<1>1. job[t].pc = "idle" /\ p \in job[t].todo /\ job' = [over EXCEPT ![t] = new]
  BY DEF Read
<1>2. DOMAIN over = Thread
  BY DEF Overlap
<1>3. \A u \in Thread : /\ u \in At(p, {t}) => over[u] = [job[u] EXCEPT !.alone = FALSE]
                        /\ u \notin At(p, {t}) => over[u] = job[u]
                        /\ u \in At(p, {t}) <=> u \notin {t} /\ job[u].peer = p
  BY OverlapFacts
<1>. HIDE DEF over, new
<1>4. /\ job'[t] = new /\ DOMAIN job' = Thread
      /\ \A u \in Thread \ {t} : job'[u] = over[u]
  BY <1>1, <1>2
<1>5. \A u \in Thread \ {t} :
         IF job[u].peer = p THEN job'[u] = [job[u] EXCEPT !.alone = FALSE] ELSE job'[u] = job[u]
  BY <1>3, <1>4
<1>6. CASE At(p, {t}) = {}
  <2>1. (At(p, {t}) = {}) = TRUE
    BY <1>6
  <2>2. new = Begun(t, p, TRUE)
    BY <2>1, Zenon DEF new, Begun
  <2>3. \A u \in Thread \ {t} : job[u].peer # p
    BY <1>3, <1>6
  <2>. QED
    BY <1>1, <1>4, <1>5, <2>2, <2>3 DEF Begins
<1>7. CASE At(p, {t}) # {}
  <2>1. (At(p, {t}) = {}) = FALSE
    BY <1>7
  <2>2. new = Begun(t, p, FALSE)
    BY <2>1, Zenon DEF new, Begun
  <2>3. new.alone = FALSE
    BY <2>2 DEF Begun
  <2>4. new # Begun(t, p, TRUE)
    BY <2>3 DEF Begun
  <2>. QED
    BY <1>1, <1>4, <1>5, <2>2, <2>4 DEF Begins
<1>. QED
  BY <1>6, <1>7

LEMMA ReadCore ==
    ASSUME PeersInv, NEW t \in Thread, NEW p \in Peer, Read(t, p)
    PROVE  Core'
<1>1. JobsTyped /\ Alone /\ Latest /\ Truth
  BY DEF PeersInv, PeersTyped, Core
<1>2. UNCHANGED <<queue, records, entry, loaded, global, account, ticket, horizon, unsure>>
  BY DEF Read, spaces, stores
<1>0. Begins(t, p)
  BY <1>1, ReadIs
<1>3. /\ job[t].pc = "idle" /\ job'[t].todo = job[t].todo \ {p} /\ job'[t].peer = p
      /\ job'[t].view = View(p) /\ job'[t].pc \in {"drop", "ticket"}
      /\ job'[t].alone => \A u \in Thread \ {t} : job[u].peer # p
  BY <1>0 DEF Begins, Begun
<1>4. ASSUME NEW u \in Thread \ {t}
      PROVE  Same(u) /\ (job'[u].alone => job[u].alone /\ job[u].peer # p)
  <2>1. job[u] \in [todo : SUBSET Peer, pc : Steps, peer : Peer \cup {NoPeer},
                    view : ViewsOf(clock), alone : BOOLEAN]
    BY <1>1 DEF JobsTyped, JobsOf
  <2>2. CASE job[u].peer = p
    <3>1. job'[u] = [job[u] EXCEPT !.alone = FALSE]
      BY <1>0, <2>2 DEF Begins
    <3>. QED
      BY <2>1, <3>1 DEF Same
  <2>3. CASE job[u].peer # p
    BY <1>0, <2>3 DEF Begins, Same
  <2>. QED
    BY <2>2, <2>3
<1>5. \A u \in Thread : /\ job[u].pc = "idle" <=> job[u].peer = NoPeer
                        /\ job[u].pc # "idle" => job[u].peer \in Peer
                        /\ job[u].alone \in BOOLEAN
  BY <1>1, JobFacts
<1>6. \A q \in Peer : View(q)' = View(q)
  BY <1>2 DEF View, Fold
<1>7. \A q \in Peer \ {p} : Waits(q) => Waits(q)'
  <2>1. \A u \in Thread : \A q \in Peer \ {p} : q \in job[u].todo => q \in job'[u].todo
    BY <1>3, <1>4 DEF Same
  <2>. QED
    BY <1>2, <2>1 DEF Waits
<1>8. Alone'
  <2>. SUFFICES ASSUME NEW u \in Thread, NEW v \in Thread, u # v, job'[u].pc # "idle",
                       job'[v].peer = job'[u].peer, job'[u].alone
                PROVE  FALSE
    BY DEF Alone
  <2>1. CASE u = t
    <3>1. job[v].peer = p
      BY <1>3, <1>4, <2>1 DEF Same
    <3>. QED
      BY <1>3, <2>1, <3>1
  <2>2. CASE u # t
    <3>1. job[u].alone /\ job[u].peer # p /\ job[u].pc # "idle" /\ job'[u].peer = job[u].peer
      BY <1>4, <1>5, <2>2 DEF Same
    <3>2. v # t
      BY <1>3, <3>1
    <3>3. job[v].peer = job[u].peer
      BY <1>4, <3>1, <3>2 DEF Same
    <3>. QED
      BY <1>1, <3>1, <3>3 DEF Alone
  <2>. QED
    BY <2>1, <2>2
<1>9. Latest'
  <2>. SUFFICES ASSUME NEW u \in Thread, NEW q \in Peer, job'[u].peer = q, job'[u].alone
                PROVE  Waits(q)' \/ (job'[u].view = View(q)' /\ Told(u)')
    BY DEF Latest
  <2>1. CASE u = t
    <3>1. Told(t)'
      BY <1>3 DEF Told
    <3>. QED
      BY <1>3, <1>6, <2>1, <3>1
  <2>2. CASE u # t
    <3>1. job[u].alone /\ job[u].peer = q /\ q # p
      BY <1>4, <1>5, <2>2 DEF Same
    <3>2. Waits(q) \/ (job[u].view = View(q) /\ Told(u))
      BY <1>1, <3>1 DEF Latest
    <3>3. Told(u) => Told(u)'
      BY <1>2, <1>4, <2>2 DEF Told, Same
    <3>4. job'[u].view = job[u].view
      BY <1>4, <2>2 DEF Same
    <3>. QED
      BY <1>6, <1>7, <3>1, <3>2, <3>3, <3>4
  <2>. QED
    BY <2>1, <2>2
<1>10. Truth'
  <2>. SUFFICES ASSUME NEW q \in Peer \ unsure', ~AtWork(q)', ~Waits(q)'
                PROVE  Agrees(q, View(q))'
    BY DEF Truth
  <2>1. q # p
    BY <1>3 DEF AtWork
  <2>2. ~AtWork(q)
    <3>. SUFFICES ASSUME NEW u \in Thread, job[u].peer = q PROVE FALSE
      BY DEF AtWork
    <3>1. u # t
      BY <1>3, <1>5, GlobalFacts
    <3>. QED
      BY <1>4, <3>1 DEF AtWork, Same
  <2>3. Agrees(q, View(q))
    BY <1>1, <1>2, <1>7, <2>1, <2>2 DEF Truth
  <2>. QED
    BY <1>2, <1>6, <2>3 DEF Agrees, InStores
<1>. QED
  BY <1>8, <1>9, <1>10 DEF Core

\* A recompute of a peer is lost: the peer is set apart.
Misses(p) ==
    /\ \A q \in Peer \ {p} : entry'[q] = entry[q]
    /\ UNCHANGED <<records, loaded, queue, global, account, ticket, horizon>>
    /\ unsure' = unsure \cup {p}
    /\ job' = Overlap(p, {})

LEMMA OverlapIs ==
    ASSUME JobsTyped, NEW p \in Peer, job' = Overlap(p, {})
    PROVE  /\ DOMAIN job' = Thread
           /\ \A u \in Thread : /\ IF job[u].peer = p THEN job'[u] = [job[u] EXCEPT !.alone = FALSE]
                                   ELSE job'[u] = job[u]
                                /\ Same(u)
                                /\ job[u].peer = p => job'[u].alone = FALSE
<1>1. DOMAIN job' = Thread
  BY DEF Overlap
<1>2. ASSUME NEW u \in Thread
      PROVE  /\ IF job[u].peer = p THEN job'[u] = [job[u] EXCEPT !.alone = FALSE]
                ELSE job'[u] = job[u]
             /\ Same(u)
             /\ job[u].peer = p => job'[u].alone = FALSE
  <2>1. job[u] \in [todo : SUBSET Peer, pc : Steps, peer : Peer \cup {NoPeer},
                    view : ViewsOf(clock), alone : BOOLEAN]
    BY DEF JobsTyped, JobsOf
  <2>2. CASE job[u].peer = p
    <3>1. job'[u] = [job[u] EXCEPT !.alone = FALSE]
      <4>1. u \in At(p, {})
        BY <2>2 DEF At
      <4>2. job'[u] = Overlap(p, {})[u]
        OBVIOUS
      <4>. QED
        BY <4>1, <4>2, OverlapFacts
    <3>. QED
      BY <2>1, <2>2, <3>1 DEF Same
  <2>3. CASE job[u].peer # p
    <3>1. job'[u] = job[u]
      <4>1. u \notin At(p, {})
        BY <2>3 DEF At
      <4>2. job'[u] = Overlap(p, {})[u]
        OBVIOUS
      <4>. QED
        BY <4>1, <4>2, OverlapFacts
    <3>. QED
      BY <2>3, <3>1 DEF Same
  <2>. QED
    BY <2>2, <2>3
<1>. QED
  BY <1>1, <1>2

LEMMA MissesCore ==
    ASSUME PeersInv, NEW p \in Peer, Misses(p)
    PROVE  Core'
<1>1. JobsTyped /\ Alone /\ Latest /\ Truth
  BY DEF PeersInv, PeersTyped, Core
<1>2. \A u \in Thread : /\ job[u].peer # p => job'[u] = job[u]
                        /\ Same(u)
                        /\ job[u].peer = p => job'[u].alone = FALSE
  <2>1. job' = Overlap(p, {})
    BY DEF Misses
  <2>. QED
    BY <1>1, <2>1, OverlapIs
<1>3. \A q \in Peer \ {p} : View(q)' = View(q)
  BY DEF Misses, View, Fold
<1>4. \A q : Waits(q)' <=> Waits(q)
  BY <1>2 DEF Waits, Same, Misses
<1>5. Alone'
  <2>. SUFFICES ASSUME NEW u \in Thread, NEW v \in Thread, u # v, job'[u].pc # "idle",
                       job'[v].peer = job'[u].peer, job'[u].alone
                PROVE  FALSE
    BY DEF Alone
  <2>1. job'[u] = job[u] /\ job[v].peer = job[u].peer
    BY <1>2 DEF Same
  <2>. QED
    BY <1>1, <2>1 DEF Alone
<1>6. Latest'
  <2>. SUFFICES ASSUME NEW u \in Thread, NEW q \in Peer, job'[u].peer = q, job'[u].alone
                PROVE  Waits(q)' \/ (job'[u].view = View(q)' /\ Told(u)')
    BY DEF Latest
  <2>1. job'[u] = job[u] /\ q # p
    BY <1>2 DEF Same
  <2>2. Waits(q) \/ (job[u].view = View(q) /\ Told(u))
    BY <1>1, <2>1 DEF Latest
  <2>3. Told(u) => Told(u)'
    BY <2>1 DEF Told, Misses
  <2>. QED
    BY <1>3, <1>4, <2>1, <2>2, <2>3
<1>7. Truth'
  <2>. SUFFICES ASSUME NEW q \in Peer \ unsure', ~AtWork(q)', ~Waits(q)'
                PROVE  Agrees(q, View(q))'
    BY DEF Truth
  <2>1. q # p /\ q \notin unsure /\ ~AtWork(q) /\ ~Waits(q)
    BY <1>2, <1>4 DEF Misses, AtWork, Same
  <2>2. Agrees(q, View(q))
    BY <1>1, <2>1 DEF Truth
  <2>. QED
    BY <1>3, <2>1, <2>2 DEF Agrees, InStores, Misses
<1>. QED
  BY <1>5, <1>6, <1>7 DEF Core

----------------------------------------------------------------------------
(* What is left alone.                                                     *)

LEMMA TypesKept ==
    ASSUME PeersTyped, clock' \in Nat, clock <= clock'
    PROVE  /\ UNCHANGED spaces => SpacesTyped'
           /\ UNCHANGED <<records, entry, loaded>> => RecordsTyped'
           /\ UNCHANGED <<queue, round>> => QueueTyped'
           /\ UNCHANGED <<job, unsure>> => JobsTyped'
           /\ UNCHANGED <<stores, ticket>> => StoresTyped'
           /\ UNCHANGED <<status, horizon, lan, backoff>> => StatusTyped'
           /\ UNCHANGED conns => LinksTyped'
           /\ UNCHANGED dial => DialTyped'
           /\ UNCHANGED bounds => BoundsTyped'
<1>0. clock \in Nat
  BY DEF PeersTyped, BoundsTyped
<1>1. /\ RowsOf(clock) \subseteq RowsOf(clock') /\ EntriesOf(clock) \subseteq EntriesOf(clock')
      /\ JobsOf(clock) \subseteq JobsOf(clock')
      /\ [Peer -> 0..clock] \subseteq [Peer -> 0..clock'] /\ 0..clock \subseteq 0..clock'
      /\ Seq(TasksOf(clock)) \subseteq Seq(TasksOf(clock'))
  BY <1>0, TimesGrow
<1>2. UNCHANGED spaces => SpacesTyped'
  BY <1>1 DEF PeersTyped, SpacesTyped, spaces
<1>3. UNCHANGED <<records, entry, loaded>> => RecordsTyped'
  BY <1>1 DEF PeersTyped, RecordsTyped
<1>4. UNCHANGED <<queue, round>> => QueueTyped'
  BY <1>1 DEF PeersTyped, QueueTyped
<1>5. UNCHANGED <<job, unsure>> => JobsTyped'
  BY <1>1 DEF PeersTyped, JobsTyped
<1>6. UNCHANGED <<stores, ticket>> => StoresTyped'
  BY <1>1 DEF PeersTyped, StoresTyped, stores
<1>7. UNCHANGED <<status, horizon, lan, backoff>> => StatusTyped'
  BY <1>1 DEF PeersTyped, StatusTyped, status
<1>8. UNCHANGED conns => LinksTyped'
  BY DEF PeersTyped, LinksTyped, conns
<1>9. UNCHANGED dial => DialTyped'
  BY DEF PeersTyped, DialTyped
<1>10. UNCHANGED bounds => BoundsTyped'
  BY DEF PeersTyped, BoundsTyped, bounds
<1>. QED
  BY <1>2, <1>3, <1>4, <1>5, <1>6, <1>7, <1>8, <1>9, <1>10

\* A step beside the recomputes and what they read and write.
LEMMA CalmCore ==
    ASSUME PeersInv, UNCHANGED <<work, stores, ticket, loaded>>,
           horizon' \in Nat, horizon <= horizon'
    PROVE  Core'
<1>1. UNCHANGED <<records, entry, queue, job, unsure, global, account, ticket, loaded>>
  BY DEF work, stores
<1>2. \A p \in Peer : View(p)' = View(p)
  BY <1>1 DEF View, Fold
<1>3. \A p \in Peer : Waits(p) => Waits(p)'
  BY <1>1 DEF Waits
<1>4. Aside
  BY <1>1, <1>2, <1>3 DEF Aside
<1>. QED
  BY <1>4, AsideCore

LEMMA CalmInv ==
    ASSUME PeersInv, UNCHANGED <<spaces, work, stores, ticket, horizon, clock>>,
           StatusTyped', LinksTyped', DialTyped', BoundsTyped'
    PROVE  PeersInv'
<1>0. clock \in Nat /\ horizon \in Nat
  BY DEF PeersInv, PeersTyped, BoundsTyped, StatusTyped
<1>1. UNCHANGED <<records, entry, loaded, queue, round, job, unsure>>
  BY DEF work, spaces
<1>2. PeersTyped'
  BY <1>0, <1>1, TypesKept DEF PeersInv, PeersTyped
<1>3. Core'
  BY <1>0, <1>1, CalmCore
<1>. QED
  BY <1>2, <1>3 DEF PeersInv

----------------------------------------------------------------------------
(* The worker's queue.                                                     *)

\* What is in the queue stays there, and so does the task unless it is full.
Longer(q, r, t) ==
    /\ DOMAIN q \subseteq DOMAIN r
    /\ \A i \in DOMAIN q : r[i] = q[i]
    /\ r = q \/ \E i \in DOMAIN r : r[i] = t

LEMMA EnqueueFacts ==
    ASSUME NEW S, NEW q \in Seq(S), NEW t \in S, Len(q) <= QueueSize
    PROVE  Enqueue(q, t) \in Seq(S) /\ Len(Enqueue(q, t)) <= QueueSize /\ Longer(q, Enqueue(q, t), t)
<1>0. QueueSize \in Nat /\ Len(q) \in Nat
  BY GlobalFacts
<1>1. CASE Len(q) < QueueSize
  <2>1. Enqueue(q, t) = Append(q, t)
    BY <1>1 DEF Enqueue
  <2>2. /\ Append(q, t) \in Seq(S) /\ Len(Append(q, t)) = Len(q) + 1
        /\ \A i \in 1..Len(q) : Append(q, t)[i] = q[i]
        /\ Append(q, t)[Len(q) + 1] = t
    OBVIOUS
  <2>3. DOMAIN Append(q, t) = 1..(Len(q) + 1) /\ DOMAIN q = 1..Len(q)
    OBVIOUS
  <2>4. Len(q) + 1 <= QueueSize
    BY <1>0, <1>1
  <2>5. 1..Len(q) \subseteq 1..(Len(q) + 1) /\ Len(q) + 1 \in 1..(Len(q) + 1)
    BY <1>0
  <2>. QED
    BY <2>1, <2>2, <2>3, <2>4, <2>5, Zenon DEF Longer
<1>2. CASE ~(Len(q) < QueueSize)
  BY <1>2 DEF Enqueue, Longer
<1>. QED
  BY <1>1, <1>2

\* A task more.
LEMMA EnqueueTyped ==
    ASSUME QueueTyped, clock \in Nat, clock' \in Nat, clock <= clock',
           NEW t \in TasksOf(clock'), queue' = Enqueue(queue, t), round' = round
    PROVE  QueueTyped' /\ Longer(queue, queue', t)
<1>1. queue \in Seq(TasksOf(clock'))
  BY TimesGrow DEF QueueTyped
<1>2. Len(queue) <= QueueSize /\ round' \subseteq Space
  BY DEF QueueTyped
<1>3. /\ Enqueue(queue, t) \in Seq(TasksOf(clock')) /\ Len(Enqueue(queue, t)) <= QueueSize
      /\ Longer(queue, Enqueue(queue, t), t)
  BY <1>1, <1>2, EnqueueFacts
<1>. QED
  BY <1>2, <1>3 DEF QueueTyped

LEMMA Enqueues ==
    ASSUME QueueTyped, clock \in Nat, clock' \in Nat, clock <= clock', round' = round,
           UNCHANGED job,
           queue' = queue \/ \E t \in TasksOf(clock') : queue' = Enqueue(queue, t)
    PROVE  QueueTyped' /\ \A p \in Peer : Waits(p) => Waits(p)'
<1>1. QueueTyped' /\ \E t : Longer(queue, queue', t)
  <2>1. CASE queue' = queue
    <3>1. QueueTyped'
      BY <2>1, TimesGrow DEF QueueTyped
    <3>. QED
      BY <2>1, <3>1 DEF Longer
  <2>2. CASE \E t \in TasksOf(clock') : queue' = Enqueue(queue, t)
    BY <2>2, EnqueueTyped
  <2>. QED
    BY <2>1, <2>2
<1>. QED
  BY <1>1 DEF Waits, Longer

----------------------------------------------------------------------------
(* Rows, spaces and members.                                               *)

\* A step that may add a task, and changes nothing of the views.
LEMMA QueuedInv ==
    ASSUME PeersInv, clock' \in Nat, clock <= clock', SpacesTyped', BoundsTyped', 
           UNCHANGED <<entry, round, job, unsure, stores, ticket, status, horizon, lan, backoff,
                       conns, dial, records>>,
           RecordsTyped',
           queue' = queue \/ \E t \in TasksOf(clock') : queue' = Enqueue(queue, t),
           \A p \in Peer : View(p)' = View(p)
    PROVE  PeersInv'
<1>0. clock \in Nat /\ horizon \in Nat
  BY DEF PeersInv, PeersTyped, BoundsTyped, StatusTyped
<1>1. QueueTyped' /\ \A p \in Peer : Waits(p) => Waits(p)'
  BY <1>0, Enqueues DEF PeersInv, PeersTyped
<1>2. PeersTyped'
  BY <1>0, <1>1, TypesKept DEF PeersInv, PeersTyped
<1>3. Aside
  BY <1>0, <1>1 DEF Aside, stores
<1>. QED
  BY <1>2, <1>3, AsideCore DEF PeersInv

LEMMA RowArrivesKeeps ==
    ASSUME PeersInv, NEW s \in Space, NEW p \in Peer, RowArrives(s, p)
    PROVE  PeersInv'
<1>0. clock \in Nat /\ writes \in Nat /\ story.writes \in Nat
  BY GlobalFacts DEF PeersInv, PeersTyped, BoundsTyped
<1>1. /\ clock' = clock + 1 /\ writes' = writes + 1 /\ writes < story.writes
      /\ rows' = [rows EXCEPT ![s][p] = clock']
      /\ queue' = IF s \in loaded THEN Enqueue(queue, Task("apply", s, p, clock')) ELSE queue
      /\ UNCHANGED <<members, loaded, records, entry, round, job, unsure, stores, ticket, lan,
                     status, horizon, conns, backoff, dial, churn, links, story>>
  BY DEF RowArrives, Write, dialing
<1>2. clock' \in Nat /\ clock <= clock' /\ clock' \in 0..clock'
  BY <1>0, <1>1
<1>3. SpacesTyped'
  <2>1. rows \in RowsOf(clock')
    BY <1>0, <1>2, TimesGrow DEF PeersInv, PeersTyped, SpacesTyped
  <2>2. rows' \in RowsOf(clock')
    <3>. DEFINE c == clock'
    <3>1. c \in 0..c /\ rows \in [Space -> [Peer -> 0..c]] /\ rows' = [rows EXCEPT ![s][p] = c]
      BY <1>1, <1>2, <2>1 DEF RowsOf
    <3>2. rows[s] \in [Peer -> 0..c]
      BY <3>1
    <3>. HIDE DEF c
    <3>3. [rows[s] EXCEPT ![p] = c] \in [Peer -> 0..c]
      BY <3>1, <3>2
    <3>4. rows' = [rows EXCEPT ![s] = [rows[s] EXCEPT ![p] = c]]
      BY <3>1
    <3>5. rows' \in [Space -> [Peer -> 0..c]]
      BY <3>1, <3>3, <3>4
    <3>. QED
      BY <3>5 DEF c, RowsOf
  <2>. QED
    BY <1>1, <2>2 DEF PeersInv, PeersTyped, SpacesTyped
<1>4. RecordsTyped'
  BY <1>1, <1>2, TypesKept DEF PeersInv
<1>5. BoundsTyped'
  BY <1>0, <1>1 DEF PeersInv, PeersTyped, BoundsTyped
<1>6. Task("apply", s, p, clock') \in TasksOf(clock')
  BY <1>2 DEF Task, TasksOf
<1>7. \A q \in Peer : View(q)' = View(q)
  BY <1>1 DEF View, Fold
<1>8. queue' = queue \/ \E t \in TasksOf(clock') : queue' = Enqueue(queue, t)
  BY <1>1, <1>6
<1>. QED
  BY <1>1, <1>2, <1>3, <1>4, <1>5, <1>7, <1>8, QueuedInv DEF dialing

LEMMA MemberChangesKeeps ==
    ASSUME PeersInv, NEW s \in Space, NEW p \in Peer, MemberChanges(s, p)
    PROVE  PeersInv'
<1>0. clock \in Nat /\ churn \in Nat /\ story.churn \in Nat
  BY GlobalFacts DEF PeersInv, PeersTyped, BoundsTyped
<1>1. /\ churn < story.churn /\ churn' = churn + 1
      /\ members' \subseteq members \cup {<<s, p>>}
      /\ UNCHANGED <<rows, loaded, records, entry, queue, round, job, unsure, stores, ticket, lan,
                     status, horizon, conns, backoff, dial, clock, writes, links, story>>
  BY DEF MemberChanges, Churn, dialing, work
<1>2. SpacesTyped'
  BY <1>1 DEF PeersInv, PeersTyped, SpacesTyped
<1>3. RecordsTyped'
  BY <1>0, <1>1, TypesKept DEF PeersInv
<1>4. BoundsTyped'
  BY <1>0, <1>1 DEF PeersInv, PeersTyped, BoundsTyped
<1>5. \A q \in Peer : View(q)' = View(q)
  BY <1>1 DEF View, Fold
<1>. QED
  BY <1>0, <1>1, <1>2, <1>3, <1>4, <1>5, QueuedInv

LEMMA SpaceLoadedKeeps ==
    ASSUME PeersInv, NEW s \in Space, SpaceLoaded(s)
    PROVE  PeersInv'
<1>0. clock \in Nat /\ churn \in Nat /\ story.churn \in Nat
  BY GlobalFacts DEF PeersInv, PeersTyped, BoundsTyped
<1>1. /\ churn < story.churn /\ churn' = churn + 1 /\ loaded' = loaded \cup {s} /\ s \notin loaded
      /\ queue' = Enqueue(queue, Task("reconcile", s, NoPeer, 0))
      /\ UNCHANGED <<rows, members, records, entry, round, job, unsure, stores, ticket, lan,
                     status, horizon, conns, backoff, dial, clock, writes, links, story>>
  BY DEF SpaceLoaded, Churn, dialing
<1>2. SpacesTyped'
  BY <1>1 DEF PeersInv, PeersTyped, SpacesTyped
<1>3. RecordsTyped'
  BY <1>1 DEF PeersInv, PeersTyped, RecordsTyped
<1>4. BoundsTyped'
  BY <1>0, <1>1 DEF PeersInv, PeersTyped, BoundsTyped
<1>5. \A q \in Peer : View(q)' = View(q)
  <2>. SUFFICES ASSUME NEW q \in Peer PROVE View(q)' = View(q)
    OBVIOUS
  <2>1. records[s][q] = 0
    BY <1>1 DEF PeersInv, PeersTyped, RecordsTyped
  <2>. QED
    BY <1>1, <2>1, ViewStill
<1>6. Task("reconcile", s, NoPeer, 0) \in TasksOf(clock')
  BY <1>0, <1>1 DEF Task, TasksOf
<1>. QED
  BY <1>0, <1>1, <1>2, <1>3, <1>4, <1>5, <1>6, QueuedInv

----------------------------------------------------------------------------
(* Peers to look at.                                                       *)

\* A goroutine at rest is given peers.
LEMMA Starts ==
    ASSUME JobsTyped, clock \in Nat, clock' \in Nat, clock <= clock', NEW t \in Thread, AtRest(t),
           NEW ps \in SUBSET Peer, Start(t, ps), unsure' = unsure
    PROVE  /\ JobsTyped' /\ ps \subseteq job'[t].todo
           /\ \A u \in Thread : /\ job'[u].pc = job[u].pc /\ job'[u].peer = job[u].peer
                                /\ job'[u].view = job[u].view /\ job'[u].alone = job[u].alone
                                /\ job[u].todo \subseteq job'[u].todo
<1>1. job \in [Thread -> JobsOf(clock')] /\ unsure \subseteq Peer
  BY TimesGrow DEF JobsTyped
<1>2. job[t].todo = {}
  BY DEF AtRest
<1>3. job' = [job EXCEPT ![t] = [job[t] EXCEPT !.todo = ps]]
  BY DEF Start
<1>4. job[t] \in JobsOf(clock')
  BY <1>1
<1>5. /\ job[t] \in [todo : SUBSET Peer, pc : Steps, peer : Peer \cup {NoPeer},
                     view : ViewsOf(clock'), alone : BOOLEAN]
      /\ job[t].pc = "idle" <=> job[t].peer = NoPeer
      /\ job[t].view.sibling => job[t].peer \in Own
      /\ job[t].pc \in {"drop", "forget"} => Gone(job[t].view)
  BY <1>4 DEF JobsOf
<1>. DEFINE new == [job[t] EXCEPT !.todo = ps]
<1>6. /\ new \in [todo : SUBSET Peer, pc : Steps, peer : Peer \cup {NoPeer},
                  view : ViewsOf(clock'), alone : BOOLEAN]
      /\ new.pc = job[t].pc /\ new.peer = job[t].peer /\ new.view = job[t].view
      /\ new.alone = job[t].alone /\ new.todo = ps
  BY <1>5
<1>. HIDE DEF new
<1>7. new \in JobsOf(clock')
  BY <1>5, <1>6 DEF JobsOf
<1>8. job' = [job EXCEPT ![t] = new]
  BY <1>3 DEF new
<1>9. job' \in [Thread -> JobsOf(clock')]
  BY <1>1, <1>7, <1>8
<1>10. job'[t] = new /\ \A u \in Thread \ {t} : job'[u] = job[u]
  BY <1>1, <1>8
<1>11. JobsTyped'
  BY <1>1, <1>9 DEF JobsTyped
<1>. QED
  BY <1>2, <1>6, <1>10, <1>11

\* A step that gives a goroutine the peers whose view it changes.
LEMMA StartInv ==
    ASSUME PeersInv, clock' \in Nat, clock <= clock', NEW t \in Thread, AtRest(t),
           NEW ps \in SUBSET Peer, Start(t, ps),
           SpacesTyped', RecordsTyped', QueueTyped', BoundsTyped',
           UNCHANGED <<unsure, stores, ticket, status, horizon, lan, backoff, conns, dial>>,
           \A i \in DOMAIN queue : queue[i].kind = "recompute" =>
               \/ queue[i].peer \in ps
               \/ \E k \in DOMAIN queue' : queue'[k] = queue[i],
           \A p \in Peer \ ps : View(p)' = View(p)
    PROVE  PeersInv'
<1>0. clock \in Nat /\ horizon \in Nat
  BY DEF PeersInv, PeersTyped, BoundsTyped, StatusTyped
<1>1. /\ JobsTyped' /\ ps \subseteq job'[t].todo
      /\ \A u \in Thread : /\ job'[u].pc = job[u].pc /\ job'[u].peer = job[u].peer
                           /\ job'[u].view = job[u].view /\ job'[u].alone = job[u].alone
                           /\ job[u].todo \subseteq job'[u].todo
  BY <1>0, Starts DEF PeersInv, PeersTyped
<1>2. \A p \in ps : Waits(p)'
  BY <1>1 DEF Waits
<1>3. \A p \in Peer : Waits(p) => Waits(p)'
  <2>. SUFFICES ASSUME NEW p \in Peer, Waits(p), p \notin ps PROVE Waits(p)'
    BY <1>2
  <2>1. CASE \E u \in Thread : p \in job[u].todo
    BY <1>1, <2>1 DEF Waits
  <2>2. CASE \E i \in DOMAIN queue : queue[i].kind = "recompute" /\ queue[i].peer = p
    <3>1. \E k \in DOMAIN queue' : queue'[k].kind = "recompute" /\ queue'[k].peer = p
      BY <2>2
    <3>. QED
      BY <3>1 DEF Waits
  <2>. QED
    BY <2>1, <2>2 DEF Waits
<1>4. PeersTyped'
  BY <1>0, <1>1, TypesKept DEF PeersInv, PeersTyped
<1>5. Aside
  BY <1>0, <1>1, <1>2, <1>3 DEF Aside, stores
<1>. QED
  BY <1>4, <1>5, AsideCore DEF PeersInv

LEMMA SpaceUnloadedKeeps ==
    ASSUME PeersInv, NEW s \in Space, SpaceUnloaded(s)
    PROVE  PeersInv'
<1>. DEFINE ps == {p \in Peer : records[s][p] # 0}
            none == [p \in Peer |-> 0]
<1>0. clock \in Nat /\ churn \in Nat /\ story.churn \in Nat
  BY GlobalFacts DEF PeersInv, PeersTyped, BoundsTyped
<1>1. /\ churn < story.churn /\ churn' = churn + 1 /\ AtRest("unload")
      /\ loaded' = loaded \ {s} /\ records' = [records EXCEPT ![s] = none]
      /\ Start("unload", ps)
      /\ UNCHANGED <<rows, members, entry, queue, round, unsure, stores, ticket, lan,
                     status, horizon, conns, backoff, dial, clock, writes, links, story>>
  BY DEF SpaceUnloaded, Churn, dialing
<1>2. SpacesTyped'
  BY <1>1 DEF PeersInv, PeersTyped, SpacesTyped
<1>3. RecordsTyped' /\ records'[s] = none /\ \A z \in Space \ {s} : records'[z] = records[z]
  <2>1. none \in [Peer -> 0..clock]
    BY <1>0
  <2>2. records \in [Space -> [Peer -> 0..clock]]
    BY DEF PeersInv, PeersTyped, RecordsTyped, RowsOf
  <2>. HIDE DEF none
  <2>3. /\ records' \in [Space -> [Peer -> 0..clock]]
        /\ records'[s] = none /\ \A z \in Space \ {s} : records'[z] = records[z]
    BY <1>1, <2>1, <2>2
  <2>4. \A p \in Peer : none[p] = 0
    BY DEF none
  <2>5. \A z \in Space \ loaded' : \A p \in Peer : records'[z][p] = 0
    BY <1>1, <2>3, <2>4 DEF PeersInv, PeersTyped, RecordsTyped
  <2>. QED
    BY <1>1, <2>3, <2>5 DEF PeersInv, PeersTyped, RecordsTyped, RowsOf
<1>4. BoundsTyped' /\ QueueTyped'
  BY <1>0, <1>1 DEF PeersInv, PeersTyped, BoundsTyped, QueueTyped
<1>5. ASSUME NEW p \in Peer \ ps PROVE View(p)' = View(p)
  <2>1. loaded \subseteq Space
    BY DEF PeersInv, PeersTyped, SpacesTyped
  <2>2. records[s][p] = 0
    OBVIOUS
  <2>. HIDE DEF ps
  <2>3. \A z \in loaded \cap loaded' : records'[z][p] = records[z][p]
    BY <1>1, <1>3, <2>1
  <2>4. /\ \A z \in loaded \ loaded' : records[z][p] = 0
        /\ \A z \in loaded' \ loaded : records'[z][p] = 0
    BY <1>1, <2>2
  <2>5. entry'[p] = entry[p]
    BY <1>1
  <2>. QED
    BY <2>3, <2>4, <2>5, ViewStill
<1>6. ps \in SUBSET Peer /\ "unload" \in Thread
  BY DEF Thread
<1>. HIDE DEF ps
<1>7. /\ clock' \in Nat /\ clock <= clock' /\ queue' = queue
      /\ UNCHANGED <<unsure, stores, ticket, status, horizon, lan, backoff, conns, dial>>
  BY <1>0, <1>1
<1>. QED
  BY <1>1, <1>2, <1>3, <1>4, <1>5, <1>6, <1>7, StartInv

LEMMA LanChangesKeeps ==
    ASSUME PeersInv, NEW p \in Peer, LanChanges(p)
    PROVE  PeersInv'
<1>0. churn \in Nat /\ story.churn \in Nat
  BY GlobalFacts DEF PeersInv, PeersTyped, BoundsTyped
<1>1. /\ churn < story.churn /\ churn' = churn + 1
      /\ lan' \subseteq lan \cup {p}
      /\ UNCHANGED <<spaces, work, stores, ticket, status, horizon, conns, backoff, dial,
                     clock, writes, links, story>>
  BY DEF LanChanges, Churn, dialing
<1>2. StatusTyped' /\ LinksTyped' /\ DialTyped'
  BY <1>1 DEF PeersInv, PeersTyped, StatusTyped, LinksTyped, DialTyped, status, conns
<1>3. BoundsTyped'
  BY <1>0, <1>1 DEF PeersInv, PeersTyped, BoundsTyped
<1>. QED
  BY <1>1, <1>2, <1>3, CalmInv

LEMMA ExpireKeeps ==
    ASSUME PeersInv, Expire
    PROVE  PeersInv'
<1>0. /\ clock \in Nat /\ horizon \in 0..clock /\ churn \in Nat /\ story.churn \in Nat
  BY GlobalFacts DEF PeersInv, PeersTyped, BoundsTyped, StatusTyped
<1>1. /\ churn < story.churn /\ churn' = churn + 1 /\ horizon' = clock /\ clock' = clock + 1
      /\ UNCHANGED <<spaces, work, stores, ticket, lan, status, conns, backoff, dial,
                     writes, links, story>>
  BY DEF Expire, Churn, dialing
<1>2. /\ clock' \in Nat /\ clock <= clock' /\ horizon' \in Nat /\ horizon <= horizon'
      /\ horizon' \in 0..clock'
  BY <1>0, <1>1
<1>3. /\ lastSeen \in [Peer -> 0..clock] /\ failures \in [Peer -> 0..MaxFailures]
      /\ lan \subseteq Peer /\ backoff \subseteq Peer
  BY DEF PeersInv, PeersTyped, StatusTyped
<1>4. lastSeen \in [Peer -> 0..clock']
  BY <1>0, <1>2, <1>3, TimesGrow
<1>5. StatusTyped'
  BY <1>1, <1>2, <1>3, <1>4 DEF StatusTyped, status
<1>6. BoundsTyped'
  BY <1>0, <1>1 DEF PeersInv, PeersTyped, BoundsTyped
<1>7. UNCHANGED <<records, entry, loaded, queue, round, job, unsure>>
  BY <1>1 DEF work, spaces
<1>8. PeersTyped'
  BY <1>1, <1>2, <1>5, <1>6, <1>7, TypesKept DEF PeersInv, PeersTyped
<1>9. Core'
  BY <1>1, <1>2, <1>7, CalmCore
<1>. QED
  BY <1>8, <1>9 DEF PeersInv

LEMMA ReconcileTickKeeps ==
    ASSUME PeersInv, ReconcileTick
    PROVE  PeersInv'
<1>0. clock \in Nat
  BY DEF PeersInv, PeersTyped, BoundsTyped
<1>1. /\ queue' = Enqueue(queue, Task("tick", NoPeer, NoPeer, 0))
      /\ UNCHANGED <<spaces, records, entry, round, job, unsure, stores, ticket, lan, status,
                     horizon, conns, backoff, dial, bounds>>
  BY DEF ReconcileTick, dialing
<1>2. clock' = clock /\ loaded' = loaded
  BY <1>1 DEF bounds, spaces
<1>3. SpacesTyped' /\ RecordsTyped' /\ BoundsTyped'
  BY <1>0, <1>1, <1>2, TypesKept DEF PeersInv
<1>4. Task("tick", NoPeer, NoPeer, 0) \in TasksOf(clock')
  BY <1>0, <1>2 DEF Task, TasksOf
<1>5. \A q \in Peer : View(q)' = View(q)
  BY <1>1, <1>2 DEF View, Fold
<1>. QED
  BY <1>0, <1>1, <1>2, <1>3, <1>4, <1>5, QueuedInv

----------------------------------------------------------------------------
(* The worker.                                                             *)

LEMMA TailFacts ==
    ASSUME NEW S, NEW q \in Seq(S), q # <<>>
    PROVE  /\ Head(q) \in S /\ Tail(q) \in Seq(S) /\ Len(Tail(q)) <= Len(q)
           /\ \A i \in DOMAIN q : q[i] = Head(q) \/ \E k \in DOMAIN Tail(q) : Tail(q)[k] = q[i]
<1>1. Head(q) \in S /\ Tail(q) \in Seq(S) /\ Len(q) \in Nat /\ Len(q) > 0
  OBVIOUS
<1>2. Len(Tail(q)) = Len(q) - 1 /\ DOMAIN Tail(q) = 1..(Len(q) - 1) /\ DOMAIN q = 1..Len(q)
  OBVIOUS
<1>3. \A k \in 1..(Len(q) - 1) : Tail(q)[k] = q[k + 1]
  OBVIOUS
<1>4. ASSUME NEW i \in DOMAIN q
      PROVE  q[i] = Head(q) \/ \E k \in DOMAIN Tail(q) : Tail(q)[k] = q[i]
  <2>1. CASE i = 1
    BY <2>1
  <2>2. CASE i # 1
    <3>1. i \in 1..Len(q)
      BY <1>2
    <3>2. i - 1 \in 1..(Len(q) - 1) /\ (i - 1) + 1 = i
      BY <1>1, <2>2, <3>1
    <3>3. Tail(q)[i - 1] = q[(i - 1) + 1]
      BY <1>3, <3>2
    <3>4. i - 1 \in DOMAIN Tail(q) /\ Tail(q)[i - 1] = q[i]
      BY <1>2, <3>2, <3>3
    <3>. QED
      BY <3>4
  <2>. QED
    BY <2>1, <2>2
<1>5. Len(Tail(q)) <= Len(q)
  BY <1>1, <1>2
<1>. QED
  BY <1>1, <1>4, <1>5

\* One record changes.
LEMMA RecordChanges ==
    ASSUME RecordsTyped, SpacesTyped, clock \in Nat, NEW s \in loaded, NEW p \in Peer,
           NEW n \in 0..clock, records' = [records EXCEPT ![s][p] = n],
           UNCHANGED <<entry, loaded, clock>>
    PROVE  RecordsTyped' /\ \A q \in Peer \ {p} : View(q)' = View(q)
<1>1. s \in Space /\ records \in [Space -> [Peer -> 0..clock]]
  BY DEF SpacesTyped, RecordsTyped, RowsOf
<1>. DEFINE new == [records[s] EXCEPT ![p] = n]
<1>2. new \in [Peer -> 0..clock] /\ \A q \in Peer \ {p} : new[q] = records[s][q]
  BY <1>1
<1>3. records' = [records EXCEPT ![s] = new]
  BY <1>1
<1>. HIDE DEF new
<1>4. /\ records' \in [Space -> [Peer -> 0..clock]] /\ records'[s] = new
      /\ \A z \in Space \ {s} : records'[z] = records[z]
  BY <1>1, <1>2, <1>3
<1>5. RecordsTyped'
  BY <1>4 DEF RecordsTyped, RowsOf
<1>6. ASSUME NEW q \in Peer \ {p} PROVE View(q)' = View(q)
  <2>1. \A z \in loaded : records'[z][q] = records[z][q]
    BY <1>2, <1>4 DEF SpacesTyped
  <2>. QED
    BY <2>1, ViewStill
<1>. QED
  BY <1>5, <1>6

LEMMA TakeKeeps ==
    ASSUME PeersInv, Take
    PROVE  PeersInv'
<1>. DEFINE t == Head(queue)
<1>0. clock \in Nat
  BY DEF PeersInv, PeersTyped, BoundsTyped
<1>1. /\ AtRest("worker") /\ queue # <<>> /\ queue' = Tail(queue)
      /\ UNCHANGED <<spaces, entry, unsure, stores, ticket, lan, status, horizon, conns,
                     backoff, dial, bounds>>
      /\ \/ t.kind = "apply" /\ ApplyRow(t) /\ UNCHANGED round
         \/ t.kind = "recompute" /\ Start("worker", {t.peer}) /\ UNCHANGED <<records, round>>
         \/ t.kind = "reconcile" /\ round' = {t.space} /\ UNCHANGED <<records, job>>
         \/ t.kind = "tick" /\ round' = loaded /\ UNCHANGED <<records, job>>
  BY DEF Take, dialing
<1>2. queue \in Seq(TasksOf(clock)) /\ Len(queue) <= QueueSize /\ round \subseteq Space
  BY DEF PeersInv, PeersTyped, QueueTyped
<1>3. /\ t \in TasksOf(clock) /\ Tail(queue) \in Seq(TasksOf(clock))
      /\ Len(Tail(queue)) <= Len(queue)
      /\ \A i \in DOMAIN queue : queue[i] = t \/ \E k \in DOMAIN Tail(queue) : Tail(queue)[k] = queue[i]
  BY <1>1, <1>2, TailFacts
<1>4. /\ t.kind \in {"apply", "recompute"} => t.peer \in Peer
      /\ t.kind \in {"apply", "reconcile"} => t.space \in Space
      /\ t.at \in 0..clock
  BY <1>3 DEF TasksOf
<1>. HIDE DEF t
<1>5. clock' = clock /\ loaded' = loaded
  BY <1>1 DEF bounds, spaces
<1>6. SpacesTyped' /\ BoundsTyped'
  BY <1>0, <1>1, <1>5, TypesKept DEF PeersInv
<1>7. round' \subseteq Space => QueueTyped'
  <2>1. Len(Tail(queue)) <= QueueSize
    BY <1>2, <1>3, GlobalFacts
  <2>. QED
    BY <1>1, <1>3, <1>5, <2>1 DEF QueueTyped
<1>8. UNCHANGED records => RecordsTyped' /\ \A p \in Peer : View(p)' = View(p)
  BY <1>0, <1>1, <1>5, TypesKept DEF PeersInv, View, Fold
\* What leaves the queue is looked at.
<1>9. \A i \in DOMAIN queue :
         queue[i] = t \/ \E k \in DOMAIN queue' : queue'[k] = queue[i]
  BY <1>1, <1>3
<1>10. "worker" \in Thread
  BY DEF Thread
<1>. DEFINE Done == PeersInv'
<1>11. ASSUME NEW ps \in SUBSET Peer, Start("worker", ps), RecordsTyped', round' = round,
              t.kind = "recompute" => t.peer \in ps,
              \A p \in Peer \ ps : View(p)' = View(p)
       PROVE  Done
  <2>1. QueueTyped'
    BY <1>2, <1>7, <1>11
  <2>2. \A i \in DOMAIN queue : queue[i].kind = "recompute" =>
           queue[i].peer \in ps \/ \E k \in DOMAIN queue' : queue'[k] = queue[i]
    BY <1>9, <1>11
  <2>3. clock' \in Nat /\ clock <= clock'
    BY <1>0, <1>5
  <2>4. UNCHANGED <<unsure, stores, ticket, status, horizon, lan, backoff, conns, dial>>
    BY <1>1
  <2>. QED
    BY <1>1, <1>6, <1>10, <1>11, <2>1, <2>2, <2>3, <2>4, StartInv
<1>12. ASSUME UNCHANGED <<records, job>>, round' \subseteq Space, t.kind # "recompute"
       PROVE  Done
  <2>1. PeersTyped'
    <3>1. JobsTyped'
      BY <1>0, <1>1, <1>5, <1>12, TypesKept DEF PeersInv
    <3>. QED
      BY <1>0, <1>1, <1>5, <1>6, <1>7, <1>8, <1>12, <3>1, TypesKept DEF PeersInv, PeersTyped
  <2>2. \A p \in Peer : Waits(p) => Waits(p)'
    <3>. SUFFICES ASSUME NEW p \in Peer, Waits(p) PROVE Waits(p)'
      OBVIOUS
    <3>1. CASE \E u \in Thread : p \in job[u].todo
      BY <1>12, <3>1 DEF Waits
    <3>2. CASE \E i \in DOMAIN queue : queue[i].kind = "recompute" /\ queue[i].peer = p
      <4>1. \E k \in DOMAIN queue' : queue'[k].kind = "recompute" /\ queue'[k].peer = p
        BY <1>9, <1>12, <3>2
      <4>. QED
        BY <4>1 DEF Waits
    <3>. QED
      BY <3>1, <3>2 DEF Waits
  <2>3. horizon \in Nat
    BY DEF PeersInv, PeersTyped, StatusTyped
  <2>4. Aside
    BY <1>1, <1>8, <1>12, <2>2, <2>3 DEF Aside, stores
  <2>. QED
    BY <2>1, <2>4, AsideCore DEF PeersInv
<1>13. CASE t.kind = "apply" /\ ApplyRow(t) /\ UNCHANGED round
  <2>. DEFINE at == IF <<t.space, t.peer>> \in members THEN t.at ELSE 0
  <2>1. at \in 0..clock
    BY <1>0, <1>4
  <2>2. \/ UNCHANGED <<records, job>>
        \/ /\ t.space \in loaded
           /\ records' = [records EXCEPT ![t.space][t.peer] = at] /\ Start("worker", {t.peer})
    BY <1>13 DEF ApplyRow
  <2>. HIDE DEF at
  <2>3. CASE UNCHANGED <<records, job>>
    BY <1>2, <1>12, <1>13, <2>3
  <2>4. CASE /\ t.space \in loaded
             /\ records' = [records EXCEPT ![t.space][t.peer] = at] /\ Start("worker", {t.peer})
    <3>1. t.peer \in Peer
      BY <1>4, <1>13
    <3>2. RecordsTyped' /\ \A q \in Peer \ {t.peer} : View(q)' = View(q)
      BY <1>0, <1>1, <1>5, <2>1, <2>4, <3>1, RecordChanges DEF PeersInv, PeersTyped
    <3>3. {t.peer} \in SUBSET Peer
      BY <3>1
    <3>. QED
      BY <1>11, <1>13, <2>4, <3>2, <3>3
  <2>. QED
    BY <2>2, <2>3, <2>4
<1>14. CASE t.kind = "recompute" /\ Start("worker", {t.peer}) /\ UNCHANGED <<records, round>>
  <2>1. {t.peer} \in SUBSET Peer
    BY <1>4, <1>14
  <2>. QED
    BY <1>8, <1>11, <1>14, <2>1
<1>15. CASE t.kind = "reconcile" /\ round' = {t.space} /\ UNCHANGED <<records, job>>
  BY <1>4, <1>12, <1>15
<1>16. CASE t.kind = "tick" /\ round' = loaded /\ UNCHANGED <<records, job>>
  BY <1>12, <1>16 DEF PeersInv, PeersTyped, SpacesTyped
<1>. QED
  BY <1>1, <1>13, <1>14, <1>15, <1>16

LEMMA ReconcileKeeps ==
    ASSUME PeersInv, NEW s \in Space, Reconcile(s)
    PROVE  PeersInv'
<1>. DEFINE fresh == [p \in Peer |-> IF <<s, p>> \in members THEN rows[s][p] ELSE 0]
            ps == Touched(s, fresh)
<1>0. clock \in Nat /\ horizon \in Nat
  BY DEF PeersInv, PeersTyped, BoundsTyped, StatusTyped
<1>1. /\ AtRest("worker") /\ round' = round \ {s} /\ queue' = queue
      /\ UNCHANGED <<spaces, entry, unsure, stores, ticket, lan, status, horizon, conns,
                     backoff, dial, bounds>>
      /\ \/ UNCHANGED <<records, job>>
         \/ s \in loaded /\ records' = [records EXCEPT ![s] = fresh] /\ Start("worker", ps)
  BY DEF Reconcile, dialing
<1>2. clock' = clock /\ loaded' = loaded
  BY <1>1 DEF bounds, spaces
<1>3. SpacesTyped' /\ BoundsTyped'
  BY <1>0, <1>1, <1>2, TypesKept DEF PeersInv
<1>4. QueueTyped'
  BY <1>1, <1>2 DEF PeersInv, PeersTyped, QueueTyped
<1>5. CASE UNCHANGED <<records, job>>
  <2>1. RecordsTyped' /\ JobsTyped'
    BY <1>0, <1>1, <1>2, <1>5, TypesKept DEF PeersInv
  <2>2. PeersTyped'
    BY <1>0, <1>1, <1>2, <1>3, <1>4, <2>1, TypesKept DEF PeersInv, PeersTyped
  <2>3. \A p \in Peer : (Waits(p) => Waits(p)') /\ View(p)' = View(p)
    BY <1>1, <1>2, <1>5 DEF Waits, View, Fold
  <2>4. Aside
    BY <1>0, <1>1, <1>5, <2>3 DEF Aside, stores
  <2>. QED
    BY <2>2, <2>4, AsideCore DEF PeersInv
<1>6. CASE s \in loaded /\ records' = [records EXCEPT ![s] = fresh] /\ Start("worker", ps)
  <2>1. fresh \in [Peer -> 0..clock]
    <3>1. rows \in [Space -> [Peer -> 0..clock]]
      BY DEF PeersInv, PeersTyped, SpacesTyped, RowsOf
    <3>. QED
      BY <1>0, <3>1
  <2>2. records \in [Space -> [Peer -> 0..clock]]
    BY DEF PeersInv, PeersTyped, RecordsTyped, RowsOf
  <2>3. /\ ps \in SUBSET Peer
        /\ \A p \in Peer \ ps : records[s][p] = 0 /\ fresh[p] = 0
    <3>. HIDE DEF fresh
    <3>. QED
      BY DEF Touched
  <2>. HIDE DEF fresh, ps
  <2>4. /\ records' \in [Space -> [Peer -> 0..clock]]
        /\ records'[s] = fresh /\ \A z \in Space \ {s} : records'[z] = records[z]
    BY <1>6, <2>1, <2>2
  <2>5. RecordsTyped'
    BY <1>1, <1>2, <1>6, <2>4 DEF PeersInv, PeersTyped, RecordsTyped, RowsOf
  <2>6. ASSUME NEW p \in Peer \ ps PROVE View(p)' = View(p)
    <3>1. \A z \in loaded : records'[z][p] = records[z][p]
      BY <2>3, <2>4 DEF PeersInv, PeersTyped, SpacesTyped
    <3>2. entry'[p] = entry[p]
      BY <1>1
    <3>. QED
      BY <1>2, <3>1, <3>2, ViewStill
  <2>7. \A i \in DOMAIN queue : \E k \in DOMAIN queue' : queue'[k] = queue[i]
    BY <1>1
  <2>8. clock' \in Nat /\ clock <= clock' /\ "worker" \in Thread
    BY <1>0, <1>2 DEF Thread
  <2>9. UNCHANGED <<unsure, stores, ticket, status, horizon, lan, backoff, conns, dial>>
    BY <1>1
  <2>. QED
    BY <1>1, <1>3, <1>4, <1>6, <2>3, <2>5, <2>6, <2>7, <2>8, <2>9, StartInv
<1>. QED
  BY <1>1, <1>5, <1>6

----------------------------------------------------------------------------
(* The account cycle.                                                      *)

LEMMA AccountRecordKeeps ==
    ASSUME PeersInv, NEW named, NEW recent, AccountRecord(named, recent)
    PROVE  PeersInv'
<1>. DEFINE ps == {p \in Own : entry[p] # NoEntry \/ p \in named}
            c == clock'
<1>0. clock \in Nat /\ writes \in Nat /\ story.writes \in Nat /\ Own \subseteq Peer
  BY GlobalFacts DEF PeersInv, PeersTyped, BoundsTyped
<1>1. /\ AtRest("account") /\ writes < story.writes /\ writes' = writes + 1
      /\ clock' = clock + 1 /\ named \subseteq Own /\ recent \subseteq Own
      /\ entry' = [p \in Peer |-> IF p \in named THEN [seen |-> c, relay |-> c]
                                  ELSE IF p \in recent THEN entry[p] ELSE NoEntry]
      /\ Start("account", ps)
      /\ UNCHANGED <<spaces, records, queue, round, unsure, stores, ticket, lan, status, horizon,
                     conns, backoff, dial, churn, links, story>>
  BY DEF AccountRecord, Write, dialing
<1>2. c \in Nat /\ clock <= c /\ c \in 0..c /\ 0 \in 0..c
  BY <1>0, <1>1
<1>3. entry \in EntriesOf(clock) /\ entry \in EntriesOf(c)
  BY <1>0, <1>2, TimesGrow DEF PeersInv, PeersTyped, RecordsTyped
<1>4. SpacesTyped' /\ QueueTyped'
  BY <1>1, <1>2, TypesKept DEF PeersInv
<1>5. BoundsTyped'
  BY <1>0, <1>1 DEF PeersInv, PeersTyped, BoundsTyped
<1>. HIDE DEF c
<1>6. entry' \in EntriesOf(c)
  <2>1. [seen |-> c, relay |-> c] \in [seen : 0..c, relay : 0..c]
    BY <1>2
  <2>2. NoEntry \in [seen : 0..c, relay : 0..c]
    BY <1>2 DEF NoEntry
  <2>3. entry' \in [Peer -> [seen : 0..c, relay : 0..c]]
    BY <1>1, <1>3, <2>1, <2>2 DEF EntriesOf
  <2>4. \A p \in Peer \ Own : entry'[p] = NoEntry
    BY <1>1
  <2>. QED
    BY <2>3, <2>4 DEF EntriesOf
<1>7. RecordsTyped'
  <2>1. records' = records /\ loaded' = loaded
    BY <1>1 DEF spaces
  <2>2. records \in RowsOf(c)
    BY <1>0, <1>2, TimesGrow DEF PeersInv, PeersTyped, RecordsTyped
  <2>. QED
    BY <1>6, <2>1, <2>2 DEF PeersInv, PeersTyped, RecordsTyped, c
<1>8. ASSUME NEW p \in Peer \ ps PROVE View(p)' = View(p)
  <2>1. entry[p] = NoEntry /\ p \notin named
    BY <1>1, <1>3 DEF EntriesOf
  <2>2. entry'[p] = entry[p]
    BY <1>1, <2>1
  <2>. QED
    BY <1>1, <2>2, ViewStill DEF spaces
<1>9. ps \in SUBSET Peer /\ "account" \in Thread
  BY <1>0 DEF Thread
<1>. HIDE DEF ps
<1>10. \A i \in DOMAIN queue : \E k \in DOMAIN queue' : queue'[k] = queue[i]
  BY <1>1
<1>11. /\ clock' \in Nat /\ clock <= clock'
       /\ UNCHANGED <<unsure, stores, ticket, status, horizon, lan, backoff, conns, dial>>
  BY <1>1, <1>2 DEF c
<1>. QED
  BY <1>1, <1>4, <1>5, <1>7, <1>8, <1>9, <1>10, <1>11, StartInv

----------------------------------------------------------------------------
(* A recompute.                                                            *)

LEMMA RecomputeReadKeeps ==
    ASSUME PeersInv, NEW t \in Thread, NEW p \in Peer, Read(t, p)
    PROVE  PeersInv'
<1>0. clock \in Nat
  BY DEF PeersInv, PeersTyped, BoundsTyped
<1>1. UNCHANGED <<spaces, records, entry, queue, round, unsure, stores, ticket, lan, status,
                  horizon, conns, backoff, dial, bounds>>
  BY DEF Read, dialing
<1>2. clock' = clock /\ loaded' = loaded
  BY <1>1 DEF bounds, spaces
<1>3. Begins(t, p) /\ JobsTyped
  BY ReadIs DEF PeersInv, PeersTyped
<1>4. View(p) \in ViewsOf(clock) /\ (View(p).sibling => p \in Own)
  BY <1>0, FoldFacts DEF View, PeersInv, PeersTyped, RecordsTyped, SpacesTyped
<1>5. job[t].todo \subseteq Peer
  BY <1>3, JobFacts
<1>6. ASSUME NEW b \in BOOLEAN PROVE Begun(t, p, b) \in JobsOf(clock)
  <2>. DEFINE v == View(p)
  <2>. HIDE DEF v
  <2>1. CASE Gone(v)
    <3>1. Begun(t, p, b) = [todo |-> job[t].todo \ {p}, peer |-> p, view |-> v,
                            pc |-> "drop", alone |-> b]
      BY <2>1 DEF Begun, v
    <3>. QED
      BY <1>4, <1>5, <2>1, <3>1, GlobalFacts DEF JobsOf, Steps, v
  <2>2. CASE ~Gone(v)
    <3>1. Begun(t, p, b) = [todo |-> job[t].todo \ {p}, peer |-> p, view |-> v,
                            pc |-> "ticket", alone |-> b]
      BY <2>2 DEF Begun, v
    <3>. QED
      BY <1>4, <1>5, <2>2, <3>1, GlobalFacts DEF JobsOf, Steps, v
  <2>. QED
    BY <2>1, <2>2
<1>7. job'[t] \in JobsOf(clock)
  BY <1>3, <1>6 DEF Begins
<1>8. ASSUME NEW u \in Thread \ {t} PROVE job'[u] \in JobsOf(clock)
  <2>1. job[u] \in JobsOf(clock)
    BY <1>3 DEF JobsTyped
  <2>2. CASE job[u].peer = p
    <3>1. job'[u] = [job[u] EXCEPT !.alone = FALSE]
      BY <1>3, <2>2 DEF Begins
    <3>. QED
      BY <2>1, <3>1 DEF JobsOf
  <2>3. CASE job[u].peer # p
    BY <1>3, <2>1, <2>3 DEF Begins
  <2>. QED
    BY <2>2, <2>3
<1>9. JobsTyped'
  <2>1. DOMAIN job' = Thread /\ \A u \in Thread : job'[u] \in JobsOf(clock)
    BY <1>3, <1>7, <1>8 DEF Begins
  <2>2. job' = [u \in Thread |-> job'[u]]
    BY <1>1, <2>1 DEF Read
  <2>3. job' \in [Thread -> JobsOf(clock)]
    BY <2>1, <2>2
  <2>. QED
    BY <1>1, <1>2, <1>3, <2>3 DEF JobsTyped
<1>10. PeersTyped'
  BY <1>0, <1>1, <1>2, <1>9, TypesKept DEF PeersInv, PeersTyped
<1>. QED
  BY <1>10, ReadCore DEF PeersInv

\* A goroutine goes on with what it has read.
GoneOn(t, pc) == [job[t] EXCEPT !.pc = pc]

LEMMA GoesFacts ==
    ASSUME JobsTyped, NEW t \in Thread, job[t].pc # "idle", NEW pc \in {"forget", "store"},
           Goes(t, pc), UNCHANGED <<unsure, clock>>,
           pc = "forget" => Gone(job[t].view)
    PROVE  /\ JobsTyped'
           /\ \A u \in Thread \ {t} : job'[u] = job[u]
           /\ job'[t].todo = job[t].todo /\ job'[t].peer = job[t].peer /\ job'[t].pc = pc
           /\ job'[t].view = job[t].view /\ job'[t].alone = job[t].alone
<1>1. job \in [Thread -> JobsOf(clock)] /\ job[t] \in JobsOf(clock)
  BY DEF JobsTyped
<1>2. job' = [job EXCEPT ![t] = GoneOn(t, pc)]
  BY DEF Goes, GoneOn
<1>3. /\ GoneOn(t, pc) \in JobsOf(clock)
      /\ GoneOn(t, pc).todo = job[t].todo /\ GoneOn(t, pc).peer = job[t].peer
      /\ GoneOn(t, pc).pc = pc
      /\ GoneOn(t, pc).view = job[t].view /\ GoneOn(t, pc).alone = job[t].alone
  BY <1>1 DEF JobsOf, GoneOn, Steps
<1>4. job' \in [Thread -> JobsOf(clock)]
  BY <1>1, <1>2, <1>3
<1>5. job'[t] = GoneOn(t, pc) /\ \A u \in Thread \ {t} : job'[u] = job[u]
  BY <1>1, <1>2
<1>6. JobsTyped'
  BY <1>4 DEF JobsTyped
<1>. QED
  BY <1>3, <1>5, <1>6

LEMMA NoJobTyped ==
    ASSUME clock \in Nat
    PROVE  /\ NoJob \in [todo : SUBSET Peer, pc : Steps, peer : Peer \cup {NoPeer},
                        view : ViewsOf(clock), alone : BOOLEAN]
           /\ NoJob.pc = "idle" /\ NoJob.peer = NoPeer /\ NoJob.view.sibling = FALSE
           /\ NoJob.todo = {} /\ NoJob.view.spaces = {}
<1>1. NoView \in ViewsOf(clock) /\ NoView.sibling = FALSE /\ NoView.spaces = {}
  BY DEF NoView, ViewsOf
<1>. QED
  BY <1>1 DEF NoJob, Steps

LEMMA EndsFacts ==
    ASSUME JobsTyped, NEW t \in Thread, job[t].pc # "idle", Ends(t), clock \in Nat, clock' = clock
    PROVE  /\ JobsTyped'
           /\ \A u \in Thread \ {t} : job'[u] = job[u]
           /\ job'[t].todo = job[t].todo /\ job'[t].peer = NoPeer /\ job'[t].pc = "idle"
           /\ unsure' = IF job[t].alone THEN unsure \ {job[t].peer} ELSE unsure \cup {job[t].peer}
<1>1. job \in [Thread -> JobsOf(clock)] /\ unsure \subseteq Peer
  BY DEF JobsTyped
<1>2. job[t].todo \subseteq Peer /\ job[t].peer \in Peer
  BY JobFacts
<1>. DEFINE new == [NoJob EXCEPT !.todo = job[t].todo]
<1>4. job' = [job EXCEPT ![t] = new]
  BY DEF Ends
<1>6. new \in JobsOf(clock) /\ new.todo = job[t].todo /\ new.peer = NoPeer /\ new.pc = "idle"
  <2>1. /\ NoJob \in [todo : SUBSET Peer, pc : Steps, peer : Peer \cup {NoPeer},
                     view : ViewsOf(clock), alone : BOOLEAN]
        /\ NoJob.pc = "idle" /\ NoJob.peer = NoPeer /\ NoJob.view.sibling = FALSE
    BY NoJobTyped
  <2>2. /\ new \in [todo : SUBSET Peer, pc : Steps, peer : Peer \cup {NoPeer},
                   view : ViewsOf(clock), alone : BOOLEAN]
        /\ new.pc = NoJob.pc /\ new.peer = NoJob.peer /\ new.view = NoJob.view
        /\ new.todo = job[t].todo
    BY <1>2, <2>1
  <2>. HIDE DEF new
  <2>. QED
    BY <2>1, <2>2 DEF JobsOf
<1>. HIDE DEF new
<1>7. job' \in [Thread -> JobsOf(clock)]
  BY <1>1, <1>4, <1>6
<1>8. job'[t] = new /\ \A u \in Thread \ {t} : job'[u] = job[u]
  BY <1>1, <1>4
<1>9. unsure' = IF job[t].alone THEN unsure \ {job[t].peer} ELSE unsure \cup {job[t].peer}
  BY DEF Ends
<1>10. JobsTyped'
  BY <1>1, <1>2, <1>7, <1>9 DEF JobsTyped
<1>. QED
  BY <1>6, <1>8, <1>9, <1>10

\* What a write leaves alone.
LEMMA WriteTyped ==
    ASSUME PeersInv, NEW t \in Thread, job[t].pc # "idle",
           UNCHANGED <<spaces, records, entry, queue, round, lan, horizon, conns, dial, bounds>>,
           JobsTyped', StoresTyped', StatusTyped'
    PROVE  PeersTyped'
<1>0. clock \in Nat
  BY DEF PeersInv, PeersTyped, BoundsTyped
<1>1. clock' = clock /\ loaded' = loaded
  BY DEF bounds, spaces
<1>. QED
  BY <1>0, <1>1, TypesKept DEF PeersInv, PeersTyped

\* A view has been read of records that are as they were.
LEMMA ViewAt ==
    ASSUME PeersInv, NEW p \in Peer, UNCHANGED <<records, entry, loaded>>
    PROVE  View(p)' = View(p)
BY DEF View, Fold

LEMMA WriteGoneKeeps ==
    ASSUME PeersInv, NEW t \in Thread, WriteGone(t)
    PROVE  PeersInv'
<1>0. PICK p \in Peer : job[t].peer = p
  <2>1. job[t].pc # "idle" /\ JobsTyped
    BY DEF WriteGone, PeersInv, PeersTyped
  <2>. QED
    BY <2>1, JobFacts
<1>1. /\ job[t].pc = "drop" /\ global' = [global EXCEPT ![p] = {}] /\ account' = account \ {p}
      /\ Goes(t, "forget")
      /\ UNCHANGED <<spaces, records, entry, queue, round, unsure, ticket, lan, status, horizon,
                     conns, backoff, dial, bounds>>
  BY <1>0 DEF WriteGone, dialing
<1>2. p \in Peer /\ Gone(job[t].view) /\ JobsTyped
  BY <1>0, <1>1, JobFacts DEF PeersInv, PeersTyped
<1>3. clock' = clock /\ loaded' = loaded /\ clock \in Nat
  BY <1>1 DEF bounds, spaces, PeersInv, PeersTyped, BoundsTyped
<1>4. /\ JobsTyped'
      /\ \A u \in Thread \ {t} : job'[u] = job[u]
      /\ job'[t].todo = job[t].todo /\ job'[t].peer = job[t].peer /\ job'[t].pc = "forget"
      /\ job'[t].view = job[t].view /\ job'[t].alone = job[t].alone
  BY <1>0, <1>1, <1>2, <1>3, GoesFacts
<1>5. global \in [Peer -> SUBSET Space]
  BY DEF PeersInv, PeersTyped, StoresTyped
<1>6. global'[p] = {} /\ \A q \in Peer \ {p} : global'[q] = global[q]
  BY <1>1, <1>2, <1>5
<1>7. StoresTyped'
  BY <1>1, <1>2, <1>3 DEF PeersInv, PeersTyped, StoresTyped
<1>8. StatusTyped'
  BY <1>1, <1>3, TypesKept DEF PeersInv
<1>9. PeersTyped'
  BY <1>1, <1>4, <1>7, <1>8, WriteTyped
<1>10. OwnStep(t, p)
  BY <1>0, <1>1, <1>3, <1>4, <1>6 DEF OwnStep
<1>11. GoesOn(t, p)
  <2>1. Told(t)'
    BY <1>0, <1>1, <1>4, <1>6 DEF Told
  <2>. QED
    BY <1>0, <1>1, <1>4, <2>1 DEF GoesOn
<1>. QED
  BY <1>2, <1>9, <1>10, <1>11, OwnStepCore DEF PeersInv

LEMMA WriteForgottenKeeps ==
    ASSUME PeersInv, NEW t \in Thread, WriteForgotten(t)
    PROVE  PeersInv'
<1>0. PICK p \in Peer : job[t].peer = p
  <2>1. job[t].pc # "idle" /\ JobsTyped
    BY DEF WriteForgotten, PeersInv, PeersTyped
  <2>. QED
    BY <2>1, JobFacts
<1>1. /\ job[t].pc = "forget" /\ ticket' = [ticket EXCEPT ![p] = 0] /\ backoff' = backoff \ {p}
      /\ \/ lastSeen' = [lastSeen EXCEPT ![p] = 0] /\ failures' = [failures EXCEPT ![p] = 0]
         \/ UNCHANGED <<lastSeen, failures>>
      /\ Ends(t)
      /\ UNCHANGED <<spaces, records, entry, queue, round, stores, lan, horizon, conns, dial,
                     bounds>>
  BY <1>0 DEF WriteForgotten, status
<1>2. p \in Peer /\ Gone(job[t].view) /\ JobsTyped
  BY <1>0, <1>1, JobFacts DEF PeersInv, PeersTyped
<1>3. clock' = clock /\ loaded' = loaded /\ clock \in Nat /\ global' = global /\ account' = account
  BY <1>1 DEF bounds, spaces, stores, PeersInv, PeersTyped, BoundsTyped
<1>4. /\ JobsTyped'
      /\ \A u \in Thread \ {t} : job'[u] = job[u]
      /\ job'[t].todo = job[t].todo /\ job'[t].peer = NoPeer /\ job'[t].pc = "idle"
      /\ unsure' = IF job[t].alone THEN unsure \ {p} ELSE unsure \cup {p}
  BY <1>0, <1>1, <1>2, <1>3, EndsFacts
<1>5. ticket \in [Peer -> 0..clock]
  BY DEF PeersInv, PeersTyped, StoresTyped
<1>6. /\ ticket' \in [Peer -> 0..clock] /\ ticket'[p] = 0
      /\ \A q \in Peer \ {p} : ticket'[q] = ticket[q]
  BY <1>1, <1>2, <1>3, <1>5
<1>7. StoresTyped'
  BY <1>3, <1>6 DEF PeersInv, PeersTyped, StoresTyped
<1>8. StatusTyped'
  BY <1>1, <1>2, <1>3, GlobalFacts DEF PeersInv, PeersTyped, StatusTyped
<1>9. PeersTyped'
  BY <1>1, <1>4, <1>7, <1>8, WriteTyped
<1>10. OwnStep(t, p)
  BY <1>0, <1>1, <1>3, <1>4, <1>6 DEF OwnStep
<1>11. Finishes(t, p)
  <2>. SUFFICES ASSUME job[t].view = View(p), Told(t) PROVE Agrees(p, View(p))'
    BY <1>0, <1>4 DEF Finishes
  <2>1. View(p)' = View(p)
    BY <1>1, <1>2, <1>3, ViewAt
  <2>2. global[p] = {} /\ p \notin account
    BY <1>0, <1>1 DEF Told
  <2>3. View(p).ticket = 0
    BY <1>2, <1>3, FoldFacts DEF View, PeersInv, PeersTyped, RecordsTyped, SpacesTyped
  <2>. QED
    BY <1>2, <1>3, <1>6, <2>1, <2>2, <2>3 DEF Agrees, InStores, Gone
<1>. QED
  BY <1>2, <1>9, <1>10, <1>11, OwnStepCore DEF PeersInv

LEMMA WriteTicketKeeps ==
    ASSUME PeersInv, NEW t \in Thread, WriteTicket(t)
    PROVE  PeersInv'
<1>0. PICK p \in Peer : job[t].peer = p
  <2>1. job[t].pc # "idle" /\ JobsTyped
    BY DEF WriteTicket, PeersInv, PeersTyped
  <2>. QED
    BY <2>1, JobFacts
<1>. DEFINE v == job[t].view
<1>1. /\ job[t].pc = "ticket" /\ Seen(p, v.seen)
      /\ ticket' = [ticket EXCEPT ![p] = IF lastSeen'[p] <= horizon THEN 0 ELSE v.ticket]
      /\ Goes(t, "store")
      /\ UNCHANGED <<spaces, records, entry, queue, round, unsure, stores, lan, horizon, conns,
                     dial, bounds>>
  BY <1>0 DEF WriteTicket
<1>2. p \in Peer /\ v \in ViewsOf(clock) /\ JobsTyped
  BY <1>0, <1>1, JobFacts DEF PeersInv, PeersTyped
<1>3. clock' = clock /\ loaded' = loaded /\ clock \in Nat /\ global' = global /\ account' = account
  BY <1>1 DEF bounds, spaces, stores, PeersInv, PeersTyped, BoundsTyped
<1>4. /\ JobsTyped'
      /\ \A u \in Thread \ {t} : job'[u] = job[u]
      /\ job'[t].todo = job[t].todo /\ job'[t].peer = p /\ job'[t].pc = "store"
      /\ job'[t].view = v /\ job'[t].alone = job[t].alone
  BY <1>0, <1>1, <1>2, <1>3, GoesFacts
<1>. HIDE DEF v
<1>5. v.seen \in 0..clock /\ v.ticket \in 0..clock
  BY <1>2 DEF ViewsOf
<1>6. /\ lastSeen \in [Peer -> 0..clock] /\ failures \in [Peer -> 0..MaxFailures]
      /\ backoff \subseteq Peer /\ horizon \in Nat /\ ticket \in [Peer -> 0..clock]
      /\ MaxFailures \in Nat
  BY GlobalFacts DEF PeersInv, PeersTyped, StatusTyped, StoresTyped
<1>7. /\ lastSeen' \in [Peer -> 0..clock] /\ failures' \in [Peer -> 0..MaxFailures]
      /\ backoff' \subseteq Peer /\ v.seen <= lastSeen'[p]
  <2>1. CASE v.seen > lastSeen[p]
    <3>1. Advance(p, v.seen)
      BY <1>1, <2>1 DEF Seen
    <3>. QED
      BY <1>2, <1>5, <1>6, <3>1 DEF Advance
  <2>2. CASE ~(v.seen > lastSeen[p])
    <3>1. UNCHANGED <<lastSeen, failures, backoff>>
      BY <1>1, <2>2 DEF Seen
    <3>. QED
      BY <1>2, <1>5, <1>6, <2>2, <3>1
  <2>. QED
    BY <2>1, <2>2
<1>8. /\ ticket' \in [Peer -> 0..clock]
      /\ ticket'[p] = v.ticket \/ (ticket'[p] = 0 /\ lastSeen'[p] <= horizon)
      /\ \A q \in Peer \ {p} : ticket'[q] = ticket[q]
  <2>. DEFINE n == IF lastSeen'[p] <= horizon THEN 0 ELSE v.ticket
  <2>1. n \in 0..clock /\ (n = v.ticket \/ (n = 0 /\ lastSeen'[p] <= horizon))
    BY <1>3, <1>5
  <2>2. ticket' = [ticket EXCEPT ![p] = n]
    BY <1>1
  <2>. HIDE DEF n
  <2>. QED
    BY <1>2, <1>6, <2>1, <2>2
<1>9. StoresTyped'
  BY <1>3, <1>8 DEF PeersInv, PeersTyped, StoresTyped
<1>10. StatusTyped'
  BY <1>1, <1>3, <1>7 DEF PeersInv, PeersTyped, StatusTyped
<1>11. PeersTyped'
  BY <1>1, <1>4, <1>9, <1>10, WriteTyped
<1>12. OwnStep(t, p)
  BY <1>0, <1>1, <1>3, <1>4, <1>8 DEF OwnStep
<1>13. GoesOn(t, p)
  <2>1. lastSeen'[p] <= horizon => v.seen <= horizon
    BY <1>2, <1>5, <1>6, <1>7
  <2>2. Told(t)'
    BY <1>0, <1>1, <1>4, <1>8, <2>1 DEF Told
  <2>. QED
    BY <1>0, <1>1, <1>4, <2>2 DEF GoesOn, v
<1>. QED
  BY <1>2, <1>11, <1>12, <1>13, OwnStepCore DEF PeersInv

LEMMA WriteStoreKeeps ==
    ASSUME PeersInv, NEW t \in Thread, WriteStore(t)
    PROVE  PeersInv'
<1>0. PICK p \in Peer : job[t].peer = p
  <2>1. job[t].pc # "idle" /\ JobsTyped
    BY DEF WriteStore, PeersInv, PeersTyped
  <2>. QED
    BY <2>1, JobFacts
<1>. DEFINE v == job[t].view
<1>1. /\ job[t].pc = "store" /\ global' = [global EXCEPT ![p] = v.spaces]
      /\ account' = IF v.sibling THEN account \cup {p} ELSE account \ {p}
      /\ Ends(t)
      /\ UNCHANGED <<spaces, records, entry, queue, round, ticket, lan, status, horizon, conns,
                     backoff, dial, bounds>>
  BY <1>0 DEF WriteStore, dialing
<1>2. p \in Peer /\ v \in ViewsOf(clock) /\ (v.sibling => p \in Own) /\ JobsTyped
  BY <1>0, <1>1, JobFacts DEF PeersInv, PeersTyped
<1>3. clock' = clock /\ loaded' = loaded /\ clock \in Nat
  BY <1>1 DEF bounds, spaces, PeersInv, PeersTyped, BoundsTyped
<1>4. /\ JobsTyped'
      /\ \A u \in Thread \ {t} : job'[u] = job[u]
      /\ job'[t].todo = job[t].todo /\ job'[t].peer = NoPeer /\ job'[t].pc = "idle"
      /\ unsure' = IF job[t].alone THEN unsure \ {p} ELSE unsure \cup {p}
  BY <1>0, <1>1, <1>2, <1>3, EndsFacts
<1>. HIDE DEF v
<1>5. global \in [Peer -> SUBSET Space] /\ account \subseteq Own /\ v.spaces \in SUBSET Space
  BY <1>2 DEF PeersInv, PeersTyped, StoresTyped, ViewsOf
<1>6. /\ global' \in [Peer -> SUBSET Space] /\ global'[p] = v.spaces
      /\ \A q \in Peer \ {p} : global'[q] = global[q]
  BY <1>1, <1>2, <1>5
<1>7. /\ account' \subseteq Own /\ (p \in account' <=> v.sibling)
      /\ \A q \in Peer \ {p} : q \in account' <=> q \in account
  <2>1. CASE v.sibling
    BY <1>1, <1>2, <1>5, <2>1
  <2>2. CASE ~v.sibling
    BY <1>1, <1>2, <1>5, <2>2
  <2>. QED
    BY <2>1, <2>2
<1>8. StoresTyped'
  BY <1>1, <1>3, <1>6, <1>7 DEF PeersInv, PeersTyped, StoresTyped
<1>9. StatusTyped'
  BY <1>1, <1>3, TypesKept DEF PeersInv
<1>10. PeersTyped'
  BY <1>1, <1>4, <1>8, <1>9, WriteTyped
<1>11. OwnStep(t, p)
  BY <1>0, <1>1, <1>3, <1>4, <1>6, <1>7 DEF OwnStep
<1>12. Finishes(t, p)
  <2>. SUFFICES ASSUME v = View(p), Told(t) PROVE Agrees(p, View(p))'
    BY <1>0, <1>4 DEF Finishes, v
  <2>1. View(p)' = View(p)
    BY <1>1, <1>2, <1>3, ViewAt
  <2>2. ticket[p] = v.ticket \/ (ticket[p] = 0 /\ v.seen <= horizon)
    BY <1>0, <1>1 DEF Told, v
  <2>. QED
    BY <1>1, <1>6, <1>7, <2>1, <2>2 DEF Agrees, InStores
<1>. QED
  BY <1>2, <1>10, <1>11, <1>12, OwnStepCore DEF PeersInv

----------------------------------------------------------------------------
(* Peers connect to the device.                                            *)

\* What the network, the accept path and the connector leave alone.
LEMMA Links ==
    ASSUME PeersInv, UNCHANGED <<spaces, work, stores, ticket, lan, horizon, clock, writes, churn,
                                 story>>,
           lastSeen' \in [Peer -> 0..clock], failures' \in [Peer -> 0..MaxFailures],
           backoff' \subseteq Peer,
           LinksTyped', DialTyped', links' \in 0..story.links
    PROVE  PeersInv'
<1>1. StatusTyped' /\ BoundsTyped'
  BY DEF PeersInv, PeersTyped, StatusTyped, BoundsTyped
<1>. QED
  BY <1>1, CalmInv

LEMMA NetFacts ==
    ASSUME PeersInv, Net
    PROVE  links' \in 0..story.links
<1>1. links \in 0..story.links /\ story.links \in Nat
  BY GlobalFacts DEF PeersInv, PeersTyped, BoundsTyped
<1>. QED
  BY <1>1 DEF Net

LEMMA LinkFacts ==
    ASSUME PeersInv
    PROVE  /\ lastSeen \in [Peer -> 0..clock] /\ failures \in [Peer -> 0..MaxFailures]
           /\ backoff \subseteq Peer /\ links \in 0..story.links /\ clock \in Nat
           /\ live \subseteq Peer /\ pending \subseteq Peer
           /\ link \in [Peer -> {"none", "knock", "admitted", "pooled"}]
           /\ \A q \in Peer : q \in live => link[q] = "pooled"
           /\ \A q \in Peer : link[q] = "admitted" => q \in pending
           /\ DialTyped
           /\ MaxFailures \in Nat \ {0}
BY GlobalFacts DEF PeersInv, PeersTyped, StatusTyped, BoundsTyped, LinksTyped

\* One link changes.
LEMMA LinkChanges ==
    ASSUME PeersInv, NEW p \in Peer, NEW l \in {"none", "knock", "admitted", "pooled"},
           link' = [link EXCEPT ![p] = l],
           live' \subseteq live \cup {p}, pending \ {p} \subseteq pending',
           pending' \subseteq pending \cup {p},
           p \in live' => l = "pooled",
           l = "admitted" => p \in pending'
    PROVE  LinksTyped'
<1>1. link' \in [Peer -> {"none", "knock", "admitted", "pooled"}]
  BY LinkFacts
<1>2. link'[p] = l /\ \A q \in Peer \ {p} : link'[q] = link[q]
  BY LinkFacts
<1>3. live' \subseteq Peer /\ pending' \subseteq Peer
  BY LinkFacts
<1>4. ASSUME NEW q \in Peer
      PROVE  (q \in live' => link'[q] = "pooled") /\ (link'[q] = "admitted" => q \in pending')
  <2>1. CASE q = p
    BY <1>2, <2>1
  <2>2. CASE q # p
    BY <1>2, <2>2, LinkFacts
  <2>. QED
    BY <2>1, <2>2
<1>. QED
  BY <1>1, <1>3, <1>4 DEF LinksTyped

LEMMA LinksStill ==
    ASSUME PeersInv, link' = link, live' \subseteq live \cup {q \in Peer : link[q] = "pooled"},
           pending' \subseteq pending, {q \in Peer : link[q] = "admitted"} \subseteq pending'
    PROVE  LinksTyped'
BY LinkFacts DEF LinksTyped

LEMMA DialStill ==
    ASSUME PeersInv, dial' = dial \/ dial' = NoDial
           \/ \E pc \in DialSteps : \E p \in Peer : \E b \in BOOLEAN :
                 dial' = DialOf(pc, p, b)
    PROVE  DialTyped'
<1>1. CASE dial' = dial
  BY <1>1, LinkFacts DEF DialTyped
<1>2. CASE dial' = NoDial
  BY <1>2 DEF NoDial, DialOf, DialTyped
<1>3. CASE \E pc \in DialSteps : \E p \in Peer : \E b \in BOOLEAN :
              dial' = DialOf(pc, p, b)
  BY <1>3 DEF DialOf, DialTyped, DialSteps
<1>. QED
  BY <1>1, <1>2, <1>3

LEMMA DialGoes ==
    ASSUME PeersInv, dial.pc # "idle", NEW pc \in DialSteps
    PROVE  /\ [dial EXCEPT !.pc = pc] = DialOf(pc, dial.peer, dial.blind)
           /\ dial.peer \in Peer /\ dial.blind \in BOOLEAN
<1>1. dial \in [pc : DialSteps \cup {"idle"}, peer : Peer \cup {NoPeer}, blind : BOOLEAN]
      /\ dial.peer \in Peer
  BY LinkFacts DEF DialTyped
<1>2. dial.blind \in BOOLEAN
  BY <1>1
<1>3. [dial EXCEPT !.pc = pc] = DialOf(pc, dial.peer, dial.blind)
  BY <1>1 DEF DialOf
<1>. QED
  BY <1>1, <1>2, <1>3, Zenon

\* New evidence.
LEMMA AdvanceFacts ==
    ASSUME PeersInv, NEW p \in Peer, NEW n \in 0..clock, Advance(p, n)
    PROVE  /\ lastSeen' \in [Peer -> 0..clock] /\ failures' \in [Peer -> 0..MaxFailures]
           /\ backoff' \subseteq Peer
<1>1. /\ lastSeen' = [lastSeen EXCEPT ![p] = n] /\ failures' = [failures EXCEPT ![p] = 0]
      /\ backoff' = backoff \ {p}
  BY DEF Advance
<1>2. 0 \in 0..MaxFailures
  BY LinkFacts
<1>. QED
  BY <1>1, <1>2, LinkFacts

LEMMA ReachChangesKeeps ==
    ASSUME PeersInv, NEW p \in Peer, NEW how, ReachChanges(p, how)
    PROVE  PeersInv'
<1>1. /\ Net
      /\ UNCHANGED <<spaces, work, stores, ticket, lan, lastSeen, failures, horizon, conns, backoff,
                     dial, clock, writes, churn, story>>
  BY DEF ReachChanges, status, dialing
<1>2. LinksTyped' /\ DialTyped'
  BY <1>1, LinksStill, LinkFacts, DialStill DEF conns
<1>. QED
  BY <1>1, <1>2, NetFacts, LinkFacts, Links

LEMMA AllowInboundKeeps ==
    ASSUME PeersInv, NEW p \in Peer, AllowInbound(p)
    PROVE  PeersInv'
<1>1. /\ Net /\ link[p] = "none" /\ link' = [link EXCEPT ![p] = "knock"]
      /\ UNCHANGED <<spaces, work, stores, ticket, lan, lastSeen, failures, horizon, live, pending,
                     backoff, dial, clock, writes, churn, story>>
  BY DEF AllowInbound, status, dialing
<1>2. p \notin live
  BY <1>1, LinkFacts
<1>3. LinksTyped'
  BY <1>1, <1>2, LinkChanges
<1>4. DialTyped'
  BY <1>1, DialStill
<1>. QED
  BY <1>1, <1>3, <1>4, NetFacts, LinkFacts, Links

LEMMA AcceptedKeeps ==
    ASSUME PeersInv, NEW p \in Peer, NEW ok \in BOOLEAN, Accepted(p, ok)
    PROVE  PeersInv'
<1>1. /\ link[p] = "admitted"
      /\ link' = [link EXCEPT ![p] = "pooled"] \/ link' = [link EXCEPT ![p] = "none"]
      /\ UNCHANGED <<spaces, work, stores, ticket, lan, lastSeen, failures, horizon, live, pending,
                     backoff, dial, clock, writes, churn, links, story>>
  BY DEF Accepted, status, dialing, bounds
<1>2. p \notin live
  BY <1>1, LinkFacts
<1>3. LinksTyped'
  BY <1>1, <1>2, LinkChanges
<1>4. DialTyped'
  BY <1>1, DialStill
<1>. QED
  BY <1>1, <1>3, <1>4, LinkFacts, Links

LEMMA PendingExpiresKeeps ==
    ASSUME PeersInv, NEW p \in Peer, PendingExpires(p)
    PROVE  PeersInv'
<1>1. /\ link[p] # "admitted" /\ pending' = pending \ {p}
      /\ UNCHANGED <<spaces, work, stores, ticket, lan, lastSeen, failures, horizon, live, link,
                     backoff, dial, clock, writes, churn, links, story>>
  BY DEF PendingExpires, status, dialing, bounds
<1>2. LinksTyped'
  BY <1>1, LinkFacts, LinksStill
<1>3. DialTyped'
  BY <1>1, DialStill
<1>. QED
  BY <1>1, <1>2, <1>3, LinkFacts, Links

LEMMA ClosesKeeps ==
    ASSUME PeersInv, NEW p \in Peer, Closes(p)
    PROVE  PeersInv'
<1>1. /\ Net /\ link' = [link EXCEPT ![p] = "none"] /\ live' = live \ {p}
      /\ UNCHANGED <<spaces, work, stores, ticket, lan, lastSeen, failures, horizon, pending,
                     backoff, dial, clock, writes, churn, story>>
  BY DEF Closes, status, dialing
<1>2. LinksTyped'
  BY <1>1, LinkChanges
<1>3. DialTyped'
  BY <1>1, DialStill
<1>. QED
  BY <1>1, <1>2, <1>3, NetFacts, LinkFacts, Links

LEMMA SweepKeeps ==
    ASSUME PeersInv, NEW p \in Peer, Sweep(p)
    PROVE  PeersInv'
<1>1. /\ link[p] = "pooled" /\ Advance(p, clock)
      /\ UNCHANGED <<live, pending>> \/ AddLive(p)
      /\ UNCHANGED <<spaces, work, stores, ticket, lan, horizon, link, dial, clock, writes, churn,
                     links, story>>
  BY DEF Sweep, bounds
<1>2. LinksTyped'
  BY <1>1, LinkFacts, LinksStill DEF AddLive
<1>3. DialTyped'
  BY <1>1, DialStill
<1>4. clock \in 0..clock
  BY LinkFacts
<1>5. /\ lastSeen' \in [Peer -> 0..clock] /\ failures' \in [Peer -> 0..MaxFailures]
      /\ backoff' \subseteq Peer
  BY <1>1, <1>4, AdvanceFacts
<1>. QED
  BY <1>1, <1>2, <1>3, <1>5, LinkFacts, Links

----------------------------------------------------------------------------
(* The connector.                                                          *)

LEMMA PlanKeeps ==
    ASSUME PeersInv, Plan
    PROVE  PeersInv'
<1>1. /\ UNCHANGED <<spaces, work, stores, ticket, lan, lastSeen, failures, horizon, conns, backoff,
                     clock, writes, churn, links, story>>
  BY DEF Plan, status, bounds
<1>2. PICK p \in Targets : dial' = DialOf("planned", p, FALSE)
  BY DEF Plan
<1>3. p \in Peer
  <2>1. Targets \subseteq Free(Candidates, {x \in Candidates : x.peers # {} /\ \A q \in x.peers : ~Connected(q)})
    BY Zenon DEF Targets
  <2>2. \A c, o : Free(c, o) \subseteq UNION {x.peers : x \in c}
    BY DEF Free
  <2>3. \A x \in Candidates : x.peers \subseteq Peer
    <3>1. \A ps : Dialable(ps) \subseteq ps
      BY DEF Dialable
    <3>2. Listed \subseteq Peer
      BY DEF Listed
    <3>3. \A s : CandidatesOf(s) \subseteq Peer
      BY <3>1, <3>2 DEF CandidatesOf
    <3>4. Dialable(account \cap Listed) \subseteq Peer
      BY <3>1, <3>2
    <3>5. CASE \A s \in loaded : CandidatesOf(s) = {}
      <4>1. Candidates = {[of |-> NoPeer, peers |-> Dialable(account \cap Listed)]}
        BY <3>5, Zenon DEF Candidates
      <4>. QED
        BY <3>4, <4>1
    <3>6. CASE ~ \A s \in loaded : CandidatesOf(s) = {}
      <4>1. Candidates = {[of |-> s, peers |-> CandidatesOf(s)] : s \in loaded}
        BY <3>6, Zenon DEF Candidates
      <4>. QED
        BY <3>3, <4>1
    <3>. QED
      BY <3>5, <3>6
  <2>4. p \in UNION {x.peers : x \in Candidates}
    BY <2>1, <2>2
  <2>5. PICK x \in Candidates : p \in x.peers
    BY <2>4
  <2>. QED
    BY <2>3, <2>5
<1>4. LinksTyped'
  BY <1>1, LinkFacts, LinksStill DEF conns
<1>5. DialTyped'
  BY <1>2, <1>3, DialStill DEF DialSteps
<1>. QED
  BY <1>1, <1>4, <1>5, LinkFacts, Links

LEMMA CheckDialKeeps ==
    ASSUME PeersInv, CheckDial
    PROVE  PeersInv'
<1>1. /\ dial.pc = "planned"
      /\ dial' = NoDial \/ dial' = [dial EXCEPT !.pc = "picking"]
      /\ UNCHANGED <<spaces, work, stores, ticket, lan, lastSeen, failures, horizon, conns, backoff,
                     clock, writes, churn, links, story>>
  BY DEF CheckDial, status, bounds
<1>2. LinksTyped'
  BY <1>1, LinkFacts, LinksStill DEF conns
<1>3. DialTyped'
  BY <1>1, DialGoes, DialStill, Zenon DEF DialSteps
<1>. QED
  BY <1>1, <1>2, <1>3, LinkFacts, Links

LEMMA PickLiveKeeps ==
    ASSUME PeersInv, PickLive
    PROVE  PeersInv'
<1>1. dial.pc = "picking"
  BY DEF PickLive
<1>2. PICK p \in Peer : dial.peer = p
  BY <1>1, DialGoes DEF DialSteps
<1>3. UNCHANGED <<spaces, work, stores, ticket, lan, lastSeen, failures, horizon, backoff, link,
                  clock, writes, churn, links, story>>
  BY DEF PickLive, status, bounds
<1>4. \/ link[p] = "pooled" /\ AddLive(p) /\ dial' = NoDial
      \/ /\ dial' = DialOf("asking", p, dial.blind \/ link[p] = "pooled")
         /\ UNCHANGED <<live, pending>>
  BY <1>2, Zenon DEF PickLive
<1>5. LinksTyped'
  BY <1>3, <1>4, LinkFacts, LinksStill DEF AddLive
<1>6. DialTyped'
  <2>1. (dial.blind \/ link[p] = "pooled") \in BOOLEAN
    OBVIOUS
  <2>2. dial' = NoDial \/ \E b \in BOOLEAN : dial' = DialOf("asking", p, b)
    BY <1>4, <2>1, Zenon
  <2>. QED
    BY <2>2, DialStill, Zenon DEF DialSteps
<1>. QED
  BY <1>3, <1>5, <1>6, LinkFacts, Links

LEMMA StartDialKeeps ==
    ASSUME PeersInv, StartDial
    PROVE  PeersInv'
<1>1. dial.pc = "asking"
  BY DEF StartDial
<1>2. PICK p \in Peer : dial.peer = p
  BY <1>1, DialGoes DEF DialSteps
<1>3. UNCHANGED <<spaces, work, stores, ticket, lan, lastSeen, failures, horizon, conns,
                  clock, writes, churn, links, story>>
  BY DEF StartDial, status, bounds
<1>4. /\ backoff' \subseteq Peer
      /\ dial' = NoDial \/ dial' = [dial EXCEPT !.pc = "dialing"]
  BY <1>2, LinkFacts DEF StartDial
<1>5. LinksTyped'
  BY <1>3, LinkFacts, LinksStill DEF conns
<1>6. DialTyped'
  BY <1>1, <1>4, DialGoes, DialStill, Zenon DEF DialSteps
<1>. QED
  BY <1>3, <1>4, <1>5, <1>6, LinkFacts, Links

LEMMA DialAnsweredKeeps ==
    ASSUME PeersInv, DialAnswered
    PROVE  PeersInv'
<1>1. dial.pc = "dialing" /\ dial' = DialOf("window", dial.peer, FALSE)
  BY DEF DialAnswered
<1>2. PICK p \in Peer : dial.peer = p
  BY <1>1, DialGoes DEF DialSteps
<1>3. UNCHANGED <<spaces, work, stores, ticket, lan, lastSeen, failures, horizon, backoff,
                  clock, writes, churn, links, story>>
  BY DEF DialAnswered, status, bounds
<1>4. \/ link' = [link EXCEPT ![p] = "pooled"] /\ AddLive(p)
      \/ link' = [link EXCEPT ![p] = "none"] /\ live' = live \ {p} /\ pending' = pending \ {p}
  BY <1>2 DEF DialAnswered
<1>5. LinksTyped'
  BY <1>4, LinkChanges DEF AddLive
<1>6. DialTyped'
  <2>1. dial' = DialOf("window", p, FALSE)
    BY <1>1, <1>2
  <2>. QED
    BY <2>1, DialStill, Zenon DEF DialSteps
<1>. QED
  BY <1>3, <1>5, <1>6, LinkFacts, Links

\* A failed dial is counted.
LEMMA AttemptFacts ==
    ASSUME PeersInv, NEW p \in Peer, Attempt(p), dial.pc # "idle"
    PROVE  failures' \in [Peer -> 0..MaxFailures] /\ DialTyped'
<1>1. failures' = [failures EXCEPT ![p] = Min({failures[p] + 1, MaxFailures})]
      /\ dial' = DialOf("backoff", p, FALSE)
  BY DEF Attempt
<1>2. Min({failures[p] + 1, MaxFailures}) \in 0..MaxFailures
  <2>1. failures[p] \in 0..MaxFailures /\ MaxFailures \in Nat
    BY LinkFacts
  <2>. DEFINE n == failures[p] + 1
  <2>2. n \in Nat
    BY <2>1
  <2>. HIDE DEF n
  <2>3. \E x \in {n, MaxFailures} : \A y \in {n, MaxFailures} : x <= y
    <3>1. CASE n <= MaxFailures
      BY <2>1, <2>2, <3>1
    <3>2. CASE ~(n <= MaxFailures)
      BY <2>1, <2>2, <3>2
    <3>. QED
      BY <3>1, <3>2
  <2>4. /\ Min({n, MaxFailures}) \in {n, MaxFailures}
        /\ \A y \in {n, MaxFailures} : Min({n, MaxFailures}) <= y
    BY <2>3 DEF Min
  <2>. QED
    BY <2>1, <2>2, <2>4 DEF n
<1>3. failures' \in [Peer -> 0..MaxFailures]
  BY <1>1, <1>2, LinkFacts
<1>4. DialTyped'
  BY <1>1, DialStill, Zenon DEF DialSteps
<1>. QED
  BY <1>3, <1>4

LEMMA DialFailsKeeps ==
    ASSUME PeersInv, DialFails
    PROVE  PeersInv'
<1>1. /\ dial.pc = "dialing" /\ Attempt(dial.peer)
      /\ UNCHANGED <<spaces, work, stores, ticket, lan, lastSeen, horizon, conns, backoff,
                     clock, writes, churn, links, story>>
  BY DEF DialFails, bounds
<1>2. PICK p \in Peer : dial.peer = p
  BY <1>1, DialGoes DEF DialSteps
<1>3. failures' \in [Peer -> 0..MaxFailures] /\ DialTyped'
  BY <1>1, <1>2, AttemptFacts
<1>4. LinksTyped'
  BY <1>1, LinkFacts, LinksStill DEF conns
<1>. QED
  BY <1>1, <1>3, <1>4, LinkFacts, Links

LEMMA WindowEndsKeeps ==
    ASSUME PeersInv, WindowEnds
    PROVE  PeersInv'
<1>1. dial.pc = "window"
  BY DEF WindowEnds
<1>2. PICK p \in Peer : dial.peer = p
  BY <1>1, DialGoes DEF DialSteps
<1>3. UNCHANGED <<spaces, work, stores, ticket, lan, horizon, pending,
                  clock, writes, churn, links, story>>
  BY DEF WindowEnds, bounds
<1>4. \/ Advance(p, clock) /\ dial' = NoDial /\ UNCHANGED <<live, link>>
      \/ /\ link' = [link EXCEPT ![p] = IF link[p] = "pooled" THEN "none" ELSE link[p]]
         /\ live' = live \ {p} /\ Attempt(p) /\ UNCHANGED <<lastSeen, backoff>>
  BY <1>2 DEF WindowEnds
<1>5. CASE Advance(p, clock) /\ dial' = NoDial /\ UNCHANGED <<live, link>>
  <2>1. clock \in 0..clock
    BY LinkFacts
  <2>2. /\ lastSeen' \in [Peer -> 0..clock] /\ failures' \in [Peer -> 0..MaxFailures]
        /\ backoff' \subseteq Peer
    BY <1>5, <2>1, AdvanceFacts
  <2>3. LinksTyped'
    BY <1>3, <1>5, LinkFacts, LinksStill
  <2>4. DialTyped'
    BY <1>5, DialStill
  <2>. QED
    BY <1>3, <2>2, <2>3, <2>4, LinkFacts, Links
<1>6. CASE /\ link' = [link EXCEPT ![p] = IF link[p] = "pooled" THEN "none" ELSE link[p]]
           /\ live' = live \ {p} /\ Attempt(p) /\ UNCHANGED <<lastSeen, backoff>>
  <2>1. failures' \in [Peer -> 0..MaxFailures] /\ DialTyped'
    BY <1>1, <1>6, AttemptFacts
  <2>2. LinksTyped'
    <3>. DEFINE l == IF link[p] = "pooled" THEN "none" ELSE link[p]
    <3>1. /\ l \in {"none", "knock", "admitted", "pooled"}
          /\ l = "admitted" => p \in pending
      BY LinkFacts
    <3>2. link' = [link EXCEPT ![p] = l] /\ live' = live \ {p} /\ pending' = pending
      BY <1>3, <1>6
    <3>. HIDE DEF l
    <3>. QED
      BY <3>1, <3>2, LinkChanges
  <2>. QED
    BY <1>3, <1>6, <2>1, <2>2, LinkFacts, Links
<1>. QED
  BY <1>4, <1>5, <1>6

LEMMA BackOffKeeps ==
    ASSUME PeersInv, BackOff
    PROVE  PeersInv'
<1>1. /\ dial.pc = "backoff" /\ backoff' = backoff \cup {dial.peer} /\ dial' = NoDial
      /\ UNCHANGED <<spaces, work, stores, ticket, lan, lastSeen, failures, horizon, conns,
                     clock, writes, churn, links, story>>
  BY DEF BackOff, status, bounds
<1>2. backoff' \subseteq Peer
  BY <1>1, DialGoes, LinkFacts DEF DialSteps
<1>3. LinksTyped'
  BY <1>1, LinkFacts, LinksStill DEF conns
<1>4. DialTyped'
  BY <1>1, DialStill
<1>. QED
  BY <1>1, <1>2, <1>3, <1>4, LinkFacts, Links

LEMMA DueKeeps ==
    ASSUME PeersInv, NEW p \in Peer, Due(p)
    PROVE  PeersInv'
<1>1. /\ backoff' = backoff \ {p}
      /\ UNCHANGED <<spaces, work, stores, ticket, lan, lastSeen, failures, horizon, conns, dial,
                     clock, writes, churn, links, story>>
  BY DEF Due, status, bounds
<1>2. LinksTyped'
  BY <1>1, LinkFacts, LinksStill DEF conns
<1>3. DialTyped'
  BY <1>1, DialStill
<1>. QED
  BY <1>1, <1>2, <1>3, LinkFacts, Links

----------------------------------------------------------------------------
(* The handshake filter.                                                   *)

\* The device that shook hands is remembered: its recompute is enqueued, or
\* dropped.
Remembers(p) ==
    /\ p \in Own
    /\ entry' = [entry EXCEPT ![p].seen = clock']
    /\ queue' = Enqueue(queue, Task("recompute", NoPeer, p, 0))
    /\ IF queue' = queue
       THEN unsure' = unsure \cup {p} /\ job' = Overlap(p, {})
       ELSE UNCHANGED <<unsure, job>>
    /\ link' = [link EXCEPT ![p] = "admitted"] /\ pending' = pending \cup {p}
    /\ UNCHANGED <<lastSeen, failures, backoff>>

AllowHandshakeRest ==
    UNCHANGED <<spaces, records, round, stores, ticket, lan, horizon, live,
                writes, churn, links, story>>

LEMMA RemembersKeeps ==
    ASSUME PeersInv, NEW p \in Peer, link[p] = "knock", clock' = clock + 1, AllowHandshakeRest,
           Remembers(p), DialTyped'
    PROVE  PeersInv'
<1>. DEFINE c == clock'
            t == Task("recompute", NoPeer, p, 0)
<1>0. clock \in Nat /\ c \in Nat /\ clock <= c /\ c \in 0..c /\ horizon \in Nat
  BY DEF PeersInv, PeersTyped, BoundsTyped, StatusTyped
<1>1. /\ entry' = [entry EXCEPT ![p].seen = c] /\ queue' = Enqueue(queue, t)
      /\ UNCHANGED <<spaces, records, round, stores, ticket, lan, horizon, live,
                     writes, churn, links, story, lastSeen, failures, backoff>>
  BY DEF Remembers, AllowHandshakeRest
<1>2. loaded' = loaded /\ global' = global /\ account' = account
  BY <1>1 DEF spaces, stores
<1>3. entry \in EntriesOf(c) /\ records \in RowsOf(c)
  BY <1>0, TimesGrow DEF PeersInv, PeersTyped, RecordsTyped
<1>4. t \in TasksOf(c) /\ t.kind = "recompute" /\ t.peer = p
  BY <1>0 DEF Task, TasksOf
<1>. HIDE DEF c, t
<1>5. entry' \in EntriesOf(c) /\ \A q \in Peer \ {p} : entry'[q] = entry[q]
  <2>. DEFINE e == [entry[p] EXCEPT !.seen = c]
  <2>1. e \in [seen : 0..c, relay : 0..c]
    BY <1>0, <1>3 DEF EntriesOf
  <2>2. entry' = [entry EXCEPT ![p] = e]
    BY <1>1
  <2>. HIDE DEF e
  <2>3. p \in Own
    BY DEF Remembers
  <2>. QED
    BY <1>3, <2>1, <2>2, <2>3 DEF EntriesOf
<1>6. RecordsTyped'
  BY <1>1, <1>2, <1>3, <1>5 DEF PeersInv, PeersTyped, RecordsTyped, c
<1>7. QueueTyped' /\ Longer(queue, queue', t)
  <2>1. QueueTyped /\ clock' \in Nat /\ clock <= clock' /\ t \in TasksOf(clock') /\ round' = round
    BY <1>0, <1>1, <1>4 DEF c, PeersInv, PeersTyped
  <2>. QED
    BY <1>0, <1>1, <2>1, EnqueueTyped
<1>8. BoundsTyped'
  BY <1>0, <1>1 DEF PeersInv, PeersTyped, BoundsTyped, c
<1>9. LinksTyped'
  <2>1. link' = [link EXCEPT ![p] = "admitted"] /\ pending' = pending \cup {p} /\ live' = live
    BY <1>1 DEF Remembers
  <2>2. p \notin live
    BY LinkFacts
  <2>. QED
    BY <2>1, <2>2, LinkChanges
<1>10. ASSUME JobsTyped' PROVE PeersTyped'
  <2>1. clock' \in Nat /\ clock <= clock'
    BY <1>0 DEF c
  <2>2. StatusTyped'
    BY <1>1, <2>1, TypesKept DEF PeersInv, status
  <2>. QED
    BY <1>1, <1>6, <1>7, <1>8, <1>9, <1>10, <2>1, <2>2, TypesKept DEF PeersInv, PeersTyped
<1>11. CASE queue' = queue
  <2>1. unsure' = unsure \cup {p} /\ job' = Overlap(p, {})
    BY <1>11 DEF Remembers
  <2>2. Misses(p)
    BY <1>1, <1>2, <1>5, <1>11, <2>1 DEF Misses
  <2>3. JobsTyped'
    <3>0. JobsTyped
      BY DEF PeersInv, PeersTyped
    <3>1. job \in [Thread -> JobsOf(c)]
      BY <1>0, <3>0, TimesGrow DEF JobsTyped
    <3>2. /\ DOMAIN job' = Thread
          /\ \A u \in Thread : IF job[u].peer = p THEN job'[u] = [job[u] EXCEPT !.alone = FALSE]
                               ELSE job'[u] = job[u]
      BY <2>1, <3>0, OverlapIs
    <3>3. ASSUME NEW u \in Thread PROVE job'[u] \in JobsOf(c)
      <4>1. job[u] \in JobsOf(c)
        BY <3>1
      <4>2. CASE job[u].peer = p
        <5>1. job'[u] = [job[u] EXCEPT !.alone = FALSE]
          BY <3>2, <4>2
        <5>. QED
          BY <4>1, <5>1 DEF JobsOf
      <4>3. CASE job[u].peer # p
        BY <3>2, <4>1, <4>3
      <4>. QED
        BY <4>2, <4>3
    <3>4. job' = [u \in Thread |-> job'[u]]
      BY <2>1, <3>2 DEF Overlap
    <3>5. job' \in [Thread -> JobsOf(c)]
      BY <3>3, <3>4
    <3>. QED
      BY <2>1, <3>0, <3>5 DEF JobsTyped, c
  <2>. QED
    BY <1>10, <2>2, <2>3, MissesCore DEF PeersInv
<1>12. CASE queue' # queue
  <2>1. UNCHANGED <<unsure, job>>
    BY <1>12 DEF Remembers
  <2>2. JobsTyped'
    BY <1>0, <2>1, TypesKept DEF PeersInv, c
  <2>3. Waits(p)'
    <3>1. \E i \in DOMAIN queue' : queue'[i] = t
      BY <1>7, <1>12 DEF Longer
    <3>2. \E i \in DOMAIN queue' : queue'[i].kind = "recompute" /\ queue'[i].peer = p
      BY <1>4, <3>1
    <3>. QED
      BY <3>2 DEF Waits
  <2>4. \A q \in Peer : Waits(q) => Waits(q)'
    BY <1>7, <2>1 DEF Waits, Longer
  <2>5. ASSUME NEW q \in Peer \ {p} PROVE View(q)' = View(q)
    BY <1>1, <1>2, <1>5, ViewStill
  <2>6. Aside
    BY <1>0, <1>1, <1>2, <2>1, <2>3, <2>4, <2>5 DEF Aside
  <2>. QED
    BY <1>10, <2>2, <2>6, AsideCore DEF PeersInv
<1>. QED
  BY <1>11, <1>12

LEMMA OverlooksFacts ==
    ASSUME PeersInv, NEW p \in Peer, Overlooks(p)
    PROVE  dial' = dial \/ \E pc \in DialSteps : dial' = DialOf(pc, p, TRUE)
<1>1. CASE dial.peer = p /\ dial.pc \in {"picking", "asking", "dialing"}
  <2>1. dial' = [dial EXCEPT !.blind = TRUE]
    BY <1>1 DEF Overlooks
  <2>2. dial' = DialOf(dial.pc, p, TRUE)
    BY <1>1, <2>1, LinkFacts DEF DialOf, DialTyped
  <2>. QED
    BY <1>1, <2>2 DEF DialSteps
<1>2. CASE ~(dial.peer = p /\ dial.pc \in {"picking", "asking", "dialing"})
  BY <1>2 DEF Overlooks
<1>. QED
  BY <1>1, <1>2

LEMMA AllowHandshakeKeeps ==
    ASSUME PeersInv, NEW p \in Peer, AllowHandshake(p)
    PROVE  PeersInv'
<1>0. clock \in Nat /\ horizon \in Nat
  BY DEF PeersInv, PeersTyped, BoundsTyped, StatusTyped
<1>1. link[p] = "knock" /\ clock' = clock + 1 /\ AllowHandshakeRest
  BY DEF AllowHandshake, AllowHandshakeRest
<1>2. \/ Remembers(p)
      \/ /\ link' = [link EXCEPT ![p] = "admitted"] /\ pending' = pending \cup {p}
         /\ Overlooks(p) /\ Advance(p, clock')
         /\ UNCHANGED <<entry, queue, unsure, job>>
      \/ /\ link' = [link EXCEPT ![p] = "none"] /\ dial' = dial
         /\ UNCHANGED <<pending, lastSeen, failures, backoff, entry, queue, unsure, job>>
  BY Zenon DEF AllowHandshake, Remembers, status
<1>9. DialTyped'
  <2>1. dial' = dial \/ Overlooks(p)
    BY Zenon DEF AllowHandshake
  <2>. QED
    BY <2>1, OverlooksFacts, DialStill, Zenon
<1>3. CASE Remembers(p)
  BY <1>1, <1>3, <1>9, RemembersKeeps
<1>4. ASSUME UNCHANGED <<entry, queue, unsure, job>>, LinksTyped', StatusTyped'
      PROVE  PeersInv'
  <2>1. UNCHANGED <<spaces, records, round, stores, ticket, lan, horizon, live,
                    writes, churn, links, story>>
    BY <1>1 DEF AllowHandshakeRest
  <2>2. clock' \in Nat /\ clock <= clock' /\ loaded' = loaded
    BY <1>0, <1>1, <2>1 DEF spaces
  <2>3. BoundsTyped'
    BY <2>1, <2>2 DEF PeersInv, PeersTyped, BoundsTyped
  <2>4. PeersTyped'
    BY <1>4, <1>9, <2>1, <2>2, <2>3, TypesKept DEF PeersInv, PeersTyped
  <2>5. UNCHANGED <<work, stores, ticket, loaded>>
    BY <1>4, <2>1, <2>2 DEF work
  <2>6. Core'
    BY <1>0, <2>1, <2>5, CalmCore
  <2>. QED
    BY <2>4, <2>6 DEF PeersInv
<1>5. live' = live /\ p \notin live /\ lan' = lan /\ horizon' = horizon
  BY <1>1, LinkFacts DEF AllowHandshakeRest
<1>6. /\ lastSeen \in [Peer -> 0..clock'] /\ failures \in [Peer -> 0..MaxFailures]
      /\ backoff \subseteq Peer /\ horizon \in 0..clock' /\ lan \subseteq Peer
      /\ clock' \in 0..clock' /\ 0 \in 0..MaxFailures
  <2>1. clock' \in Nat /\ clock <= clock'
    BY <1>0, <1>1
  <2>2. [Peer -> 0..clock] \subseteq [Peer -> 0..clock'] /\ 0..clock \subseteq 0..clock'
    BY <1>0, <2>1, TimesGrow
  <2>. QED
    BY <2>1, <2>2, LinkFacts DEF PeersInv, PeersTyped, StatusTyped
<1>7. CASE /\ link' = [link EXCEPT ![p] = "admitted"] /\ pending' = pending \cup {p}
           /\ Overlooks(p) /\ Advance(p, clock')
           /\ UNCHANGED <<entry, queue, unsure, job>>
  <2>1. LinksTyped'
    BY <1>5, <1>7, LinkChanges
  <2>2. /\ lastSeen' \in [Peer -> 0..clock'] /\ failures' \in [Peer -> 0..MaxFailures]
        /\ backoff' \subseteq Peer
    BY <1>6, <1>7 DEF Advance
  <2>3. StatusTyped'
    BY <1>5, <1>6, <2>2 DEF StatusTyped
  <2>. QED
    BY <1>4, <1>7, <2>1, <2>3
<1>8. CASE /\ link' = [link EXCEPT ![p] = "none"] /\ dial' = dial
           /\ UNCHANGED <<pending, lastSeen, failures, backoff, entry, queue, unsure, job>>
  <2>1. LinksTyped'
    BY <1>5, <1>8, LinkChanges
  <2>2. StatusTyped'
    BY <1>5, <1>6, <1>8 DEF StatusTyped
  <2>. QED
    BY <1>4, <1>8, <2>1, <2>2
<1>. QED
  BY <1>2, <1>3, <1>7, <1>8

----------------------------------------------------------------------------
(* The beginning.                                                          *)

LEMMA SetToSeqFacts ==
    ASSUME NEW S, IsFiniteSet(S)
    PROVE  SetToSeq(S) \in Seq(S) /\ Len(SetToSeq(S)) = Cardinality(S)
<1>1. Cardinality(S) \in Nat /\ ExistsBijection(1..Cardinality(S), S)
  BY FS_CardinalityType
<1>2. \E f \in [1..Cardinality(S) -> S] : IsInjective(f)
  BY <1>1 DEF ExistsBijection, Bijection, Injection, IsInjective
<1>3. SetToSeq(S) \in [1..Cardinality(S) -> S]
  BY <1>2 DEF SetToSeq
<1>. HIDE DEF SetToSeq
<1>. QED
  BY <1>1, <1>3

LEMMA InitTyped ==
    ASSUME PeersInit
    PROVE  PeersTyped
<1>1. /\ story \in Stories /\ rows = story.rows /\ members = Space \X Peer /\ loaded = story.loaded
      /\ records = [s \in Space |-> [p \in Peer |-> 0]]
      /\ entry = [p \in Peer |-> NoEntry]
      /\ queue = SetToSeq({Task("reconcile", s, NoPeer, 0) : s \in loaded})
      /\ round = {} /\ job = [t \in Thread |-> NoJob]
      /\ global = [p \in Peer |-> {}] /\ account = {} /\ ticket = [p \in Peer |-> 0]
      /\ clock = 1 /\ unsure = {}
  BY DEF PeersInit
<1>2. /\ lan = {} /\ lastSeen = [p \in Peer |-> 0] /\ failures = [p \in Peer |-> 0] /\ horizon = 0
      /\ backoff = {} /\ dial = NoDial
      /\ live = {} /\ pending = {} /\ link = [p \in Peer |-> "none"]
      /\ writes = 0 /\ churn = 0 /\ links = 0
  BY DEF PeersInit
<1>3. /\ story.writes \in Nat /\ story.churn \in Nat /\ story.links \in Nat
      /\ story.rows \in [Space -> [Peer -> 0..1]] /\ story.loaded \subseteq Space
      /\ Cardinality(story.loaded) <= QueueSize
  BY <1>1, GlobalFacts
<1>4. SpacesTyped
  BY <1>1, <1>3 DEF SpacesTyped, RowsOf
<1>5. RecordsTyped
  <2>1. records \in RowsOf(clock) /\ \A s \in Space : \A p \in Peer : records[s][p] = 0
    BY <1>1 DEF RowsOf
  <2>2. entry \in EntriesOf(clock)
    BY <1>1, GlobalFacts DEF EntriesOf, NoEntry
  <2>. QED
    BY <2>1, <2>2 DEF RecordsTyped
<1>6. QueueTyped
  <2>. DEFINE f == [s \in Space |-> Task("reconcile", s, NoPeer, 0)]
              S == {f[s] : s \in loaded}
  <2>1. IsFiniteSet(loaded)
    BY <1>1, <1>3, GlobalFacts, FS_Subset
  <2>2. {Task("reconcile", s, NoPeer, 0) : s \in loaded} = S
    BY <1>1, <1>3
  <2>3. S \subseteq TasksOf(clock)
    <3>1. ASSUME NEW s \in loaded PROVE f[s] \in TasksOf(clock)
      <4>1. s \in Space /\ 0 \in 0..clock
        BY <1>1, <1>3
      <4>2. Task("reconcile", s, NoPeer, 0) \in TasksOf(clock)
        BY <4>1 DEF Task, TasksOf
      <4>. QED
        BY <4>1, <4>2
    <3>. QED
      BY <3>1
  <2>. HIDE DEF f
  <2>4. IsFiniteSet(S) /\ Cardinality(S) <= Cardinality(loaded)
    BY <2>1, ImageFacts
  <2>. HIDE DEF S
  <2>5. queue \in Seq(S) /\ Len(queue) = Cardinality(S)
    BY <1>1, <2>2, <2>4, SetToSeqFacts
  <2>6. queue \in Seq(TasksOf(clock))
    BY <2>3, <2>5, SeqMonotonic
  <2>7. Len(queue) <= QueueSize
    <3>1. Cardinality(S) \in Nat /\ Cardinality(loaded) \in Nat /\ QueueSize \in Nat
      BY <2>1, <2>4, FS_CardinalityType, GlobalFacts
    <3>. QED
      BY <1>1, <1>3, <2>4, <2>5, <3>1
  <2>. QED
    BY <1>1, <2>6, <2>7 DEF QueueTyped
<1>7. JobsTyped
  <2>1. NoJob \in JobsOf(clock)
    <3>1. clock \in Nat
      BY <1>1
    <3>. QED
      BY <3>1, NoJobTyped DEF JobsOf
  <2>. QED
    BY <1>1, <2>1 DEF JobsTyped
<1>8. StoresTyped
  BY <1>1 DEF StoresTyped
<1>9. StatusTyped
  BY <1>1, <1>2, GlobalFacts DEF StatusTyped
<1>10. LinksTyped
  BY <1>2 DEF LinksTyped
<1>11. DialTyped
  BY <1>2 DEF DialTyped, NoDial, DialOf
<1>12. BoundsTyped
  BY <1>1, <1>2, <1>3 DEF BoundsTyped
<1>. QED
  BY <1>4, <1>5, <1>6, <1>7, <1>8, <1>9, <1>10, <1>11, <1>12 DEF PeersTyped

\* Nothing has been read, and nothing is in the stores.
LEMMA InitHoldsPeers ==
    ASSUME PeersInit
    PROVE  PeersInv
<1>1. PeersTyped
  BY InitTyped
<1>2. /\ records = [s \in Space |-> [p \in Peer |-> 0]] /\ entry = [p \in Peer |-> NoEntry]
      /\ job = [t \in Thread |-> NoJob] /\ loaded \subseteq Space
      /\ global = [p \in Peer |-> {}] /\ account = {} /\ ticket = [p \in Peer |-> 0]
      /\ clock \in Nat
  BY <1>1 DEF PeersInit, PeersTyped, SpacesTyped, BoundsTyped
<1>3. \A t \in Thread : job[t].pc = "idle" /\ job[t].peer = NoPeer
  BY <1>2 DEF NoJob
<1>4. Alone /\ Latest
  BY <1>3, GlobalFacts DEF Alone, Latest
<1>5. ASSUME NEW p \in Peer PROVE Agrees(p, View(p))
  <2>1. View(p).spaces = {} /\ ~View(p).sibling
    BY <1>2 DEF View, Fold
  <2>2. View(p).ticket = 0
    BY <1>1, <1>2, <2>1, FoldFacts DEF View, Gone, PeersTyped, RecordsTyped
  <2>. QED
    BY <1>2, <2>1, <2>2 DEF Agrees, InStores
<1>. QED
  BY <1>1, <1>4, <1>5 DEF PeersInv, Core, Truth

----------------------------------------------------------------------------
(* Every step.                                                             *)

LEMMA RecomputeKeeps ==
    ASSUME PeersInv, NEW t \in Thread, Recompute(t)
    PROVE  PeersInv'
BY RecomputeReadKeeps, WriteGoneKeeps, WriteForgottenKeeps, WriteTicketKeeps, WriteStoreKeeps
   DEF Recompute

LEMMA PeerStepKeeps ==
    ASSUME PeersInv, NEW p \in Peer,
           \/ LanChanges(p) \/ \E how \in {"up", "down", "refuses"} : ReachChanges(p, how)
           \/ AllowInbound(p) \/ AllowHandshake(p) \/ Accepted(p, FALSE) \/ Housekeeping(p)
           \/ Closes(p) \/ Sweep(p) \/ Due(p)
    PROVE  PeersInv'
<1>1. CASE \E how \in {"up", "down", "refuses"} : ReachChanges(p, how)
  BY <1>1, ReachChangesKeeps
<1>2. CASE Accepted(p, FALSE)
  BY <1>2, AcceptedKeeps
<1>3. CASE Housekeeping(p)
  BY <1>3, AcceptedKeeps, PendingExpiresKeeps DEF Housekeeping
<1>4. CASE LanChanges(p) \/ AllowInbound(p) \/ AllowHandshake(p)
  BY <1>4, LanChangesKeeps, AllowInboundKeeps, AllowHandshakeKeeps
<1>5. CASE Closes(p) \/ Sweep(p) \/ Due(p)
  BY <1>5, ClosesKeeps, SweepKeeps, DueKeeps
<1>. QED
  BY <1>1, <1>2, <1>3, <1>4, <1>5

LEMMA PeersStepKeeps == PeersInv /\ [PeersNext]_peersVars => PeersInv'
<1>. SUFFICES ASSUME PeersInv, [PeersNext]_peersVars PROVE PeersInv'
  OBVIOUS
<1>0. story.peers \subseteq Peer
  BY GlobalFacts DEF PeersInv, PeersTyped, BoundsTyped
<1>1. CASE UNCHANGED peersVars
  <2>1. UNCHANGED <<spaces, work, stores, ticket, lan, lastSeen, failures, horizon, conns, backoff,
                    dial, clock, writes, churn, links, story>>
    BY <1>1 DEF peersVars, status, dialing, bounds
  <2>2. LinksTyped'
    BY <2>1, LinkFacts, LinksStill DEF conns
  <2>3. DialTyped'
    BY <2>1, DialStill
  <2>. QED
    BY <2>1, <2>2, <2>3, LinkFacts, Links
<1>2. CASE \E s \in Space, p \in story.peers : RowArrives(s, p) \/ MemberChanges(s, p)
  BY <1>0, <1>2, RowArrivesKeeps, MemberChangesKeeps
<1>3. CASE \E s \in Space : SpaceLoaded(s) \/ SpaceUnloaded(s)
  BY <1>3, SpaceLoadedKeeps, SpaceUnloadedKeeps
<1>4. CASE Expire \/ ReconcileTick \/ Working
  BY <1>4, ExpireKeeps, ReconcileTickKeeps, TakeKeeps, ReconcileKeeps DEF Working
<1>5. CASE \E named, recent \in SUBSET (Own \cap story.peers) : AccountRecord(named, recent)
  BY <1>5, AccountRecordKeeps
<1>6. CASE \E t \in Thread : Recompute(t)
  BY <1>6, RecomputeKeeps
<1>7. CASE \E p \in story.peers :
              \/ LanChanges(p) \/ \E how \in {"up", "down", "refuses"} : ReachChanges(p, how)
              \/ AllowInbound(p) \/ AllowHandshake(p) \/ Accepted(p, FALSE) \/ Housekeeping(p)
              \/ Closes(p) \/ Sweep(p) \/ Due(p)
  <2>1. PICK p \in story.peers :
           \/ LanChanges(p) \/ \E how \in {"up", "down", "refuses"} : ReachChanges(p, how)
           \/ AllowInbound(p) \/ AllowHandshake(p) \/ Accepted(p, FALSE) \/ Housekeeping(p)
           \/ Closes(p) \/ Sweep(p) \/ Due(p)
    BY <1>7
  <2>2. p \in Peer
    BY <1>0
  <2>. QED
    BY <2>1, <2>2, PeerStepKeeps
<1>8. CASE Plan \/ Connect
  BY <1>8, PlanKeeps, CheckDialKeeps, PickLiveKeeps, StartDialKeeps, DialAnsweredKeeps, DialFailsKeeps, WindowEndsKeeps,
     BackOffKeeps DEF Connect
<1>. QED
  BY <1>1, <1>2, <1>3, <1>4, <1>5, <1>6, <1>7, <1>8, Zenon DEF PeersNext

LEMMA PeersInvHolds == PeersSpec => []PeersInv
<1>1. PeersInit => PeersInv
  BY InitHoldsPeers
<1>2. PeersInv /\ [PeersNext]_peersVars => PeersInv'
  BY PeersStepKeeps
<1>. QED
  BY <1>1, <1>2, PTL DEF PeersSpec

----------------------------------------------------------------------------
(* What follows.                                                           *)

LEMMA TypedIsTypeOK == PeersTyped => PeersTypeOK
<1>. SUFFICES ASSUME PeersTyped PROVE PeersTypeOK
  OBVIOUS
<1>1. \A t \in Thread : job[t].pc \in {"idle", "drop", "forget", "ticket", "store"}
  BY JobFacts DEF PeersTyped, Steps
<1>2. /\ rows \in [Space -> [Peer -> 0..clock]] /\ records \in [Space -> [Peer -> 0..clock]]
      /\ entry \in [Peer -> [seen : 0..clock, relay : 0..clock]]
      /\ members \subseteq Space \X Peer /\ loaded \subseteq Space /\ round \subseteq Space
      /\ Len(queue) <= QueueSize
  BY DEF PeersTyped, SpacesTyped, RecordsTyped, QueueTyped, RowsOf, EntriesOf
<1>3. /\ global \in [Peer -> SUBSET Space] /\ account \subseteq Own
      /\ ticket \in [Peer -> 0..clock] /\ lan \subseteq Peer
      /\ lastSeen \in [Peer -> 0..clock] /\ failures \in [Peer -> 0..MaxFailures]
      /\ horizon \in 0..clock /\ backoff \subseteq Peer
  BY DEF PeersTyped, StoresTyped, StatusTyped
<1>4. /\ live \subseteq Peer /\ pending \subseteq Peer
      /\ dial.pc \in {"idle", "planned", "picking", "asking", "dialing", "window", "backoff"}
      /\ link \in [Peer -> {"none", "knock", "admitted", "pooled"}]
      /\ \A p \in live : link[p] = "pooled"
  BY DEF PeersTyped, LinksTyped, DialTyped, DialSteps
<1>5. story \in Stories /\ clock \in Nat /\ writes \in 0..story.writes
      /\ churn \in 0..story.churn /\ links \in 0..story.links
  BY DEF PeersTyped, BoundsTyped
<1>. QED
  BY <1>1, <1>2, <1>3, <1>4, <1>5 DEF PeersTypeOK, Time

\* What nothing is on its way for is neither at work nor waiting.
LEMMA SettledIsTold ==
    ASSUME PeersInv
    PROVE  \A p \in Peer \ unsure : Settled(p) => Agrees(p, View(p))
<1>. SUFFICES ASSUME NEW p \in Peer \ unsure, Settled(p) PROVE Agrees(p, View(p))
  OBVIOUS
<1>1. ~AtWork(p) /\ ~Waits(p)
  BY DEF Settled, AtWork, Waits
<1>. QED
  BY <1>1 DEF PeersInv, Core, Truth

\* The stores follow the records, whatever tasks were dropped, rows applied
\* out of order or spaces unloaded meanwhile: of a peer nothing is on its way
\* for, the peer store and the address book say what the records say
\* (global.go, recompute; SpaceUnloaded; accountlayer.go).
THEOREM StoresFollowRecords == PeersSpec => []StoresAreTrue
<1>1. PeersInv => StoresAreTrue
  BY TypedIsTypeOK, SettledIsTold DEF PeersInv, StoresAreTrue
<1>. QED
  BY <1>1, PeersInvHolds, PTL

\* What the connector has not overlooked it has looked for: the layer and its
\* marks at the check, the pool after it.
DialSeen ==
    /\ dial.pc = "picking" /\ link[dial.peer] = "admitted" => dial.blind
    /\ dial.pc \in {"asking", "dialing"} /\ link[dial.peer] \in {"admitted", "pooled"} => dial.blind

\* A step of the connector.
LEMMA ConnectSeen ==
    ASSUME PeersInv, DialSeen, Plan \/ Connect
    PROVE  DialSeen'
<1>1. CASE dial' = NoDial
  BY <1>1 DEF NoDial, DialOf, DialSeen
<1>2. ASSUME NEW q, NEW b, NEW pc \in {"planned", "window", "backoff"},
             dial' = DialOf(pc, q, b)
      PROVE  DialSeen'
  BY <1>2 DEF DialOf, DialSeen
<1>3. CASE Plan
  BY <1>2, <1>3 DEF Plan
<1>4. CASE CheckDial
  <2>1. CASE Connected(dial.peer)
    BY <1>1, <1>4, <2>1 DEF CheckDial
  <2>2. CASE ~Connected(dial.peer)
    <3>1. dial.pc = "planned" /\ link' = link /\ dial' = [dial EXCEPT !.pc = "picking"]
      BY <1>4, <2>2 DEF CheckDial, conns
    <3>2. /\ dial' = DialOf("picking", dial.peer, dial.blind)
          /\ dial.peer \in Peer
      BY <3>1, DialGoes, Zenon DEF DialSteps
    <3>3. link[dial.peer] # "admitted"
      BY <2>2, <3>2, LinkFacts DEF Connected
    <3>. QED
      BY <3>1, <3>2, <3>3 DEF DialOf, DialSeen
  <2>. QED
    BY <2>1, <2>2
<1>5. CASE PickLive
  <2>1. dial.pc = "picking" /\ link' = link
    BY <1>5 DEF PickLive
  <2>. DEFINE b == dial.blind \/ link[dial.peer] = "pooled"
  <2>2. dial' = NoDial \/ dial' = DialOf("asking", dial.peer, b)
    BY <1>5, Zenon DEF PickLive
  <2>3. b \in BOOLEAN /\ (link[dial.peer] \in {"admitted", "pooled"} => b)
    BY <2>1, Zenon DEF DialSeen
  <2>. HIDE DEF b
  <2>4. CASE dial' = DialOf("asking", dial.peer, b)
    BY <2>1, <2>3, <2>4 DEF DialOf, DialSeen
  <2>. QED
    BY <1>1, <2>2, <2>4
<1>6. CASE StartDial
  <2>1. /\ dial.pc = "asking" /\ link' = link
        /\ dial' = NoDial \/ dial' = [dial EXCEPT !.pc = "dialing"]
    BY <1>6 DEF StartDial, conns
  <2>2. dial' = NoDial \/ dial' = DialOf("dialing", dial.peer, dial.blind)
    BY <2>1, DialGoes, Zenon DEF DialSteps
  <2>3. CASE dial' = DialOf("dialing", dial.peer, dial.blind)
    BY <2>1, <2>3 DEF DialOf, DialSeen
  <2>. QED
    BY <1>1, <2>2, <2>3
<1>7. CASE DialAnswered \/ DialFails \/ WindowEnds \/ BackOff
  <2>1. dial' = NoDial \/ \E pc \in {"window", "backoff"} : dial' = DialOf(pc, dial.peer, FALSE)
    BY <1>7, Zenon DEF DialAnswered, DialFails, WindowEnds, BackOff, Attempt
  <2>. QED
    BY <1>1, <1>2, <2>1
<1>. QED
  BY <1>3, <1>4, <1>5, <1>6, <1>7, Zenon DEF Connect

\* A step of the network: an admission is overlooked, and nothing else brings
\* an accepted connection.
LEMMA NetSeen ==
    ASSUME PeersInv, DialSeen, NEW q \in Peer,
           \/ LanChanges(q) \/ \E how \in {"up", "down", "refuses"} : ReachChanges(q, how)
           \/ AllowInbound(q) \/ AllowHandshake(q) \/ Accepted(q, FALSE) \/ Housekeeping(q)
           \/ Closes(q) \/ Sweep(q) \/ Due(q)
    PROVE  DialSeen'
<1>1. CASE UNCHANGED <<dial, link>>
  BY <1>1 DEF DialSeen
<1>2. CASE \/ LanChanges(q) \/ \E how \in {"up", "down", "refuses"} : ReachChanges(q, how)
           \/ PendingExpires(q) \/ Sweep(q) \/ Due(q)
  BY <1>1, <1>2 DEF LanChanges, ReachChanges, PendingExpires, Sweep, Due, dialing, conns
<1>3. ASSUME dial' = dial,
             \/ \E l \in {"none", "knock"} : link' = [link EXCEPT ![q] = l]
             \/ link[q] = "admitted" /\ link' = [link EXCEPT ![q] = "pooled"]
      PROVE  DialSeen'
  <2>1. \A x \in Peer : \/ link'[x] = link[x] \/ link'[x] \in {"none", "knock"}
                        \/ link[x] = "admitted" /\ link'[x] = "pooled"
    BY <1>3, LinkFacts
  <2>2. dial.pc # "idle" => dial.peer \in Peer
    BY LinkFacts DEF DialTyped
  <2>3. CASE dial.pc \in {"picking", "asking", "dialing"} /\ link'[dial.peer] \in {"admitted", "pooled"}
    <3>1. /\ link[dial.peer] \in {"admitted", "pooled"}
          /\ link'[dial.peer] = "admitted" => link[dial.peer] = "admitted"
      BY <2>1, <2>2, <2>3
    <3>2. CASE dial.blind
      BY <1>3, <3>2 DEF DialSeen
    <3>3. CASE ~dial.blind
      <4>1. dial.pc = "picking" /\ link[dial.peer] # "admitted"
        BY <2>3, <3>1, <3>3 DEF DialSeen
      <4>. QED
        BY <1>3, <3>1, <4>1 DEF DialSeen
    <3>. QED
      BY <3>2, <3>3
  <2>. QED
    BY <1>3, <2>3 DEF DialSeen
<1>4. CASE AllowInbound(q) \/ Closes(q) \/ \E ok \in BOOLEAN : Accepted(q, ok)
  BY <1>3, <1>4 DEF AllowInbound, Closes, Accepted, dialing
<1>5. CASE AllowHandshake(q)
  <2>1. \/ dial' = dial /\ link' = [link EXCEPT ![q] = "none"]
        \/ link' = [link EXCEPT ![q] = "admitted"] /\ Overlooks(q)
    BY <1>5, Zenon DEF AllowHandshake
  <2>2. CASE link' = [link EXCEPT ![q] = "admitted"] /\ Overlooks(q)
    <3>1. CASE dial.peer = q /\ dial.pc \in {"picking", "asking", "dialing"}
      <4>1. dial' = [dial EXCEPT !.blind = TRUE]
        BY <2>2, <3>1 DEF Overlooks
      <4>2. dial'.blind
        BY <4>1, LinkFacts DEF DialTyped
      <4>. QED
        BY <4>2 DEF DialSeen
    <3>2. CASE ~(dial.peer = q /\ dial.pc \in {"picking", "asking", "dialing"})
      <4>1. dial' = dial
        BY <2>2, <3>2 DEF Overlooks
      <4>2. dial.peer # q => link'[dial.peer] = link[dial.peer]
        BY <2>2, LinkFacts
      <4>. QED
        BY <3>2, <4>1, <4>2 DEF DialSeen
    <3>. QED
      BY <3>1, <3>2
  <2>. QED
    BY <1>3, <2>1, <2>2
<1>. QED
  BY <1>2, <1>4, <1>5 DEF Housekeeping

LEMMA StepSeen == PeersInv /\ DialSeen /\ [PeersNext]_peersVars => DialSeen'
<1>. SUFFICES ASSUME PeersInv, DialSeen, [PeersNext]_peersVars PROVE DialSeen'
  OBVIOUS
<1>0. story.peers \subseteq Peer
  BY GlobalFacts DEF PeersInv, PeersTyped, BoundsTyped
<1>1. CASE UNCHANGED <<dial, link>>
  BY <1>1 DEF DialSeen
<1>2. CASE UNCHANGED peersVars
  BY <1>1, <1>2 DEF peersVars, dialing, conns
<1>3. CASE \E s \in Space, q \in story.peers : RowArrives(s, q) \/ MemberChanges(s, q)
  BY <1>1, <1>3 DEF RowArrives, MemberChanges, dialing, conns
<1>4. CASE \E s \in Space : SpaceLoaded(s) \/ SpaceUnloaded(s)
  BY <1>1, <1>4 DEF SpaceLoaded, SpaceUnloaded, dialing, conns
<1>5. CASE Expire \/ ReconcileTick \/ Working
  BY <1>1, <1>5 DEF Expire, ReconcileTick, Working, Take, Reconcile, dialing, conns
<1>6. CASE \E named, recent \in SUBSET (Own \cap story.peers) : AccountRecord(named, recent)
  BY <1>1, <1>6 DEF AccountRecord, dialing, conns
<1>7. CASE \E t \in Thread : Recompute(t)
  BY <1>1, <1>7 DEF Recompute, Read, WriteGone, WriteForgotten, WriteTicket, WriteStore, dialing, conns
<1>8. CASE \E q \in story.peers :
              \/ LanChanges(q) \/ \E how \in {"up", "down", "refuses"} : ReachChanges(q, how)
              \/ AllowInbound(q) \/ AllowHandshake(q) \/ Accepted(q, FALSE) \/ Housekeeping(q)
              \/ Closes(q) \/ Sweep(q) \/ Due(q)
  BY <1>0, <1>8, NetSeen
<1>9. CASE Plan \/ Connect
  BY <1>9, ConnectSeen
<1>. QED
  BY <1>2, <1>3, <1>4, <1>5, <1>6, <1>7, <1>8, <1>9, Zenon DEF PeersNext

\* The connector does not dial back a peer that was connected when it looked
\* (connector.go, dial: "dialing back would replace the accepted connection
\* and kill both").  The layer's marks and the pool together know of every
\* connection at the check: what is on its way to the pool is still marked as
\* pending, and for what has lost the mark the pool is asked.  A peer admitted
\* after the check, and a pool that does not answer, are set apart.
THEOREM NeverDialsBack == PeersSpec => []DialsNoneBack
<1>1. PeersInit => DialSeen
  BY DEF PeersInit, NoDial, DialOf, DialSeen
<1>2. PeersInv /\ DialSeen /\ [PeersNext]_peersVars => DialSeen'
  BY StepSeen
<1>3. DialSeen => DialsNoneBack
  BY DEF DialSeen, DialsNoneBack
<1>. QED
  BY <1>1, <1>2, <1>3, PeersInvHolds, PTL DEF PeersSpec
=============================================================================
