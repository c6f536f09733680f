--------------------------- MODULE Membership_proofs ---------------------------
(***************************************************************************)
(* Proofs about Membership, for any devices, courses of events and bounds: *)
(* its type invariant, that no device holds the space before the account   *)
(* asked for it, and that a device whose cursor is past an invite has a    *)
(* row for the space.                                                      *)
(***************************************************************************)
EXTENDS Membership, TLAPS, FiniteSetTheorems

----------------------------------------------------------------------------
(* The inductive invariant.                                                *)

TipOf(P)       == [status : Status, at : P]
CursorOf(P, n) == [offset : 0..n, at : P]
WaiterRow(n)   == [st : {"none", "poll", "reject", "done"}, head : 0..n]
Op == {"none", "joinWrite", "joinHead", "cancelMark", "offload", "acceptFlip", "acceptGet"}
CallRow(n)     == [op : Op, head : 0..n]
Load == {"none", "join", "flip", "invite", "pull"}
Mark == {"", "loading", "active"}

AclTyped ==
    /\ story \in Stories
    /\ chain \in Seq(Event) /\ Len(chain) <= story.chain
    /\ served \in 0..Len(chain) /\ sent \in 0..story.messages
    /\ calls \in 0..story.calls /\ restarts \in 0..MaxRestarts

TreeTyped ==
    /\ tip \in [Replica -> TipOf(Place)]
    /\ cursor \in [Replica -> CursorOf(Place, story.messages)]
    /\ del \in [Replica -> Place]
    /\ dead \in [Device -> BOOLEAN]

\* The head a call will store is on the chain.
LocalTyped ==
    /\ marker \in [Device -> Mark] /\ storage \in [Device -> BOOLEAN]
    /\ load \in [Device -> Load] /\ latched \in [Device -> BOOLEAN] /\ consent \in BOOLEAN
    /\ head \in [Device -> 0..Len(chain)]
    /\ waiter \in [Device -> WaiterRow(story.chain)]
    /\ call \in [Device -> CallRow(Len(chain))]
    /\ pass \in [Device -> -1..story.messages]

Typed == AclTyped /\ TreeTyped /\ LocalTyped

\* A status change has a place, at or after the deletions held, and a cursor
\* or a deletion is never held without one.
RowInv ==
    /\ \A x \in Replica :
          /\ tip[x].status = "none" <=> tip[x].at = 0
          /\ del[x] <= tip[x].at
          /\ cursor[x].offset > 0 => tip[x].at # 0
    /\ \A d \in Device : dead[d] => tip[d].at # 0

\* What a pass has handled or started from has left its row.
PassInv == \A d \in Device : pass[d] > 0 => tip[d].at # 0

\* Before the account asks for the space, no row, marker, waiter, load or call
\* is such as could bring it.
Quiet == {"none", "pending", "declined", "deleted"}
ConsentInv ==
    ~consent =>
       /\ \A x \in Replica : tip[x].status \in Quiet
       /\ \A d \in Device :
             /\ ~storage[d] /\ load[d] = "none" /\ marker[d] = "" /\ waiter[d].st = "none"
             /\ call[d].op \in {"none", "offload"}

MemberInv == Typed /\ RowInv /\ PassInv /\ ConsentInv

----------------------------------------------------------------------------
(* Sets and their sizes.                                                   *)

\* An image is no larger than what it is the image of.
LEMMA ImageFacts ==
    ASSUME NEW S, IsFiniteSet(S), NEW f
    PROVE  /\ IsFiniteSet({f[x] : x \in S})
           /\ Cardinality({f[x] : x \in S}) <= Cardinality(S)
<1>. DEFINE T == {f[x] : x \in S}
            g == [x \in S |-> f[x]]
<1>1. g \in Surjection(S, T)
  BY DEF Surjection
<1>. QED
  BY <1>1, FS_Surjection

LEMMA MaxOfTwo ==
    ASSUME NEW a \in Nat, NEW b \in Nat
    PROVE  Max({a, b}) \in {a, b} /\ a <= Max({a, b}) /\ b <= Max({a, b})
<1>1. \E x \in {a, b} : \A y \in {a, b} : x >= y
  <2>1. CASE a >= b
    BY <2>1
  <2>2. CASE ~(a >= b)
    BY <2>2
  <2>. QED
    BY <2>1, <2>2
<1>2. Max({a, b}) \in {a, b} /\ \A y \in {a, b} : Max({a, b}) >= y
  BY <1>1 DEF Max
<1>. QED
  BY <1>2

LEMMA PlaceFacts ==
    /\ IsFiniteSet(Replica) /\ Cardinality(Replica) \in Nat
    /\ Place \subseteq Nat /\ 0 \in Place
    /\ Place = 0..(3 * Cardinality(Replica))
<1>1. IsFiniteSet(Replica)
  BY MembershipAssumption, FS_AddElement DEF Replica
<1>. QED
  BY <1>1, FS_CardinalityType DEF Place

LEMMA StoryFacts ==
    ASSUME AclTyped
    PROVE  /\ story.chain \in Nat /\ story.messages \in Nat /\ story.calls \in Nat
           /\ Len(chain) \in Nat /\ story.callers \subseteq Device
BY MembershipAssumption DEF AclTyped

----------------------------------------------------------------------------
(* The tree.                                                               *)

\* Renumbering keeps what is in the changes, which places are in use, and the
\* order of a deletion and a status change.
LEMMA SettleFacts ==
    ASSUME NEW n \in Nat, NEW t \in [Replica -> TipOf(Nat)], NEW c \in [Replica -> CursorOf(Nat, n)],
           NEW e \in [Replica -> Nat], Settle(t, c, e)
    PROVE  /\ tip' \in [Replica -> TipOf(Place)]
           /\ cursor' \in [Replica -> CursorOf(Place, n)]
           /\ del' \in [Replica -> Place]
           /\ \A x \in Replica : /\ tip'[x].status = t[x].status
                                 /\ tip'[x].at = 0 <=> t[x].at = 0
                                 /\ cursor'[x].offset = c[x].offset
                                 /\ e[x] <= t[x].at => del'[x] <= tip'[x].at
<1>. DEFINE T == {t[x].at : x \in Replica}
            C == {c[x].at : x \in Replica}
            E == {e[x] : x \in Replica}
            used == T \cup C \cup E
            Before(p) == {q \in used : 0 < q /\ q <= p}
            At(p) == Cardinality(Before(p))
<1>1. IsFiniteSet(used) /\ Cardinality(used) <= 3 * Cardinality(Replica)
  <2>1. IsFiniteSet(T) /\ Cardinality(T) <= Cardinality(Replica)
    <3>. DEFINE f == [x \in Replica |-> t[x].at]
    <3>1. T = {f[x] : x \in Replica}
      OBVIOUS
    <3>. HIDE DEF f, T
    <3>. QED
      BY <3>1, ImageFacts, PlaceFacts
  <2>2. IsFiniteSet(C) /\ Cardinality(C) <= Cardinality(Replica)
    <3>. DEFINE f == [x \in Replica |-> c[x].at]
    <3>1. C = {f[x] : x \in Replica}
      OBVIOUS
    <3>. HIDE DEF f, C
    <3>. QED
      BY <3>1, ImageFacts, PlaceFacts
  <2>3. IsFiniteSet(E) /\ Cardinality(E) <= Cardinality(Replica)
    BY ImageFacts, PlaceFacts
  <2>. HIDE DEF T, C, E
  <2>4. IsFiniteSet(T \cup C) /\ Cardinality(T \cup C) <= Cardinality(T) + Cardinality(C)
    <3>1. IsFiniteSet(T \cup C)
          /\ Cardinality(T \cup C) = Cardinality(T) + Cardinality(C) - Cardinality(T \cap C)
      BY <2>1, <2>2, FS_Union
    <3>2. Cardinality(T) \in Nat /\ Cardinality(C) \in Nat /\ Cardinality(T \cap C) \in Nat
      BY <2>1, <2>2, FS_CardinalityType, FS_Intersection
    <3>. QED
      BY <3>1, <3>2
  <2>5. IsFiniteSet(used) /\ Cardinality(used) <= Cardinality(T \cup C) + Cardinality(E)
    <3>1. IsFiniteSet(used)
          /\ Cardinality(used) = Cardinality(T \cup C) + Cardinality(E) - Cardinality((T \cup C) \cap E)
      BY <2>3, <2>4, FS_Union
    <3>2. Cardinality(T \cup C) \in Nat /\ Cardinality(E) \in Nat /\ Cardinality((T \cup C) \cap E) \in Nat
      BY <2>3, <2>4, FS_CardinalityType, FS_Intersection
    <3>. QED
      BY <3>1, <3>2
  <2>6. /\ Cardinality(T) \in Nat /\ Cardinality(C) \in Nat /\ Cardinality(E) \in Nat
        /\ Cardinality(T \cup C) \in Nat /\ Cardinality(used) \in Nat
    BY <2>1, <2>2, <2>3, <2>4, <2>5, FS_CardinalityType
  <2>. QED
    BY <2>1, <2>2, <2>3, <2>4, <2>5, <2>6, PlaceFacts
<1>2. used \subseteq Nat
  BY DEF TipOf, CursorOf
<1>3. \A p : IsFiniteSet(Before(p)) /\ At(p) \in Place
  <2>. SUFFICES ASSUME NEW p PROVE IsFiniteSet(Before(p)) /\ At(p) \in Place
    OBVIOUS
  <2>1. Before(p) \in SUBSET used
    OBVIOUS
  <2>. HIDE DEF Before, used
  <2>2. IsFiniteSet(Before(p)) /\ At(p) <= Cardinality(used)
    BY <1>1, <2>1, FS_Subset
  <2>3. At(p) \in Nat /\ Cardinality(used) \in Nat
    BY <1>1, <2>2, FS_CardinalityType
  <2>. QED
    BY <1>1, <2>2, <2>3, PlaceFacts
<1>4. \A p \in used : At(p) = 0 <=> p = 0
  <2>. SUFFICES ASSUME NEW p \in used PROVE At(p) = 0 <=> p = 0
    OBVIOUS
  <2>1. Before(p) = {} <=> p = 0
    <3>. HIDE DEF used
    <3>1. p \in Nat
      BY <1>2
    <3>2. ASSUME p = 0 PROVE Before(p) = {}
      <4>1. \A q \in used : ~(0 < q /\ q <= 0)
        BY <1>2
      <4>. QED
        BY <3>2, <4>1
    <3>3. ASSUME p # 0 PROVE p \in Before(p)
      BY <3>1, <3>3
    <3>. QED
      BY <3>1, <3>2, <3>3
  <2>. HIDE DEF Before, used
  <2>. QED
    BY <1>3, <2>1, FS_EmptySet
<1>5. \A p, q \in used : p <= q => At(p) <= At(q)
  <2>. SUFFICES ASSUME NEW p \in used, NEW q \in used, p <= q PROVE At(p) <= At(q)
    OBVIOUS
  <2>1. Before(p) \subseteq Before(q)
    <3>. HIDE DEF used
    <3>1. \A r \in used : r <= p => r <= q
      BY <1>2
    <3>. QED
      BY <3>1
  <2>. HIDE DEF Before, used
  <2>. QED
    BY <1>3, <2>1, FS_Subset
<1>6. /\ tip' = [x \in Replica |-> [t[x] EXCEPT !.at = At(@)]]
      /\ cursor' = [x \in Replica |-> [c[x] EXCEPT !.at = At(@)]]
      /\ del' = [x \in Replica |-> At(e[x])]
  BY DEF Settle
<1>7. \A x \in Replica : t[x].at \in used /\ e[x] \in used
  OBVIOUS
<1>. HIDE DEF used, At
<1>8. tip' \in [Replica -> TipOf(Place)]
  BY <1>3, <1>6 DEF TipOf, At
<1>9. cursor' \in [Replica -> CursorOf(Place, n)]
  BY <1>3, <1>6 DEF CursorOf, At
<1>10. del' \in [Replica -> Place]
  BY <1>3, <1>6 DEF At
<1>11. \A x \in Replica : tip'[x].status = t[x].status /\ tip'[x].at = At(t[x].at)
  BY <1>6 DEF TipOf
<1>12. \A x \in Replica : cursor'[x].offset = c[x].offset /\ del'[x] = At(e[x])
  BY <1>6 DEF CursorOf
<1>. QED
  BY <1>4, <1>5, <1>7, <1>8, <1>9, <1>10, <1>11, <1>12
\* Spreading the places leaves everything else.
LEMMA SpreadFacts ==
    ASSUME AclTyped, TreeTyped
    PROVE  /\ Spread(tip) \in [Replica -> TipOf(Nat)]
           /\ Spread(cursor) \in [Replica -> CursorOf(Nat, story.messages)]
           /\ SpreadDel \in [Replica -> Nat]
           /\ \A x \in Replica : /\ Spread(tip)[x].status = tip[x].status
                                 /\ Spread(tip)[x].at = 2 * tip[x].at
                                 /\ Spread(cursor)[x].offset = cursor[x].offset
                                 /\ SpreadDel[x] = 2 * del[x]
<1>1. /\ tip \in [Replica -> TipOf(Nat)] /\ cursor \in [Replica -> CursorOf(Nat, story.messages)]
      /\ del \in [Replica -> Nat]
  BY PlaceFacts DEF TreeTyped, TipOf, CursorOf
<1>2. /\ Spread(tip) \in [Replica -> TipOf(Nat)]
      /\ \A x \in Replica : Spread(tip)[x].status = tip[x].status /\ Spread(tip)[x].at = 2 * tip[x].at
  <2>1. ASSUME NEW x \in Replica
        PROVE  LET row == [tip[x] EXCEPT !.at = 2 * @]
               IN  row \in TipOf(Nat) /\ row.status = tip[x].status /\ row.at = 2 * tip[x].at
    <3>1. tip[x] \in TipOf(Nat)
      BY <1>1
    <3>. QED
      BY <3>1 DEF TipOf
  <2>. QED
    BY <2>1 DEF Spread
<1>3. /\ Spread(cursor) \in [Replica -> CursorOf(Nat, story.messages)]
      /\ \A x \in Replica : Spread(cursor)[x].offset = cursor[x].offset
  <2>1. ASSUME NEW x \in Replica
        PROVE  LET row == [cursor[x] EXCEPT !.at = 2 * @]
               IN  row \in CursorOf(Nat, story.messages) /\ row.offset = cursor[x].offset
    <3>1. cursor[x] \in CursorOf(Nat, story.messages)
      BY <1>1
    <3>. QED
      BY <3>1 DEF CursorOf
  <2>. QED
    BY <2>1 DEF Spread
<1>4. SpreadDel \in [Replica -> Nat] /\ \A x \in Replica : SpreadDel[x] = 2 * del[x]
  BY <1>1 DEF SpreadDel
<1>. QED
  BY <1>2, <1>3, <1>4

\* A new change is past what its writer had.
LEMMA PlacesFacts ==
    ASSUME TreeTyped, NEW d \in Device, NEW p \in Places(d)
    PROVE  p \in Nat /\ p # 0 /\ 2 * tip[d].at < p
<1>1. /\ d \in Replica
      /\ \A x \in Replica : tip[x].at \in Nat /\ cursor[x].at \in Nat /\ del[x] \in Nat
  BY PlaceFacts DEF TreeTyped, TipOf, CursorOf, Replica
<1>. DEFINE own == Max({tip[d].at, cursor[d].at})
<1>2. own \in Nat /\ tip[d].at <= own
  BY <1>1, MaxOfTwo
<1>3. \E q : /\ p = 2 * q + 1 /\ q >= own
             /\ q \in {own} \cup {tip[x].at : x \in Replica} \cup {cursor[x].at : x \in Replica}
                       \cup {del[x] : x \in Replica}
  BY DEF Places
<1>. HIDE DEF own
<1>. QED
  BY <1>1, <1>2, <1>3

LEMMA SetRemoteFacts ==
    ASSUME AclTyped, TreeTyped, RowInv, NEW d \in Device, NEW s \in Status \ {"none"},
           SetRemote(d, s), story' = story
    PROVE  /\ TreeTyped' /\ RowInv'
           /\ tip'[d].status = s
           /\ \A x \in Replica \ {d} : tip'[x].status = tip[x].status
           /\ \A x \in Replica : tip[x].at # 0 => tip'[x].at # 0
<1>1. PICK p \in Places(d) :
         Settle([Spread(tip) EXCEPT ![d] = [status |-> s, at |-> p]], Spread(cursor),
                [SpreadDel EXCEPT ![d] = IF s = "deleted" THEN p ELSE @])
  BY DEF SetRemote
<1>. DEFINE t == [Spread(tip) EXCEPT ![d] = [status |-> s, at |-> p]]
            e == [SpreadDel EXCEPT ![d] = IF s = "deleted" THEN p ELSE @]
<1>2. p \in Nat /\ p # 0 /\ 2 * tip[d].at < p /\ d \in Replica
  BY PlacesFacts DEF Replica
<1>3. \A x \in Replica : tip[x].at \in Nat /\ del[x] \in Nat
  BY PlaceFacts DEF TreeTyped, TipOf
<1>4. t \in [Replica -> TipOf(Nat)] /\ t[d].status = s /\ t[d].at = p
      /\ \A x \in Replica \ {d} : t[x].status = tip[x].status /\ t[x].at = 2 * tip[x].at
  <2>1. [status |-> s, at |-> p] \in TipOf(Nat)
    BY <1>2 DEF TipOf
  <2>. QED
    BY <1>2, <2>1, SpreadFacts
<1>5. e \in [Replica -> Nat] /\ e[d] \in {p, 2 * del[d]}
      /\ \A x \in Replica \ {d} : e[x] = 2 * del[x]
  BY <1>2, SpreadFacts
<1>. HIDE DEF t, e
<1>6. \A x \in Replica : /\ tip[x].status = "none" <=> tip[x].at = 0
                         /\ del[x] <= tip[x].at
                         /\ cursor[x].offset > 0 => tip[x].at # 0
  BY DEF RowInv
<1>7. \A x \in Replica : e[x] <= t[x].at
  BY <1>2, <1>3, <1>4, <1>5, <1>6
<1>8. /\ tip' \in [Replica -> TipOf(Place)]
      /\ cursor' \in [Replica -> CursorOf(Place, story.messages)]
      /\ del' \in [Replica -> Place]
      /\ \A x \in Replica : /\ tip'[x].status = t[x].status
                            /\ tip'[x].at = 0 <=> t[x].at = 0
                            /\ cursor'[x].offset = cursor[x].offset
                            /\ del'[x] <= tip'[x].at
  <2>1. Settle(t, Spread(cursor), e)
    BY <1>1 DEF t, e
  <2>2. story.messages \in Nat
    BY StoryFacts
  <2>3. /\ tip' \in [Replica -> TipOf(Place)]
        /\ cursor' \in [Replica -> CursorOf(Place, story.messages)]
        /\ del' \in [Replica -> Place]
        /\ \A x \in Replica : /\ tip'[x].status = t[x].status
                              /\ tip'[x].at = 0 <=> t[x].at = 0
                              /\ cursor'[x].offset = Spread(cursor)[x].offset
                              /\ e[x] <= t[x].at => del'[x] <= tip'[x].at
    <3>1. Spread(cursor) \in [Replica -> CursorOf(Nat, story.messages)]
      BY SpreadFacts
    <3>. QED
      BY <1>4, <1>5, <2>1, <2>2, <3>1, SettleFacts
  <2>4. \A x \in Replica : Spread(cursor)[x].offset = cursor[x].offset
    BY SpreadFacts
  <2>. QED
    BY <1>7, <2>3, <2>4
<1>9. dead' \in [Device -> BOOLEAN] /\ \A x \in Device \ {d} : dead'[x] = dead[x]
  BY DEF SetRemote, TreeTyped
<1>10. \A x \in Replica : tip[x].at # 0 => tip'[x].at # 0
  BY <1>2, <1>3, <1>4, <1>8
<1>11. tip'[d].at # 0
  BY <1>2, <1>4, <1>8
<1>12. TreeTyped'
  BY <1>8, <1>9 DEF TreeTyped
<1>13. RowInv'
  <2>1. ASSUME NEW x \in Replica
        PROVE  /\ tip'[x].status = "none" <=> tip'[x].at = 0
               /\ del'[x] <= tip'[x].at
               /\ cursor'[x].offset > 0 => tip'[x].at # 0
    BY <1>2, <1>3, <1>4, <1>6, <1>8, <1>10
  <2>2. ASSUME NEW x \in Device, dead'[x] PROVE tip'[x].at # 0
    BY <1>9, <1>10, <1>11, <2>2 DEF RowInv, Replica
  <2>. QED
    BY <2>1, <2>2 DEF RowInv
<1>. QED
  BY <1>2, <1>4, <1>8, <1>10, <1>12, <1>13

LEMMA SetCursorFacts ==
    ASSUME AclTyped, TreeTyped, RowInv, NEW d \in Device, NEW n \in 0..story.messages,
           tip[d].at # 0, SetInboxCursor(d, n), story' = story
    PROVE  /\ TreeTyped' /\ RowInv'
           /\ \A x \in Replica : tip'[x].status = tip[x].status
           /\ \A x \in Replica : tip[x].at # 0 => tip'[x].at # 0
<1>1. PICK p \in Places(d) :
         Settle(Spread(tip), [Spread(cursor) EXCEPT ![d] = [offset |-> n, at |-> p]], SpreadDel)
  BY DEF SetInboxCursor
<1>. DEFINE c == [Spread(cursor) EXCEPT ![d] = [offset |-> n, at |-> p]]
<1>2. p \in Nat /\ d \in Replica
  BY PlacesFacts DEF Replica
<1>3. \A x \in Replica : tip[x].at \in Nat /\ del[x] \in Nat
  BY PlaceFacts DEF TreeTyped, TipOf
<1>4. c \in [Replica -> CursorOf(Nat, story.messages)]
      /\ \A x \in Replica \ {d} : c[x].offset = cursor[x].offset
  <2>1. [offset |-> n, at |-> p] \in CursorOf(Nat, story.messages)
    BY <1>2 DEF CursorOf
  <2>. QED
    BY <2>1, SpreadFacts
<1>. HIDE DEF c
<1>5. \A x \in Replica : /\ tip[x].status = "none" <=> tip[x].at = 0
                         /\ del[x] <= tip[x].at
                         /\ cursor[x].offset > 0 => tip[x].at # 0
  BY DEF RowInv
<1>6. \A x \in Replica : SpreadDel[x] <= Spread(tip)[x].at
  BY <1>3, <1>5, SpreadFacts
<1>7. /\ tip' \in [Replica -> TipOf(Place)]
      /\ cursor' \in [Replica -> CursorOf(Place, story.messages)]
      /\ del' \in [Replica -> Place]
      /\ \A x \in Replica : /\ tip'[x].status = tip[x].status
                            /\ tip'[x].at = 0 <=> Spread(tip)[x].at = 0
                            /\ cursor'[x].offset = c[x].offset
                            /\ del'[x] <= tip'[x].at
  <2>1. Settle(Spread(tip), c, SpreadDel)
    BY <1>1 DEF c
  <2>2. story.messages \in Nat
    BY StoryFacts
  <2>3. /\ tip' \in [Replica -> TipOf(Place)]
        /\ cursor' \in [Replica -> CursorOf(Place, story.messages)]
        /\ del' \in [Replica -> Place]
        /\ \A x \in Replica : /\ tip'[x].status = Spread(tip)[x].status
                              /\ tip'[x].at = 0 <=> Spread(tip)[x].at = 0
                              /\ cursor'[x].offset = c[x].offset
                              /\ SpreadDel[x] <= Spread(tip)[x].at => del'[x] <= tip'[x].at
    <3>1. Spread(tip) \in [Replica -> TipOf(Nat)] /\ SpreadDel \in [Replica -> Nat]
      BY SpreadFacts
    <3>. QED
      BY <1>4, <2>1, <2>2, <3>1, SettleFacts
  <2>4. \A x \in Replica : Spread(tip)[x].status = tip[x].status
    BY SpreadFacts
  <2>. QED
    BY <1>6, <2>3, <2>4
<1>8. \A x \in Replica : tip'[x].at = 0 <=> tip[x].at = 0
  BY <1>3, <1>7, SpreadFacts
<1>9. dead' = dead
  BY DEF SetInboxCursor
<1>10. TreeTyped'
  BY <1>7, <1>9 DEF TreeTyped
<1>11. RowInv'
  <2>1. ASSUME NEW x \in Replica
        PROVE  /\ tip'[x].status = "none" <=> tip'[x].at = 0
               /\ del'[x] <= tip'[x].at
               /\ cursor'[x].offset > 0 => tip'[x].at # 0
    <3>1. CASE x = d
      BY <1>5, <1>7, <1>8, <3>1
    <3>2. CASE x # d
      BY <1>4, <1>5, <1>7, <1>8, <3>2
    <3>. QED
      BY <3>1, <3>2
  <2>2. ASSUME NEW x \in Device, dead'[x] PROVE tip'[x].at # 0
    BY <1>8, <1>9, <2>2 DEF RowInv, Replica
  <2>. QED
    BY <2>1, <2>2 DEF RowInv
<1>. QED
  BY <1>7, <1>8, <1>10, <1>11

\* A round keeps the later status of the two, so a deletion or a cursor that
\* comes with it has one.
LEMMA HeadSyncFacts ==
    ASSUME AclTyped, TreeTyped, RowInv, NEW d \in Device, HeadSync(d), story' = story
    PROVE  /\ TreeTyped' /\ RowInv'
           /\ \A x \in Replica : \E y \in Replica : tip'[x].status = tip[y].status
           /\ \A x \in Replica : tip[x].at # 0 => tip'[x].at # 0
<1>. DEFINE both == {d, Nodes}
            tb == Later(tip[d], tip[Nodes])
            cb == Later(cursor[d], cursor[Nodes])
            eb == Max({del[d], del[Nodes]})
            t == [x \in Replica |-> IF x \in both THEN tb ELSE tip[x]]
            c == [x \in Replica |-> IF x \in both THEN cb ELSE cursor[x]]
            e == [x \in Replica |-> IF x \in both THEN eb ELSE del[x]]
<1>1. Settle(t, c, e) /\ dead' = [dead EXCEPT ![d] = @ \/ del[Nodes] > tip[d].at]
  BY DEF HeadSync
<1>2. /\ tip \in [Replica -> TipOf(Nat)] /\ cursor \in [Replica -> CursorOf(Nat, story.messages)]
      /\ del \in [Replica -> Nat] /\ both \subseteq Replica
      /\ d \in Replica /\ Nodes \in Replica
  BY PlaceFacts DEF TreeTyped, TipOf, CursorOf, Replica
<1>3. \A x \in Replica : /\ tip[x].status = "none" <=> tip[x].at = 0
                         /\ del[x] <= tip[x].at
                         /\ cursor[x].offset > 0 => tip[x].at # 0
                         /\ tip[x].at \in Nat /\ del[x] \in Nat
  BY <1>2 DEF RowInv, TipOf
<1>4. /\ tb \in TipOf(Nat) /\ tb \in {tip[d], tip[Nodes]}
      /\ tip[d].at <= tb.at /\ tip[Nodes].at <= tb.at
  BY <1>2, <1>3 DEF Later
<1>5. cb \in CursorOf(Nat, story.messages) /\ cb \in {cursor[d], cursor[Nodes]}
  BY <1>2 DEF Later
<1>6. eb \in {del[d], del[Nodes]} /\ eb \in Nat
  BY <1>2, MaxOfTwo
<1>7. eb <= tb.at /\ (cb.offset > 0 => tb.at # 0) /\ (tb.status = "none" <=> tb.at = 0)
  <2>1. tb.at \in Nat
    BY <1>4 DEF TipOf
  <2>. HIDE DEF tb, cb, eb
  <2>. QED
    BY <1>2, <1>3, <1>4, <1>5, <1>6, <2>1
<1>. HIDE DEF tb, cb, eb
<1>8. t \in [Replica -> TipOf(Nat)] /\ c \in [Replica -> CursorOf(Nat, story.messages)]
      /\ e \in [Replica -> Nat]
  BY <1>2, <1>4, <1>5, <1>6
<1>9. \A x \in Replica : /\ t[x].status = "none" <=> t[x].at = 0
                         /\ e[x] <= t[x].at
                         /\ c[x].offset > 0 => t[x].at # 0
                         /\ tip[x].at # 0 => t[x].at # 0
                         /\ \E y \in Replica : t[x].status = tip[y].status
  <2>1. tb.at \in Nat
    BY <1>4 DEF TipOf
  <2>2. ASSUME NEW x \in Replica
        PROVE  /\ t[x].status = "none" <=> t[x].at = 0
               /\ e[x] <= t[x].at
               /\ c[x].offset > 0 => t[x].at # 0
               /\ tip[x].at # 0 => t[x].at # 0
               /\ \E y \in Replica : t[x].status = tip[y].status
    <3>1. CASE x \in both
      BY <1>2, <1>3, <1>4, <1>7, <2>1, <3>1
    <3>2. CASE x \notin both
      BY <1>3, <3>2
    <3>. QED
      BY <3>1, <3>2
  <2>. QED
    BY <2>2
<1>10. tip[d].at <= t[d].at /\ tip[Nodes].at <= t[d].at /\ t[d].at \in Nat
  <2>1. t[d] = tb
    BY <1>2
  <2>. QED
    BY <1>4, <2>1 DEF TipOf
<1>. HIDE DEF t, c, e
<1>11. /\ tip' \in [Replica -> TipOf(Place)]
       /\ cursor' \in [Replica -> CursorOf(Place, story.messages)]
       /\ del' \in [Replica -> Place]
       /\ \A x \in Replica : /\ tip'[x].status = t[x].status
                             /\ tip'[x].at = 0 <=> t[x].at = 0
                             /\ cursor'[x].offset = c[x].offset
                             /\ del'[x] <= tip'[x].at
  <2>2. story.messages \in Nat
    BY StoryFacts
  <2>3. /\ tip' \in [Replica -> TipOf(Place)]
        /\ cursor' \in [Replica -> CursorOf(Place, story.messages)]
        /\ del' \in [Replica -> Place]
        /\ \A x \in Replica : /\ tip'[x].status = t[x].status
                              /\ tip'[x].at = 0 <=> t[x].at = 0
                              /\ cursor'[x].offset = c[x].offset
                              /\ e[x] <= t[x].at => del'[x] <= tip'[x].at
    BY <1>1, <1>8, <2>2, SettleFacts
  <2>. QED
    BY <1>9, <2>3
<1>12. dead' \in [Device -> BOOLEAN]
  BY <1>1 DEF TreeTyped
<1>13. TreeTyped'
  BY <1>11, <1>12 DEF TreeTyped
<1>14. \A x \in Device : dead'[x] => tip'[x].at # 0
  <2>. SUFFICES ASSUME NEW x \in Device, dead'[x] PROVE tip'[x].at # 0
    OBVIOUS
  <2>0. x \in Replica
    BY DEF Replica
  <2>1. CASE dead[x]
    BY <1>9, <1>11, <2>0, <2>1 DEF RowInv
  <2>2. CASE ~dead[x]
    <3>1. x = d /\ del[Nodes] > tip[d].at
      BY <1>1, <2>2 DEF TreeTyped
    <3>2. t[d].at # 0
      BY <1>2, <1>3, <1>10, <3>1
    <3>. QED
      BY <1>2, <1>11, <3>1, <3>2
  <2>. QED
    BY <2>1, <2>2
<1>15. RowInv'
  BY <1>9, <1>11, <1>14 DEF RowInv
<1>. QED
  BY <1>9, <1>11, <1>13, <1>15
----------------------------------------------------------------------------
(* The rest of a device's state.                                           *)

DeviceStep(d) ==
    \/ Calls(d) \/ Continue(d) \/ Waiter(d) \/ Loader(d) \/ Notifier(d)
    \/ Controller(d) \/ Sync(d) \/ Get(d) \/ HealJoin(d) \/ Restart(d)

LEMMA PostFacts ==
    ASSUME AclTyped, NEW e \in Event, Post(e), story' = story
    PROVE  /\ chain' \in Seq(Event) /\ Len(chain') = Len(chain) + 1 /\ Len(chain') <= story.chain
BY StoryFacts DEF AclTyped, Post

\* The chain grows, and the rest of what is counted keeps its bounds.
LEMMA AclKeeps ==
    ASSUME AclTyped, NEW d \in Device, DeviceStep(d)
    PROVE  AclTyped' /\ story' = story /\ Len(chain) <= Len(chain')
<1>. USE StoryFacts
<1>1. CASE JoinPost(d)
  <2>1. UNCHANGED <<story, served, sent, restarts>> /\ calls' = calls + 1 /\ calls < story.calls
    BY <1>1 DEF JoinPost, Asks, limits, inbox
  <2>2. chain' = chain \/ Post("request")
    BY <1>1 DEF JoinPost
  <2>3. chain' \in Seq(Event) /\ Len(chain) <= Len(chain') /\ Len(chain') <= story.chain
    BY <2>1, <2>2, PostFacts DEF AclTyped, Event
  <2>. QED
    BY <2>1, <2>3 DEF AclTyped
<1>2. CASE CancelPost(d)
  <2>1. UNCHANGED <<story, served, sent, restarts>> /\ calls' = calls + 1 /\ calls < story.calls
    BY <1>2 DEF CancelPost, Asks, limits, inbox
  <2>2. chain' = chain \/ Post("cancel")
    BY <1>2 DEF CancelPost
  <2>3. chain' \in Seq(Event) /\ Len(chain) <= Len(chain') /\ Len(chain') <= story.chain
    BY <2>1, <2>2, PostFacts DEF AclTyped, Event
  <2>. QED
    BY <2>1, <2>3 DEF AclTyped
<1>3. CASE DeleteMark(d) \/ AcceptMark(d) \/ DeclineInvite(d)
  <2>1. UNCHANGED <<story, chain, served, sent, restarts>> /\ calls' = calls + 1 /\ calls < story.calls
    BY <1>3 DEF DeleteMark, AcceptMark, DeclineInvite, Asks, acl, limits, inbox
  <2>. QED
    BY <2>1 DEF AclTyped
<1>4. CASE Restart(d)
  <2>1. UNCHANGED <<story, chain, served, sent, calls>> /\ restarts' = restarts + 1 /\ restarts < MaxRestarts
    BY <1>4 DEF Restart, acl, user
  <2>. QED
    BY <2>1, MembershipAssumption DEF AclTyped
<1>5. CASE Continue(d) \/ Waiter(d) \/ Loader(d) \/ Sync(d) \/ Get(d) \/ HealJoin(d)
  <2>1. UNCHANGED <<acl, sent, user, limits>>
    BY <1>5 DEF Continue, JoinWrite, JoinHead, CancelMark, Offload, AcceptFlip, AcceptGet, Waiter, Poll,
                Reject, Loader, LoadJoined, JoinLoaded, CheckInvite, LoadInvite, Sync, Get, HealJoin, inbox
  <2>. QED
    BY <2>1 DEF AclTyped, acl, user, limits
<1>6. CASE Notifier(d) \/ Controller(d)
  <2>1. UNCHANGED <<acl, sent, user, limits>>
    BY <1>6 DEF Notifier, StartPass, HandleInvite, SaveCursor, Controller, Pass, PassJoining, PassOther, inbox
  <2>. QED
    BY <2>1 DEF AclTyped, acl, user, limits
<1>. QED
  BY <1>1, <1>2, <1>3, <1>4, <1>5, <1>6 DEF DeviceStep, Calls

\* Rows and numbers the steps write.
LEMMA Rows ==
    ASSUME AclTyped, LocalTyped
    PROVE  /\ NoWaiter \in WaiterRow(story.chain)
           /\ \A h \in 0..Len(chain) : [st |-> "poll", head |-> h] \in WaiterRow(story.chain)
           /\ \A x \in Device, t \in {"none", "poll", "reject", "done"} :
                 [waiter[x] EXCEPT !.st = t] \in WaiterRow(story.chain)
           /\ 0 \in 0..Len(chain) /\ served \in 0..Len(chain)
           /\ -1 \in -1..story.messages
<1>1. /\ \A h \in 0..Len(chain) : h \in 0..story.chain
      /\ 0 \in 0..Len(chain)
  BY StoryFacts DEF AclTyped
<1>2. \A x \in Device, t \in {"none", "poll", "reject", "done"} :
         [waiter[x] EXCEPT !.st = t] \in WaiterRow(story.chain)
  <2>1. \A x \in Device : waiter[x] \in WaiterRow(story.chain)
    BY DEF LocalTyped
  <2>. QED
    BY <2>1 DEF WaiterRow
<1>3. /\ NoWaiter \in WaiterRow(story.chain)
      /\ \A h \in 0..Len(chain) : [st |-> "poll", head |-> h] \in WaiterRow(story.chain)
  BY <1>1 DEF NoWaiter, WaiterRow
<1>. QED
  BY <1>1, <1>2, <1>3, StoryFacts DEF AclTyped

LEMMA CallRows ==
    ASSUME NEW n \in Nat
    PROVE  /\ \A op \in Op, h \in 0..n : [op |-> op, head |-> h] \in CallRow(n)
           /\ NoCall \in CallRow(n)
BY DEF CallRow, NoCall, Op

LEMMA CallsGrow ==
    ASSUME NEW n \in Nat, NEW k \in Nat, n <= k, NEW c \in [Device -> CallRow(n)]
    PROVE  c \in [Device -> CallRow(k)]
BY DEF CallRow

\* The variables a step leaves alone keep their types though the chain grows.
Rest == <<marker, storage, load, latched, consent, head, waiter, pass>>
LEMMA LocalFrame ==
    ASSUME AclTyped, AclTyped', LocalTyped, story' = story, Len(chain) <= Len(chain'),
           marker' = marker \/ marker' \in [Device -> Mark],
           storage' = storage \/ storage' \in [Device -> BOOLEAN],
           load' = load \/ load' \in [Device -> Load],
           latched' = latched \/ latched' \in [Device -> BOOLEAN],
           consent' = consent \/ consent' \in BOOLEAN,
           head' = head \/ head' \in [Device -> 0..Len(chain)],
           waiter' = waiter \/ waiter' \in [Device -> WaiterRow(story.chain)],
           call' = call \/ call' \in [Device -> CallRow(Len(chain'))],
           pass' = pass \/ pass' \in [Device -> -1..story.messages]
    PROVE  LocalTyped'
<1>0. Len(chain) \in Nat /\ Len(chain') \in Nat
  BY StoryFacts DEF AclTyped
<1>1. head' \in [Device -> 0..Len(chain')]
  <2>1. head' \in [Device -> 0..Len(chain)]
    BY DEF LocalTyped
  <2>. QED
    BY <1>0, <2>1
<1>2. call' \in [Device -> CallRow(Len(chain'))]
  <2>1. call \in [Device -> CallRow(Len(chain'))]
    BY <1>0, CallsGrow DEF LocalTyped
  <2>. QED
    BY <2>1
<1>. QED
  BY <1>1, <1>2 DEF LocalTyped

LEMMA JoinHeads ==
    ASSUME AclTyped, Post("request"), story' = story
    PROVE  Len(chain) + 1 \in 0..Len(chain')
BY PostFacts, StoryFacts DEF Event

LEMMA LocalKeeps ==
    ASSUME Typed, NEW d \in Device, DeviceStep(d)
    PROVE  LocalTyped'
<1>. AclTyped /\ LocalTyped /\ TreeTyped
  BY DEF Typed
<1>0. /\ AclTyped' /\ story' = story /\ Len(chain) <= Len(chain')
      /\ Len(chain) \in Nat /\ Len(chain') \in Nat /\ story.messages \in Nat
  BY AclKeeps, StoryFacts DEF AclTyped
<1>00. /\ marker \in [Device -> Mark] /\ storage \in [Device -> BOOLEAN]
       /\ load \in [Device -> Load] /\ latched \in [Device -> BOOLEAN]
       /\ head \in [Device -> 0..Len(chain)]
       /\ waiter \in [Device -> WaiterRow(story.chain)]
       /\ call \in [Device -> CallRow(Len(chain))] /\ call \in [Device -> CallRow(Len(chain'))]
       /\ pass \in [Device -> -1..story.messages]
       /\ call[d].head \in 0..Len(chain)
  <2>1. call \in [Device -> CallRow(Len(chain'))]
    BY <1>0, CallsGrow DEF LocalTyped
  <2>2. call[d] \in CallRow(Len(chain))
    BY DEF LocalTyped
  <2>. QED
    BY <2>1, <2>2 DEF LocalTyped, CallRow
<1>000. /\ \A op \in Op, h \in 0..Len(chain') : Then(d, op, h) => call' \in [Device -> CallRow(Len(chain'))]
        /\ Return(d) => call' \in [Device -> CallRow(Len(chain'))]
        /\ [call EXCEPT ![d] = NoCall] \in [Device -> CallRow(Len(chain'))]
        /\ 0 \in 0..Len(chain') /\ Len(chain) \in 0..Len(chain') /\ call[d].head \in 0..Len(chain')
  <2>1. /\ \A op \in Op, h \in 0..Len(chain') : [op |-> op, head |-> h] \in CallRow(Len(chain'))
        /\ NoCall \in CallRow(Len(chain'))
    <3>1. Len(chain') \in Nat
      BY <1>0
    <3>. QED
      BY <3>1, CallRows
  <2>2. 0 \in 0..Len(chain') /\ Len(chain) \in 0..Len(chain') /\ call[d].head \in 0..Len(chain')
    BY <1>0, <1>00
  <2>. QED
    BY <1>00, <2>1, <2>2 DEF Then, Return
<1>1. CASE JoinPost(d)
  <2>1. UNCHANGED <<marker, head, storage, pass, latched>>
    BY <1>1 DEF JoinPost, acl, tree, disk, inbox, user, limits
  <2>2. waiter' = waiter \/ waiter' \in [Device -> WaiterRow(story.chain)]
    BY <1>0, <1>00, <1>1, Rows DEF JoinPost, StopWaiter
  <2>3. load' = load \/ load' \in [Device -> Load]
    BY <1>0, <1>00, <1>1 DEF JoinPost, StartLoad, Load
  <2>4. call' = call \/ call' \in [Device -> CallRow(Len(chain'))]
    BY <1>0, <1>00, <1>1, <1>000, JoinHeads DEF JoinPost, Op
  <2>5. consent' \in BOOLEAN
    BY <1>0, <1>00, <1>1 DEF JoinPost
  <2>. QED
    BY <1>0, <2>1, <2>2, <2>3, <2>4, <2>5, LocalFrame
<1>2. CASE JoinWrite(d)
  <2>1. UNCHANGED <<marker, head, storage, waiter, load, pass, latched, consent>>
    BY <1>2 DEF JoinWrite, acl, tree, disk, inbox, user, limits
  <2>2. call' \in [Device -> CallRow(Len(chain'))]
    BY <1>0, <1>00, <1>2, <1>000 DEF JoinWrite, Op
  <2>. QED
    BY <1>0, <2>1, <2>2, LocalFrame
<1>3. CASE JoinHead(d)
  <2>1. UNCHANGED <<marker, storage, load, pass, latched, consent>>
    BY <1>3 DEF JoinHead, acl, tree, disk, inbox, user, limits
  <2>2. call' \in [Device -> CallRow(Len(chain'))]
    BY <1>0, <1>00, <1>3, <1>000 DEF JoinHead, Op
  <2>3. waiter' \in [Device -> WaiterRow(story.chain)]
    BY <1>0, <1>00, <1>3, Rows DEF JoinHead, StopWaiter
  <2>4. head' \in [Device -> 0..Len(chain)]
    BY <1>0, <1>00, <1>3 DEF JoinHead
  <2>. QED
    BY <1>0, <2>1, <2>2, <2>3, <2>4, LocalFrame
<1>4. CASE CancelPost(d)
  <2>1. UNCHANGED <<marker, head, storage, pass, latched, consent>>
    BY <1>4 DEF CancelPost, acl, tree, disk, inbox, user, limits
  <2>2. waiter' = waiter \/ waiter' \in [Device -> WaiterRow(story.chain)]
    BY <1>0, <1>00, <1>4, Rows DEF CancelPost, StopWaiter
  <2>3. load' = load \/ load' \in [Device -> Load]
    BY <1>0, <1>00, <1>4 DEF CancelPost, StartLoad, Load
  <2>4. call' = call \/ call' \in [Device -> CallRow(Len(chain'))]
    BY <1>0, <1>00, <1>4, <1>000 DEF CancelPost, Op
  <2>. QED
    BY <1>0, <2>1, <2>2, <2>3, <2>4, LocalFrame
<1>5. CASE CancelMark(d)
  <2>1. UNCHANGED <<marker, storage, load, pass, latched, consent>>
    BY <1>5 DEF CancelMark, acl, tree, disk, inbox, user, limits, MarkJoinEnded
  <2>2. call' \in [Device -> CallRow(Len(chain'))]
    BY <1>0, <1>00, <1>5, <1>000 DEF CancelMark, Op
  <2>3. waiter' \in [Device -> WaiterRow(story.chain)]
    BY <1>0, <1>00, <1>5, Rows DEF CancelMark, StopWaiter
  <2>4. head' \in [Device -> 0..Len(chain)]
    BY <1>0, <1>00, <1>5, Rows DEF CancelMark, MarkJoinEnded
  <2>. QED
    BY <1>0, <2>1, <2>2, <2>3, <2>4, LocalFrame
<1>6. CASE DeleteMark(d)
  <2>1. UNCHANGED <<marker, head, storage, pass, latched, consent>>
    BY <1>6 DEF DeleteMark, acl, tree, disk, inbox, user, limits
  <2>2. call' \in [Device -> CallRow(Len(chain'))]
    BY <1>0, <1>00, <1>6, <1>000 DEF DeleteMark, Op
  <2>3. waiter' = waiter \/ waiter' \in [Device -> WaiterRow(story.chain)]
    BY <1>0, <1>00, <1>6, Rows DEF DeleteMark, StopWaiter
  <2>4. load' = load \/ load' \in [Device -> Load]
    BY <1>0, <1>00, <1>6 DEF DeleteMark, StartLoad, Load
  <2>. QED
    BY <1>0, <2>1, <2>2, <2>3, <2>4, LocalFrame
<1>7. CASE Offload(d)
  <2>1. UNCHANGED <<marker, head, waiter, load, pass, latched, consent>>
    BY <1>7 DEF Offload, acl, tree, disk, inbox, user, limits
  <2>2. call' \in [Device -> CallRow(Len(chain'))]
    BY <1>0, <1>00, <1>7, <1>000 DEF Offload, Op
  <2>3. storage' \in [Device -> BOOLEAN]
    BY <1>0, <1>00, <1>7 DEF Offload
  <2>. QED
    BY <1>0, <2>1, <2>2, <2>3, LocalFrame
<1>8. CASE AcceptMark(d)
  <2>1. UNCHANGED <<head, storage, waiter, load, pass, latched>>
    BY <1>8 DEF AcceptMark, acl, tree, disk, inbox, user, limits
  <2>2. call' \in [Device -> CallRow(Len(chain'))]
    BY <1>0, <1>00, <1>8, <1>000 DEF AcceptMark, Op
  <2>3. marker' \in [Device -> Mark]
    BY <1>0, <1>00, <1>8 DEF AcceptMark, Mark
  <2>4. consent' \in BOOLEAN
    BY <1>0, <1>00, <1>8 DEF AcceptMark
  <2>. QED
    BY <1>0, <2>1, <2>2, <2>3, <2>4, LocalFrame
<1>9. CASE AcceptFlip(d)
  <2>1. UNCHANGED <<marker, head, storage, waiter, load, pass, latched, consent>>
    BY <1>9 DEF AcceptFlip, acl, tree, disk, inbox, user, limits
  <2>2. call' \in [Device -> CallRow(Len(chain'))]
    BY <1>0, <1>00, <1>9, <1>000 DEF AcceptFlip, Op
  <2>. QED
    BY <1>0, <2>1, <2>2, LocalFrame
<1>10. CASE AcceptGet(d)
  <2>1. UNCHANGED <<head, waiter, load, pass, latched, consent>>
    BY <1>10 DEF AcceptGet, acl, tree, disk, inbox, user, limits
  <2>2. call' \in [Device -> CallRow(Len(chain'))]
    BY <1>0, <1>00, <1>10, <1>000 DEF AcceptGet, Op
  <2>3. storage' = storage \/ storage' \in [Device -> BOOLEAN]
    BY <1>0, <1>00, <1>10 DEF AcceptGet
  <2>4. marker' = marker \/ marker' \in [Device -> Mark]
    BY <1>0, <1>00, <1>10, ZenonT(30) DEF AcceptGet, Mark
  <2>. QED
    BY <1>0, <2>1, <2>2, <2>3, <2>4, LocalFrame
<1>11. CASE DeclineInvite(d)
  <2>1. UNCHANGED <<marker, head, storage, waiter, load, call, pass, latched, consent>>
    BY <1>11 DEF DeclineInvite, acl, tree, disk, inbox, user, limits
  <2>. QED
    BY <1>0, <2>1, LocalFrame
<1>12. CASE Get(d)
  <2>1. UNCHANGED <<marker, head, waiter, load, call, pass, latched, consent>>
    BY <1>12 DEF Get, acl, tree, disk, inbox, user, limits
  <2>2. storage' \in [Device -> BOOLEAN]
    BY <1>0, <1>00, <1>12 DEF Get
  <2>. QED
    BY <1>0, <2>1, <2>2, LocalFrame
<1>13. CASE Poll(d)
  <2>1. UNCHANGED <<marker, head, storage, call, pass, latched, consent>>
    BY <1>13 DEF Poll, acl, tree, disk, inbox, user, limits
  <2>2. waiter' \in [Device -> WaiterRow(story.chain)]
    BY <1>0, <1>00, <1>13, Rows DEF Poll, StopWaiter
  <2>3. load' = load \/ load' \in [Device -> Load]
    BY <1>0, <1>00, <1>13 DEF Poll, StartLoad, Load
  <2>. QED
    BY <1>0, <2>1, <2>2, <2>3, LocalFrame
<1>14. CASE Reject(d)
  <2>1. UNCHANGED <<marker, storage, load, call, pass, latched, consent>>
    BY <1>14 DEF Reject, acl, tree, disk, inbox, user, limits, MarkJoinEnded
  <2>2. waiter' \in [Device -> WaiterRow(story.chain)]
    BY <1>0, <1>00, <1>14, Rows DEF Reject, StopWaiter
  <2>3. head' \in [Device -> 0..Len(chain)]
    BY <1>0, <1>00, <1>14, Rows DEF Reject, MarkJoinEnded
  <2>. QED
    BY <1>0, <2>1, <2>2, <2>3, LocalFrame
<1>15. CASE LoadJoined(d)
  <2>1. UNCHANGED <<marker, head, waiter, call, pass, latched, consent>>
    BY <1>15 DEF LoadJoined, acl, tree, disk, inbox, user, limits
  <2>2. storage' \in [Device -> BOOLEAN]
    BY <1>0, <1>00, <1>15 DEF LoadJoined
  <2>3. load' \in [Device -> Load]
    BY <1>0, <1>00, <1>15 DEF LoadJoined, StartLoad, EndLoad, Load
  <2>. QED
    BY <1>0, <2>1, <2>2, <2>3, LocalFrame
<1>16. CASE JoinLoaded(d)
  <2>1. UNCHANGED <<storage, waiter, call, pass, latched, consent>>
    BY <1>16 DEF JoinLoaded, acl, tree, disk, inbox, user, limits, FlipJoinActive
  <2>2. load' \in [Device -> Load]
    BY <1>0, <1>00, <1>16 DEF JoinLoaded, StartLoad, EndLoad, Load
  <2>3. marker' = marker \/ marker' \in [Device -> Mark]
    BY <1>0, <1>00, <1>16 DEF JoinLoaded, FlipJoinActive, Mark
  <2>4. head' = head \/ head' \in [Device -> 0..Len(chain)]
    BY <1>0, <1>00, <1>16, Rows, ZenonT(30) DEF JoinLoaded, FlipJoinActive
  <2>. QED
    BY <1>0, <2>1, <2>2, <2>3, <2>4, LocalFrame
<1>17. CASE HealJoin(d)
  <2>1. UNCHANGED <<storage, load, waiter, call, pass, latched, consent>>
    BY <1>17 DEF HealJoin, acl, tree, disk, inbox, user, limits, FlipJoinActive
  <2>2. marker' = marker \/ marker' \in [Device -> Mark]
    BY <1>0, <1>00, <1>17 DEF HealJoin, FlipJoinActive, Mark
  <2>3. head' = head \/ head' \in [Device -> 0..Len(chain)]
    BY <1>0, <1>00, <1>17, Rows DEF HealJoin, FlipJoinActive
  <2>. QED
    BY <1>0, <2>1, <2>2, <2>3, LocalFrame
<1>18. CASE CheckInvite(d)
  <2>1. UNCHANGED <<head, storage, waiter, call, pass, latched, consent>>
    BY <1>18 DEF CheckInvite, acl, tree, disk, inbox, user, limits
  <2>2. load' \in [Device -> Load]
    BY <1>0, <1>00, <1>18 DEF CheckInvite, StartLoad, EndLoad, Load
  <2>3. marker' = marker \/ marker' \in [Device -> Mark]
    BY <1>0, <1>00, <1>18 DEF CheckInvite, Mark
  <2>. QED
    BY <1>0, <2>1, <2>2, <2>3, LocalFrame
<1>19. CASE LoadInvite(d)
  <2>1. UNCHANGED <<head, waiter, call, pass, latched, consent>>
    BY <1>19 DEF LoadInvite, acl, tree, disk, inbox, user, limits
  <2>2. load' \in [Device -> Load]
    BY <1>0, <1>00, <1>19 DEF LoadInvite, StartLoad, EndLoad, Load
  <2>3. storage' = storage \/ storage' \in [Device -> BOOLEAN]
    BY <1>0, <1>00, <1>19 DEF LoadInvite
  <2>4. marker' = marker \/ marker' \in [Device -> Mark]
    BY <1>0, <1>00, <1>19 DEF LoadInvite, Mark
  <2>. QED
    BY <1>0, <2>1, <2>2, <2>3, <2>4, LocalFrame
<1>20. CASE Sync(d)
  <2>1. UNCHANGED <<marker, head, storage, waiter, load, call, pass, latched, consent>>
    BY <1>20 DEF Sync, acl, tree, disk, inbox, user, limits
  <2>. QED
    BY <1>0, <2>1, LocalFrame
<1>21. CASE Restart(d)
  <2>1. UNCHANGED <<marker, head, consent>>
    BY <1>21 DEF Restart, acl, tree, disk, inbox, user, limits
  <2>2. waiter' \in [Device -> WaiterRow(story.chain)]
    BY <1>0, <1>00, <1>21, Rows DEF Restart
  <2>3. load' \in [Device -> Load]
    BY <1>0, <1>00, <1>21 DEF Restart, Load
  <2>4. call' \in [Device -> CallRow(Len(chain'))]
    BY <1>0, <1>00, <1>21, <1>000 DEF Restart
  <2>5. pass' \in [Device -> -1..story.messages]
    BY <1>0, <1>00, <1>21, Rows DEF Restart
  <2>6. latched' \in [Device -> BOOLEAN]
    BY <1>0, <1>00, <1>21 DEF Restart
  <2>7. storage' \in [Device -> BOOLEAN]
    BY <1>0, <1>00, <1>21 DEF Restart
  <2>. QED
    BY <1>0, <2>1, <2>2, <2>3, <2>4, <2>5, <2>6, <2>7, LocalFrame
<1>30. CASE StartPass(d)
  <2>1. UNCHANGED <<marker, head, storage, waiter, load, call, consent>>
    BY <1>30 DEF StartPass, disk, user
  <2>2. latched' = latched \/ latched' \in [Device -> BOOLEAN]
    BY <1>00, <1>30 DEF StartPass
  <2>3. cursor[d].offset \in -1..story.messages
    <3>1. cursor[d] \in CursorOf(Place, story.messages)
      BY DEF TreeTyped, Replica
    <3>. QED
      BY <1>0, <3>1 DEF CursorOf
  <2>4. pass' \in [Device -> -1..story.messages]
    BY <1>00, <1>30, <2>3 DEF StartPass
  <2>. QED
    BY <1>0, <2>1, <2>2, <2>4, LocalFrame
<1>31. CASE HandleInvite(d)
  <2>1. UNCHANGED <<marker, head, storage, waiter, load, call, latched, consent>>
    BY <1>31 DEF HandleInvite, disk, user
  <2>2. pass[d] + 1 \in -1..story.messages
    <3>1. pass[d] \in 0..(sent - 1)
      BY <1>31 DEF HandleInvite
    <3>2. sent \in 0..story.messages /\ story.messages \in Nat
      BY <1>0 DEF AclTyped
    <3>. QED
      BY <3>1, <3>2
  <2>3. pass' \in [Device -> -1..story.messages]
    BY <1>00, <1>31, <2>2 DEF HandleInvite
  <2>. QED
    BY <1>0, <2>1, <2>3, LocalFrame
<1>32. CASE SaveCursor(d)
  <2>1. UNCHANGED <<marker, head, storage, waiter, load, call, latched, consent>>
    BY <1>32 DEF SaveCursor, disk, user
  <2>2. pass' \in [Device -> -1..story.messages]
    BY <1>00, <1>32, Rows DEF SaveCursor
  <2>. QED
    BY <1>0, <2>1, <2>2, LocalFrame
<1>33. CASE Controller(d)
  <2>1. PICK full, online \in BOOLEAN : PassJoining(d, full, online) \/ PassOther(d, full, online)
    BY <1>33 DEF Controller, Pass
  <2>2. UNCHANGED <<marker, storage, call, pass, latched, consent>>
    BY <2>1 DEF PassJoining, PassOther, inbox, user
  <2>3. ASSUME NEW h \in 0..Len(chain), Watch(d, h) PROVE waiter' \in [Device -> WaiterRow(story.chain)]
    <3>1. [st |-> "poll", head |-> h] \in WaiterRow(story.chain)
      BY Rows
    <3>. QED
      BY <1>00, <2>3, <3>1 DEF Watch
  <2>4. ASSUME NEW k \in Load, StartLoad(d, k) PROVE load' \in [Device -> Load]
    BY <1>00, <2>4 DEF StartLoad
  <2>5. "join" \in Load /\ "invite" \in Load /\ head[d] \in 0..Len(chain)
    BY <1>00 DEF Load
  <2>6. ASSUME Resolve(d)
        PROVE  /\ head' = head \/ head' \in [Device -> 0..Len(chain)]
               /\ waiter' \in [Device -> WaiterRow(story.chain)]
               /\ load' = load \/ load' \in [Device -> Load]
    BY <1>00, <2>3, <2>4, <2>5, <2>6, Rows DEF Resolve
  <2>7. CASE PassJoining(d, full, online)
    <3>1. /\ head' = head \/ head' \in [Device -> 0..Len(chain)]
          /\ waiter' \in [Device -> WaiterRow(story.chain)]
          /\ load' = load \/ load' \in [Device -> Load]
      BY <2>3, <2>5, <2>6, <2>7, Rows DEF PassJoining
    <3>. QED
      BY <1>0, <2>2, <3>1, LocalFrame
  <2>8. CASE PassOther(d, full, online)
    <3>1. head' \in [Device -> 0..Len(chain)] /\ waiter' \in [Device -> WaiterRow(story.chain)]
      BY <1>00, <2>8, Rows DEF PassOther, StopWaiter
    <3>2. load' = load \/ load' \in [Device -> Load]
      BY <2>4, <2>5, <2>8 DEF PassOther
    <3>. QED
      BY <1>0, <2>2, <3>1, <3>2, LocalFrame
  <2>. QED
    BY <2>1, <2>7, <2>8
<1>. QED
  BY <1>1, <1>2, <1>3, <1>4, <1>5, <1>6, <1>7, <1>8, <1>9, <1>10, <1>11, <1>12, <1>13, <1>14, <1>15, <1>16, <1>17, <1>18, <1>19, <1>20, <1>21, <1>30, <1>31, <1>32, <1>33
     DEF DeviceStep, Calls, Continue, Waiter, Loader, Notifier
----------------------------------------------------------------------------
(* The steps of a device.                                                  *)

\* Every step that touches the tree is one change or one round.
LEMMA TreeMoves ==
    ASSUME MemberInv, NEW d \in Device, DeviceStep(d)
    PROVE  \/ UNCHANGED tree
           \/ HeadSync(d)
           \/ \E n \in 0..story.messages : tip[d].at # 0 /\ SetInboxCursor(d, n)
           \/ \E s \in Status \ {"none"} : SetRemote(d, s)
<1>. DEFINE Goal == \/ UNCHANGED tree
                    \/ HeadSync(d)
                    \/ \E n \in 0..story.messages : tip[d].at # 0 /\ SetInboxCursor(d, n)
                    \/ \E s \in Status \ {"none"} : SetRemote(d, s)
<1>0. \A s \in Status \ {"none"} : SetRemote(d, s) => Goal
  OBVIOUS
<1>00. {"joining", "ended", "pending", "declined", "active", "deleted"} \subseteq Status \ {"none"}
  BY DEF Status
<1>000. UNCHANGED tree => Goal
  OBVIOUS
<1>0000. HeadSync(d) => Goal
  OBVIOUS
<1>1. ASSUME SaveCursor(d) PROVE Goal
  <2>1. CASE UNCHANGED tree
    BY <2>1
  <2>2. CASE pass[d] > cursor[d].offset /\ SetInboxCursor(d, pass[d])
    <3>1. cursor[d].offset \in Nat /\ pass[d] \in -1..story.messages /\ story.messages \in Nat
      <4>1. cursor[d] \in CursorOf(Place, story.messages) /\ story.messages \in Nat
        BY StoryFacts DEF MemberInv, Typed, TreeTyped, Replica
      <4>. QED
        BY <4>1 DEF CursorOf, MemberInv, Typed, LocalTyped
    <3>2. pass[d] > 0 /\ pass[d] \in 0..story.messages
      BY <2>2, <3>1
    <3>3. tip[d].at # 0
      BY <3>2 DEF MemberInv, PassInv
    <3>. QED
      BY <2>2, <3>2, <3>3
  <2>. QED
    BY <1>1, <2>1, <2>2 DEF SaveCursor
<1>. HIDE DEF Goal
<1>2. ASSUME Calls(d) PROVE Goal
  BY <1>0, <1>00, <1>000, <1>2 DEF Calls, JoinPost, CancelPost, DeleteMark, AcceptMark, DeclineInvite
<1>3. ASSUME Continue(d) PROVE Goal
  BY <1>0, <1>00, <1>000, <1>3 DEF Continue, JoinWrite, JoinHead, CancelMark, MarkJoinEnded, Offload,
        AcceptFlip, AcceptGet
<1>4. ASSUME Waiter(d) PROVE Goal
  BY <1>0, <1>00, <1>000, <1>4 DEF Waiter, Poll, Reject, MarkJoinEnded
<1>5. ASSUME Loader(d) \/ HealJoin(d) PROVE Goal
  <2>1. ASSUME FlipJoinActive(d) PROVE Goal
    BY <1>0, <1>00, <1>000, <2>1 DEF FlipJoinActive, tree
  <2>2. CASE JoinLoaded(d) \/ HealJoin(d)
    BY <2>1, <2>2 DEF JoinLoaded, HealJoin
  <2>3. CASE LoadJoined(d) \/ CheckInvite(d) \/ LoadInvite(d)
    BY <1>0, <1>00, <1>000, <2>3 DEF LoadJoined, CheckInvite, LoadInvite
  <2>. QED
    BY <1>5, <2>2, <2>3 DEF Loader
<1>6. ASSUME StartPass(d) \/ HandleInvite(d) PROVE Goal
  BY <1>0, <1>00, <1>000, <1>0000, <1>6 DEF StartPass, HandleInvite, RegisterInvite, tree
<1>7. ASSUME Controller(d) PROVE Goal
  BY <1>000, <1>7 DEF Controller, Pass, PassJoining, PassOther
<1>8. ASSUME Sync(d) \/ Get(d) PROVE Goal
  BY <1>000, <1>0000, <1>8 DEF Sync, Get
<1>9. ASSUME Restart(d) PROVE Goal
  BY <1>000, <1>9 DEF Restart
<1>10. Goal
  BY <1>1, <1>2, <1>3, <1>4, <1>5, <1>6, <1>7, <1>8, <1>9 DEF DeviceStep, Notifier
<1>. QED
  BY <1>10 DEF Goal

LEMMA TreeKeeps ==
    ASSUME MemberInv, NEW d \in Device, DeviceStep(d)
    PROVE  /\ TreeTyped' /\ RowInv'
           /\ \A x \in Replica : tip[x].at # 0 => tip'[x].at # 0
<1>0. AclTyped /\ TreeTyped /\ RowInv /\ story' = story
  BY AclKeeps DEF MemberInv, Typed
<1>1. CASE UNCHANGED tree
  BY <1>0, <1>1 DEF tree, TreeTyped, RowInv
<1>2. CASE HeadSync(d)
  BY <1>0, <1>2, HeadSyncFacts
<1>3. CASE \E n \in 0..story.messages : tip[d].at # 0 /\ SetInboxCursor(d, n)
  BY <1>0, <1>3, SetCursorFacts
<1>4. CASE \E s \in Status \ {"none"} : SetRemote(d, s)
  BY <1>0, <1>4, SetRemoteFacts
<1>. QED
  BY <1>1, <1>2, <1>3, <1>4, TreeMoves

\* A row that reads anything has a status change or more.
LEMMA RowFacts ==
    ASSUME MemberInv, NEW d \in Device
    PROVE  /\ RowStatus(d) # "none" => tip[d].at # 0
           /\ tip[d].at # 0 => RowStatus(d) # "none"
BY DEF MemberInv, RowInv, RowStatus, Replica

LEMMA PassKeeps ==
    ASSUME MemberInv, NEW d \in Device, DeviceStep(d)
    PROVE  PassInv'
<1>0. /\ TreeTyped' /\ RowInv' /\ \A x \in Replica : tip[x].at # 0 => tip'[x].at # 0
      /\ pass \in [Device -> -1..story.messages] /\ Device \subseteq Replica
      /\ AclTyped /\ TreeTyped /\ RowInv /\ PassInv /\ story' = story
  BY TreeKeeps, AclKeeps DEF MemberInv, Typed, LocalTyped, Replica
<1>1. CASE StartPass(d)
  <2>1. pass' = [pass EXCEPT ![d] = cursor[d].offset]
    BY <1>1 DEF StartPass
  <2>2. cursor[d].offset > 0 => tip[d].at # 0
    BY <1>0 DEF RowInv
  <2>. QED
    BY <1>0, <2>1, <2>2 DEF PassInv
<1>2. CASE HandleInvite(d)
  <2>1. pass' = [pass EXCEPT ![d] = @ + 1] /\ RegisterInvite(d)
    BY <1>2 DEF HandleInvite
  <2>2. tip'[d].at # 0
    <3>1. CASE RowStatus(d) \in {"none", "ended"}
      <4>1. SetRemote(d, "pending")
        BY <2>1, <3>1 DEF RegisterInvite
      <4>2. "pending" \in Status \ {"none"}
        BY DEF Status
      <4>3. tip'[d].status = "pending"
        BY <1>0, <4>1, <4>2, SetRemoteFacts
      <4>. QED
        BY <1>0, <4>3 DEF RowInv
    <3>2. CASE RowStatus(d) \notin {"none", "ended"}
      BY <1>0, <3>2, RowFacts
    <3>. QED
      BY <3>1, <3>2
  <2>. QED
    BY <1>0, <2>1, <2>2 DEF PassInv
<1>3. CASE SaveCursor(d) \/ Restart(d)
  <2>1. pass' = [pass EXCEPT ![d] = -1]
    BY <1>3 DEF SaveCursor, Restart
  <2>. QED
    BY <1>0, <2>1 DEF PassInv
<1>4. CASE UNCHANGED pass
  BY <1>0, <1>4 DEF PassInv
<1>5. Calls(d) \/ Continue(d) => UNCHANGED pass
  BY DEF Calls, JoinPost, CancelPost, DeleteMark, AcceptMark, DeclineInvite, inbox,
         Continue, JoinWrite, JoinHead, CancelMark, Offload, AcceptFlip, AcceptGet
<1>6. Waiter(d) \/ Loader(d) \/ Controller(d) => UNCHANGED pass
  BY DEF Waiter, Poll, Reject, Loader, LoadJoined, JoinLoaded, CheckInvite, LoadInvite, inbox,
         Controller, Pass, PassJoining, PassOther
<1>7. Sync(d) \/ Get(d) \/ HealJoin(d) => UNCHANGED pass
  BY DEF Sync, Get, HealJoin, inbox
<1>. QED
  BY <1>1, <1>2, <1>3, <1>4, <1>5, <1>6, <1>7 DEF DeviceStep, Notifier

\* While nobody has asked, only an invite, its refusal, a deletion, a pass of
\* the controller, a round and a restart are possible, and none of them
\* prepares a load.
QuietDevice(d) ==
    /\ ~storage[d] /\ load[d] = "none" /\ marker[d] = "" /\ waiter[d].st = "none"
    /\ call[d].op \in {"none", "offload"}

LEMMA ConsentKeeps ==
    ASSUME MemberInv, NEW d \in Device, DeviceStep(d)
    PROVE  ConsentInv'
<1>. SUFFICES ASSUME ~consent'
              PROVE  /\ \A x \in Replica : tip'[x].status \in Quiet
                     /\ \A x \in Device :
                           /\ ~storage'[x] /\ load'[x] = "none" /\ marker'[x] = "" /\ waiter'[x].st = "none"
                           /\ call'[x].op \in {"none", "offload"}
  BY DEF ConsentInv
<1>0. ~JoinPost(d) /\ ~AcceptMark(d)
  BY DEF JoinPost, AcceptMark
<1>00. ~consent
  <2>1. CASE DeleteMark(d) \/ CancelPost(d) \/ DeclineInvite(d) \/ Continue(d)
    BY <2>1 DEF DeleteMark, CancelPost, DeclineInvite, Continue, JoinWrite, JoinHead, CancelMark,
           Offload, AcceptFlip, AcceptGet, user
  <2>2. CASE Waiter(d) \/ Loader(d) \/ Controller(d)
    BY <2>2 DEF Waiter, Poll, Reject, Loader, LoadJoined, JoinLoaded, CheckInvite, LoadInvite, user,
         Controller, Pass, PassJoining, PassOther
  <2>3. CASE Sync(d) \/ Get(d) \/ HealJoin(d) \/ Restart(d) \/ Notifier(d)
    BY <2>3 DEF Sync, Get, HealJoin, Restart, Notifier, StartPass, HandleInvite, SaveCursor, user
  <2>. QED
    BY <1>0, <2>1, <2>2, <2>3 DEF DeviceStep, Calls
<1>1. /\ \A x \in Replica : tip[x].status \in Quiet
      /\ \A x \in Device : QuietDevice(x)
  BY <1>00 DEF MemberInv, ConsentInv, QuietDevice
<1>2. RowStatus(d) \in Quiet /\ d \in Replica /\ QuietDevice(d)
  BY <1>1 DEF RowStatus, Quiet, Replica
<1>3. /\ ~CancelPost(d) /\ ~JoinWrite(d) /\ ~JoinHead(d) /\ ~CancelMark(d) /\ ~AcceptFlip(d)
      /\ ~AcceptGet(d) /\ ~Poll(d) /\ ~Reject(d) /\ ~LoadJoined(d) /\ ~JoinLoaded(d)
      /\ ~CheckInvite(d) /\ ~LoadInvite(d) /\ ~HealJoin(d) /\ ~Get(d)
      /\ \A full, online : ~PassJoining(d, full, online)
  <2>1. ~CancelPost(d) /\ ~HealJoin(d) /\ \A full, online : ~PassJoining(d, full, online)
    BY <1>2 DEF Quiet, CancelPost, HealJoin, PassJoining
  <2>2. ~JoinWrite(d) /\ ~JoinHead(d) /\ ~CancelMark(d) /\ ~AcceptFlip(d) /\ ~AcceptGet(d)
    BY <1>2 DEF QuietDevice, JoinWrite, JoinHead, CancelMark, AcceptFlip, AcceptGet
  <2>3. ~Poll(d) /\ ~Reject(d)
    BY <1>2 DEF QuietDevice, Poll, Reject
  <2>4. ~LoadJoined(d) /\ ~JoinLoaded(d) /\ ~CheckInvite(d) /\ ~LoadInvite(d)
    BY <1>2 DEF QuietDevice, LoadJoined, JoinLoaded, CheckInvite, LoadInvite
  <2>5. ~Get(d)
    BY <1>2 DEF Quiet, Get, IsDeleted, MaterializeBlock
  <2>. QED
    BY <2>1, <2>2, <2>3, <2>4, <2>5
<1>4. /\ AclTyped /\ TreeTyped /\ LocalTyped /\ RowInv /\ story' = story
      /\ storage \in [Device -> BOOLEAN] /\ load \in [Device -> Load] /\ marker \in [Device -> Mark]
      /\ waiter \in [Device -> WaiterRow(story.chain)] /\ call \in [Device -> CallRow(Len(chain))]
  BY AclKeeps DEF MemberInv, Typed, LocalTyped
<1>5. ASSUME NEW s \in Quiet \ {"none"}, SetRemote(d, s)
      PROVE  \A x \in Replica : tip'[x].status \in Quiet
  <2>1. s \in Status \ {"none"}
    BY DEF Quiet, Status
  <2>2. tip'[d].status = s /\ \A x \in Replica \ {d} : tip'[x].status = tip[x].status
    BY <1>4, <1>5, <2>1, SetRemoteFacts
  <2>. QED
    BY <1>1, <2>2
<1>6. ASSUME HeadSync(d) PROVE \A x \in Replica : tip'[x].status \in Quiet
  BY <1>1, <1>4, <1>6, HeadSyncFacts
<1>7. ASSUME UNCHANGED tree PROVE \A x \in Replica : tip'[x].status \in Quiet
  BY <1>1, <1>7 DEF tree
<1>8. CASE DeclineInvite(d)
  <2>1. UNCHANGED <<storage, load, marker, waiter, call>> /\ SetRemote(d, "declined")
    BY <1>8 DEF DeclineInvite, disk
  <2>2. "declined" \in Quiet \ {"none"}
    BY DEF Quiet
  <2>. QED
    BY <1>1, <1>5, <2>1, <2>2 DEF QuietDevice
<1>9. CASE DeleteMark(d)
  <2>1. /\ UNCHANGED <<storage, load, marker, waiter>> /\ SetRemote(d, "deleted")
        /\ Then(d, "offload", 0)
    BY <1>2, <1>9 DEF DeleteMark, disk, Quiet
  <2>2. "deleted" \in Quiet \ {"none"}
    BY DEF Quiet
  <2>3. \A x \in Device : call'[x].op \in {"none", "offload"}
    BY <1>1, <1>4, <2>1 DEF QuietDevice, Then
  <2>. QED
    BY <1>1, <1>5, <2>1, <2>2, <2>3 DEF QuietDevice
<1>10. CASE Offload(d)
  <2>1. /\ UNCHANGED <<load, marker, waiter, tree>> /\ storage' = [storage EXCEPT ![d] = FALSE]
        /\ Return(d)
    BY <1>10 DEF Offload
  <2>2. \A x \in Device : call'[x].op \in {"none", "offload"}
    BY <1>1, <1>4, <2>1 DEF QuietDevice, Return, NoCall
  <2>3. \A x \in Device : ~storage'[x]
    BY <1>1, <1>4, <2>1 DEF QuietDevice
  <2>. QED
    BY <1>1, <1>7, <2>1, <2>2, <2>3 DEF QuietDevice
<1>11. CASE \E full, online \in BOOLEAN : PassOther(d, full, online)
  <2>1. /\ UNCHANGED <<tree, marker, storage, call, load>> /\ StopWaiter(d)
    <3>1. PICK full, online \in BOOLEAN : PassOther(d, full, online)
      BY <1>11
    <3>2. ~storage[d] /\ marker[d] # "loading"
      BY <1>2 DEF QuietDevice
    <3>. QED
      BY <3>1, <3>2 DEF PassOther
  <2>2. \A x \in Device : waiter'[x].st = "none"
    BY <1>1, <1>4, <2>1 DEF QuietDevice, StopWaiter, NoWaiter
  <2>. QED
    BY <1>1, <1>7, <2>1, <2>2 DEF QuietDevice
<1>12. CASE StartPass(d) \/ Sync(d)
  <2>1. UNCHANGED <<storage, load, marker, waiter, call>> /\ (UNCHANGED tree \/ HeadSync(d))
    BY <1>12 DEF StartPass, Sync, disk, tree
  <2>. QED
    BY <1>1, <1>6, <1>7, <2>1 DEF QuietDevice
<1>13. CASE HandleInvite(d)
  <2>1. UNCHANGED <<storage, load, marker, waiter, call>> /\ (UNCHANGED tree \/ SetRemote(d, "pending"))
    BY <1>13 DEF HandleInvite, RegisterInvite, disk
  <2>2. "pending" \in Quiet \ {"none"}
    BY DEF Quiet
  <2>. QED
    BY <1>1, <1>5, <1>7, <2>1, <2>2 DEF QuietDevice
<1>14. CASE SaveCursor(d)
  <2>1. UNCHANGED <<storage, load, marker, waiter, call>>
    BY <1>14 DEF SaveCursor, disk
  <2>2. \A x \in Replica : tip'[x].status \in Quiet
    <3>1. CASE UNCHANGED tree
      BY <1>7, <3>1
    <3>2. CASE pass[d] > cursor[d].offset /\ SetInboxCursor(d, pass[d])
      <4>1. cursor[d] \in CursorOf(Place, story.messages) /\ story.messages \in Nat
            /\ pass[d] \in -1..story.messages
        BY <1>2, <1>4, StoryFacts DEF TreeTyped, LocalTyped
      <4>2. pass[d] \in 0..story.messages /\ pass[d] > 0
        BY <3>2, <4>1 DEF CursorOf
      <4>3. tip[d].at # 0
        BY <4>2 DEF MemberInv, PassInv
      <4>. QED
        BY <1>1, <1>4, <3>2, <4>2, <4>3, SetCursorFacts
    <3>. QED
      BY <1>14, <3>1, <3>2 DEF SaveCursor
  <2>. QED
    BY <1>1, <2>1, <2>2 DEF QuietDevice
<1>15. CASE Restart(d)
  <2>1. /\ UNCHANGED <<tree, marker>>
        /\ waiter' = [waiter EXCEPT ![d] = NoWaiter]
        /\ load' = [load EXCEPT ![d] = "none"]
        /\ call' = [call EXCEPT ![d] = NoCall]
        /\ storage' = [storage EXCEPT ![d] = @ /\ RowStatus(d) # "deleted"]
    BY <1>15 DEF Restart
  <2>2. \A x \in Device : waiter'[x].st = "none" /\ load'[x] = "none" /\ call'[x].op \in {"none", "offload"}
    BY <1>1, <1>4, <2>1 DEF QuietDevice, NoWaiter, NoCall
  <2>3. \A x \in Device : ~storage'[x]
    BY <1>1, <1>4, <2>1 DEF QuietDevice
  <2>. QED
    BY <1>1, <1>7, <2>1, <2>2, <2>3 DEF QuietDevice
<1>. QED
  BY <1>0, <1>3, <1>8, <1>9, <1>10, <1>11, <1>12, <1>13, <1>14, <1>15
     DEF DeviceStep, Calls, Continue, Waiter, Loader, Notifier, Controller, Pass

----------------------------------------------------------------------------
(* All steps.                                                              *)

LEMMA OtherKeeps ==
    ASSUME MemberInv, Owner \/ Serve \/ SendInvite
    PROVE  MemberInv'
<1>. USE StoryFacts DEF MemberInv, Typed
<1>1. UNCHANGED <<tree, disk, waiter, load, call, pass, latched, user, limits>>
  BY DEF Owner, Serve, SendInvite, inbox
<1>2. AclTyped' /\ Len(chain) <= Len(chain')
  <2>1. CASE Owner
    <3>1. \E e \in {"accept", "decline", "add", "remove"} : Post(e)
      BY <2>1 DEF Owner
    <3>2. chain' \in Seq(Event) /\ Len(chain') = Len(chain) + 1 /\ Len(chain') <= story.chain
      BY <1>1, <3>1, PostFacts DEF Event, limits
    <3>3. UNCHANGED <<served, sent, calls, restarts, story>>
      BY <2>1 DEF Owner, inbox, user, limits
    <3>. QED
      BY <3>2, <3>3 DEF AclTyped
  <2>2. CASE Serve
    BY <2>2 DEF Serve, AclTyped, inbox, user, limits
  <2>3. CASE SendInvite
    BY <2>3 DEF SendInvite, AclTyped, acl, user, limits
  <2>. QED
    BY <2>1, <2>2, <2>3
<1>3. TreeTyped' /\ RowInv'
  BY <1>1 DEF TreeTyped, RowInv, tree, limits
<1>4. LocalTyped'
  BY <1>1, <1>2, LocalFrame DEF disk, user, limits
<1>5. PassInv' /\ ConsentInv'
  BY <1>1 DEF PassInv, ConsentInv, tree, disk, user
<1>. QED
  BY <1>2, <1>3, <1>4, <1>5

LEMMA StepKeeps == MemberInv /\ [Next]_vars => MemberInv'
<1>. SUFFICES ASSUME MemberInv, [Next]_vars PROVE MemberInv'
  OBVIOUS
<1>1. CASE Owner \/ Serve \/ SendInvite
  BY <1>1, OtherKeeps
<1>2. ASSUME NEW d \in Device, DeviceStep(d) PROVE MemberInv'
  <2>1. AclTyped' /\ LocalTyped' /\ TreeTyped' /\ RowInv'
    BY <1>2, AclKeeps, LocalKeeps, TreeKeeps DEF MemberInv, Typed
  <2>. QED
    BY <1>2, <2>1, PassKeeps, ConsentKeeps DEF MemberInv, Typed
<1>3. CASE UNCHANGED vars
  <2>1. UNCHANGED <<acl, tree, disk, waiter, load, call, inbox, user, limits>>
    BY <1>3 DEF vars
  <2>2. AclTyped' /\ TreeTyped' /\ LocalTyped'
    BY <2>1 DEF MemberInv, Typed, AclTyped, TreeTyped, LocalTyped, acl, tree, disk, inbox, user, limits
  <2>3. RowInv' /\ PassInv' /\ ConsentInv'
    BY <2>1 DEF MemberInv, RowInv, PassInv, ConsentInv, tree, disk, inbox, user
  <2>. QED
    BY <2>2, <2>3 DEF MemberInv, Typed
<1>. QED
  BY <1>1, <1>2, <1>3 DEF Next, DeviceStep

LEMMA InitHolds == Init => MemberInv
<1>. SUFFICES ASSUME Init PROVE MemberInv
  OBVIOUS
<1>0. /\ story \in Stories /\ chain = <<>> /\ served = 0 /\ sent = 0 /\ calls = 0 /\ restarts = 0
      /\ tip = [x \in Replica |-> NoRow] /\ cursor = [x \in Replica |-> NoCursor]
      /\ del = [x \in Replica |-> 0] /\ dead = [d \in Device |-> FALSE]
      /\ pass = [d \in Device |-> -1]
  BY DEF Init
<1>1. AclTyped
  <2>1. story.chain \in Nat /\ story.messages \in Nat /\ story.calls \in Nat /\ MaxRestarts \in Nat
    BY <1>0, MembershipAssumption
  <2>2. chain \in Seq(Event) /\ Len(chain) = 0
    BY <1>0
  <2>. QED
    BY <1>0, <2>1, <2>2 DEF AclTyped
<1>2. TreeTyped
  <2>1. NoRow \in TipOf(Place) /\ NoCursor \in CursorOf(Place, story.messages)
    BY <1>1, StoryFacts, PlaceFacts DEF NoRow, NoCursor, TipOf, CursorOf, Status
  <2>. QED
    BY <2>1, PlaceFacts DEF Init, TreeTyped
<1>3. LocalTyped
  <2>0. Len(chain) = 0 /\ 0 \in 0..Len(chain) /\ story.chain \in Nat /\ story.messages \in Nat
    BY <1>0, <1>1, StoryFacts
  <2>1. NoWaiter \in WaiterRow(story.chain) /\ NoCall \in CallRow(Len(chain))
    BY <2>0 DEF NoWaiter, WaiterRow, NoCall, CallRow, Op
  <2>2. "" \in Mark /\ "none" \in Load /\ -1 \in -1..story.messages
    BY <2>0 DEF Mark, Load
  <2>. QED
    BY <2>0, <2>1, <2>2 DEF Init, LocalTyped
<1>4. RowInv
  BY <1>0 DEF RowInv, NoRow, NoCursor
<1>5. PassInv
  BY <1>0 DEF PassInv
<1>6. ConsentInv
  BY DEF Init, ConsentInv, NoRow, NoWaiter, NoCall, Quiet
<1>. QED
  BY <1>1, <1>2, <1>3, <1>4, <1>5, <1>6 DEF MemberInv, Typed

LEMMA Inductive == Spec => []MemberInv
BY InitHolds, StepKeeps, PTL DEF Spec

----------------------------------------------------------------------------
(* The theorems.                                                           *)

LEMMA InvImpliesType == MemberInv => TypeOK
<1>. SUFFICES ASSUME MemberInv PROVE TypeOK
  OBVIOUS
<1>1. AclTyped /\ TreeTyped /\ LocalTyped
  BY DEF MemberInv, Typed
<1>2. call \in [Device -> CallRow(story.chain)]
  <2>1. Len(chain) \in Nat /\ story.chain \in Nat /\ Len(chain) <= story.chain
    BY <1>1, StoryFacts DEF AclTyped
  <2>. QED
    BY <1>1, <2>1, CallsGrow DEF LocalTyped
<1>. QED
  BY <1>1, <1>2 DEF TypeOK, AclTyped, TreeTyped, LocalTyped, TipOf, CursorOf, WaiterRow, CallRow,
        Op, Load, Mark

\* The types of the rows, the devices' own state and the ACL, for any devices
\* and courses of events.
THEOREM TypeCorrect == Spec => []TypeOK
BY Inductive, InvImpliesType, PTL

\* No device downloads the space before some device asked to join it or
\* accepted an invite, by whatever row, marker, waiter, pass or redelivery
\* (docs/direct-add-invites.md: "nothing is downloaded until the user accepts";
\* service.go, MaterializeBlock).
THEOREM ConsentComesFirst == Spec => []ConsentFirst
<1>1. MemberInv => ConsentFirst
  BY InvImpliesType DEF MemberInv, ConsentInv, ConsentFirst
<1>. QED
  BY <1>1, Inductive, PTL

\* A device that has the account's cursor past an invite has a row as well,
\* so no device needs to read the invite again (notifier.go: the cursor is
\* saved after the rows of its batch).
THEOREM NoneSkipped == Spec => []NoInviteSkipped
<1>1. MemberInv => NoInviteSkipped
  <2>. SUFFICES ASSUME MemberInv, NEW d \in Device, cursor[d].offset > 0
                PROVE  RowStatus(d) # "none"
    BY DEF NoInviteSkipped
  <2>1. tip[d].at # 0
    BY DEF MemberInv, RowInv, Replica
  <2>. QED
    BY <2>1, RowFacts
<1>. QED
  BY <1>1, Inductive, PTL
=============================================================================
