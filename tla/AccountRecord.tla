---------------------------- MODULE AccountRecord ----------------------------
(***************************************************************************)
(* How the devices of an account find each other                           *)
(* (src/internal/p2p/accountlayer.go, src/internal/p2p/account,            *)
(* docs/account-discovery.md).                                             *)
(*                                                                         *)
(* All devices hold the key of one record, a signed packet with a          *)
(* timestamp that names the devices, and keep it on several relays.  A     *)
(* relay refuses a packet older than the one it holds, and nothing else    *)
(* orders the writers: a cycle reads the record, takes it over, and writes *)
(* it back with its own entry only if that one is missing or out of date.  *)
(* A write every relay refuses is repeated once on top of what was read    *)
(* then.  Relays may not answer, forget, or answer with an old packet, and *)
(* clocks differ: a timestamp is past the packet it was read from and      *)
(* otherwise anywhere.                                                     *)
(*                                                                         *)
(* An entry is counted, not dated: the n-th entry of a device is fresh as  *)
(* long as its age and the home relay do not ask for the next one, be it   *)
(* that a writer with a slow clock dated it back (Merge).  Once the next   *)
(* one is due, a device may find it unseen for MaxAge, each by its clock.  *)
(***************************************************************************)
EXTENDS Naturals, FiniteSets, FiniteSetsExt

CONSTANTS
    Device,     \* the devices of the account, no more than a record carries
    Relay,      \* the pkarr relays every device is configured with
    Ahead,      \* pairs <<d, e>>: d's clock is more than MaxAge ahead of e's
    Releases,   \* which payload version (RecordVersion) each device may write
    MaxDue,     \* bound: entries of one device
    Renews,     \* bound: devices that need more than one
    MaxFaults   \* bound: silent relays, lost answers, wipes, restarts

ASSUME AccountAssumption ==
    /\ IsFiniteSet(Device) /\ IsFiniteSet(Relay) /\ Relay # {}
    /\ Ahead \subseteq Device \X Device
    /\ Releases \subseteq [Device -> Nat \ {0}]
    /\ MaxDue \in Nat \ {0} /\ Renews \subseteq Device /\ MaxFaults \in Nat

VARIABLES
    release,    \* the payload version of each device
    due,        \* the entry a device should have in the record
    held,       \* the packet on each relay
    last,       \* the names a device decoded or published last
    file,       \* those it has on disk
    old,        \* old[d][e]: the entries of e too old for d
    cycle,      \* the record cycle: [pc, self, after]
    peers,      \* the siblings a device knows: "no", "met", or with a relay
    near,       \* those connected to it, or seen within the hour
    \* history
    best,       \* the newest packet a device decoded or published
    lagging,    \* devices whose last record is older than that
    faults

vars == <<release, due, held, last, file, old, cycle, peers, near, best, lagging, faults>>
record == <<last, file, best, lagging>>
siblings == <<peers, near>>

Names  == [Device -> 0..MaxDue]          \* 0: not named
Nobody == [d \in Device |-> 0]
Place  == 0..(Cardinality(Relay) + 2 * Cardinality(Device))

NoPacket == [at |-> 0, version |-> 0, names |-> Nobody]
Idle     == [pc |-> "idle", self |-> 0, after |-> 0]

TypeOK ==
    /\ release \in Releases /\ due \in [Device -> 1..MaxDue]
    /\ \A r \in Relay : /\ held[r].at \in Place /\ held[r].names \in Names
                        /\ held[r].at = 0 <=> held[r] = NoPacket
    /\ last \in [Device -> Names] /\ file \in [Device -> Names]
    /\ \A d, e \in Device : old[d][e] \in 0..(due[e] - 1)
    /\ \A d \in Device : /\ cycle[d].pc \in {"idle", "publish", "again", "republish"}
                         /\ cycle[d].after \in Place /\ cycle[d].self \in 0..due[d]
                         \* A second write is past an answer.
                         /\ cycle[d].pc = "republish" => cycle[d].after # 0
                         /\ \A e \in Device : last[d][e] <= due[e] /\ file[d][e] <= due[e]
    /\ peers \in [Device -> [Device -> {"no", "met", "relay"}]]
    /\ near \in [Device -> SUBSET Device]
    /\ \A d \in Device : best[d].at \in Place /\ best[d].names \in Names
    /\ lagging \subseteq Device /\ faults \in 0..MaxFaults

Fault == faults < MaxFaults /\ faults' = faults + 1
Faultless(ok) == IF ok THEN UNCHANGED faults ELSE Fault

----------------------------------------------------------------------------
(* Timestamps: only their order matters.  The places in use are renumbered *)
(* after every step, and spread before one to make room between any two.   *)

Settle(h, c, b) ==
    LET used == {h[r].at : r \in Relay} \cup {c[d].after : d \in Device} \cup {b[d].at : d \in Device}
        At(p) == Cardinality({q \in used : 0 < q /\ q <= p})
    IN  /\ held'  = [r \in Relay |-> [h[r] EXCEPT !.at = At(@)]]
        /\ cycle' = [d \in Device |-> [c[d] EXCEPT !.after = At(@)]]
        /\ best'  = [d \in Device |-> [b[d] EXCEPT !.at = At(@)]]

Spread(f) == [x \in DOMAIN f |-> [f[x] EXCEPT !.at = 2 * @]]
SpreadCycle == [d \in Device |-> [cycle[d] EXCEPT !.after = 2 * @]]

\* Mutant: the packet is dated by the writer's clock alone.
ClockPlaces(after) == {2 * p + 1 : p \in Place}

\* SealAt: past the packet that was read, wherever the clock stands.
Places(after) == {2 * p + 1 : p \in {q \in Place : q >= after}}

----------------------------------------------------------------------------
(* Reading: the newest packet of the relays that answer.                   *)

Newest(rs) ==
    LET ps == {held[r] : r \in rs}
    IN  IF ps = {} THEN NoPacket ELSE CHOOSE p \in ps : \A q \in ps : q.at <= p.at

\* The record is written to the file, or that fails and nobody is told.
Save(d, names, saved) == file' = [file EXCEPT ![d] = IF saved THEN names ELSE @]

\* A record the device decodes or publishes becomes its base, older or not.
SetLast(d, p, saved) ==
    /\ last' = [last EXCEPT ![d] = p.names]
    /\ Save(d, p.names, saved)
    /\ lagging' = IF p.at < best[d].at THEN lagging \cup {d} ELSE lagging \ {d}

Best(d, p) == IF p.at < best[d].at THEN best ELSE [best EXCEPT ![d] = [at |-> p.at, names |-> p.names]]

\* Unseen for MaxAge by d's clock: the n-th entry of e.
Expired(d, e, n) == n <= old[d][e] \/ <<d, e>> \in Ahead

\* Those a record names, as d reads it.
Named(d, names) == {e \in Device \ {d} : names[e] # 0 /\ ~Expired(d, e, names[e])}

\* The siblings after a record: those it names, and of the rest those the
\* device still sees (applyAccountRecord).
Apply(d, names) ==
    LET named == Named(d, names)
    IN  /\ peers' = [peers EXCEPT ![d] = [e \in Device |->
               IF e \in named THEN "relay" ELSE IF e \in near[d] THEN @[e] ELSE "no"]]
        /\ near' = [near EXCEPT ![d] = @ \cup {e \in named : names[e] = due[e]}]

\* The first answer of a cycle.  A relay that is silent hides its packet,
\* and without any packet the cycle fails; a packet that cannot be opened
\* gives its timestamp and nothing else.
Resolve(d, heard, opens, saved) ==
    LET p == Newest(heard)
        failed == p.at = 0 /\ heard # Relay
        stops == p.at # 0 /\ opens /\ p.version > release[d]
    IN  /\ cycle[d].pc = "idle"
        /\ opens \/ p.at # 0
        /\ Faultless(heard = Relay /\ opens /\ saved)
        /\ IF p.at # 0 /\ opens
           THEN SetLast(d, p, saved) /\ Apply(d, p.names) /\ best' = Best(d, p)
           ELSE saved /\ UNCHANGED <<record, siblings>>
        /\ cycle' = IF failed \/ stops \/ last'[d][d] = due[d] THEN cycle
                    ELSE [cycle EXCEPT ![d] = [pc |-> "publish", self |-> due[d], after |-> p.at]]
        /\ UNCHANGED <<release, due, held, old>>

\* Mutant: the second write does not need an answer.
ResolveAgainBlindly(d, heard, opens, saved) ==
    LET p == Newest(heard)
    IN  /\ cycle[d].pc = "again"
        /\ saved /\ Faultless(heard = Relay /\ opens)
        /\ cycle' = [cycle EXCEPT ![d].pc = "republish", ![d].after = p.at]
        /\ UNCHANGED <<release, due, held, old, record, siblings>>

\* The answer after a refused write.  A record of a newer version is not
\* taken over here either, but the write goes on past it.
ResolveAgain(d, heard, opens, saved) ==
    LET p == Newest(heard)
    IN  /\ cycle[d].pc = "again"
        /\ opens \/ p.at # 0
        /\ Faultless(heard = Relay /\ opens /\ saved)
        /\ IF p.at # 0 /\ opens /\ p.version <= release[d]
           THEN SetLast(d, p, saved) /\ Apply(d, p.names) /\ best' = Best(d, p)
           ELSE saved /\ UNCHANGED <<record, siblings>>
        /\ cycle' = [cycle EXCEPT ![d] =
               IF p.at = 0 THEN Idle ELSE [@ EXCEPT !.pc = "republish", !.after = p.at]]
        /\ UNCHANGED <<release, due, held, old>>

----------------------------------------------------------------------------
(* Writing: one packet to every relay.                                     *)

\* The own entry in the last record, whatever was answered, without those
\* unseen for MaxAge (knownRecord, Merge).
Merged(d) == [e \in Device |-> IF e = d THEN cycle[d].self
                               ELSE IF e \in Named(d, last[d]) THEN last[d][e] ELSE 0]

\* Only a write every relay refused as old is repeated, and once.
AfterRefusal(d, stale) ==
    IF stale /\ cycle[d].pc = "publish" THEN [cycle EXCEPT ![d].pc = "again"]
    ELSE [cycle EXCEPT ![d] = Idle]

\* The packet reaches some relays, and some of the answers come back.  It is
\* published when one relay says that it has stored it.
Publish(d, reached, answered, saved) ==
    /\ cycle[d].pc \in {"publish", "republish"}
    /\ Faultless(answered = Relay /\ saved)
    /\ \E at \in Places(cycle[d].after) :
          LET packet == [at |-> at, version |-> release[d], names |-> Merged(d)]
              takers == {r \in reached : 2 * held[r].at < at}
              stored == takers \cap answered # {}
              stale  == answered = Relay /\ takers = {}
              h == [r \in Relay |-> IF r \in takers THEN packet ELSE Spread(held)[r]]
              mine == [at |-> at, names |-> packet.names]
          IN  IF stored
              THEN /\ last' = [last EXCEPT ![d] = packet.names]
                   /\ Save(d, packet.names, saved)
                   /\ lagging' = IF at < 2 * best[d].at THEN lagging ELSE lagging \ {d}
                   /\ Settle(h, [SpreadCycle EXCEPT ![d] = Idle],
                             IF at < 2 * best[d].at THEN Spread(best) ELSE [Spread(best) EXCEPT ![d] = mine])
              ELSE /\ saved /\ UNCHANGED <<last, file, lagging>>
                   /\ Settle(h, [x \in Device |-> [AfterRefusal(d, stale)[x] EXCEPT !.after = 2 * @]],
                             Spread(best))
    /\ UNCHANGED <<release, due, old, siblings>>

----------------------------------------------------------------------------
(* Beside the cycles.                                                      *)

\* The entry is half an hour old, or the home relay has changed.
OutOfDate(d) ==
    /\ d \in Renews /\ due[d] < MaxDue
    /\ due' = [due EXCEPT ![d] = @ + 1]
    /\ UNCHANGED <<release, held, old, record, cycle, siblings, faults>>

\* e has not been seen for MaxAge, by d's clock.
GrowOld(d, e) ==
    /\ d # e /\ old[d][e] < due[e] - 1
    /\ old' = [old EXCEPT ![d][e] = due[e] - 1]
    /\ UNCHANGED <<release, due, held, record, cycle, siblings, faults>>

\* e reaches d, whose entry it has read, and proves the account's identity.
Handshake(d, e) ==
    /\ d # e /\ peers[e][d] = "relay"
    /\ peers' = [peers EXCEPT ![d][e] = IF @ = "no" THEN "met" ELSE @]
    /\ near' = [near EXCEPT ![d] = @ \cup {e}]
    /\ UNCHANGED <<release, due, held, old, record, cycle, faults>>

\* An hour without a connection or a sign.
FallSilent(d, e) ==
    /\ e \in near[d]
    /\ near' = [near EXCEPT ![d] = @ \ {e}]
    /\ UNCHANGED <<release, due, held, old, record, cycle, peers, faults>>

\* A relay forgets.
Wipe(r) ==
    /\ Fault /\ held[r].at # 0
    /\ held' = [held EXCEPT ![r] = NoPacket]
    /\ UNCHANGED <<release, due, old, record, cycle, siblings>>

\* Mutant: the record's file is not read.
LoadNothing(d, kept) == Nobody

\* loadRecord: the file, unless it is unreadable or of another version.
LoadRecord(d, kept) == IF kept THEN file[d] ELSE Nobody

\* A file that does not hold the last record leaves the device behind.
Restart(d, kept) ==
    LET loaded == LoadRecord(d, kept)
    IN  /\ Fault
        /\ cycle' = [cycle EXCEPT ![d] = Idle]
        /\ last' = [last EXCEPT ![d] = loaded]
        /\ IF kept
           THEN lagging' = (IF file[d] = last[d] THEN lagging ELSE lagging \cup {d}) /\ UNCHANGED best
           ELSE lagging' = lagging \ {d} /\ best' = [best EXCEPT ![d] = [at |-> 0, names |-> Nobody]]
        /\ peers' = [peers EXCEPT ![d] = [e \in Device |-> IF e \in Named(d, loaded) THEN "relay" ELSE "no"]]
        /\ near' = [near EXCEPT ![d] = {e \in Named(d, loaded) : loaded[e] = due[e]}]
        /\ UNCHANGED <<release, due, held, file, old>>

----------------------------------------------------------------------------
Init ==
    /\ release \in Releases
    /\ due = [d \in Device |-> 1]
    /\ held = [r \in Relay |-> NoPacket]
    /\ last = [d \in Device |-> Nobody] /\ file = last
    /\ old = [d \in Device |-> Nobody]
    /\ cycle = [d \in Device |-> Idle]
    /\ peers = [d \in Device |-> [e \in Device |-> "no"]]
    /\ near = [d \in Device |-> {}]
    /\ best = [d \in Device |-> [at |-> 0, names |-> Nobody]]
    /\ lagging = {} /\ faults = 0

Cycle(d) ==
    \E rs \in SUBSET Relay, saved \in BOOLEAN :
        \/ \E opens \in BOOLEAN : Resolve(d, rs, opens, saved) \/ ResolveAgain(d, rs, opens, saved)
        \/ \E answered \in SUBSET rs : Publish(d, rs, answered, saved)

Next ==
    \/ \E d \in Device : Cycle(d) \/ OutOfDate(d) \/ \E kept \in BOOLEAN : Restart(d, kept)
    \/ \E d, e \in Device : GrowOld(d, e) \/ Handshake(d, e) \/ FallSilent(d, e)
    \/ \E r \in Relay : Wipe(r)

Spec == Init /\ [][Next]_vars

\* The cycle runs every ten minutes, and a request is answered or times out.
FairSpec == Spec /\ \A d \in Device : WF_vars(Cycle(d))

----------------------------------------------------------------------------
(* Properties.                                                             *)

\* A sibling the account knows is not dropped: what a device publishes names
\* every device of the newest record it has read or written, but for those
\* unseen for MaxAge, whatever was not answered, not readable, wiped, lost
\* with an answer or interrupted by a restart.  A device that has since read
\* an older record, or began again from a file that a failed save left behind,
\* is set apart.
Publishes(d) == \E r \in Relay : held'[r] # held[r] /\ cycle[d].pc \in {"publish", "republish"}
                                    /\ cycle'[d] # cycle[d] /\ held'[r].names = Merged(d)
KeepsSiblings(d) ==
    \A e \in Device : best[d].names[e] # 0 /\ ~Expired(d, e, best[d].names[e]) => Merged(d)[e] # 0
SiblingsAreKept == [][\A d \in Device \ lagging : Publishes(d) => KeepsSiblings(d)]_vars

\* The same of every device (accountlayer.go, accountLayer.last: "the newest
\* record this device decoded").
BaseIsNewest == [][\A d \in Device : Publishes(d) => KeepsSiblings(d)]_vars

\* In the end the record names every device with its latest entry and every
\* device knows all it names, whichever writes raced, were refused, lost or
\* overwritten, and wherever clocks are, as long as none is MaxAge ahead of
\* another; unless the record is of a version newer than the device's, or
\* every relay has forgotten it.
RecordConverges ==
    <>[]\A d \in Device :
            LET p == Newest(Relay)
            IN  p.at # 0 =>
                  /\ p.names[d] = due[d] \/ p.version > release[d]
                  /\ \A e \in Device \ {d} : p.names[e] > old[d][e] => peers[d][e] = "relay"

\* A record every relay has forgotten is written again by the next cycle of
\* any device (accountlayer.go, accountInterval: "It is also how fast a relay
\* wipe or a sibling's fresh entry heals").
WipeHeals ==
    \A d \in Device : cycle[d].pc = "idle" /\ Newest(Relay).at = 0 => last[d][d] # due[d]

\* "A record written by a newer version is never overwritten"
\* (docs/account-discovery.md, Publish).
NewerIsKept ==
    [][\A r \in Relay : held'[r].at # 0 => held'[r].version >= held[r].version]_vars
=============================================================================
