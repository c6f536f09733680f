----------------------------- MODULE GlobalPeers -----------------------------
(***************************************************************************)
(* The internet-wide peers of one device: what the rows of its spaces and  *)
(* the account record say of them, what the peer store, the address book   *)
(* and the status book make of it, and whom the connector dials            *)
(* (src/internal/p2p: global.go, connector.go, peerstore.go, addrbook.go,  *)
(* peerstatus.go, and the sibling set of accountlayer.go).                 *)
(*                                                                         *)
(* Three goroutines fold a peer's records into the stores: the worker with *)
(* its queue, the account cycle, and whoever unloads a space.  Each reads  *)
(* the records under one lock and writes the stores under others.  The     *)
(* connector plans from the stores, dials one peer at a time, and may find *)
(* the world changed when the dial starts or ends; the accept path lets    *)
(* peers in beside it.                                                     *)
(*                                                                         *)
(* A time is the number of writes of rows and entries, of handshakes and   *)
(* of expiries so far, and a write always brings a new ticket.  The caps   *)
(* on rows, the rate limit of dials and the budget of unknown peers are    *)
(* left out; this device's own rows are the business of the other devices. *)
(***************************************************************************)
EXTENDS Naturals, Sequences, SequencesExt, FiniteSetsExt

CONSTANTS
    Space, Peer,
    NoPeer,         \* no peer at all
    Own,            \* the peers that are devices of this account
    MaxConnections, \* connections the connector keeps
    MaxInbound,     \* headroom for those initiated by peers
    MaxFailures,    \* bound: the failures after which a backoff outlasts the
                    \*   dials of all the others
    QueueSize,      \* tasks the worker's queue holds
    Stories         \* bound: the courses of events looked at: writes of rows and
                    \*   entries, changes of spaces, events on the network,
                    \*   whether the power hint lets the connector dial, the rows
                    \*   there are and the spaces that are being loaded at the
                    \*   start, and the peers that do something

ASSUME GlobalAssumption ==
    /\ IsFiniteSet(Space) /\ IsFiniteSet(Peer) /\ NoPeer \notin Peer /\ Own \subseteq Peer
    /\ MaxConnections \in Nat \ {0} /\ MaxInbound \in Nat
    /\ MaxFailures \in Nat \ {0} /\ QueueSize \in Nat \ {0}
    /\ \A s \in Stories : /\ s.writes \in Nat /\ s.churn \in Nat /\ s.links \in Nat
                          /\ s.dials \in BOOLEAN /\ s.rows \in [Space -> [Peer -> 0..1]]
                          /\ s.peers \subseteq Peer /\ s.loaded \subseteq Space
                          /\ Cardinality(s.loaded) <= QueueSize

VARIABLES
    rows,      \* the row of a peer in a space's key-value store: when, 0 when none
    members,   \* the peers whose identity is a member of the space
    loaded,    \* the loaded spaces
    records,   \* what the layer has read of their rows
    entry,     \* the sibling set of the account layer
    queue,     \* the worker's tasks
    round,     \* the spaces it still has to reconcile
    job,       \* the recompute of each goroutine
    global,    \* PeerStore, source global: the spaces of a peer
    account,   \* PeerStore, source account
    ticket,    \* AddrBook: what a peer is dialed at, 0 when nothing
    lan,       \* AddrBook: the peers that have LAN addresses
    lastSeen,  \* StatusBook: the newest evidence of a peer, 0 when none
    failures,  \* StatusBook: failed dials since
    horizon,   \* evidence this old is past the disable threshold
    backoff,   \* peers whose next dial is not due
    dial,      \* the connector: [pc, peer], and a history: it is blind to a
               \*   connection the peer has made
    live, pending,   \* connections the layer holds; peers just admitted
    link,      \* the connection to a peer, as the transport has it
    reach,     \* how a peer answers a dial
    clock, writes, churn, links, story,
    unsure     \* history: peers whose last recomputes overlapped or were dropped

spaces  == <<rows, members, loaded>>
work    == <<records, entry, queue, round, job, unsure>>
stores  == <<global, account>>
status  == <<lastSeen, failures>>
conns   == <<live, pending, link>>
dialing == <<backoff, dial>>
bounds  == <<clock, writes, churn, links, story>>
peersVars == <<spaces, work, stores, ticket, lan, status, horizon, conns, dialing, reach, bounds>>

Thread == {"worker", "unload", "account"}
NoEntry == [seen |-> 0, relay |-> 0]
NoView  == [spaces |-> {}, seen |-> 0, ticket |-> 0, sibling |-> FALSE]

NoJob  == [todo |-> {}, pc |-> "idle", peer |-> NoPeer, view |-> NoView, alone |-> TRUE]
DialOf(pc, p, blind) == [pc |-> pc, peer |-> p, blind |-> blind]
NoDial == DialOf("idle", NoPeer, FALSE)

Disabled(p) == lastSeen[p] <= horizon
Known(p) == global[p] # {} \/ p \in account
Listed == {p \in Peer : Known(p) /\ ~Disabled(p)}
Connected(p) == p \in live \cup pending

----------------------------------------------------------------------------
(* The status book.                                                        *)

\* New evidence forgets the failures, and the backoff with them.
Advance(p, at) ==
    /\ lastSeen' = [lastSeen EXCEPT ![p] = at]
    /\ failures' = [failures EXCEPT ![p] = 0]
    /\ backoff' = backoff \ {p}

Seen(p, at) ==
    IF at > lastSeen[p] THEN Advance(p, at) ELSE UNCHANGED <<lastSeen, failures, backoff>>

----------------------------------------------------------------------------
(* The worker's queue: a full one drops the task.                          *)

Task(kind, s, p, at) == [kind |-> kind, space |-> s, peer |-> p, at |-> at]

Enqueue(q, t) == IF Len(q) < QueueSize THEN Append(q, t) ELSE q

AtRest(t) == job[t].pc = "idle" /\ job[t].todo = {}
Start(t, ps) == job' = [job EXCEPT ![t].todo = ps]

----------------------------------------------------------------------------
(* What the records and the entry of a peer say.                           *)

\* An entry counts as of when the sibling was seen, and an entry without a
\* relay has no ticket.
Fold(read, p) ==
    LET row == Max({0} \cup {read[s][p] : s \in loaded})
    IN  [spaces  |-> {s \in loaded : read[s][p] # 0},
         seen    |-> Max({row, entry[p].seen}),
         ticket  |-> IF entry[p].relay # 0 /\ (entry[p].seen > row \/ row = 0)
                     THEN entry[p].relay ELSE row,
         sibling |-> entry[p] # NoEntry]
View(p) == Fold(records, p)

\* The stores of a peer say what the view of its records says.  A ticket is
\* withheld while all the records know of the peer is past the threshold.
InStores(p, v) == global[p] = v.spaces /\ (p \in account <=> v.sibling)
Agrees(p, v) ==
    InStores(p, v) /\ (ticket[p] = v.ticket \/ (ticket[p] = 0 /\ v.seen <= horizon))

----------------------------------------------------------------------------
(* Rows, spaces and members.                                               *)

Write == writes < story.writes /\ writes' = writes + 1 /\ clock' = clock + 1

\* A row is applied: the handler of a loaded space hands it to the worker.
RowArrives(s, p) ==
    /\ Write
    /\ rows' = [rows EXCEPT ![s][p] = clock']
    /\ queue' = IF s \in loaded THEN Enqueue(queue, Task("apply", s, p, clock')) ELSE queue
    /\ UNCHANGED <<members, loaded, records, entry, round, job, unsure, stores, ticket, lan,
                   status, horizon, conns, dialing, reach, churn, links, story>>

Churn == churn < story.churn /\ churn' = churn + 1

\* No row announces it.
MemberChanges(s, p) ==
    /\ Churn
    /\ members' = IF <<s, p>> \in members THEN members \ {<<s, p>>} ELSE members \cup {<<s, p>>}
    /\ UNCHANGED <<rows, loaded, work, stores, ticket, lan, status, horizon, conns, dialing,
                   reach, clock, writes, links, story>>

SpaceLoaded(s) ==
    /\ Churn /\ s \notin loaded
    /\ loaded' = loaded \cup {s}
    /\ queue' = Enqueue(queue, Task("reconcile", s, NoPeer, 0))
    /\ UNCHANGED <<rows, members, records, entry, round, job, unsure, stores, ticket, lan,
                   status, horizon, conns, dialing, reach, clock, writes, links, story>>

SpaceUnloaded(s) ==
    /\ Churn /\ s \in loaded /\ AtRest("unload")
    /\ loaded' = loaded \ {s}
    /\ records' = [records EXCEPT ![s] = [p \in Peer |-> 0]]
    /\ Start("unload", {p \in Peer : records[s][p] # 0})
    /\ UNCHANGED <<rows, members, entry, queue, round, unsure, stores, ticket, lan,
                   status, horizon, conns, dialing, reach, clock, writes, links, story>>

\* The exchange on the local network finds a peer, or loses it.
LanChanges(p) ==
    /\ Churn
    /\ lan' = IF p \in lan THEN lan \ {p} ELSE lan \cup {p}
    /\ UNCHANGED <<spaces, work, stores, ticket, status, horizon, conns, dialing, reach,
                   clock, writes, links, story>>

\* All there is by now is past the disable threshold.
Expire ==
    /\ Churn
    /\ horizon' = clock /\ clock' = clock + 1
    /\ UNCHANGED <<spaces, work, stores, ticket, lan, status, conns, dialing, reach,
                   writes, links, story>>

----------------------------------------------------------------------------
(* The worker.                                                             *)

\* Nothing a reconcile would change: it is left out beside dials.
Quiet ==
    \A s \in loaded, p \in Peer :
        /\ records[s][p] = IF <<s, p>> \in members THEN rows[s][p] ELSE 0
        /\ records[s][p] # 0 =>
            InStores(p, View(p)) /\ ticket[p] = IF Disabled(p) THEN 0 ELSE View(p).ticket

\* The ticker is slow: it finds the worker at rest.
ReconcileTick ==
    /\ queue = <<>> /\ round = {} /\ AtRest("worker")
    /\ story.dials => ~Quiet
    /\ queue' = Enqueue(queue, Task("tick", NoPeer, NoPeer, 0))
    /\ UNCHANGED <<spaces, records, entry, round, job, unsure, stores, ticket, lan, status,
                   horizon, conns, dialing, reach, bounds>>

\* A row of a member becomes the record, unless it is the one that is there.
ApplyRow(t) ==
    LET s == t.space
        at == IF <<s, t.peer>> \in members THEN t.at ELSE 0
    IN  IF s \notin loaded \/ (at # 0 /\ records[s][t.peer] = at)
        THEN UNCHANGED <<records, job>>
        ELSE /\ records' = [records EXCEPT ![s][t.peer] = at]
             /\ Start("worker", {t.peer})

Take ==
    /\ AtRest("worker") /\ round = {} /\ queue # <<>>
    /\ queue' = Tail(queue)
    /\ LET t == Head(queue)
       IN  \/ t.kind = "apply" /\ ApplyRow(t) /\ UNCHANGED round
           \/ t.kind = "recompute" /\ Start("worker", {t.peer}) /\ UNCHANGED <<records, round>>
           \/ t.kind = "reconcile" /\ round' = {t.space} /\ UNCHANGED <<records, job>>
           \/ t.kind = "tick" /\ round' = loaded /\ UNCHANGED <<records, job>>
    /\ UNCHANGED <<spaces, entry, unsure, stores, ticket, lan, status, horizon, conns,
                   dialing, reach, bounds>>

\* (mutant) peers that lost their record are not looked at
TouchedFresh(s, fresh) == {p \in Peer : fresh[p] # 0}

Touched(s, fresh) == {p \in Peer : records[s][p] # 0 \/ fresh[p] # 0}

\* The rows of a space's members replace what was read before.
Reconcile(s) ==
    /\ AtRest("worker") /\ s \in round
    /\ round' = round \ {s}
    /\ IF s \notin loaded THEN UNCHANGED <<records, job>>
       ELSE LET fresh == [p \in Peer |-> IF <<s, p>> \in members THEN rows[s][p] ELSE 0]
            IN  /\ records' = [records EXCEPT ![s] = fresh]
                /\ Start("worker", Touched(s, fresh))
    /\ UNCHANGED <<spaces, entry, queue, unsure, stores, ticket, lan, status, horizon, conns,
                   dialing, reach, bounds>>

----------------------------------------------------------------------------
(* The account cycle reads a record that names some of the siblings.  One  *)
(* it does not name stays while it is connected or was seen within the     *)
(* hour.                                                                   *)

AccountRecord(named, recent) ==
    /\ AtRest("account") /\ Write
    /\ named \subseteq Own /\ recent \subseteq Own \ named
    /\ \A p \in recent : entry[p] # NoEntry
    /\ \A p \in Own \ (named \cup recent) : entry[p] # NoEntry => ~Connected(p)
    /\ entry' = [p \in Peer |-> IF p \in named THEN [seen |-> clock', relay |-> clock']
                                ELSE IF p \in recent THEN entry[p] ELSE NoEntry]
    /\ Start("account", {p \in Own : entry[p] # NoEntry \/ p \in named})
    /\ UNCHANGED <<spaces, records, queue, round, unsure, stores, ticket, lan, status, horizon,
                   conns, dialing, reach, churn, links, story>>

----------------------------------------------------------------------------
(* recompute: the records and the entry of a peer are read, the newest     *)
(* decides the ticket, and the stores are written.                         *)

Gone(v) == v.spaces = {} /\ ~v.sibling

\* The other goroutines in the midst of the peer no longer have the last word.
At(p, besides) == {u \in Thread \ besides : job[u].peer = p}
Overlap(p, besides) ==
    [u \in Thread |-> IF u \in At(p, besides) THEN [job[u] EXCEPT !.alone = FALSE] ELSE job[u]]

Read(t, p) ==
    /\ job[t].pc = "idle" /\ p \in job[t].todo
    /\ job' = [Overlap(p, {t}) EXCEPT ![t] =
           [todo |-> job[t].todo \ {p}, peer |-> p, view |-> View(p),
            pc |-> IF Gone(View(p)) THEN "drop" ELSE "ticket",
            alone |-> At(p, {t}) = {}]]
    /\ UNCHANGED <<spaces, records, entry, queue, round, unsure, stores, ticket, lan, status,
                   horizon, conns, dialing, reach, bounds>>

Goes(t, pc) == job' = [job EXCEPT ![t].pc = pc]

Ends(t) ==
    /\ job' = [job EXCEPT ![t] = [NoJob EXCEPT !.todo = job[t].todo]]
    /\ unsure' = IF job[t].alone THEN unsure \ {job[t].peer} ELSE unsure \cup {job[t].peer}

\* A peer with no record and no entry leaves the store ...
WriteGone(t) ==
    /\ job[t].pc = "drop"
    /\ global' = [global EXCEPT ![job[t].peer] = {}]
    /\ account' = account \ {job[t].peer}
    /\ Goes(t, "forget")
    /\ UNCHANGED <<spaces, records, entry, queue, round, unsure, ticket, lan, status, horizon,
                   conns, dialing, reach, bounds>>

\* ... and the address book, and past the threshold the status book too.
WriteForgotten(t) ==
    LET p == job[t].peer
    IN  /\ job[t].pc = "forget"
        /\ ticket' = [ticket EXCEPT ![p] = 0]
        /\ backoff' = backoff \ {p}
        /\ IF ~Known(p) /\ p \notin lan /\ Disabled(p)
           THEN /\ lastSeen' = [lastSeen EXCEPT ![p] = 0]
                /\ failures' = [failures EXCEPT ![p] = 0]
           ELSE UNCHANGED status
        /\ Ends(t)
        /\ UNCHANGED <<spaces, records, entry, queue, round, stores, lan, horizon, conns, dial,
                       reach, bounds>>

\* Its evidence counts first: a peer it makes active again has its ticket.
WriteTicket(t) ==
    LET p == job[t].peer
    IN  /\ job[t].pc = "ticket"
        /\ Seen(p, job[t].view.seen)
        /\ ticket' = [ticket EXCEPT ![p] = IF lastSeen'[p] <= horizon THEN 0 ELSE job[t].view.ticket]
        /\ Goes(t, "store")
        /\ UNCHANGED <<spaces, records, entry, queue, round, unsure, stores, lan, horizon, conns,
                       dial, reach, bounds>>

WriteStore(t) ==
    LET p == job[t].peer
    IN  /\ job[t].pc = "store"
        /\ global' = [global EXCEPT ![p] = job[t].view.spaces]
        /\ account' = IF job[t].view.sibling THEN account \cup {p} ELSE account \ {p}
        /\ Ends(t)
        /\ UNCHANGED <<spaces, records, entry, queue, round, ticket, lan, status, horizon, conns,
                       dialing, reach, bounds>>

Recompute(t) ==
    \/ \E p \in Peer : Read(t, p)
    \/ WriteGone(t) \/ WriteForgotten(t) \/ WriteTicket(t) \/ WriteStore(t)

----------------------------------------------------------------------------
(* Peers connect to the device.                                            *)

Net == links < story.links /\ links' = links + 1

\* A peer becomes reachable, unreachable, or turns the device down.
ReachChanges(p, how) ==
    /\ Net
    /\ reach' = [reach EXCEPT ![p] = how]
    /\ UNCHANGED <<spaces, work, stores, ticket, lan, status, horizon, conns, dialing,
                   clock, writes, churn, story>>

\* The incoming filter: known peers, and unknown ones for a closer look.
AllowInbound(p) ==
    /\ Net /\ link[p] = "none"
    /\ Cardinality(live \cup pending) < MaxConnections + MaxInbound
    /\ IF Known(p) THEN ~Disabled(p) ELSE p \in Own
    /\ link' = [link EXCEPT ![p] = "knock"]
    /\ UNCHANGED <<spaces, work, stores, ticket, lan, status, horizon, live, pending, dialing,
                   reach, clock, writes, churn, story>>

\* The connector has checked, and does not look again.
Overlooks(p) ==
    dial' = IF dial.peer = p /\ dial.pc \in {"picking", "asking", "dialing"}
            THEN [dial EXCEPT !.blind = TRUE] ELSE dial

\* The handshake filter: a device of the account is remembered as a sibling,
\* whatever was known of it.
AllowHandshake(p) ==
    /\ link[p] = "knock"
    /\ clock' = clock + 1
    /\ \/ /\ p \in Own
          /\ entry' = [entry EXCEPT ![p].seen = clock']
          /\ queue' = Enqueue(queue, Task("recompute", NoPeer, p, 0))
          /\ IF queue' = queue
             THEN unsure' = unsure \cup {p} /\ job' = Overlap(p, {})
             ELSE UNCHANGED <<unsure, job>>
          /\ link' = [link EXCEPT ![p] = "admitted"] /\ pending' = pending \cup {p}
          /\ Overlooks(p)
          /\ UNCHANGED <<status, backoff>>
       \/ /\ p \notin Own /\ Known(p) /\ ~Disabled(p)
          /\ link' = [link EXCEPT ![p] = "admitted"] /\ pending' = pending \cup {p}
          /\ Overlooks(p) /\ Advance(p, clock')
          /\ UNCHANGED <<entry, queue, unsure, job>>
       \/ /\ p \notin Own /\ (~Known(p) \/ Disabled(p))
          /\ link' = [link EXCEPT ![p] = "none"]
          /\ UNCHANGED <<pending, status, backoff, dial, entry, queue, unsure, job>>
    /\ UNCHANGED <<spaces, records, round, stores, ticket, lan, horizon, live,
                   reach, writes, churn, links, story>>

\* The transport hands the connection to the pool, or loses it.
Accepted(p, ok) ==
    /\ link[p] = "admitted"
    /\ link' = [link EXCEPT ![p] = IF ok THEN "pooled" ELSE "none"]
    /\ UNCHANGED <<spaces, work, stores, ticket, lan, status, horizon, live, pending, dialing,
                   reach, bounds>>

\* The mark of an admitted peer outlasts the accept.
PendingExpires(p) ==
    /\ p \in pending /\ link[p] # "admitted"
    /\ pending' = pending \ {p}
    /\ UNCHANGED <<spaces, work, stores, ticket, lan, status, horizon, live, link, dialing,
                   reach, bounds>>

Closes(p) ==
    /\ Net /\ link[p] = "pooled"
    /\ link' = [link EXCEPT ![p] = "none"]
    /\ live' = live \ {p}
    /\ UNCHANGED <<spaces, work, stores, ticket, lan, status, horizon, pending, dialing,
                   reach, clock, writes, churn, story>>

AddLive(p) == live' = live \cup {p} /\ pending' = pending \ {p}

\* The sweep takes accepted connections over; one that is open is evidence.
Sweep(p) ==
    /\ p \in Listed /\ link[p] = "pooled"
    /\ IF p \in live THEN UNCHANGED <<live, pending>> ELSE AddLive(p)
    /\ Advance(p, clock)
    /\ UNCHANGED <<spaces, work, stores, ticket, lan, horizon, link, dial, reach, bounds>>

----------------------------------------------------------------------------
(* The connector.                                                          *)

Dialable(ps) == {p \in ps : p \notin lan /\ ticket[p] # 0}

CandidatesOf(s) == Dialable({p \in Listed : s \in global[p] \/ p \in account})

\* Per loaded space; a device whose spaces have none covers its siblings.
Candidates ==
    IF \A s \in loaded : CandidatesOf(s) = {}
    THEN {[of |-> NoPeer, peers |-> Dialable(account \cap Listed)]}
    ELSE {[of |-> s, peers |-> CandidatesOf(s)] : s \in loaded}

\* Those that cover something and whose dial is due.
Free(c, open) == {p \in UNION {x.peers : x \in c} \ backoff : \E x \in open : p \in x.peers}

\* The first dial of the greedy cover: what is connected is counted first,
\* then come the peers that cover most of the rest, own devices before
\* others, the most recently seen before the rest.
Targets ==
    LET c    == Candidates
        open == {x \in c : x.peers # {} /\ \A p \in x.peers : ~Connected(p)}
        free == Free(c, open)
        Cov(p) == Cardinality({x \in open : p \in x.peers})
        Better(p, q) ==
            \/ Cov(p) > Cov(q)
            \/ Cov(p) = Cov(q) /\ p \in Own /\ q \notin Own
            \/ Cov(p) = Cov(q) /\ (p \in Own <=> q \in Own) /\ lastSeen[p] > lastSeen[q]
    IN  IF Cardinality({p \in UNION {x.peers : x \in c} : Connected(p)}) >= MaxConnections
        THEN {} ELSE {p \in free : \A q \in free : ~Better(q, p)}

Plan ==
    /\ story.dials /\ dial.pc = "idle"
    /\ \E p \in Targets : dial' = DialOf("planned", p, FALSE)
    /\ UNCHANGED <<spaces, work, stores, ticket, lan, status, horizon, conns, backoff, reach,
                   bounds>>

\* The plan may be stale: the peer has connected.
CheckDial ==
    /\ dial.pc = "planned"
    /\ dial' = IF Connected(dial.peer) THEN NoDial ELSE [dial EXCEPT !.pc = "picking"]
    /\ UNCHANGED <<spaces, work, stores, ticket, lan, status, horizon, conns, backoff, reach,
                   bounds>>

\* (mutant) the pool is not asked
PickUnasked ==
    /\ dial.pc = "picking"
    /\ dial' = [dial EXCEPT !.pc = "asking"]
    /\ UNCHANGED <<spaces, work, stores, ticket, lan, status, horizon, conns, backoff, reach,
                   bounds>>

\* The pool may hold a connection the layer has not heard of.  It is asked
\* for a while; one that does not answer is taken for having none.
PickLive ==
    LET p == dial.peer
    IN  /\ dial.pc = "picking"
        /\ \/ link[p] = "pooled" /\ AddLive(p) /\ dial' = NoDial
           \/ /\ dial' = DialOf("asking", p, dial.blind \/ link[p] = "pooled")
              /\ UNCHANGED <<live, pending>>
        /\ UNCHANGED <<spaces, work, stores, ticket, lan, status, horizon, backoff, link, reach,
                       bounds>>

\* The peer has lost its ticket or come to the local network, or is dialed.
StartDial ==
    LET p == dial.peer
    IN  /\ dial.pc = "asking"
        /\ IF Dialable({p}) = {}
           THEN backoff' = backoff \cup {p} /\ dial' = NoDial
           ELSE dial' = [dial EXCEPT !.pc = "dialing"] /\ UNCHANGED backoff
        /\ UNCHANGED <<spaces, work, stores, ticket, lan, status, horizon, conns, reach, bounds>>

\* A dial that crosses an accepted connection replaces it, or ends both.
DialAnswered ==
    LET p == dial.peer
    IN  /\ dial.pc = "dialing" /\ reach[p] # "down"
        /\ \/ /\ link' = [link EXCEPT ![p] = "pooled"] /\ AddLive(p)
              /\ dial' = DialOf("window", p, FALSE)
           \/ /\ link[p] \in {"admitted", "pooled"}
              /\ link' = [link EXCEPT ![p] = "none"]
              /\ live' = live \ {p} /\ pending' = pending \ {p}
              /\ dial' = DialOf("window", p, FALSE)
        /\ UNCHANGED <<spaces, work, stores, ticket, lan, status, horizon, backoff, reach, bounds>>

Attempt(p) ==
    /\ failures' = [failures EXCEPT ![p] = Min({@ + 1, MaxFailures})]
    /\ dial' = DialOf("backoff", p, FALSE)

DialFails ==
    /\ dial.pc = "dialing" /\ reach[dial.peer] = "down"
    /\ Attempt(dial.peer)
    /\ UNCHANGED <<spaces, work, stores, ticket, lan, lastSeen, horizon, conns, backoff, reach,
                   bounds>>

\* (mutant) the dial has succeeded
WindowIgnored ==
    /\ dial.pc = "window"
    /\ link' = [link EXCEPT ![dial.peer] = IF reach[dial.peer] = "refuses" THEN "none" ELSE @]
    /\ live' = IF reach[dial.peer] = "refuses" THEN live \ {dial.peer} ELSE live
    /\ dial' = NoDial
    /\ UNCHANGED <<spaces, work, stores, ticket, lan, status, horizon, pending, backoff, reach,
                   bounds>>

\* A peer that turns the device down closes at once, which is a failed dial.
WindowEnds ==
    LET p == dial.peer
        stays == reach[p] # "refuses" /\ link[p] = "pooled"
    IN  /\ dial.pc = "window"
        /\ IF stays
           THEN /\ Advance(p, clock) /\ dial' = NoDial
                /\ UNCHANGED <<live, link>>
           ELSE /\ link' = [link EXCEPT ![p] = IF @ = "pooled" THEN "none" ELSE @]
                /\ live' = live \ {p}
                /\ Attempt(p)
                /\ UNCHANGED <<lastSeen, backoff>>
        /\ UNCHANGED <<spaces, work, stores, ticket, lan, horizon, pending, reach, bounds>>

\* Whatever evidence has come since the failure was counted.
BackOff ==
    /\ dial.pc = "backoff"
    /\ backoff' = backoff \cup {dial.peer} /\ dial' = NoDial
    /\ UNCHANGED <<spaces, work, stores, ticket, lan, status, horizon, conns, reach, bounds>>

\* A backoff outlasts the next plan at least, and it doubles with every
\* failure until it outlasts all other dials.
Due(p) ==
    /\ p \in backoff
    /\ \/ dial.pc = "idle" /\ Targets = {}
       \/ dial.pc # "idle" /\ failures[p] < MaxFailures
    /\ backoff' = backoff \ {p}
    /\ UNCHANGED <<spaces, work, stores, ticket, lan, status, horizon, conns, dial, reach, bounds>>

----------------------------------------------------------------------------
PeersInit ==
    /\ story \in Stories
    /\ rows = story.rows /\ members = Space \X Peer /\ loaded = story.loaded
    /\ records = [s \in Space |-> [p \in Peer |-> 0]]
    /\ entry = [p \in Peer |-> NoEntry]
    /\ queue = SetToSeq({Task("reconcile", s, NoPeer, 0) : s \in loaded})
    /\ round = {} /\ job = [t \in Thread |-> NoJob]
    /\ global = [p \in Peer |-> {}] /\ account = {}
    /\ ticket = [p \in Peer |-> 0] /\ lan = {}
    /\ lastSeen = [p \in Peer |-> 0] /\ failures = [p \in Peer |-> 0] /\ horizon = 0
    /\ backoff = {} /\ dial = NoDial
    /\ live = {} /\ pending = {} /\ link = [p \in Peer |-> "none"]
    /\ reach = [p \in Peer |-> "up"]
    /\ clock = 1 /\ writes = 0 /\ churn = 0 /\ links = 0
    /\ unsure = {}

Working == Take \/ \E s \in Space : Reconcile(s)
Connect == CheckDial \/ PickLive \/ StartDial \/ DialAnswered \/ DialFails \/ WindowEnds \/ BackOff
Housekeeping(p) == Accepted(p, TRUE) \/ PendingExpires(p)

PeersNext ==
    \/ \E s \in Space, p \in story.peers : RowArrives(s, p) \/ MemberChanges(s, p)
    \/ \E s \in Space : SpaceLoaded(s) \/ SpaceUnloaded(s)
    \/ Expire \/ ReconcileTick \/ Working
    \/ \E named, recent \in SUBSET (Own \cap story.peers) : AccountRecord(named, recent)
    \/ \E t \in Thread : Recompute(t)
    \/ \E p \in story.peers :
        \/ LanChanges(p) \/ \E how \in {"up", "down", "refuses"} : ReachChanges(p, how)
        \/ AllowInbound(p) \/ AllowHandshake(p) \/ Accepted(p, FALSE) \/ Housekeeping(p)
        \/ Closes(p) \/ Sweep(p) \/ Due(p)
    \/ Plan \/ Connect

PeersSpec == PeersInit /\ [][PeersNext]_peersVars

(***************************************************************************)
(* The goroutines go on, the tickers tick, a dial is answered or times     *)
(* out, and a backoff is a date that comes.  Rows, spaces, siblings and    *)
(* what happens on the network owe nothing.                                *)
(***************************************************************************)
PeersFairSpec ==
    /\ PeersSpec
    /\ WF_peersVars(ReconcileTick) /\ WF_peersVars(Working)
    /\ \A t \in Thread : WF_peersVars(Recompute(t))
    /\ \A p \in Peer : WF_peersVars(Housekeeping(p)) /\ WF_peersVars(Sweep(p)) /\ SF_peersVars(Due(p))
    /\ WF_peersVars(Plan) /\ WF_peersVars(Connect)

----------------------------------------------------------------------------
(* Properties.                                                             *)

Time == 0..clock

PeersTypeOK ==
    /\ story \in Stories /\ clock \in Nat /\ writes \in 0..story.writes /\ churn \in 0..story.churn /\ links \in 0..story.links
    /\ rows \in [Space -> [Peer -> Time]] /\ records \in [Space -> [Peer -> Time]]
    /\ members \subseteq Space \X Peer /\ loaded \subseteq Space /\ round \subseteq Space
    /\ entry \in [Peer -> [seen : Time, relay : Time]]
    /\ Len(queue) <= QueueSize
    /\ \A t \in Thread : job[t].pc \in {"idle", "drop", "forget", "ticket", "store"}
    /\ global \in [Peer -> SUBSET Space] /\ account \subseteq Own
    /\ ticket \in [Peer -> Time] /\ lan \subseteq Peer
    /\ lastSeen \in [Peer -> Time] /\ failures \in [Peer -> 0..MaxFailures] /\ horizon \in Time
    /\ backoff \subseteq Peer /\ live \subseteq Peer /\ pending \subseteq Peer
    /\ dial.pc \in {"idle", "planned", "picking", "asking", "dialing", "window", "backoff"}
    /\ link \in [Peer -> {"none", "knock", "admitted", "pooled"}]
    \* A connection the layer holds is open.
    /\ \A p \in live : link[p] = "pooled"

\* Nothing is on its way that would look at the peer.
Settled(p) ==
    /\ \A t \in Thread : job[t].peer # p /\ p \notin job[t].todo
    /\ \A i \in DOMAIN queue : queue[i].kind = "recompute" => queue[i].peer # p

\* The stores follow the records.  Once nothing is on its way for a peer, the
\* peer store and the address book say what the rows of the loaded spaces and
\* the account record say, newest first: who lost the last row is gone, who
\* was disabled is offered again with the row that revives it.  Peers of whom
\* two goroutines' recomputes overlapped, or whose recompute was dropped, are
\* set apart.
StoresAreTrue == PeersTypeOK /\ \A p \in Peer \ unsure : Settled(p) => Agrees(p, View(p))

\* The connector does not dial back a peer that was connected when it looked:
\* while a dial is on its way, an accepted connection of the peer, with the
\* transport, in the pool or in the layer, has come after the check, or the
\* pool was asked for it in vain (connector.go, dial: "dialing back would
\* replace the accepted connection and kill both").
DialsNoneBack ==
    dial.pc \in {"asking", "dialing"} /\ link[dial.peer] \in {"admitted", "pooled"} => dial.blind

\* In the end every member's row of a loaded space is in the stores, with the
\* ticket the records give it: whatever tasks were dropped, rows applied out
\* of order or recomputes overlapped.
Wanted == [s \in Space |-> [p \in Peer |-> IF <<s, p>> \in members THEN rows[s][p] ELSE 0]]
RowsAreReached ==
    \A s \in loaded, p \in Peer : Wanted[s][p] # 0 =>
        s \in global[p] /\ (ticket[p] = Fold(Wanted, p).ticket \/ Disabled(p))

\* In the end a loaded space with a candidate that answers has one connected,
\* unless as many are as the connector keeps: peers that are dead, or turn
\* the device down, do not keep it from the others.
SpacesAreCovered ==
    story.dials => \A s \in loaded :
        LET c == CandidatesOf(s)
        IN  (\E p \in c : reach[p] = "up") =>
               \/ \E p \in c : Connected(p)
               \/ Cardinality({p \in Listed : Connected(p)}) >= MaxConnections

PeersSettle == <>[](RowsAreReached /\ SpacesAreCovered)

\* No dial starts while an accepted connection of the peer is there.  A peer
\* that connects between the check and the dial is dialed back.
DialsCrossNone ==
    [][dial'.pc = "dialing" /\ dial.pc # "dialing"
          => link[dial'.peer] \in {"none", "knock"}]_peersVars

\* A peer with no row and no entry leaves the stores (global.go, SpaceUnloaded:
\* "peers known only through it disappear"), however recomputes overlap.
GonePeersGo ==
    \A p \in Peer : Settled(p) /\ Gone(View(p)) => ~Known(p) /\ ticket[p] = 0

\* "The newest of the two decides the ticket" (global.go, recompute).
NewestDecides ==
    \A p \in Peer \ unsure : Settled(p) /\ ~Disabled(p) =>
        ticket[p] = Max({entry[p].relay} \cup {records[s][p] : s \in loaded})

\* "reactivate clears a peer's backoff after fresh liveness evidence"
\* (connector.go): a peer in backoff has not been heard of since its dial.
EvidenceReactivates == \A p \in backoff : failures[p] > 0 \/ ticket[p] = 0 \/ p \in lan
=============================================================================
