----------------------------- MODULE Membership -----------------------------
(***************************************************************************)
(* One shared space as the devices of one account see it: its row in the   *)
(* synced space list (internal/techspace), the calls that request, accept, *)
(* refuse and delete it (internal/spaceimpl), the controller that watches  *)
(* a pending join and resumes an interrupted load, and the worker that     *)
(* reads the account's inbox of invites (internal/inbox).                  *)
(*                                                                         *)
(* Three chronologies meet here and none is a clock for the others: the    *)
(* ACL chain of the space, which the nodes serve with a lag; the change    *)
(* tree of the space list, whose concurrent changes are ordered only once  *)
(* they meet; and what each device keeps for itself (a loading marker, the *)
(* chain head of a request, the space's storage).                          *)
(*                                                                         *)
(* A regular space: one-to-one and guest rows have markers of their own.   *)
(***************************************************************************)
EXTENDS Integers, Sequences, FiniteSetsExt

CONSTANTS
    Device,       \* the devices of the account
    Nodes,        \* the replica of the space list on the nodes
    Stories,      \* bound: the courses of events looked at, each of them the
                  \*   devices whose users make calls, the ACL records, the
                  \*   invites sent, the calls made
    MaxRestarts   \* bound: restarts of devices

ASSUME MembershipAssumption ==
    /\ IsFiniteSet(Device) /\ Nodes \notin Device /\ MaxRestarts \in Nat
    /\ \A s \in Stories :
          /\ s.callers \subseteq Device
          /\ s.chain \in Nat /\ s.messages \in Nat /\ s.calls \in Nat

VARIABLES
    story,     \* the one that is told
    chain,     \* the ACL records about this account
    served,    \* how many of them the nodes serve
    tip,       \* a replica's latest status change: what it says and its place
    cursor,    \* a replica's latest cursor change
    del,       \* the place of a replica's latest deletion, 0 when none
    dead,      \* the device's row has read deleted
    marker,    \* the device-local status
    head,      \* the chain head stored for the request, 0 when none
    storage,   \* whether the device holds the space
    waiter,    \* the ACL waiter of a device
    load,      \* its background load
    call,      \* the call in progress
    pass,      \* the inbox worker: the last message read, -1 when idle
    latched,   \* the replay guard has passed once in this process
    sent,      \* invites in the inbox
    calls, restarts,
    consent    \* some device asked to join or accepted an invite

acl    == <<chain, served>>
tree   == <<tip, cursor, del, dead>>
disk   == <<marker, head, storage>>
inbox  == <<pass, latched, sent>>
user   == <<calls, consent>>
limits == <<story, restarts>>
vars   == <<acl, tree, disk, waiter, load, call, inbox, user, limits>>

Replica == Device \cup {Nodes}
Place   == 0..(3 * Cardinality(Replica))
Status  == {"none", "joining", "ended", "pending", "declined", "active", "deleted"}
Event   == {"request", "accept", "decline", "cancel", "add", "remove"}

NoRow    == [status |-> "none", at |-> 0]
NoCursor == [offset |-> 0, at |-> 0]
NoWaiter == [st |-> "none", head |-> 0]
NoCall   == [op |-> "none", head |-> 0]

Top(S) == Max(S \cup {0})

(***************************************************************************)
(* The ACL: what the first n records say of this account.                  *)
(***************************************************************************)
LastOf(n, S) == Top({i \in 1..n : chain[i] \in S})

Member(n)  == LastOf(n, {"accept", "add"}) > LastOf(n, {"remove"})
Pending(n) == LastOf(n, {"request"})
                > LastOf(n, {"accept", "decline", "cancel", "add"})

Granted   == Member(served)
Requested == Pending(served)
Current   == served = Len(chain)

Post(e) == /\ Len(chain) < story.chain
           /\ chain' = Append(chain, e)

(***************************************************************************)
(* The tree.  Every device replays the changes it holds in the same order, *)
(* in which a change follows all that its writer had seen and may come out *)
(* on either side of the rest.  A field keeps its latest change, so that   *)
(* one, its place in the order, and the places of deletions are all that   *)
(* is kept of a replica's changes; places are renumbered as they fall out  *)
(* of use.                                                                 *)
(***************************************************************************)
Settle(t, c, e) ==
    LET used  == {t[x].at : x \in Replica} \cup {c[x].at : x \in Replica}
                   \cup {e[x] : x \in Replica}
        At(p) == Cardinality({q \in used : 0 < q /\ q <= p})
    IN  /\ tip'    = [x \in Replica |-> [t[x] EXCEPT !.at = At(@)]]
        /\ cursor' = [x \in Replica |-> [c[x] EXCEPT !.at = At(@)]]
        /\ del'    = [x \in Replica |-> At(e[x])]

\* The places, spread to make room for one more between any two.
Spread(f) == [x \in Replica |-> [f[x] EXCEPT !.at = 2 * @]]
SpreadDel == [x \in Replica |-> 2 * del[x]]

Places(d) ==
    LET own == Max({tip[d].at, cursor[d].at})
    IN  {2 * p + 1 : p \in {q \in {own} \cup {tip[x].at : x \in Replica}
                                \cup {cursor[x].at : x \in Replica}
                                \cup {del[x] : x \in Replica} : q >= own}}

\* A deletion is final where it has been applied: the write is in the tree
\* all the same.
SetRemote(d, status) ==
    /\ \E p \in Places(d) :
          Settle([Spread(tip) EXCEPT ![d] = [status |-> status, at |-> p]],
                 Spread(cursor),
                 [SpreadDel EXCEPT ![d] = IF status = "deleted" THEN p ELSE @])
    /\ dead' = [dead EXCEPT ![d] = @ \/ status = "deleted"]

SetInboxCursor(d, offset) ==
    /\ \E p \in Places(d) :
          Settle(Spread(tip),
                 [Spread(cursor) EXCEPT ![d] = [offset |-> offset, at |-> p]],
                 SpreadDel)
    /\ UNCHANGED dead

Later(a, b) == IF a.at >= b.at THEN a ELSE b

\* A round with the nodes: both hold all the changes of either.
HeadSync(d) ==
    LET both == {d, Nodes}
    IN  /\ Settle([x \in Replica |-> IF x \in both THEN Later(tip[d], tip[Nodes])
                                     ELSE tip[x]],
                  [x \in Replica |-> IF x \in both
                                     THEN Later(cursor[d], cursor[Nodes])
                                     ELSE cursor[x]],
                  [x \in Replica |-> IF x \in both THEN Max({del[d], del[Nodes]})
                                     ELSE del[x]])
        /\ dead' = [dead EXCEPT ![d] = @ \/ del[Nodes] > tip[d].at]

\* What the device's row reads.
RowStatus(d) == IF dead[d] THEN "deleted" ELSE tip[d].status

(***************************************************************************)
(* The row's status decides what a device may do with the space.           *)
(***************************************************************************)
IsDeleted(s)        == s \in {"ended", "deleted"}
\* (mutant) an invite nobody answered is a space like any other
BlockPendingNot(s)  == s \in {"joining", "declined"}
MaterializeBlock(s) == s \in {"joining", "pending", "declined"}

Pullable(d) == storage[d] \/ Granted

StartLoad(d, kind) == load' = [load EXCEPT ![d] = IF @ = "none" THEN kind ELSE @]
EndLoad(d)         == load' = [load EXCEPT ![d] = "none"]
Then(d, op, h)     == call' = [call EXCEPT ![d] = [op |-> op, head |-> h]]
Return(d)          == call' = [call EXCEPT ![d] = NoCall]

\* Closing a waiter waits for its callback.
StopWaiter(d) == /\ waiter[d].st # "reject"
                 /\ waiter' = [waiter EXCEPT ![d] = NoWaiter]

Asks(d) == /\ call[d] = NoCall
           /\ d \in story.callers /\ calls < story.calls
           /\ calls' = calls + 1

Init ==
    /\ story \in Stories
    /\ chain = <<>> /\ served = 0
    /\ tip = [x \in Replica |-> NoRow]
    /\ cursor = [x \in Replica |-> NoCursor]
    /\ del = [x \in Replica |-> 0]
    /\ dead = [d \in Device |-> FALSE]
    /\ marker = [d \in Device |-> ""]
    /\ head = [d \in Device |-> 0]
    /\ storage = [d \in Device |-> FALSE]
    /\ waiter = [d \in Device |-> NoWaiter]
    /\ load = [d \in Device |-> "none"]
    /\ call = [d \in Device |-> NoCall]
    /\ pass = [d \in Device |-> -1]
    /\ latched = [d \in Device |-> FALSE]
    /\ sent = 0 /\ calls = 0 /\ restarts = 0
    /\ consent = FALSE

(***************************************************************************)
(* The other side: the owner of the space, the nodes, the sender's outbox, *)
(* which sends an invite after the record is on the chain, and again when  *)
(* its confirmation was lost.                                              *)
(***************************************************************************)
Owner ==
    /\ \/ Pending(Len(chain)) /\ (Post("accept") \/ Post("decline"))
       \/ ~Member(Len(chain)) /\ Post("add")
       \/ Member(Len(chain)) /\ Post("remove")
    /\ UNCHANGED <<served, tree, disk, waiter, load, call, inbox, user, limits>>

Serve ==
    /\ ~Current
    /\ served' = Len(chain)
    /\ UNCHANGED <<chain, tree, disk, waiter, load, call, inbox, user, limits>>

SendInvite ==
    /\ LastOf(Len(chain), {"add"}) > 0 /\ sent < story.messages
    /\ sent' = sent + 1
    /\ UNCHANGED <<acl, tree, disk, waiter, load, call, pass, latched, user, limits>>

\* A round with the nodes, in both directions.
Sync(d) ==
    /\ HeadSync(d)
    /\ UNCHANGED <<acl, disk, waiter, load, call, inbox, user, limits>>

(***************************************************************************)
(* Join: the request goes to the chain, then the row reads joining, then   *)
(* the head of the request is stored.  A crash may fall after each.        *)
(***************************************************************************)
JoinPost(d) ==
    /\ Asks(d)
    /\ RowStatus(d) # "deleted"
    /\ Current
    /\ IF Granted
       THEN \* Refused by the record builder: the account is a member.
            /\ RowStatus(d) \notin {"none", "active"}
            /\ StopWaiter(d) /\ StartLoad(d, "join")
            /\ UNCHANGED <<chain, call>>
       ELSE IF Requested
       THEN \* Nothing posted: any head will do unless one is stored.
            /\ Then(d, "joinWrite", IF head[d] = 0 THEN Len(chain) ELSE 0)
            /\ UNCHANGED <<chain, waiter, load>>
       ELSE /\ Post("request")
            /\ Then(d, "joinWrite", Len(chain) + 1)
            /\ UNCHANGED <<waiter, load>>
    /\ consent' = TRUE
    /\ UNCHANGED <<served, tree, disk, inbox, limits>>

JoinWrite(d) ==
    /\ call[d].op = "joinWrite"
    /\ SetRemote(d, "joining")
    /\ Then(d, "joinHead", call[d].head)
    /\ UNCHANGED <<acl, disk, waiter, load, inbox, user, limits>>

JoinHead(d) ==
    /\ call[d].op = "joinHead"
    /\ head' = [head EXCEPT ![d] = IF call[d].head = 0 THEN @ ELSE call[d].head]
    /\ StopWaiter(d)
    /\ Return(d)
    /\ UNCHANGED <<acl, tree, marker, storage, load, inbox, user, limits>>

(***************************************************************************)
(* CancelJoin: what the nodes serve decides whether there is something to  *)
(* withdraw, the account is a member by now, or nothing is left.           *)
(***************************************************************************)
CancelPost(d) ==
    /\ Asks(d)
    /\ RowStatus(d) = "joining"
    /\ IF Requested
       THEN /\ Current /\ Post("cancel")
            /\ Then(d, "cancelMark", 0)
            /\ UNCHANGED <<waiter, load>>
       ELSE IF Granted
       THEN /\ StopWaiter(d) /\ StartLoad(d, "join")
            /\ UNCHANGED <<chain, call>>
       ELSE /\ Then(d, "cancelMark", 0)
            /\ UNCHANGED <<chain, waiter, load>>
    /\ UNCHANGED <<served, tree, disk, inbox, consent, limits>>

MarkJoinEnded(d) ==
    /\ SetRemote(d, "ended")
    /\ head' = [head EXCEPT ![d] = 0]

CancelMark(d) ==
    /\ call[d].op = "cancelMark"
    /\ MarkJoinEnded(d)
    /\ StopWaiter(d)
    /\ Return(d)
    /\ UNCHANGED <<acl, marker, storage, load, inbox, user, limits>>

(***************************************************************************)
(* Delete.  A pending join is withdrawn instead, unless the account is a   *)
(* member by now: then its load is started and the row deleted as well.    *)
(***************************************************************************)
DeleteMark(d) ==
    /\ Asks(d)
    /\ RowStatus(d) \notin {"none", "deleted"}
    /\ IF RowStatus(d) = "joining"
       THEN Granted /\ StopWaiter(d) /\ StartLoad(d, "join")
       ELSE UNCHANGED <<waiter, load>>
    /\ SetRemote(d, "deleted")
    /\ Then(d, "offload", 0)
    /\ UNCHANGED <<acl, disk, inbox, consent, limits>>

Offload(d) ==
    /\ call[d].op = "offload"
    /\ storage' = [storage EXCEPT ![d] = FALSE]
    /\ Return(d)
    /\ UNCHANGED <<acl, tree, marker, head, waiter, load, inbox, user, limits>>

(***************************************************************************)
(* AcceptInvite: the marker first, then the synced status, then one try to *)
(* load; the controller finishes what is left.  DeclineInvite is one write.*)
(***************************************************************************)
AcceptMark(d) ==
    /\ Asks(d)
    /\ RowStatus(d) \in {"pending", "declined", "active"}
    /\ marker' = [marker EXCEPT ![d] = IF @ = "active" THEN @ ELSE "loading"]
    /\ Then(d, IF RowStatus(d) = "active" THEN "acceptGet" ELSE "acceptFlip", 0)
    /\ consent' = TRUE
    /\ UNCHANGED <<acl, tree, head, storage, waiter, load, inbox, limits>>

AcceptFlip(d) ==
    /\ call[d].op = "acceptFlip"
    /\ SetRemote(d, "active")
    /\ Then(d, "acceptGet", 0)
    /\ UNCHANGED <<acl, disk, waiter, load, inbox, user, limits>>

AcceptGet(d) ==
    /\ call[d].op = "acceptGet"
    /\ IF RowStatus(d) = "active" /\ Pullable(d)
       THEN /\ storage' = [storage EXCEPT ![d] = TRUE]
            /\ marker' = [marker EXCEPT ![d] = "active"]
       ELSE UNCHANGED <<storage, marker>>
    /\ Return(d)
    /\ UNCHANGED <<acl, tree, head, waiter, load, inbox, user, limits>>

DeclineInvite(d) ==
    /\ Asks(d)
    /\ RowStatus(d) = "pending"
    /\ SetRemote(d, "declined")
    /\ UNCHANGED <<acl, disk, waiter, load, call, inbox, consent, limits>>

\* Get, by a caller or by the follower of the space list.
Get(d) ==
    /\ RowStatus(d) # "none"
    /\ ~IsDeleted(RowStatus(d)) /\ ~MaterializeBlock(RowStatus(d))
    /\ ~storage[d] /\ Granted
    /\ storage' = [storage EXCEPT ![d] = TRUE]
    /\ UNCHANGED <<acl, tree, marker, head, waiter, load, call, inbox, user, limits>>

(***************************************************************************)
(* The ACL waiter: what it reads and what it does about it are two steps.  *)
(***************************************************************************)
Poll(d) ==
    /\ waiter[d].st = "poll"
    /\ \/ /\ Granted
          /\ waiter' = [waiter EXCEPT ![d].st = "done"]
          /\ StartLoad(d, "join")
       \/ /\ ~Granted /\ ~Requested
          /\ waiter[d].head \in 1..served
          /\ waiter' = [waiter EXCEPT ![d].st = "reject"]
          /\ UNCHANGED load
    /\ UNCHANGED <<acl, tree, disk, call, inbox, user, limits>>

Reject(d) ==
    /\ waiter[d].st = "reject"
    /\ MarkJoinEnded(d)
    /\ waiter' = [waiter EXCEPT ![d].st = "done"]
    /\ UNCHANGED <<acl, marker, storage, load, call, inbox, user, limits>>

(***************************************************************************)
(* The controller's pass: full at boot and on every tick, short on a kick. *)
(* Without a stored head it reads one from the chain; when the chain       *)
(* cannot be read the waiter has none and sees an acceptance only.         *)
(***************************************************************************)
Watch(d, h) == waiter' = [waiter EXCEPT ![d] = [st |-> "poll", head |-> h]]

Resolve(d) ==
    \/ /\ Granted
       /\ waiter' = [waiter EXCEPT ![d] = NoWaiter]
       /\ StartLoad(d, "join")
       /\ UNCHANGED head
    \/ /\ ~Granted /\ Requested
       /\ head' = [head EXCEPT ![d] = served]
       /\ Watch(d, served)
       /\ UNCHANGED load

\* (mutant) only the device that made the request watches it
PassRequester(d, full, online) ==
    /\ RowStatus(d) = "joining"
    /\ waiter[d] = NoWaiter /\ head[d] # 0 /\ Watch(d, head[d])
    /\ UNCHANGED <<acl, tree, disk, load, call, inbox, user, limits>>
PassJoining(d, full, online) ==
    /\ RowStatus(d) = "joining"
    /\ \/ /\ waiter[d] = NoWaiter
          /\ \/ head[d] # 0 /\ Watch(d, head[d]) /\ UNCHANGED <<head, load>>
             \/ head[d] = 0 /\ online /\ Resolve(d)
             \/ head[d] = 0 /\ ~online /\ Watch(d, 0) /\ UNCHANGED <<head, load>>
       \/ \* A waiter without a head is given one when there is one.
          /\ waiter[d] # NoWaiter /\ waiter[d].head = 0 /\ full
          /\ \/ head[d] = 0 /\ online /\ Resolve(d)
             \/ head[d] # 0 /\ Watch(d, head[d]) /\ UNCHANGED <<head, load>>
    /\ UNCHANGED <<acl, tree, marker, storage, call, inbox, user, limits>>

PassOther(d, full, online) ==
    /\ RowStatus(d) \notin {"none", "joining"}
    /\ StopWaiter(d)
    /\ head' = [head EXCEPT ![d] = 0]
    /\ LET probe == /\ full /\ online /\ RowStatus(d) = "ended"
                    /\ storage[d] /\ Granted
       IN  IF probe THEN StartLoad(d, "join")
           ELSE IF marker[d] = "loading" THEN StartLoad(d, "invite")
           ELSE UNCHANGED load
    /\ UNCHANGED <<acl, tree, marker, storage, call, inbox, user, limits>>

Pass(d, full, online) == PassJoining(d, full, online) \/ PassOther(d, full, online)

(***************************************************************************)
(* The loads.  A granted join loads the space, then flips the row; an      *)
(* accepted invite reads the row again before every attempt.               *)
(***************************************************************************)
LoadJoined(d) ==
    /\ load[d] = "join" /\ Pullable(d)
    /\ storage' = [storage EXCEPT ![d] = TRUE]
    /\ load' = [load EXCEPT ![d] = "flip"]
    /\ UNCHANGED <<acl, tree, marker, head, waiter, call, inbox, user, limits>>

FlipJoinActive(d) ==
    IF RowStatus(d) \in {"none", "deleted"}
    THEN UNCHANGED <<tree, marker, head>>
    ELSE /\ IF RowStatus(d) = "active" THEN UNCHANGED tree
            ELSE SetRemote(d, "active")
         /\ marker' = [marker EXCEPT ![d] = "active"]
         /\ head' = [head EXCEPT ![d] = 0]

JoinLoaded(d) ==
    /\ load[d] = "flip"
    /\ FlipJoinActive(d)
    /\ EndLoad(d)
    /\ UNCHANGED <<acl, storage, waiter, call, inbox, user, limits>>

\* A loaded space whose members are watched repairs its row.
HealJoin(d) ==
    /\ storage[d] /\ Granted
    /\ RowStatus(d) \in {"joining", "ended"}
    /\ FlipJoinActive(d)
    /\ UNCHANGED <<acl, storage, waiter, load, call, inbox, user, limits>>

\* What the row says decides whether a marked space is loaded.
CheckInvite(d) ==
    /\ load[d] = "invite"
    /\ \/ /\ RowStatus(d) \in {"none", "ended", "deleted"}
          /\ EndLoad(d) /\ UNCHANGED <<tree, marker>>
       \/ /\ RowStatus(d) = "declined"
          /\ marker' = [marker EXCEPT ![d] = ""]
          /\ EndLoad(d) /\ UNCHANGED tree
       \/ /\ RowStatus(d) \in {"pending", "active", "joining"}
          /\ IF RowStatus(d) = "pending" THEN SetRemote(d, "active")
             ELSE UNCHANGED tree
          /\ load' = [load EXCEPT ![d] = "pull"]
          /\ UNCHANGED marker
    /\ UNCHANGED <<acl, head, storage, waiter, call, inbox, user, limits>>

LoadInvite(d) ==
    /\ load[d] = "pull"
    /\ \/ /\ Pullable(d)
          /\ storage' = [storage EXCEPT ![d] = TRUE]
          /\ marker' = [marker EXCEPT ![d] = "active"]
          /\ EndLoad(d)
       \/ /\ ~Pullable(d)
          /\ load' = [load EXCEPT ![d] = "invite"]
          /\ UNCHANGED <<storage, marker>>
    /\ UNCHANGED <<acl, tree, head, waiter, call, inbox, user, limits>>

(***************************************************************************)
(* The inbox worker.  Its position is read once, before the guard.         *)
(***************************************************************************)
StartPass(d) ==
    /\ pass[d] = -1 /\ cursor[d].offset < sent
    /\ \/ /\ cursor[d].offset > 0 \/ latched[d]
          /\ UNCHANGED <<tree, latched>>
       \/ \* An empty cursor has to pass the guard: a round that finds the
          \* tree as the nodes have it.
          /\ cursor[d].offset = 0 /\ ~latched[d]
          /\ HeadSync(d)
          /\ latched' = [latched EXCEPT ![d] = TRUE]
    /\ pass' = [pass EXCEPT ![d] = cursor[d].offset]
    /\ UNCHANGED <<acl, disk, waiter, load, call, sent, user, limits>>

RegisterInvite(d) ==
    IF RowStatus(d) \in {"none", "ended"} THEN SetRemote(d, "pending")
    ELSE UNCHANGED tree

HandleInvite(d) ==
    /\ pass[d] \in 0..(sent - 1)
    /\ RegisterInvite(d)
    /\ pass' = [pass EXCEPT ![d] = @ + 1]
    /\ UNCHANGED <<acl, disk, waiter, load, call, latched, sent, user, limits>>

\* (mutant) the whole batch is acknowledged when a message of it failed
SaveBatch(d) ==
    /\ pass[d] # -1 /\ sent > cursor[d].offset
    /\ SetInboxCursor(d, sent)
    /\ pass' = [pass EXCEPT ![d] = -1]
    /\ UNCHANGED <<acl, disk, waiter, load, call, latched, sent, user, limits>>

\* At the end of a batch, or of what was handled before a failure.
SaveCursor(d) ==
    /\ pass[d] # -1
    /\ \/ /\ pass[d] > cursor[d].offset
          /\ SetInboxCursor(d, pass[d])
       \/ /\ pass[d] <= cursor[d].offset /\ pass[d] = sent
          /\ UNCHANGED tree
    /\ pass' = [pass EXCEPT ![d] = -1]
    /\ UNCHANGED <<acl, disk, waiter, load, call, latched, sent, user, limits>>

(***************************************************************************)
(* A restart: memory is lost, and the boot pass reclaims what a deletion   *)
(* left behind.                                                            *)
(***************************************************************************)
Restart(d) ==
    /\ restarts < MaxRestarts
    /\ restarts' = restarts + 1
    /\ waiter' = [waiter EXCEPT ![d] = NoWaiter]
    /\ load' = [load EXCEPT ![d] = "none"]
    /\ call' = [call EXCEPT ![d] = NoCall]
    /\ pass' = [pass EXCEPT ![d] = -1]
    /\ latched' = [latched EXCEPT ![d] = FALSE]
    /\ storage' = [storage EXCEPT ![d] = @ /\ RowStatus(d) # "deleted"]
    /\ UNCHANGED <<story, acl, tree, marker, head, sent, user>>

Calls(d) ==
    \/ JoinPost(d) \/ CancelPost(d) \/ DeleteMark(d)
    \/ AcceptMark(d) \/ DeclineInvite(d)
Continue(d) ==
    \/ JoinWrite(d) \/ JoinHead(d) \/ CancelMark(d) \/ Offload(d)
    \/ AcceptFlip(d) \/ AcceptGet(d)
Waiter(d)     == Poll(d) \/ Reject(d)
Loader(d)     == LoadJoined(d) \/ JoinLoaded(d) \/ CheckInvite(d) \/ LoadInvite(d)
Notifier(d)   == StartPass(d) \/ HandleInvite(d) \/ SaveCursor(d)
Controller(d) == \E full, online \in BOOLEAN : Pass(d, full, online)

Next ==
    \/ Owner \/ Serve \/ SendInvite
    \/ \E d \in Device :
        \/ Calls(d) \/ Continue(d) \/ Waiter(d) \/ Loader(d) \/ Notifier(d)
        \/ Controller(d) \/ Sync(d) \/ Get(d) \/ HealJoin(d) \/ Restart(d)

Spec == Init /\ [][Next]_vars

(***************************************************************************)
(* What runs goes on: a call returns, the waiter polls, a load retries, and*)
(* one tick of the controller in a while finds the network up.  Users,     *)
(* owners, kicks, the inbox and the rounds of the space list owe nothing.  *)
(***************************************************************************)
FairSpec ==
    /\ Spec
    /\ \A d \in Device :
        /\ WF_vars(Continue(d) \/ Waiter(d)) /\ WF_vars(Loader(d))
        /\ WF_vars(Pass(d, TRUE, TRUE))

(***************************************************************************)
(* Properties.                                                             *)
(***************************************************************************)
TypeOK ==
    /\ story \in Stories
    /\ chain \in Seq(Event) /\ Len(chain) <= story.chain
    /\ served \in 0..Len(chain)
    /\ tip \in [Replica -> [status : Status, at : Place]]
    /\ cursor \in [Replica -> [offset : 0..story.messages, at : Place]]
    /\ del \in [Replica -> Place]
    /\ dead \in [Device -> BOOLEAN]
    /\ marker \in [Device -> {"", "loading", "active"}]
    /\ head \in [Device -> 0..Len(chain)]
    /\ storage \in [Device -> BOOLEAN]
    /\ waiter \in [Device -> [st : {"none", "poll", "reject", "done"},
                              head : 0..story.chain]]
    /\ load \in [Device -> {"none", "join", "flip", "invite", "pull"}]
    /\ call \in [Device -> [op : {"none", "joinWrite", "joinHead", "cancelMark",
                                  "offload", "acceptFlip", "acceptGet"},
                            head : 0..story.chain]]
    /\ pass \in [Device -> -1..story.messages]
    /\ latched \in [Device -> BOOLEAN]
    /\ sent \in 0..story.messages
    /\ calls \in 0..story.calls /\ restarts \in 0..MaxRestarts
    /\ consent \in BOOLEAN

\* Nothing is downloaded until the account asks: no device holds the space
\* unless some device requested to join or accepted an invite, whatever
\* rows, markers and redelivered invites the others see.  The types come with it.
ConsentFirst == TypeOK /\ \A d \in Device : storage[d] => consent

\* An invite below the cursor has left its mark: a device that sees the
\* account's cursor past an invite sees a row for the space as well, so no
\* device is needed to read that invite again.
NoInviteSkipped == \A d \in Device : cursor[d].offset > 0 => RowStatus(d) # "none"

\* A pass reads on from the account's position: a device that has just taken
\* the cursor over from the others does not read the whole inbox again.
FreshDeviceSeeds ==
    [][\A d \in Device :
         pass[d] = -1 /\ pass'[d] # -1 => pass'[d] = cursor'[d].offset]_vars

\* What the account was granted or accepted gets done.  A device whose row
\* reads joining while the nodes serve a chain that grants membership gets
\* the space, whether the request came from there or not; and once an accept
\* has left its loading marker the row stops being pending and the space is
\* loaded.  Crashes between the writes, lost heads and waiters that had none
\* delay either, none of them for good.
GrantIsOwed(d)  == RowStatus(d) = "joining" /\ Granted /\ ~storage[d]
AcceptIsOwed(d) == marker[d] = "loading" /\ Granted /\ ~IsDeleted(RowStatus(d))

MembershipSettles == []<>(\A d \in Device : ~GrantIsOwed(d) /\ ~AcceptIsOwed(d))

\* Devices that hold the same changes read the same status.
RowsAgree ==
    \A d, e \in Device :
        tip[d] = tip[e] /\ del[d] = del[e] => RowStatus(d) = RowStatus(e)
=============================================================================
