---------------------------- MODULE MCGlobalPeers ----------------------------
(***************************************************************************)
(* Instances of GlobalPeers: one device of the account, one other peer and *)
(* two spaces.  Either the records of the device change, or both peers     *)
(* have their rows and are dialed.                                         *)
(***************************************************************************)
EXTENDS GlobalPeers

CONSTANTS s1, s2, own, other

NoRows  == [s \in {s1, s2} |-> [p \in {own, other} |-> 0]]
AllRows == [s \in {s1, s2} |-> [p \in {own, other} |-> 1]]

\* Rows and entries are written while spaces, members and what is on the
\* local network change.
Rows == [writes |-> 2, churn |-> 2, links |-> 0, dials |-> FALSE, rows |-> NoRows,
         loaded |-> {s1}, peers |-> {own}]

\* The device knocks while they do, ...
Knocks == [Rows EXCEPT !.writes = 1, !.links = 1]

\* ... and finds the queue full.
FullQueue == [Rows EXCEPT !.churn = 0, !.links = 1]

\* The peers are dialed, while they connect, close, fail and refuse, ...
Dials == [writes |-> 0, churn |-> 0, links |-> 2, dials |-> TRUE, rows |-> AllRows,
          loaded |-> {s1, s2}, peers |-> {own, other}]

\* ... or while a space, a member, the local network or the threshold moves.
StaleDials == [Dials EXCEPT !.links = 0, !.churn = 1]

\* A peer of another account knocks in the meantime.
Stranger == [Dials EXCEPT !.links = 1, !.churn = 1, !.loaded = {s1}, !.peers = {other}]

Courses == {Rows, Knocks, FullQueue, Dials, StaleDials, Stranger}
=============================================================================
