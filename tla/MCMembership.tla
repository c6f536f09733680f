---------------------------- MODULE MCMembership ----------------------------
(***************************************************************************)
(* Instances of Membership: two devices of an account, and the course of a *)
(* join, of an invite or of both.                                          *)
(***************************************************************************)
EXTENDS Membership

CONSTANTS d1, d2

\* One device asks to join and the other sees it in the space list.
Joining == [callers |-> {d1}, chain |-> 2, messages |-> 0, calls |-> 2]

\* An invite that either device may answer, and its redelivery.
Invited == [callers |-> {d1, d2}, chain |-> 1, messages |-> 1, calls |-> 1]

\* An invite answered more than once.
Twice == [callers |-> {d1, d2}, chain |-> 1, messages |-> 1, calls |-> 2]

JoinOrInvite == {Joining, Invited}
OnlyInvited  == {Invited}
OnlyTwice    == {Twice}
=============================================================================
