----------------------------- MODULE MCTreeSync -----------------------------
(***************************************************************************)
(* Instances of TreeSync: a type and an object of it, which the registry   *)
(* names first, with one peer.                                                   *)
(***************************************************************************)
EXTENDS TreeSync

CONSTANTS type, object, p1

\* One peer holds the object alone at first and gets the type later.
OneHolds == [p \in {p1} |-> {object}]
=============================================================================
