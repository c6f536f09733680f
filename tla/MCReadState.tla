---------------------------- MODULE MCReadState ----------------------------
(***************************************************************************)
(* An instance of ReadState: a root, a message, this account's untracked   *)
(* change after it, and two concurrent ones that follow that: a message,   *)
(* and the first message's deletion.                                       *)
(***************************************************************************)
EXTENDS ReadState

Messages == 0..4
Follows == [c \in Messages |-> CASE c = 0 -> {} [] c = 1 -> {0} [] c = 2 -> {1} [] OTHER -> {2}]
Deletes == [c \in Messages |-> IF c = 4 THEN {1} ELSE {}]
=============================================================================
