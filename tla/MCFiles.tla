------------------------------ MODULE MCFiles ------------------------------
(***************************************************************************)
(* Two calls of Attach and one fault: the second call binds to the file    *)
(* that the first one left.  One CAR is built, or stays behind unnamed.    *)
(***************************************************************************)
EXTENDS Files
=============================================================================
