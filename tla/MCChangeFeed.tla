--------------------------- MODULE MCChangeFeed ---------------------------
(***************************************************************************)
(* An instance of ChangeFeed: two goroutines, two objects.                 *)
(***************************************************************************)
EXTENDS ChangeFeed
=============================================================================
