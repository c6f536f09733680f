--------------------------- MODULE MCAccountRecord ---------------------------
(***************************************************************************)
(* Instances of AccountRecord: two devices of one release, or one of them  *)
(* of a newer one; in MCAccountRecordApart the clock of d1 is more than    *)
(* MaxAge ahead of the other's.                                            *)
(***************************************************************************)
EXTENDS AccountRecord

CONSTANTS d1, d2

Same  == {[d \in {d1, d2} |-> 1]}
Mixed == {[d \in {d1, d2} |-> IF d = d1 THEN 1 ELSE 2]}
Both  == Same \cup Mixed
Apart == {<<d1, d2>>}
=============================================================================
