--------------------------- MODULE MCObjectApply ---------------------------
(***************************************************************************)
(* Instances of ObjectApply: a record's create, a strict modify of it and  *)
(* a counter increment, in mixes that meet every branch of the gate.       *)
(***************************************************************************)
EXTENDS ObjectApply

CONSTANTS create, modify, inc, d1

\* One record of the runtime dataset.  Two synced changes wait for its
\* schema, one of them for a definition too; this device increments on top.
MixChange == {create, modify, inc}
MixDef == {d1}
MixKind == [c \in MixChange |-> CASE c = create -> "create" [] c = modify -> "modify"
                                  [] c = inc -> "inc"]
MixNeeds == [c \in MixChange |-> IF c = modify THEN {d1} ELSE {}]
MixRuntime == MixChange
MixLocal == {inc}
MixPast == [c \in MixChange |-> CASE c = create -> {} [] c = modify -> {create}
                                  [] c = inc -> {create, modify}]

\* Two changes of the runtime dataset, the second written on this device.
PairChange == {create, modify}
PairDef == {d1}
PairKind == [c \in PairChange |-> IF c = create THEN "create" ELSE "modify"]
PairNeeds == [c \in PairChange |-> {d1}]
PairRuntime == PairChange
PairLocal == {modify}
PairPast == [c \in PairChange |-> IF c = create THEN {} ELSE {create}]

\* A record of a compiled-in dataset whose changes name one definition, all
\* of them synced.
SyncedChange == MixChange
SyncedDef == MixDef
SyncedKind == MixKind
SyncedNeeds == [c \in MixChange |-> {d1}]
SyncedRuntime == {}
SyncedLocal == {}
SyncedPast == [c \in MixChange |-> IF c = create THEN {} ELSE {create}]
============================================================================
