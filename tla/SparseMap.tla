----------------------------- MODULE SparseMap -----------------------------
(***************************************************************************)
(* What a LigHT table promises (ligHT.h): a partial map from keys to data, *)
(* of at most Room keys.  An operation under NoKey is told that the key is *)
(* there as long as there is room, and leaves the map as it is.  last is   *)
(* the operation just done, with its arguments and its answer.             *)
(***************************************************************************)
EXTENDS FiniteSets, Naturals

CONSTANTS Keys, NoKey, Data, None, Room

VARIABLES map, last

vars == <<map, last>>

Init == map = [k \in {} |-> None] /\ last = <<"init">>

Fits(k, replace) ==
  IF k \in DOMAIN map THEN replace ELSE Cardinality(DOMAIN map) < Room

Put(k, v, replace) ==
  /\ map' = IF Fits(k, replace)
            THEN [l \in DOMAIN map \cup {k} |-> IF l = k THEN v ELSE map[l]]
            ELSE map
  /\ last' = <<"put", k, v, Fits(k, replace)>>

Contains(k) ==
  /\ last' = <<"contains", k, k \in DOMAIN map>>
  /\ UNCHANGED map

Get(k) ==
  /\ last' = <<"get", k, IF k \in DOMAIN map THEN map[k] ELSE None>>
  /\ UNCHANGED map

Remove(k) ==
  /\ map' = [l \in DOMAIN map \ {k} |-> map[l]]
  /\ last' = <<"remove", k, k \in DOMAIN map>>

HasRoom == Cardinality(DOMAIN map) < Room

UnderNoKey ==
  /\ \/ \E v \in Data, replace \in BOOLEAN : last' = <<"put", NoKey, v, replace /\ HasRoom>>
     \/ \E v \in Data : last' = <<"get", NoKey, v>>
     \/ \E op \in {"contains", "remove"} : last' = <<op, NoKey, HasRoom>>
  /\ UNCHANGED map

Next ==
  \/ UnderNoKey
  \/ \E k \in Keys :
       \/ \E v \in Data, replace \in BOOLEAN : Put(k, v, replace)
       \/ Contains(k) \/ Get(k) \/ Remove(k)

Spec == Init /\ [][Next]_vars
=============================================================================
