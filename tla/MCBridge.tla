------------------------------ MODULE MCBridge ------------------------------
(* Small instances of Bridge for TLC. *)
EXTENDS Bridge, TLC

CONSTANTS m1, m2, row, order, list, first, second, a, b

TwoFields == {first, second}
TwoVals == {a, b}
AllProjections == {m1, m2, row, order, list}
TwoMaps == {m1, m2}
OneList == {list}

(* Two projections of a map, of which JS sets one; a row and the order of a *)
(* collection and a callback on its list.                                   *)
Views == [p \in AllProjections |-> CASE p = row -> {first}
                                     [] p = order -> {second}
                                     [] OTHER -> TwoFields]
OneMap == {m1}

BothKinds == {"map", "collection"}
OnlyMap == {"map"}

Symmetry == Permutations(Val)
=============================================================================
