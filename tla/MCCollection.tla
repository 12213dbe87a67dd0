---------------------------- MODULE MCCollection ----------------------------
(* Small instances of Collection for TLC. *)
EXTENDS Collection, TLC

CONSTANTS t1, t2, k1, k2, a, b

TwoThreads == {t1, t2}
TwoKeys == {k1, k2}
TwoItems == {a, b}

(* To each thread its own row. *)
Apart == [t \in TwoThreads |-> IF t = t1 THEN {k1} ELSE {k2}]

BothKinds == {"collection", "map"}

(* A full value and one with a single row. *)
TwoContents == {[items |-> [k \in TwoKeys |-> a], order |-> <<k2, k1>>],
                [items |-> [k \in TwoKeys |-> IF k = k1 THEN b ELSE Missing],
                 order |-> <<k1>>]}
=============================================================================
