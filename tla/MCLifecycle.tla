---------------------------- MODULE MCLifecycle ----------------------------
(* Small instances of Lifecycle for TLC. *)
EXTENDS Lifecycle, TLC

CONSTANTS c1, c2, l1, l2, l3, start, stop, mount, second

TwoCallers == {c1, c2}
ThreeListeners == {l1, l2, l3}
FourHooks == {start, stop, mount, second}

(* A start and a stop hook and two mount hooks, which are alike. *)
Kinds == [h \in FourHooks |->
            IF h = start THEN "start" ELSE IF h = stop THEN "stop" ELSE "mount"]

Symmetry == Permutations(Caller) \union Permutations(Listener) \union Permutations({mount, second})
=============================================================================
