----------------------------- MODULE MCComputed -----------------------------
(* Small instances of Computed for TLC. *)
EXTENDS Computed, TLC

CONSTANTS t1, t2, s1, s2, c1, c2, c3, c4

OneThread == {t1}
TwoThreads == {t1, t2}
OneSource == {s1}
TwoSources == {s1, s2}
TwoStores == {c1, c2}
ThreeStores == {c1, c2, c3}
FourStores == {c1, c2, c3, c4}
AllStores == Node
None == {}
LastTwo == {c2, c3}
LastOne == {c4}

(* tests/core.rs:271: c1 and c2 from the source, c3 from both. *)
Diamond == c1 :> <<s1>> @@ c2 :> <<s1>> @@ c3 :> <<c1, c2>>
DiamondAndOne == Diamond @@ c4 :> <<c3>>
ChainAndOne == c1 :> <<s1>> @@ c2 :> <<c1>> @@ c3 :> <<s2>>
Chain == c1 :> <<s1>> @@ c2 :> <<c1>>

AllCalls == {"set", "watch", "unwatch", "get", "flush"}
WatchAndSet == {"set", "watch", "unwatch"}

ThreadSymmetry == Permutations(Thread)
=============================================================================
