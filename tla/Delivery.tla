------------------------------ MODULE Delivery ------------------------------
(***************************************************************************)
(* What a store promises about the delivery of its notifications, without  *)
(* threads, locks, a queue or a drain flag: the comment on StoreInner      *)
(* (store.rs:116-120) and the README's "concurrency guarantees".  Writes   *)
(* carry a sequence number and are announced in any order, each at most    *)
(* once; an announced write is either delivered, and then it is newer than *)
(* every earlier delivery, or superseded by a newer one; and every         *)
(* announced write comes to one of the two ends.                           *)
(***************************************************************************)
EXTENDS Naturals

CONSTANT MaxWrites

VARIABLES
    told,       \* the writes announced so far
    pending,    \* those neither delivered nor superseded yet
    last        \* the newest write delivered, 0 when there is none

vars == <<told, pending, last>>

Write == 1..MaxWrites

Init == told = {} /\ pending = {} /\ last = 0

Announce(s) ==
    /\ s \notin told
    /\ told' = told \union {s}
    /\ pending' = pending \union {s}
    /\ UNCHANGED last

Deliver(s) ==
    /\ s \in pending
    /\ s > last
    /\ last' = s
    /\ pending' = pending \ {s}
    /\ UNCHANGED told

Supersede(s) ==
    /\ s \in pending
    /\ s < last
    /\ pending' = pending \ {s}
    /\ UNCHANGED <<told, last>>

Settle == \E s \in Write : Deliver(s) \/ Supersede(s)

Next == (\E s \in Write : Announce(s)) \/ Settle

Spec == Init /\ [][Next]_vars
FairSpec == Spec /\ WF_vars(Settle)
=============================================================================
