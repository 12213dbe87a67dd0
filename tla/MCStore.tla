------------------------------ MODULE MCStore ------------------------------
(* Small instances of Store for TLC. *)
EXTENDS Store, TLC

CONSTANTS t1, t2, whole, onOrder, order, row, v1, v2

OneThread == {t1}
TwoThreads == {t1, t2}
TwoValues == {v1, v2}
WholeListener == {whole}
TwoListeners == {whole, onOrder}
TwoKeys == {order, row}

(* A listener of the whole store and the order listener of a collection. *)
Filters(L) == [l \in L |-> IF l = onOrder THEN {order} ELSE Unfiltered]
WholeFilter == Filters(WholeListener)
TwoFilters == Filters(TwoListeners)

AnyWrite == {Everyone}

(* The scopes of a collection's writes: an update of a row, its insertion   *)
(* or removal.                                                              *)
InsertAndUpdate == {{row}, {row, order}}

(* A hook that may leave the value, replace it by v1, or abort. *)
AnyOutcome == [v \in Value |-> {v, v1, Aborted}]
NoOutcome == [v \in Value |-> {v}]

NoHooks == {}
NotifyHookOnly == {"notify"}
SetHookOnly == {"set"}

Quiet == {}
SubscribersCall == {"set_hooks", "first_call"}
NotifyHooksCall == {"notify_hooks"}

Commits == {"commit"}
SubscribesAlone == {"commit", "mutate", "listen", "subscribe", "remove"}
Listens == {"commit", "mutate", "listen", "remove"}
InPlace == {"mutate", "listen", "remove"}

ThreadSymmetry == Permutations(Thread)
=============================================================================
