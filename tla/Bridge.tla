------------------------------- MODULE Bridge -------------------------------
(***************************************************************************)
(* One store seen from JavaScript: the handle the bridge exports           *)
(* (nanostores-wasm, lib.rs) and the projections over it (index.ts).  A    *)
(* map has projections of the whole; an atom is a map that is only set     *)
(* whole, a readable store one that JS does not set.  A collection has     *)
(* projections of a row or of the order, which are fields here, and plain  *)
(* callbacks on the list.                                                  *)
(*                                                                         *)
(* All runs on the one thread of the page.  What makes it hard is that     *)
(* every callback may call back: `stack` holds the JS callbacks under way, *)
(* each called while the one below it waits, and the one loop that drains  *)
(* the store's queue calls its own from the height `base`.                 *)
(***************************************************************************)
EXTENDS Integers, Sequences, FiniteSets, Functions

CONSTANTS
    Field,      \* the fields of the map; the rows and the order of the collection
    Val,        \* what a field may hold
    Projection, \* what JS holds of the store: each has a handle of its own
    View,       \* per projection, the field or fields it shows
    Kinds,      \* what the store is: a subset of {"map", "collection"}
    Maps,       \* projections of the map
    Writable,   \* those of them JS may set
    Lists,      \* plain callbacks on the collection
    Stray,      \* whether a set hook changes fields other than the written one
    Reentrant,  \* whether a list callback writes when it is first called
    MaxWrites,  \* bound: the number of writes
    MaxMounts   \* bound: how often projections are mounted

None == "none"

ASSUME FieldAssumption == IsFiniteSet(Field) /\ Cardinality(Field) > 1
ASSUME ViewAssumption == /\ View \in [Projection -> SUBSET Field]
                         /\ \A p \in Maps \union Lists : View[p] = Field
ASSUME MapsAssumption == /\ Writable \subseteq Maps /\ Maps \subseteq Projection
                         /\ Lists \subseteq Projection /\ Maps \intersect Lists = {}
ASSUME KindsAssumption == Kinds \subseteq {"map", "collection"}
ASSUME HabitAssumption == {Stray, Reentrant} \subseteq BOOLEAN
ASSUME BoundAssumption == {MaxWrites, MaxMounts} \subseteq Nat /\ None \notin Projection

VARIABLES
    kind,       \* "map" or "collection"
    value,      \* the value of the Rust store
    queue,      \* its notifications, with the fields they are announced under
    draining,   \* the loop that delivers them runs
    item,       \* the one it delivers
    todo,       \* whom it has still to call
    base,       \* the callbacks that waited when the loop began
    stack,      \* the JS callbacks under way, innermost last
    after,      \* the projection whose set waits for the loop, or None
    mounted,    \* the projections with a subscription
    shown,      \* what each projection holds
    echo,       \* per handle, the object JS last set, by what it parsed to
    writes, mounts,     \* how many there were: the bounds
    owed,       \* history: per projection, the changes it has not been told yet
    behind      \* history: the projections the store left behind while unmounted

loop == <<draining, item, todo, base>>
vars == <<kind, value, queue, loop, stack, after, mounted, shown, echo, writes,
          mounts, owed, behind>>

Content == [Field -> Val]
Part(p, v) == Restrict(v, View[p])
Note == [value : Content, keys : SUBSET Field]
NoEcho == [f \in {} |-> None]
Nothing == [value |-> NoEcho, keys |-> {}]

Present == IF kind = "map" THEN Maps ELSE Projection \ Maps

(* projectMap and the like: each projection starts with a read.            *)
Init ==
    /\ kind \in Kinds
    /\ \E x \in Val : value = [f \in Field |-> x]
    /\ queue = <<>>
    /\ draining = FALSE /\ item = Nothing /\ todo = {} /\ base = 0
    /\ stack = <<>> /\ after = None
    /\ mounted = {}
    /\ shown = [p \in Projection |-> Part(p, value)]
    /\ echo = [p \in Maps |-> NoEcho]
    /\ writes = 0 /\ mounts = 0
    /\ owed = [p \in Projection |-> 0]
    /\ behind = {}

-----------------------------------------------------------------------------
(* Operators named "...Mutant" are faults a run must find, not the code.   *)

(* JS runs at the top level and in callbacks, not between the loop's calls. *)
JsRuns == draining => Len(stack) > base
InFirstCall == stack # <<>> /\ ~draining    \* a list callback that subscribes
MayWrite == JsRuns /\ writes < MaxWrites /\ (Reentrant \/ ~InFirstCall)

(* Map projections listen to the store, those of a row or the order to a   *)
(* key.                                                                    *)
Hears(p, keys) == View[p] \intersect keys # {}

(* What a write announces: a map all its fields or one, a collection a     *)
(* row, its order, or both.                                                *)
Scopes == IF kind = "map" THEN {Field} \union {{f} : f \in Field} ELSE SUBSET Field \ {{}}
Changes(keys) == {v \in Content : \A f \in Field \ keys : v[f] = value[f]}

(* What the set hooks leave of it: they may alter it, or refuse it, which  *)
(* leaves the old value.                                                   *)
Passed(v, keys) ==
    {value} \union {w \in Content : \A f \in Field \ keys : Stray \/ w[f] = v[f]}

(* Fault: every write runs a loop of its own. *)
CommitMutant(w, keys) ==
    /\ value' = w
    /\ writes' = writes + 1
    /\ IF w = value THEN UNCHANGED <<queue, draining, base, owed>>
       ELSE /\ queue' = Append(queue, [value |-> w, keys |-> keys])
            /\ draining' = TRUE
            /\ base' = Len(stack)
            /\ owed' = [p \in Projection |->
                          owed[p] + IF p \in mounted /\ Hears(p, keys) THEN 1 ELSE 0]

(* commit, notify_listeners: a write from a callback leaves its            *)
(* notification to the loop that called it, any other starts the loop.     *)
Commit(w, keys) ==
    /\ value' = w
    /\ writes' = writes + 1
    /\ IF w = value THEN UNCHANGED <<queue, draining, base, owed>>
       ELSE /\ queue' = Append(queue, [value |-> w, keys |-> keys])
            /\ draining' = TRUE
            /\ base' = IF draining THEN base ELSE Len(stack)
            /\ owed' = [p \in Projection |->
                          owed[p] + IF p \in mounted /\ Hears(p, keys) THEN 1 ELSE 0]

LeftBehind(w) == IF w = value THEN behind ELSE behind \union (Projection \ mounted)

(* Rust code writes, called from JS.                                       *)
RustWrite ==
    /\ MayWrite
    /\ \E keys \in Scopes : \E v \in Changes(keys) : \E w \in Passed(v, keys) :
         Commit(w, keys) /\ behind' = LeftBehind(w)
    /\ UNCHANGED <<kind, item, todo, stack, after, mounted, shown, echo, mounts>>

(* A handle remembers the object of a whole set before it tries it.        *)
Remember(p, keys, v) == IF keys = Field THEN [echo EXCEPT ![p] = v] ELSE echo

(* `if (!mounted) apply(handle.get())`: what is shown after a set.         *)
ReadBack(p, v) == IF p \in mounted THEN shown ELSE [shown EXCEPT ![p] = Part(p, v)]

(* set and setKey of a projection go to its handle.  When that returns the *)
(* projection may read the store; before that the loop runs, if this set   *)
(* starts it.  A value that does not parse is an error on the console and  *)
(* changes nothing.                                                        *)
Set(p, keys) ==
    /\ MayWrite
    /\ p \in Writable \intersect Present
    /\ \E v \in Changes(keys) : \E w \in Passed(v, keys) :
         /\ Commit(w, keys)
         /\ echo' = Remember(p, keys, v)
         /\ IF draining' = draining
            THEN /\ shown' = ReadBack(p, w)
                 /\ behind' = LeftBehind(w) \ {p}
                 /\ UNCHANGED after
            ELSE after' = p /\ behind' = LeftBehind(w) /\ UNCHANGED shown
    /\ UNCHANGED <<kind, item, todo, stack, mounted, mounts>>

-----------------------------------------------------------------------------
(* The loop takes a notification and those who are subscribed then.        *)
Pop ==
    /\ draining /\ Len(stack) = base
    /\ todo = {} /\ queue # <<>>
    /\ item' = Head(queue)
    /\ queue' = Tail(queue)
    /\ todo' = {p \in mounted : Hears(p, Head(queue).keys)}
    /\ UNCHANGED <<kind, value, draining, base, stack, after, mounted, shown, echo,
                   writes, mounts, owed, behind>>

(* Fault: the remembered object is reused unseen. *)
ReceivedMutant(p) == IF p \in Maps /\ item.keys = Field /\ echo[p] # NoEcho THEN echo[p] ELSE item.value

(* take_echo: what a notification carries is serialized, or is the object  *)
(* of the last whole set through this handle if that parsed to the same.   *)
Received(p) ==
    IF p \in Maps /\ item.keys = Field /\ echo[p] = item.value THEN echo[p] ELSE item.value

(* Fault: what a notification carries is taken over whole, whatever the    *)
(* projection shows.                                                       *)
AppliedMutant(p) ==
    IF p \in Maps /\ item.keys # Field
    THEN [f \in Field |-> IF f \in item.keys THEN Received(p)[f] ELSE shown[p][f]]
    ELSE Received(p)

(* A map takes over the one field a notification names, everything else    *)
(* the whole it shows.                                                     *)
Applied(p) ==
    IF p \in Maps /\ item.keys # Field
    THEN [f \in Field |-> IF f \in item.keys THEN Received(p)[f] ELSE shown[p][f]]
    ELSE Part(p, Received(p))

(* The callback runs with its lock held.                                   *)
Call(p) ==
    /\ draining /\ Len(stack) = base
    /\ p \in todo
    /\ todo' = todo \ {p}
    /\ stack' = Append(stack, p)
    /\ shown' = [shown EXCEPT ![p] = Applied(p)]
    /\ owed' = [owed EXCEPT ![p] = @ - 1]
    /\ UNCHANGED <<kind, value, queue, draining, item, base, after, mounted, echo,
                   writes, mounts, behind>>

Return ==
    /\ stack # <<>> /\ JsRuns
    /\ stack' = SubSeq(stack, 1, Len(stack) - 1)
    /\ UNCHANGED <<kind, value, queue, loop, after, mounted, shown, echo, writes,
                   mounts, owed, behind>>

(* Fault: a set reads the store back although its projection is mounted. *)
DrainedMutant ==
    /\ draining /\ Len(stack) = base
    /\ todo = {} /\ queue = <<>>
    /\ draining' = FALSE /\ item' = Nothing /\ base' = 0
    /\ after' = None
    /\ shown' = IF after = None THEN shown ELSE [shown EXCEPT ![after] = Part(after, value)]
    /\ owed' = IF after \in mounted THEN [owed EXCEPT ![after] = @ - 1] ELSE owed
    /\ behind' = behind \ {after}
    /\ UNCHANGED <<kind, value, queue, todo, stack, mounted, echo, writes, mounts>>

(* The loop ends, and with it the handle's set.                            *)
Drained ==
    /\ draining /\ Len(stack) = base
    /\ todo = {} /\ queue = <<>>
    /\ draining' = FALSE /\ item' = Nothing /\ base' = 0
    /\ after' = None
    /\ shown' = IF after = None THEN shown ELSE ReadBack(after, value)
    /\ behind' = behind \ {after}
    /\ UNCHANGED <<kind, value, queue, todo, stack, mounted, echo, writes, mounts, owed>>

-----------------------------------------------------------------------------
(* The first JS listener comes: the projection subscribes and reads the    *)
(* store.  A list is subscribed and called at once, with its lock held; it *)
(* has another lock each time, so one that is still called under its old   *)
(* lock would be another member of Lists.                                  *)
Mount(p) ==
    /\ JsRuns /\ mounts < MaxMounts
    /\ p \in Present \ (mounted \union todo \union Range(stack))
    /\ mounts' = mounts + 1
    /\ mounted' = mounted \union {p}
    /\ shown' = [shown EXCEPT ![p] = Part(p, value)]
    /\ behind' = behind \ {p}
    /\ owed' = [owed EXCEPT ![p] = Cardinality({i \in DOMAIN queue : Hears(p, queue[i].keys)})]
    /\ stack' = IF p \in Lists THEN Append(stack, p) ELSE stack
    /\ UNCHANGED <<kind, value, queue, loop, after, echo, writes>>

(* Subscribing gives its handle back after the first call; the calls of    *)
(* the loop are those just above `base`.                                   *)
FirstCall(p) == \E i \in DOMAIN stack : stack[i] = p /\ ~(draining /\ i = base + 1)

(* nanostores tells a projection from a timer that the last listener has   *)
(* left.  A list is unsubscribed by its handle, from any JS that has it,   *)
(* its own callback or one that the loop calls before it, too.             *)
Unmount(p) ==
    /\ p \in mounted
    /\ IF p \in Lists THEN JsRuns /\ ~FirstCall(p) ELSE ~draining /\ stack = <<>>
    /\ mounted' = mounted \ {p}
    /\ UNCHANGED <<kind, value, queue, loop, stack, after, shown, echo, writes, mounts,
                   owed, behind>>

AtRest == ~draining /\ stack = <<>>
Rest == AtRest /\ UNCHANGED vars

Next ==
    \/ RustWrite
    \/ \E p \in Projection : \E keys \in Scopes : Set(p, keys)
    \/ Pop \/ Return \/ Drained
    \/ \E p \in Projection : Call(p) \/ Mount(p) \/ Unmount(p)
    \/ Rest

Spec == Init /\ [][Next]_vars

-----------------------------------------------------------------------------
TypeOK ==
    /\ kind \in Kinds
    /\ value \in Content
    /\ queue \in Seq(Note)
    /\ draining \in BOOLEAN
    /\ item \in Note \union {Nothing}
    /\ mounted \subseteq Present /\ todo \subseteq Present
    /\ base \in 0..Len(stack) /\ stack \in Seq(Present)
    /\ after \in Writable \union {None}
    /\ shown \in [Projection -> UNION {[View[p] -> Val] : p \in Projection}]
    /\ \A p \in Projection : DOMAIN shown[p] = View[p]
    /\ echo \in [Maps -> Content \union {NoEcho}]
    /\ writes \in 0..MaxWrites /\ mounts \in 0..MaxMounts
    /\ owed \in [Projection -> Int]
    /\ behind \subseteq Projection

(* README.md:9, 62-71: when no call is under way, a projection shows the   *)
(* store, whoever wrote, whatever a hook made of it and however callbacks  *)
(* wrote and mounted meanwhile: if it is mounted, and else if the store    *)
(* has not changed since it was last written through or mounted.           *)
Mirrors ==
    AtRest => \A p \in Present : p \in mounted \/ p \notin behind \union Lists =>
                shown[p] = Part(p, value)

(* README.md:45-47 "no echo loop and no double-fire": when no call is      *)
(* under way, each change since it was mounted reached a projection once.  *)
AppliedOnce == AtRest => \A p \in mounted : owed[p] = 0

(* lib.rs:604-606, README.md:148: a callback is never entered while it is  *)
(* under way, which its lock would not survive.                            *)
NoReentrantCallback == IsInjective(stack)
=============================================================================
