------------------------------ MODULE Computed ------------------------------
(***************************************************************************)
(* Computed and batched stores (crates/nanostores/src/computed.rs) and the *)
(* scheduler's job queue (scheduler.rs): a graph of stores, the recomputes *)
(* each thread defers while it notifies, and mounting and unmounting.      *)
(*                                                                         *)
(* Calls nest: a set notifies listeners, a recompute sets another store, a *)
(* mount listens to stores that mount in turn.  Each thread therefore has  *)
(* a stack of frames, its top first.  The drain of one store is Store's,   *)
(* with the steps its proofs show to be safe taken at once: an enqueue     *)
(* claims the drain, and a drainer that finds the queue empty lets go.     *)
(***************************************************************************)
EXTENDS Integers, Sequences, FiniteSets

CONSTANTS
    Thread,     \* the threads that use the stores
    Source,     \* atoms, maps, collections
    Derived,    \* computed and batched stores
    Deps,       \* per derived store, the stores it is computed from, in order
    Batched,    \* the derived stores that go through the scheduler
    InPlace,    \* the sources written in place, without a second store
    Immediate,  \* the default scheduler; otherwise the program calls flush
    Watched,    \* the stores the program attaches listeners to
    Operation,  \* the calls the program makes
    Nested,     \* whether the program's listeners make calls, too
    Exclusive,  \* whether it attaches and detaches listeners only while no
                \* other thread is inside a call
    MaxSets,    \* bound: the sets the program makes
    MaxWatches  \* bound: the listeners it attaches

Node == Source \union Derived
User == "User"  \* the owner of a listener that is not a derived store

ASSUME GraphAssumption ==
    /\ Source # {}
    /\ Source \cap Derived = {}
    /\ Deps \in [Derived -> Seq(Node)]
    /\ \A c \in Derived : Deps[c] # <<>>
    /\ Batched \subseteq Derived
    /\ InPlace \subseteq Source
    /\ Watched \subseteq Node
    /\ User \notin Node
ASSUME ModeAssumption ==
    Immediate \in BOOLEAN /\ Nested \in BOOLEAN /\ Exclusive \in BOOLEAN
ASSUME LimitAssumption == MaxSets \in Nat /\ MaxWatches \in Nat

VARIABLES
    val,            \* per store, its value
    write_seq, delivered_seq, queue, draining,  \* per store, as in Store
    listeners,      \* per store, its listeners: ids in order of registration
    next_id,        \* per store
    dep_subs,       \* dep_subscriptions: <<>> or one id per dependency
    pending,        \* the pending flag of a derived store
    deferred,       \* DEFERRED_RECOMPUTES, per thread
    jobs,           \* QUEUE
    job_lock,       \* the thread that holds QUEUE's lock while a job runs
    stack,          \* per thread, the calls it is in
    held,           \* the subscriptions the program holds: store and id
    sets, watches   \* for the bounds

drains == <<write_seq, delivered_seq, queue, draining>>
tables == <<listeners, next_id, dep_subs>>
recomputes == <<pending, deferred, jobs, job_lock>>
program == <<held, sets, watches>>
vars == <<val, drains, tables, recomputes, stack, program>>

(* A value is known by the versions of the sources it was computed from:   *)
(* more than one version of a source is a value made of new and old parts. *)
Value == [Source -> SUBSET (0..MaxSets)]
Nothing == [s \in Source |-> {}]
Version(s, v) == [Nothing EXCEPT ![s] = {v}]
Merge(v, w) == [s \in Source |-> v[s] \union w[s]]
Fresh(c) == [s \in Source |-> UNION {val[Deps[c][i]][s] : i \in DOMAIN Deps[c]}]

Listener == [id : Nat, to : Derived \union {User}]

Stage == {"write", "write_back", "enqueue", "drain", "deliver", "user", "flush",
          "schedule", "flush_jobs", "running", "job", "look", "recompute",
          "get", "load", "compute", "watch", "mount", "listen", "unmount",
          "unsubscribe", "discard"}

(* n is the sequence number of a write, the number of dependencies read,   *)
(* or the id of the listener a watch has added.                            *)
Frame == [at : Stage, node : Node, value : Value, n : Nat,
          todo : SUBSET Listener, ids : Seq(Nat)]

NewFrame(stage, x) == [at |-> stage, node |-> x, value |-> Nothing, n |-> 0,
                       todo |-> {}, ids |-> <<>>]

(* Derived stores hold their first result (Computed::new).                 *)
Init ==
    /\ val \in [Node -> [Source -> SUBSET {0}]]
    /\ \A s \in Source : val[s] = Version(s, 0)
    /\ \A c \in Derived : val[c] = Fresh(c)
    /\ write_seq = [x \in Node |-> 0]
    /\ delivered_seq = [x \in Node |-> 0]
    /\ queue = [x \in Node |-> <<>>]
    /\ draining = [x \in Node |-> FALSE]
    /\ listeners = [x \in Node |-> {}]
    /\ next_id = [x \in Node |-> 0]
    /\ dep_subs = [c \in Derived |-> <<>>]
    /\ pending = [c \in Derived |-> FALSE]
    /\ deferred = [t \in Thread |-> <<>>]
    /\ jobs = <<>>
    /\ job_lock = {}
    /\ stack = [t \in Thread |-> <<>>]
    /\ held = {}
    /\ sets = 0
    /\ watches = 0

-----------------------------------------------------------------------------
(* Frames.  Operators named "...Mutant" are faults a run must find. *)

Top(t) == Head(stack[t])
At(t, stage) == stack[t] # <<>> /\ Top(t).at = stage

StackBecomes(t, s) == stack' = [stack EXCEPT ![t] = s]
Call(t, f) == StackBecomes(t, <<f>> \o stack[t])
Goto(t, f) == StackBecomes(t, <<f>> \o Tail(stack[t]))
Return(t) == StackBecomes(t, Tail(stack[t]))

(* The top frame becomes f and calls g. *)
GotoCall(t, f, g) == StackBecomes(t, <<g, f>> \o Tail(stack[t]))

(* Return a value to the frame that reads its dependencies, if one does.   *)
ReturnValue(t, v) ==
    LET rest == Tail(stack[t])
    IN  IF rest # <<>> /\ Head(rest).at \in {"recompute", "compute"}
        THEN StackBecomes(t, <<[Head(rest) EXCEPT !.value = Merge(@, v)]>> \o Tail(rest))
        ELSE StackBecomes(t, rest)

(* NOTIFICATION_DEPTH > 0 but for the top frame: a listener is running.    *)
Notifies(f) == f.at \in {"deliver", "user"}
Outermost(t) == \A i \in 2..Len(stack[t]) : ~Notifies(stack[t][i])

Mounted(x) == listeners[x] # {}

(* The calls that attach or detach listeners. *)
Attaching(t) ==
    \E i \in DOMAIN stack[t] :
        stack[t][i].at \in {"watch", "unmount", "unsubscribe"}

MayCall(t) ==
    /\ stack[t] = <<>> \/ (Nested /\ At(t, "user"))
    /\ Exclusive => \A u \in Thread \ {t} : ~Attaching(u)

MayAttach(t) ==
    /\ MayCall(t)
    /\ Exclusive => \A u \in Thread \ {t} : stack[u] = <<>>

-----------------------------------------------------------------------------
(* One store: write, notify (Store has every step of it) *)

Set(t, s) ==
    /\ "set" \in Operation
    /\ MayCall(t)
    /\ sets < MaxSets
    /\ sets' = sets + 1
    /\ Call(t, [NewFrame("write", s) EXCEPT !.value = Version(s, sets + 1)])
    /\ UNCHANGED <<val, drains, tables, recomputes, held, watches>>

(* The value is given (set) or has been computed from every dependency.    *)
Writes(t) ==
    \/ At(t, "write")
    \/ At(t, "recompute") /\ Top(t).n = Len(Deps[Top(t).node])

(* Fault: fetch_add's result is taken for the new number. *)
WriteMutant(t) ==
    /\ Writes(t)
    /\ LET f == Top(t)
           x == f.node
       IN  IF val[x] = f.value
           THEN Return(t) /\ UNCHANGED <<val, write_seq>>
           ELSE /\ val' = [val EXCEPT ![x] = f.value]
                /\ write_seq' = [write_seq EXCEPT ![x] = @ + 1]
                /\ Goto(t, [f EXCEPT
                     !.at = IF x \in InPlace THEN "enqueue" ELSE "write_back",
                     !.n = write_seq[x]])
    /\ UNCHANGED <<delivered_seq, queue, draining, tables, recomputes, program>>

Write(t) ==
    /\ Writes(t)
    /\ LET f == Top(t)
           x == f.node
       IN  IF val[x] = f.value
           THEN Return(t) /\ UNCHANGED <<val, write_seq>>
           ELSE /\ val' = [val EXCEPT ![x] = f.value]
                /\ write_seq' = [write_seq EXCEPT ![x] = @ + 1]
                /\ Goto(t, [f EXCEPT
                     !.at = IF x \in InPlace THEN "enqueue" ELSE "write_back",
                     !.n = write_seq[x] + 1])
    /\ UNCHANGED <<delivered_seq, queue, draining, tables, recomputes, program>>

WriteBack(t) ==
    /\ At(t, "write_back")
    /\ val' = [val EXCEPT ![Top(t).node] = Top(t).value]
    /\ Goto(t, [Top(t) EXCEPT !.at = "enqueue"])
    /\ UNCHANGED <<drains, tables, recomputes, program>>

Enqueue(t) ==
    /\ At(t, "enqueue")
    /\ LET x == Top(t).node
       IN  /\ queue' = [queue EXCEPT ![x] = Append(@, Top(t).n)]
           /\ draining' = [draining EXCEPT ![x] = TRUE]
           /\ IF draining[x]
              THEN Return(t)
              ELSE Goto(t, NewFrame("drain", x))
    /\ UNCHANGED <<val, write_seq, delivered_seq, tables, recomputes, program>>

(* Fault: a superseded item is not taken off the queue. *)
DrainMutant(t) ==
    /\ At(t, "drain")
    /\ LET x == Top(t).node
       IN  /\ queue[x] # <<>>
           /\ IF Head(queue[x]) <= delivered_seq[x]
              THEN UNCHANGED <<delivered_seq, stack>>
              ELSE /\ delivered_seq' = [delivered_seq EXCEPT ![x] = Head(queue[x])]
                   /\ Goto(t, [Top(t) EXCEPT !.at = "deliver",
                                             !.todo = listeners[x]])
           /\ UNCHANGED <<queue, draining>>
    /\ UNCHANGED <<val, write_seq, tables, recomputes, program>>

Drain(t) ==
    /\ At(t, "drain")
    /\ LET x == Top(t).node
       IN  IF queue[x] = <<>>
           THEN /\ draining' = [draining EXCEPT ![x] = FALSE]
                /\ Return(t)
                /\ UNCHANGED <<queue, delivered_seq>>
           ELSE /\ queue' = [queue EXCEPT ![x] = Tail(@)]
                /\ IF Head(queue[x]) <= delivered_seq[x]
                   THEN UNCHANGED <<delivered_seq, stack>>
                   ELSE /\ delivered_seq' = [delivered_seq EXCEPT ![x] = Head(queue[x])]
                        /\ Goto(t, [Top(t) EXCEPT !.at = "deliver",
                                                  !.todo = listeners[x]])
                /\ UNCHANGED draining
    /\ UNCHANGED <<val, write_seq, tables, recomputes, program>>

(* The listeners of the snapshot are called in order of registration.      *)
Following(t, l) == \A m \in Top(t).todo : l.id <= m.id
Called(t, l) == [Top(t) EXCEPT !.todo = @ \ {l}]

CallUser(t) ==
    /\ At(t, "deliver")
    /\ \E l \in Top(t).todo :
         /\ Following(t, l)
         /\ l.to = User
         /\ Goto(t, [Called(t, l) EXCEPT !.at = "user"])
    /\ UNCHANGED <<val, drains, tables, recomputes, program>>

UserReturns(t) ==
    /\ At(t, "user")
    /\ Goto(t, [Top(t) EXCEPT !.at = "deliver"])
    /\ UNCHANGED <<val, drains, tables, recomputes, program>>

(* Fault: the recompute is not deferred. *)
DependencyChangedMutant(t) ==
    /\ At(t, "deliver")
    /\ \E l \in Top(t).todo :
         /\ Following(t, l)
         /\ l.to # User
         /\ pending' = [pending EXCEPT ![l.to] = TRUE]
         /\ IF pending[l.to]
            THEN Goto(t, Called(t, l))
            ELSE GotoCall(t, Called(t, l),
                   NewFrame(IF l.to \in Batched THEN "schedule" ELSE "job", l.to))
    /\ UNCHANGED <<val, drains, tables, deferred, jobs, job_lock, program>>

(* dependency_changed, called as a listener: the thread is notifying, so   *)
(* defer_or_run defers.                                                    *)
DependencyChanged(t) ==
    /\ At(t, "deliver")
    /\ \E l \in Top(t).todo :
         /\ Following(t, l)
         /\ l.to # User
         /\ pending' = [pending EXCEPT ![l.to] = TRUE]
         /\ \/ /\ pending[l.to]
               /\ Goto(t, Called(t, l)) /\ UNCHANGED deferred
            \/ /\ ~pending[l.to] /\ l.to \notin Batched
               /\ Goto(t, Called(t, l))
               /\ deferred' = [deferred EXCEPT ![t] = Append(@, l.to)]
            \/ /\ ~pending[l.to] /\ l.to \in Batched
               /\ GotoCall(t, Called(t, l), NewFrame("schedule", l.to))
               /\ UNCHANGED deferred
    /\ UNCHANGED <<val, drains, tables, jobs, job_lock, program>>

(* Fault: the depth is compared after it was decremented. *)
GuardDroppedMutant(t) ==
    /\ At(t, "deliver") /\ Top(t).todo = {}
    /\ Goto(t, [Top(t) EXCEPT !.at = IF Outermost(t) THEN "drain" ELSE "flush"])
    /\ UNCHANGED <<val, drains, tables, recomputes, program>>

(* The notification guard is dropped. *)
GuardDropped(t) ==
    /\ At(t, "deliver") /\ Top(t).todo = {}
    /\ Goto(t, [Top(t) EXCEPT !.at = IF Outermost(t) THEN "flush" ELSE "drain"])
    /\ UNCHANGED <<val, drains, tables, recomputes, program>>

FlushDeferred(t) ==
    /\ At(t, "flush")
    /\ IF deferred[t] = <<>>
       THEN Goto(t, [Top(t) EXCEPT !.at = "drain"]) /\ UNCHANGED deferred
       ELSE /\ deferred' = [deferred EXCEPT ![t] = Tail(@)]
            /\ Call(t, NewFrame("job", Head(deferred[t])))
    /\ UNCHANGED <<val, drains, tables, pending, jobs, job_lock, program>>

-----------------------------------------------------------------------------
(* The scheduler *)

Schedule(t) ==
    /\ At(t, "schedule")
    /\ job_lock = {}
    /\ jobs' = Append(jobs, Top(t).node)
    /\ IF Immediate
       THEN Goto(t, [Top(t) EXCEPT !.at = "flush_jobs"])
       ELSE Return(t)
    /\ UNCHANGED <<val, drains, tables, pending, deferred, job_lock, program>>

(* The program's call, or its scheduler's. *)
Flush(t) ==
    /\ "flush" \in Operation
    /\ MayCall(t)
    /\ Call(t, NewFrame("flush_jobs", CHOOSE x \in Node : TRUE))
    /\ UNCHANGED <<val, drains, tables, recomputes, program>>

(* Fault: two threads run jobs at once. *)
FlushJobsMutant(t) ==
    /\ At(t, "flush_jobs")
    /\ IF jobs = <<>>
       THEN Return(t) /\ UNCHANGED <<jobs, job_lock>>
       ELSE /\ job_lock' = job_lock \union {t}
            /\ jobs' = Tail(jobs)
            /\ GotoCall(t, [Top(t) EXCEPT !.at = "running"], NewFrame("job", Head(jobs)))
    /\ UNCHANGED <<val, drains, tables, pending, deferred, program>>

(* The guard of the queue lives until the end of the loop's body.          *)
FlushJobs(t) ==
    /\ At(t, "flush_jobs")
    /\ job_lock = {}
    /\ IF jobs = <<>>
       THEN Return(t) /\ UNCHANGED <<jobs, job_lock>>
       ELSE /\ job_lock' = {t}
            /\ jobs' = Tail(jobs)
            /\ GotoCall(t, [Top(t) EXCEPT !.at = "running"], NewFrame("job", Head(jobs)))
    /\ UNCHANGED <<val, drains, tables, pending, deferred, program>>

JobDone(t) ==
    /\ At(t, "running")
    /\ job_lock' = {}
    /\ Goto(t, [Top(t) EXCEPT !.at = "flush_jobs"])
    /\ UNCHANGED <<val, drains, tables, pending, deferred, jobs, program>>

-----------------------------------------------------------------------------
(* Recomputing *)

(* Fault: the flag is cleared only when the store is recomputed. *)
JobMutant(t) ==
    /\ At(t, "job")
    /\ pending' = [pending EXCEPT ![Top(t).node] = @ /\ ~Mounted(Top(t).node)]
    /\ Goto(t, [Top(t) EXCEPT !.at = "look"])
    /\ UNCHANGED <<val, drains, tables, deferred, jobs, job_lock, program>>

Job(t) ==
    /\ At(t, "job")
    /\ pending' = [pending EXCEPT ![Top(t).node] = FALSE]
    /\ Goto(t, [Top(t) EXCEPT !.at = "look"])
    /\ UNCHANGED <<val, drains, tables, deferred, jobs, job_lock, program>>

Look(t) ==
    /\ At(t, "look")
    /\ IF Mounted(Top(t).node)
       THEN Goto(t, [Top(t) EXCEPT !.at = "recompute"])
       ELSE Return(t)
    /\ UNCHANGED <<val, drains, tables, recomputes, program>>

Reads(t) == stack[t] # <<>> /\ Top(t).at \in {"recompute", "compute"}

(* One dependency is read: a source at once, a derived store by its get.   *)
ReadDependency(t) ==
    /\ Reads(t)
    /\ Top(t).n < Len(Deps[Top(t).node])
    /\ LET f == [Top(t) EXCEPT !.n = @ + 1]
           d == Deps[f.node][f.n]
       IN  IF d \in Source
           THEN Goto(t, [f EXCEPT !.value = Merge(@, val[d])])
           ELSE GotoCall(t, f, NewFrame("get", d))
    /\ UNCHANGED <<val, drains, tables, recomputes, program>>

GetCall(t, c) ==
    /\ "get" \in Operation
    /\ MayCall(t)
    /\ Call(t, NewFrame("get", c))
    /\ UNCHANGED <<val, drains, tables, recomputes, program>>

Get(t) ==
    /\ At(t, "get")
    /\ Goto(t, [Top(t) EXCEPT !.at = IF Mounted(Top(t).node) THEN "load" ELSE "compute"])
    /\ UNCHANGED <<val, drains, tables, recomputes, program>>

Load(t) ==
    /\ At(t, "load")
    /\ ReturnValue(t, val[Top(t).node])
    /\ UNCHANGED <<val, drains, tables, recomputes, program>>

ReplaceSilently(t) ==
    /\ At(t, "compute")
    /\ Top(t).n = Len(Deps[Top(t).node])
    /\ val' = [val EXCEPT ![Top(t).node] = Top(t).value]
    /\ ReturnValue(t, Top(t).value)
    /\ UNCHANGED <<drains, tables, recomputes, program>>

-----------------------------------------------------------------------------
(* Listening, mounting, unmounting *)

(* add_listener: frame f goes on; the first listener mounts a derived      *)
(* store first (its start hook).                                           *)
AddListener(t, x, owner, rest, f) ==
    /\ listeners' = [listeners EXCEPT ![x] = @ \union {[id |-> next_id[x], to |-> owner]}]
    /\ next_id' = [next_id EXCEPT ![x] = @ + 1]
    /\ StackBecomes(t, (IF x \in Derived /\ ~Mounted(x)
                        THEN <<NewFrame("mount", x), f>>
                        ELSE <<f>>) \o rest)

(* remove_listener: the last listener unmounts it (its stop hook).         *)
RemoveListener(t, x, id, rest) ==
    /\ listeners' = [listeners EXCEPT ![x] = {l \in @ : l.id # id}]
    /\ StackBecomes(t, (IF x \in Derived /\ Mounted(x) /\ (listeners')[x] = {}
                        THEN <<NewFrame("unmount", x)>>
                        ELSE <<>>) \o rest)

Watch(t, x) ==
    /\ "watch" \in Operation
    /\ MayAttach(t)
    /\ watches < MaxWatches
    /\ watches' = watches + 1
    /\ AddListener(t, x, User, stack[t], [NewFrame("watch", x) EXCEPT !.n = next_id[x]])
    /\ UNCHANGED <<val, drains, dep_subs, recomputes, held, sets>>

(* The call returns the subscription. *)
Watching(t) ==
    /\ At(t, "watch")
    /\ held' = held \union {<<Top(t).node, Top(t).n>>}
    /\ Return(t)
    /\ UNCHANGED <<val, drains, tables, recomputes, sets, watches>>

Unwatch(t, x) ==
    /\ "unwatch" \in Operation
    /\ MayAttach(t)
    /\ \E w \in held :
         /\ w[1] = x
         /\ held' = held \ {w}
         /\ RemoveListener(t, x, w[2], stack[t])
    /\ UNCHANGED <<val, drains, next_id, dep_subs, recomputes, sets, watches>>

(* Fault: the subscriptions of an earlier mount are not looked at. *)
MountMutant(t) ==
    /\ At(t, "mount")
    /\ Goto(t, [Top(t) EXCEPT !.at = "listen"])
    /\ UNCHANGED <<val, drains, tables, recomputes, program>>

Mount(t) ==
    /\ At(t, "mount")
    /\ IF dep_subs[Top(t).node] # <<>>
       THEN Return(t)
       ELSE Goto(t, [Top(t) EXCEPT !.at = "listen"])
    /\ UNCHANGED <<val, drains, tables, recomputes, program>>

ListenTo(t) ==
    /\ At(t, "listen")
    /\ Len(Top(t).ids) < Len(Deps[Top(t).node])
    /\ LET c == Top(t).node
           d == Deps[c][Len(Top(t).ids) + 1]
       IN  AddListener(t, d, c, Tail(stack[t]),
                       [Top(t) EXCEPT !.ids = Append(@, next_id[d])])
    /\ UNCHANGED <<val, drains, dep_subs, recomputes, program>>

(* Fault: no recompute after subscribing. *)
KeepSubscriptionsMutant(t) ==
    /\ At(t, "listen")
    /\ Len(Top(t).ids) = Len(Deps[Top(t).node])
    /\ dep_subs' = [dep_subs EXCEPT ![Top(t).node] = Top(t).ids]
    /\ Return(t)
    /\ UNCHANGED <<val, drains, listeners, next_id, recomputes, program>>

(* The new subscriptions are kept and those they replace dropped.          *)
KeepSubscriptions(t) ==
    /\ At(t, "listen")
    /\ Len(Top(t).ids) = Len(Deps[Top(t).node])
    /\ LET c == Top(t).node
           f == NewFrame("recompute", c)
       IN  /\ dep_subs' = [dep_subs EXCEPT ![c] = Top(t).ids]
           /\ IF dep_subs[c] = <<>>
              THEN Goto(t, f)
              ELSE GotoCall(t, f, [NewFrame("discard", c) EXCEPT !.ids = dep_subs[c]])
    /\ UNCHANGED <<val, drains, listeners, next_id, recomputes, program>>

(* Fault: the subscriptions are forgotten, not dropped. *)
UnmountMutant(t) ==
    /\ At(t, "unmount")
    /\ Goto(t, [Top(t) EXCEPT !.at = "unsubscribe"])
    /\ dep_subs' = [dep_subs EXCEPT ![Top(t).node] = <<>>]
    /\ UNCHANGED <<val, drains, listeners, next_id, recomputes, program>>

Unmount(t) ==
    /\ At(t, "unmount")
    /\ LET c == Top(t).node
       IN  /\ Goto(t, [Top(t) EXCEPT !.at = "unsubscribe", !.ids = dep_subs[c]])
           /\ dep_subs' = [dep_subs EXCEPT ![c] = <<>>]
    /\ UNCHANGED <<val, drains, listeners, next_id, recomputes, program>>

(* The subscriptions are in the order of the dependencies. *)
DropSubscription(t) ==
    /\ stack[t] # <<>> /\ Top(t).at \in {"unsubscribe", "discard"}
    /\ Top(t).ids # <<>>
    /\ LET f == Top(t)
           d == Deps[f.node][Len(Deps[f.node]) - Len(f.ids) + 1]
       IN  RemoveListener(t, d, Head(f.ids),
                          <<[f EXCEPT !.ids = Tail(@)]>> \o Tail(stack[t]))
    /\ UNCHANGED <<val, drains, next_id, dep_subs, recomputes, program>>

Unsubscribed(t) ==
    /\ stack[t] # <<>> /\ Top(t).at \in {"unsubscribe", "discard"}
    /\ Top(t).ids = <<>>
    /\ pending' = IF Top(t).at = "unsubscribe"
                  THEN [pending EXCEPT ![Top(t).node] = FALSE]
                  ELSE pending
    /\ Return(t)
    /\ UNCHANGED <<val, drains, tables, deferred, jobs, job_lock, program>>

-----------------------------------------------------------------------------
Progress(t) ==
    \/ Write(t) \/ WriteBack(t) \/ Enqueue(t) \/ Drain(t)
    \/ CallUser(t) \/ UserReturns(t) \/ DependencyChanged(t) \/ GuardDropped(t)
    \/ FlushDeferred(t)
    \/ Schedule(t) \/ FlushJobs(t) \/ JobDone(t)
    \/ Job(t) \/ Look(t) \/ ReadDependency(t)
    \/ Get(t) \/ Load(t) \/ ReplaceSilently(t)
    \/ Watching(t) \/ Mount(t) \/ ListenTo(t) \/ KeepSubscriptions(t)
    \/ Unmount(t) \/ DropSubscription(t) \/ Unsubscribed(t)

Start(t) ==
    \/ \E s \in Source : Set(t, s)
    \/ \E x \in Watched : Watch(t, x) \/ Unwatch(t, x)
    \/ \E c \in Derived : GetCall(t, c)
    \/ Flush(t)

Quiescent == \A t \in Thread : stack[t] = <<>>
Rest == Quiescent /\ UNCHANGED vars

Next == (\E t \in Thread : Progress(t) \/ Start(t)) \/ Rest

(* The operating system runs every thread that can take a step, and a      *)
(* listener returns.                                                       *)
Fairness ==
    \A t \in Thread : WF_vars(Progress(t)) /\ SF_vars(UserReturns(t))

Spec == Init /\ [][Next]_vars
FairSpec == Spec /\ Fairness

-----------------------------------------------------------------------------
TypeOK ==
    /\ val \in [Node -> Value]
    /\ write_seq \in [Node -> Nat]
    /\ delivered_seq \in [Node -> Nat]
    /\ queue \in [Node -> Seq(Nat)]
    /\ draining \in [Node -> BOOLEAN]
    /\ listeners \in [Node -> SUBSET Listener]
    /\ next_id \in [Node -> Nat]
    /\ dep_subs \in [Derived -> Seq(Nat)]
    /\ pending \in [Derived -> BOOLEAN]
    /\ deferred \in [Thread -> Seq(Derived)]
    /\ jobs \in Seq(Derived)
    /\ job_lock \in SUBSET Thread
    /\ \A t, u \in job_lock : t = u
    /\ stack \in [Thread -> Seq(Frame)]
    /\ held \subseteq Node \X Nat
    /\ sets \in 0..MaxSets
    /\ watches \in 0..MaxWatches

(* dependency_changed's pending flag: whoever finds it set does nothing,   *)
(* so a set flag must always have a recompute on its way, whatever the     *)
(* threads do and however often the store is unmounted and mounted again.  *)
OnItsWay(c) ==
    \/ \E i \in DOMAIN jobs : jobs[i] = c
    \/ \E t \in Thread :
         \/ \E i \in DOMAIN deferred[t] : deferred[t][i] = c
         \/ \E i \in DOMAIN stack[t] :
              stack[t][i].node = c /\ stack[t][i].at \in {"schedule", "job"}

NoFrozenStore == \A c \in Derived : pending[c] => OnItsWay(c)

(* mount looks at dep_subscriptions and sets them under two locks: still   *)
(* no two mounts of a store ever subscribe it at once, and none replaces   *)
(* the subscriptions of another.                                           *)
Subscribes(t, i) == i \in DOMAIN stack[t] /\ stack[t][i].at = "listen"

MountsAlone ==
    \A t, u \in Thread : \A i \in DOMAIN stack[t], j \in DOMAIN stack[u] :
        Subscribes(t, i) =>
            /\ dep_subs[stack[t][i].node] = <<>>
            /\ Subscribes(u, j) /\ stack[t][i].node = stack[u][j].node => t = u /\ i = j

(* The thread-local queue of recomputes is emptied by the outermost        *)
(* notification: none is left when the thread leaves the stores.           *)
DeferredRuns == \A t \in Thread : stack[t] = <<>> => deferred[t] = <<>>

AtRest == Quiescent /\ jobs = <<>>

(* README.md:102 "eager while mounted": at rest a store somebody listens   *)
(* to holds the function of its dependencies' values.                      *)
LiveWhileMounted ==
    AtRest => \A c \in Derived : Mounted(c) => val[c] = Fresh(c)

(* No Subscription is lost, and none kept whose listener is gone, whatever *)
(* the threads do and however often a store is mounted: between the calls, *)
(* the listeners of a store are those whose Subscriptions the dependent    *)
(* stores keep in dep_subscriptions, and those the program was given.      *)
SubscriptionsOf(c, d) == {l.id : l \in {m \in listeners[d] : m.to = c}}
KeptOf(c, d) == {dep_subs[c][i] : i \in {j \in DOMAIN dep_subs[c] : Deps[c][j] = d}}

SubscriptionsKept ==
    Quiescent =>
        \A d \in Node :
            /\ \A c \in Derived : SubscriptionsOf(c, d) = KeptOf(c, d)
            /\ SubscriptionsOf(User, d) = {w[2] : w \in {v \in held : v[1] = d}}

(* At rest a derived store is subscribed to its dependencies exactly while *)
(* somebody listens to it, once to each.                                   *)
SubscribedWhileMounted ==
    AtRest =>
        \A c \in Derived :
            /\ Len(dep_subs[c]) = IF Mounted(c) THEN Len(Deps[c]) ELSE 0
            /\ \A d \in Node : SubscriptionsOf(c, d) = KeptOf(c, d)

(* The test computed_diamond_dependency_notifies_only_consistent_value     *)
(* (tests/core.rs:271): no store ever holds a value computed from two      *)
(* versions of one source.                                                 *)
OnlyConsistentValues ==
    \A x \in Node, s \in Source : Cardinality(val[x][s]) <= 1

(* README.md:152 "native default: immediate (batched behaves like          *)
(* `computed`)": no thread waits for the lock of the job queue it holds.   *)
NoSelfDeadlock ==
    \A t \in Thread : t \in job_lock => ~At(t, "schedule") /\ ~At(t, "flush_jobs")

(* No call is stuck in the drains, flushes and mounts it is nested in.     *)
CallsReturn == \A t \in Thread : stack[t] # <<>> ~> stack[t] = <<>>
=============================================================================
