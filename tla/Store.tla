------------------------------- MODULE Store -------------------------------
(***************************************************************************)
(* The write path of one store (crates/nanostores/src/store.rs): `commit`, *)
(* `mutate_in_place`, the notification queue with its single drainer, the  *)
(* listener table, and the immediate call of `subscribe`.                  *)
(*                                                                         *)
(* A thread is inside at most one call (`call`) and may at the same time   *)
(* be the drainer (`drain`): a listener it is running may write to the     *)
(* store again, and that reentrant call then runs to its end before the    *)
(* drain goes on.  Write hooks, and the first call of a subscriber, run in *)
(* the middle of a call; what they do to the store is a call of the same   *)
(* thread one level deeper, which may drain, too, and the outer call waits *)
(* for it.  Each critical section of a lock, and each atomic operation, is *)
(* one step; hooks and listeners run outside the locks.                    *)
(***************************************************************************)
EXTENDS Integers, Sequences, FiniteSets

CONSTANTS
    Thread,     \* the threads that use the store
    MaxDepth,   \* bound: how deep callbacks that call their own store nest
    Reentrant,  \* the callbacks that do call it: a subset of Callback
    Value,      \* the values it may hold
    Listener,   \* listener ids: never reused (`next_id` only grows)
    Key,        \* the keys a scope or a filter may name
    Filter,     \* the keys a listener is filtered on, or Unfiltered
    Scope,      \* the scopes callers write with: Everyone or sets of keys
    Hook,       \* the kinds of write hook the program registers
    OnSet,      \* what the registered on_set hooks may make of a value
    OnNotify,   \* what the registered on_notify hooks may make of it
    Operation,  \* the calls the program makes
    MaxWrites   \* bound: the number of sequence numbers handed out

Everyone   == {"Everyone"}    \* NotifyScope::All; any other scope is a set of keys
Unfiltered == {"Unfiltered"}  \* keys: None; any other filter is a set of keys
Aborted    == "Aborted"       \* the context was aborted

(* The stages of a call in which it runs user code: hooks, a subscriber.   *)
Callback == {"set_hooks", "notify_hooks", "first_call"}

(* Where calls are made from: a thread, or the user code a call of it runs *)
(* one level up.                                                           *)
Context == Thread \X (0..MaxDepth)

ASSUME ContextAssumption == MaxDepth \in Nat /\ Reentrant \subseteq Callback
ASSUME FilterAssumption == Filter \in [Listener -> {Unfiltered} \union SUBSET Key]
ASSUME ScopeAssumption == Scope \subseteq {Everyone} \union SUBSET Key
ASSUME HookAssumption ==
    /\ Hook \subseteq {"set", "notify"}
    /\ OnSet \in [Value -> SUBSET (Value \union {Aborted})]
    /\ OnNotify \in [Value -> SUBSET (Value \union {Aborted})]
    /\ Aborted \notin Value
ASSUME BoundAssumption == MaxWrites \in Nat
ASSUME ValueAssumption == Value # {} /\ Scope # {}

VARIABLES
    value,          \* the stored value
    write_seq,      \* the last sequence number handed out
    delivered_seq,  \* the newest sequence number whose delivery has begun
    queue,          \* notify_queue
    draining,       \* the drain flag
    listeners,      \* per listener: "new", "on" (in the table) or "off"
    hooks,          \* per hook: "new", "on" (registered) or "off"
    call,           \* per context, the call it is in
    drain,          \* per context, its place in the drain loop
    value_seq,      \* history: the write the stored value comes from
    announced,      \* history: every notification ever queued
    since,          \* history: write_seq when the listener was added
    heard           \* history: the newest write a listener was called with

store == <<value, write_seq, value_seq>>
notifications == <<queue, announced>>
vars == <<store, delivered_seq, notifications, draining, listeners, hooks,
          call, drain, since, heard>>

Notification == [seq : Nat, value : Value, scope : Scope]

CallStage == {"idle", "set_hooks", "write", "mutate", "written", "notify_hooks",
              "write_back", "enqueue", "claim", "get", "invoke", "first_call"}

DrainStage == {"none", "pop", "check", "snapshot", "deliver", "release",
               "recheck", "reclaim"}

Anything == CHOOSE v \in Value : TRUE
AnyScope == CHOOSE s \in Scope : TRUE
NoNotification == [seq |-> 0, value |-> Anything, scope |-> AnyScope]
NoCall == [at |-> "idle", seq |-> 0, value |-> Anything, scope |-> AnyScope,
           listener |-> {}]
NoDrain == [at |-> "none", item |-> NoNotification, todo |-> {}]

Call == [at : CallStage, seq : Nat, value : Value, scope : Scope,
         listener : SUBSET Listener]
Drain == [at : DrainStage, item : Notification,
          todo : SUBSET Listener]

Init ==
    /\ value \in Value
    /\ write_seq = 0
    /\ delivered_seq = 0
    /\ queue = <<>>
    /\ draining = FALSE
    /\ listeners = [l \in Listener |-> "new"]
    /\ hooks = [h \in Hook |-> "new"]
    /\ call = [t \in Context |-> NoCall]
    /\ drain = [t \in Context |-> NoDrain]
    /\ value_seq = 0
    /\ announced = {}
    /\ since = [l \in Listener |-> 0]
    /\ heard = [l \in Listener |-> 0]

-----------------------------------------------------------------------------
(* Helpers *)

Outside(t) == call[t].at = "idle" /\ drain[t].at = "none"

(* The user code a call runs goes first: the call waits for it.            *)
Runs(t) == \A u \in Context : u[1] = t[1] /\ u[2] > t[2] => Outside(u)

(* User code is there to call the store if the level above is running it.  *)
Entered(t) == t[2] > 0 => call[<<t[1], t[2] - 1>>].at \in Reentrant

(* A call is made from outside the store, or from a listener (or a         *)
(* recompute flushed after the listeners) that the drainer is running.     *)
MayCall(t) ==
    /\ Runs(t) /\ Entered(t)
    /\ call[t].at = "idle" /\ drain[t].at \in {"none", "deliver"}

(* Sequence numbers already promised to calls that have not written yet.   *)
Reserved == {t \in Context : call[t].at \in {"set_hooks", "write", "mutate"}}
Room == write_seq + Cardinality(Reserved) < MaxWrites

Registered == {l \in Listener : listeners[l] = "on"}
Active(h) == h \in Hook /\ hooks[h] = "on"

CallBecomes(t, c) == call' = [call EXCEPT ![t] = c]
DrainBecomes(t, d) == drain' = [drain EXCEPT ![t] = d]
Return(t) == CallBecomes(t, NoCall)
Goto(t, stage) == CallBecomes(t, [call[t] EXCEPT !.at = stage])
DrainGoto(t, stage) == DrainBecomes(t, [drain[t] EXCEPT !.at = stage])

(* listener_matches *)
Matches(l, scope) ==
    \/ Filter[l] = Unfiltered
    \/ scope = Everyone
    \/ Filter[l] # Unfiltered /\ scope # Everyone /\ Filter[l] \cap scope # {}

-----------------------------------------------------------------------------
(* Operators named "...Mutant" are faults a run must find, not the code.   *)

(* commit: a write that runs set hooks takes a snapshot of them first.     *)
Commit(t) ==
    /\ "commit" \in Operation
    /\ MayCall(t)
    /\ Room
    /\ \E v \in Value, s \in Scope, run_set_hooks \in BOOLEAN :
         CallBecomes(t, [NoCall EXCEPT
             !.at = IF run_set_hooks /\ Active("set") THEN "set_hooks" ELSE "write",
             !.value = v, !.scope = s])
    /\ UNCHANGED <<store, delivered_seq, notifications, draining, listeners,
                   hooks, drain, since, heard>>

(* The hooks of the snapshot have run, and called the store if they do.    *)
SetHooks(t) ==
    /\ call[t].at = "set_hooks"
    /\ \E w \in OnSet[call[t].value] :
         IF w = Aborted
         THEN Return(t)
         ELSE CallBecomes(t, [call[t] EXCEPT !.at = "write", !.value = w])
    /\ UNCHANGED <<store, delivered_seq, notifications, draining, listeners,
                   hooks, drain, since, heard>>

(* Fault: fetch_add's result, the number before the write, is taken. *)
WriteMutant(t) ==
    /\ call[t].at = "write"
    /\ IF value = call[t].value
       THEN Return(t) /\ UNCHANGED store
       ELSE /\ value' = call[t].value
            /\ write_seq' = write_seq + 1
            /\ value_seq' = write_seq
            /\ CallBecomes(t, [call[t] EXCEPT !.at = "written", !.seq = write_seq])
    /\ UNCHANGED <<delivered_seq, notifications, draining, listeners, hooks,
                   drain, since, heard>>

(* Compare, store and take the sequence number, all under the value lock.  *)
Write(t) ==
    /\ call[t].at = "write"
    /\ IF value = call[t].value
       THEN Return(t) /\ UNCHANGED store
       ELSE /\ value' = call[t].value
            /\ write_seq' = write_seq + 1
            /\ value_seq' = write_seq + 1
            /\ CallBecomes(t, [call[t] EXCEPT !.at = "written", !.seq = write_seq + 1])
    /\ UNCHANGED <<delivered_seq, notifications, draining, listeners, hooks,
                   drain, since, heard>>

(* The snapshot of the notify hooks, one lock after the write.             *)
FindNotifyHooks(t) ==
    /\ call[t].at = "written"
    /\ Goto(t, IF Active("notify") THEN "notify_hooks" ELSE "write_back")
    /\ UNCHANGED <<store, delivered_seq, notifications, draining, listeners,
                   hooks, drain, since, heard>>

(* Fault: the context is used without looking at its abort flag. *)
NotifyHooksMutant(t) ==
    /\ call[t].at = "notify_hooks"
    /\ \E w \in OnNotify[call[t].value] :
         CallBecomes(t, [call[t] EXCEPT !.at = "write_back", !.value = w])
    /\ UNCHANGED <<store, delivered_seq, notifications, draining, listeners,
                   hooks, drain, since, heard>>

NotifyHooks(t) ==
    /\ call[t].at = "notify_hooks"
    /\ \E w \in OnNotify[call[t].value] :
         IF w = Aborted
         THEN Return(t)
         ELSE CallBecomes(t, [call[t] EXCEPT !.at = "write_back", !.value = w])
    /\ UNCHANGED <<store, delivered_seq, notifications, draining, listeners,
                   hooks, drain, since, heard>>

(* The notified value is stored again, under a second lock of the value    *)
(* and whatever was written since the first.                               *)
WriteBack(t) ==
    /\ call[t].at = "write_back"
    /\ IF value # call[t].value
       THEN value' = call[t].value /\ value_seq' = call[t].seq
       ELSE UNCHANGED <<value, value_seq>>
    /\ Goto(t, "enqueue")
    /\ UNCHANGED <<write_seq, delivered_seq, notifications, draining, listeners,
                   hooks, drain, since, heard>>

-----------------------------------------------------------------------------
(* mutate_in_place *)

(* With a write hook registered the call is declined, and its caller goes  *)
(* through Commit instead.                                                 *)
MutateInPlace(t) ==
    /\ "mutate" \in Operation
    /\ MayCall(t)
    /\ Room
    /\ ~Active("set") /\ ~Active("notify")
    /\ \E s \in Scope :
         CallBecomes(t, [NoCall EXCEPT !.at = "mutate", !.scope = s])
    /\ UNCHANGED <<store, delivered_seq, notifications, draining, listeners,
                   hooks, drain, since, heard>>

(* Fault: the closure works on a clone that is notified but not stored. *)
MutateMutant(t) ==
    /\ call[t].at = "mutate"
    /\ \/ Return(t) /\ UNCHANGED store
       \/ \E v \in Value :
            /\ write_seq' = write_seq + 1
            /\ value_seq' = write_seq + 1
            /\ CallBecomes(t, [call[t] EXCEPT !.at = "enqueue", !.value = v,
                                              !.seq = write_seq + 1])
            /\ UNCHANGED value
    /\ UNCHANGED <<delivered_seq, notifications, draining, listeners, hooks,
                   drain, since, heard>>

(* The closure runs under the value lock; it alone says whether anything   *)
(* changed.                                                                *)
Mutate(t) ==
    /\ call[t].at = "mutate"
    /\ \/ Return(t) /\ UNCHANGED store
       \/ \E v \in Value :
            /\ value' = v
            /\ write_seq' = write_seq + 1
            /\ value_seq' = write_seq + 1
            /\ CallBecomes(t, [call[t] EXCEPT !.at = "enqueue", !.value = v,
                                              !.seq = write_seq + 1])
    /\ UNCHANGED <<delivered_seq, notifications, draining, listeners, hooks,
                   drain, since, heard>>

-----------------------------------------------------------------------------
(* notify_listeners *)

Enqueue(t) ==
    /\ call[t].at = "enqueue"
    /\ LET n == [seq |-> call[t].seq, value |-> call[t].value,
                 scope |-> call[t].scope]
       IN  queue' = Append(queue, n) /\ announced' = announced \union {n}
    /\ Goto(t, "claim")
    /\ UNCHANGED <<store, delivered_seq, draining, listeners, hooks, drain,
                   since, heard>>

(* draining.swap(true): whoever finds it false is the drainer.             *)
Claim(t) ==
    /\ call[t].at = "claim"
    /\ Return(t)
    /\ IF draining
       THEN UNCHANGED <<draining, drain>>
       ELSE draining' = TRUE /\ DrainGoto(t, "pop")
    /\ UNCHANGED <<store, delivered_seq, notifications, listeners, hooks,
                   since, heard>>

(* Fault: the front of the queue is looked at, not taken. *)
PopMutant(t) ==
    /\ drain[t].at = "pop"
    /\ DrainBecomes(t, IF queue = <<>>
                       THEN [drain[t] EXCEPT !.at = "release"]
                       ELSE [drain[t] EXCEPT !.at = "check", !.item = Head(queue)])
    /\ UNCHANGED <<store, delivered_seq, notifications, draining, listeners, hooks,
                   call, since, heard>>

Pop(t) ==
    /\ drain[t].at = "pop"
    /\ IF queue = <<>>
       THEN DrainGoto(t, "release") /\ UNCHANGED queue
       ELSE /\ queue' = Tail(queue)
            /\ DrainBecomes(t, [drain[t] EXCEPT !.at = "check", !.item = Head(queue)])
    /\ UNCHANGED <<store, delivered_seq, announced, draining, listeners, hooks,
                   call, since, heard>>

(* Fault: an old item is not dropped. *)
CheckMutant(t) ==
    /\ drain[t].at = "check"
    /\ DrainGoto(t, "snapshot")
    /\ delivered_seq' = drain[t].item.seq
    /\ UNCHANGED <<store, notifications, draining, listeners, hooks, call,
                   since, heard>>

(* Fault: the newest number handed out is marked, not the item's. *)
CheckMarkMutant(t) ==
    /\ drain[t].at = "check"
    /\ IF drain[t].item.seq <= delivered_seq
       THEN /\ DrainBecomes(t, [NoDrain EXCEPT !.at = "pop"])
            /\ UNCHANGED delivered_seq
       ELSE /\ DrainGoto(t, "snapshot")
            /\ delivered_seq' = write_seq
    /\ UNCHANGED <<store, notifications, draining, listeners, hooks, call,
                   since, heard>>

(* An item not newer than the last delivery is dropped as superseded.      *)
Check(t) ==
    /\ drain[t].at = "check"
    /\ IF drain[t].item.seq <= delivered_seq
       THEN /\ DrainBecomes(t, [NoDrain EXCEPT !.at = "pop"])
            /\ UNCHANGED delivered_seq
       ELSE /\ DrainGoto(t, "snapshot")
            /\ delivered_seq' = drain[t].item.seq
    /\ UNCHANGED <<store, notifications, draining, listeners, hooks, call,
                   since, heard>>

(* Fault: a keyed listener is not woken by NotifyScope::All. *)
SnapshotMutant(t) ==
    /\ drain[t].at = "snapshot"
    /\ DrainBecomes(t, [drain[t] EXCEPT
         !.at = "deliver",
         !.todo = {l \in Registered : Filter[l] \in {Unfiltered, drain[t].item.scope}}])
    /\ UNCHANGED <<store, delivered_seq, notifications, draining, listeners,
                   hooks, call, since, heard>>

Snapshot(t) ==
    /\ drain[t].at = "snapshot"
    /\ DrainBecomes(t, [drain[t] EXCEPT
         !.at = "deliver",
         !.todo = {l \in Registered : Matches(l, drain[t].item.scope)}])
    /\ UNCHANGED <<store, delivered_seq, notifications, draining, listeners,
                   hooks, call, since, heard>>

(* One listener of the snapshot is called, still registered or not.        *)
Deliver(t) ==
    /\ drain[t].at = "deliver" /\ call[t].at = "idle"
    /\ \E l \in drain[t].todo :
         /\ heard' = [heard EXCEPT ![l] = drain[t].item.seq]
         /\ DrainBecomes(t, [drain[t] EXCEPT !.todo = @ \ {l}])
    /\ UNCHANGED <<store, delivered_seq, notifications, draining, listeners,
                   hooks, call, since>>

(* Fault: the notified value is stored again after the listeners ran. *)
DeliveredMutant(t) ==
    /\ drain[t].at = "deliver" /\ call[t].at = "idle"
    /\ drain[t].todo = {}
    /\ DrainBecomes(t, [NoDrain EXCEPT !.at = "pop"])
    /\ value' = drain[t].item.value /\ value_seq' = drain[t].item.seq
    /\ UNCHANGED <<write_seq, delivered_seq, notifications, draining, listeners,
                   hooks, call, since, heard>>

Delivered(t) ==
    /\ drain[t].at = "deliver" /\ call[t].at = "idle"
    /\ drain[t].todo = {}
    /\ DrainBecomes(t, [NoDrain EXCEPT !.at = "pop"])
    /\ UNCHANGED <<store, delivered_seq, notifications, draining, listeners,
                   hooks, call, since, heard>>

(* Fault: no second look at the queue after the flag is reset. *)
ReleaseMutant(t) ==
    /\ drain[t].at = "release"
    /\ draining' = FALSE
    /\ DrainGoto(t, "none")
    /\ UNCHANGED <<store, delivered_seq, notifications, listeners, hooks, call,
                   since, heard>>

Release(t) ==
    /\ drain[t].at = "release"
    /\ draining' = FALSE
    /\ DrainGoto(t, "recheck")
    /\ UNCHANGED <<store, delivered_seq, notifications, listeners, hooks, call,
                   since, heard>>

Recheck(t) ==
    /\ drain[t].at = "recheck"
    /\ DrainGoto(t, IF queue = <<>> THEN "none" ELSE "reclaim")
    /\ UNCHANGED <<store, delivered_seq, notifications, draining, listeners,
                   hooks, call, since, heard>>

(* Fault: the flag is taken back without looking at who holds it. *)
ReclaimMutant(t) ==
    /\ drain[t].at = "reclaim"
    /\ DrainGoto(t, "pop")
    /\ draining' = TRUE
    /\ UNCHANGED <<store, delivered_seq, notifications, listeners, hooks, call,
                   since, heard>>

Reclaim(t) ==
    /\ drain[t].at = "reclaim"
    /\ DrainGoto(t, IF draining THEN "none" ELSE "pop")
    /\ draining' = TRUE
    /\ UNCHANGED <<store, delivered_seq, notifications, listeners, hooks, call,
                   since, heard>>

-----------------------------------------------------------------------------
(* Listeners and write hooks come and go.  The start, stop and mount hooks *)
(* that run around the two listener calls are the subject of Lifecycle.    *)

(* listen takes keys, subscribe does not.                                  *)
AddListener(t, l) ==
    /\ MayCall(t)
    /\ listeners[l] = "new"
    /\ listeners' = [listeners EXCEPT ![l] = "on"]
    /\ since' = [since EXCEPT ![l] = write_seq]
    /\ \/ "listen" \in Operation /\ UNCHANGED call
       \/ /\ "subscribe" \in Operation /\ Filter[l] = Unfiltered
          /\ CallBecomes(t, [NoCall EXCEPT !.at = "get", !.listener = {l}])
    /\ UNCHANGED <<store, delivered_seq, notifications, draining, hooks, drain,
                   heard>>

(* subscribe: read the value under the value lock ...                      *)
Get(t) ==
    /\ call[t].at = "get"
    /\ CallBecomes(t, [call[t] EXCEPT !.at = "invoke", !.value = value,
                                      !.seq = value_seq])
    /\ UNCHANGED <<store, delivered_seq, notifications, draining, listeners,
                   hooks, drain, since, heard>>

(* ... and call the listener with it, outside the drain.                   *)
InvokeListener(t) ==
    /\ call[t].at = "invoke"
    /\ heard' = [l \in Listener |->
         IF l \in call[t].listener \cap Registered THEN call[t].seq ELSE heard[l]]
    /\ Goto(t, "first_call")
    /\ UNCHANGED <<store, delivered_seq, notifications, draining, listeners,
                   hooks, drain, since>>

Subscribed(t) ==
    /\ call[t].at = "first_call"
    /\ Return(t)
    /\ UNCHANGED <<store, delivered_seq, notifications, draining, listeners,
                   hooks, drain, since, heard>>

RemoveListener(t, l) ==
    /\ MayCall(t)
    /\ "remove" \in Operation
    /\ listeners[l] = "on"
    /\ \A u \in Context : l \notin call[u].listener  \* subscribe has returned
    /\ listeners' = [listeners EXCEPT ![l] = "off"]
    /\ UNCHANGED <<store, delivered_seq, notifications, draining, hooks, call,
                   drain, since, heard>>

AddHook(t, h) ==
    /\ MayCall(t)
    /\ hooks[h] = "new"
    /\ hooks' = [hooks EXCEPT ![h] = "on"]
    /\ UNCHANGED <<store, delivered_seq, notifications, draining, listeners,
                   call, drain, since, heard>>

RemoveHook(t, h) ==
    /\ MayCall(t)
    /\ hooks[h] = "on"
    /\ hooks' = [hooks EXCEPT ![h] = "off"]
    /\ UNCHANGED <<store, delivered_seq, notifications, draining, listeners,
                   call, drain, since, heard>>

-----------------------------------------------------------------------------

(* A step of a call or a drain already under way. *)
Progress(t) ==
    /\ Runs(t)
    /\ \/ SetHooks(t) \/ Write(t) \/ FindNotifyHooks(t) \/ NotifyHooks(t)
       \/ WriteBack(t)
       \/ Mutate(t)
       \/ Enqueue(t) \/ Claim(t)
       \/ Pop(t) \/ Check(t) \/ Snapshot(t) \/ Deliver(t) \/ Delivered(t)
       \/ Release(t) \/ Recheck(t) \/ Reclaim(t)
       \/ Get(t) \/ InvokeListener(t) \/ Subscribed(t)

(* What the program may start.  Nothing obliges it to. *)
Start(t) ==
    \/ Commit(t)
    \/ MutateInPlace(t)
    \/ \E l \in Listener : AddListener(t, l) \/ RemoveListener(t, l)
    \/ \E h \in Hook : AddHook(t, h) \/ RemoveHook(t, h)

Quiescent == \A t \in Context : Outside(t)

(* The program may leave the store alone for good, between calls only. *)
Rest == Quiescent /\ UNCHANGED vars

Next == (\E t \in Context : Progress(t) \/ Start(t)) \/ Rest

(* The operating system runs every thread that can take a step, and a      *)
(* listener returns: it does not call back into the store for ever.  Hooks *)
(* that do are not excluded: the liveness properties are for programs      *)
(* without write hooks.                                                    *)
Fairness ==
    \A t \in Context :
        /\ WF_vars(Progress(t))
        /\ SF_vars(Runs(t) /\ (Deliver(t) \/ Delivered(t)))

Spec == Init /\ [][Next]_vars
FairSpec == Spec /\ Fairness

-----------------------------------------------------------------------------
(* Type invariant. *)
WritesOK ==
    /\ value \in Value
    /\ write_seq \in Nat
    /\ delivered_seq \in Nat
    /\ value_seq \in Nat
    /\ queue \in Seq(Notification)
    /\ announced \in SUBSET Notification

TablesOK ==
    /\ listeners \in [Listener -> {"new", "on", "off"}]
    /\ hooks \in [Hook -> {"new", "on", "off"}]
    /\ since \in [Listener -> Nat]
    /\ heard \in [Listener -> Nat]

ThreadsOK ==
    /\ call \in [Context -> Call]
    /\ drain \in [Context -> Drain]

TypeOK == WritesOK /\ TablesOK /\ ThreadsOK /\ draining \in BOOLEAN

(* The stages in which a thread holds the right to drain. *)
Draining(t) == drain[t].at \in {"pop", "check", "snapshot", "deliver", "release"}

(* notify_listeners, "single drainer": never two calls in the drain loop   *)
(* at once, reentrant writes included, and the flag tells the truth.       *)
SingleDrainer ==
    /\ \A t, u \in Context : Draining(t) /\ Draining(u) => t = u
    /\ draining <=> \E t \in Context : Draining(t)

(* The handover at the end of a drain: whatever the interleaving of a      *)
(* writer's swap with the drainer's reset of the flag and second look at   *)
(* the queue, a queued notification always has a thread that will see it.  *)
NoStrandedNotification ==
    queue # <<>> =>
        \E t \in Context : \/ Draining(t)
                           \/ drain[t].at \in {"recheck", "reclaim"}
                           \/ call[t].at = "claim"

(* What the queue and the drainer account for: an announced write is       *)
(* delivered, overtaken, queued or in the drainer's hand.                  *)
Queued == {queue[i] : i \in DOMAIN queue}
InHand(n) == \E t \in Context : drain[t].at = "check" /\ drain[t].item = n

Accounted ==
    /\ \A n \in announced : n.seq <= delivered_seq \/ n \in Queued \/ InHand(n)
    /\ Queued \subseteq announced
    /\ \A t \in Context : drain[t].at = "check" => drain[t].item \in announced
    /\ delivered_seq # 0 => \E n \in announced : n.seq = delivered_seq

(* Once every call has returned the newest announced write has been        *)
(* delivered, and nothing newer than what was announced.                   *)
DeliveredNewest ==
    Quiescent =>
        /\ queue = <<>>
        /\ \A n \in announced : n.seq <= delivered_seq
        /\ delivered_seq # 0 => \E n \in announced : n.seq = delivered_seq

CaughtUp(l) ==
    listeners[l] = "on" =>
        \A n \in announced :
            n.seq > since[l] /\ Matches(l, n.scope) => heard[l] >= n.seq

(* Once every call has returned, a listener of the whole store has heard   *)
(* of a write at least as new as every announced write that is younger     *)
(* than its registration: dropping superseded notifications, and listeners *)
(* that come and go during a delivery, lose it nothing.                    *)
ListenersCatchUp ==
    Quiescent => \A l \in Listener : Filter[l] = Unfiltered => CaughtUp(l)

(* The same of listeners filtered on keys: each hears its own part         *)
(* (NotifyScope's comment, store.rs:12-15).                                *)
KeyListenersCatchUp == Quiescent => \A l \in Listener : CaughtUp(l)

(* A write is never undone by an older one (README.md:160, "writes are     *)
(* ordered by a per-store sequence").                                      *)
WritesInOrder == [][value_seq' >= value_seq]_vars

(* No listener is called with an older write after a newer one (README,    *)
(* "listeners never observe values rewinding").                            *)
NeverRewinds == [][\A l \in Listener : heard'[l] >= heard[l]]_vars

(* Once every call has returned, and if the newest write was announced,    *)
(* the store holds the value its listeners were told last.                 *)
StoredIsDelivered ==
    Quiescent /\ delivered_seq = write_seq =>
        \A n \in announced : n.seq = delivered_seq => n.value = value

(* Every announced write is eventually delivered or superseded, although   *)
(* the thread that announced it may leave the delivery to another.         *)
EventuallyDelivered ==
    \A s \in 1..MaxWrites :
        (\E n \in announced : n.seq = s) ~> (delivered_seq >= s /\ queue = <<>>)

(* No call is stuck: every write, subscription and drain comes to an end.  *)
CallsReturn ==
    \A t \in Context :
        (call[t].at # "idle" \/ drain[t].at # "none")
            ~> (call[t].at = "idle" /\ drain[t].at = "none")

-----------------------------------------------------------------------------
(* The threads, the queue and the drain flag implement Delivery: an        *)
(* enqueue announces, and the drainer's check delivers or supersedes.      *)
DeliverySpec == INSTANCE Delivery WITH
    told <- {n.seq : n \in announced},
    pending <- {n.seq : n \in {m \in announced : m \in Queued \/ InHand(m)}},
    last <- delivered_seq

ImplementsDelivery == DeliverySpec!FairSpec

(* Its safety part, which asks no fairness of the threads.                 *)
DeliversInOrder == DeliverySpec!Spec
=============================================================================
