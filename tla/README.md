# nanostores.rs in TLA+

A verification development for `nanostores.rs`, a reactive store library in
Rust with a WebAssembly bridge and a TypeScript projection. TLC checks the
models on small instances; TLAPS proves the main theorems for every value of
the constants. `PROJECT.json` maps every definition to the lines it models,
lists the hazards of the code and the properties that cover them, and gives for
each property a fault of the code that the run finds.

Paths below are relative to `src/`; `core` is `crates/nanostores/src`.

## The system

| Part | State | Operations | Talks to |
| --- | --- | --- | --- |
| **Store** (`core/store.rs`) | value lock (value, write sequence), notification queue, drain flag, `delivered_seq`, state lock (listener and hook tables, next id) | `set_value`/`commit`, `mutate_in_place`, `replace_silently`, `notify_listeners`, `add_listener`, `remove_listener`, hooks | calls listeners and hooks outside its locks; they may call any store |
| **Lifecycle** (`core/store.rs`, `core/lifecycle.rs`, `core/subscription.rs`) | start, stop, mount hooks, mount cleanups, "mounted" = some listener | `on_start`, `on_stop`, `on_mount`, drop of a `Subscription` | run by the first and the last listener |
| **Computed, batched** (`core/computed.rs`) | result store, dependency subscriptions, `pending` flag; per thread: notification depth, deferred recomputes | `get`, mount, unmount, `dependency_changed`, `recompute` | listens to its dependencies while it has listeners; deferral ends with the outermost notification of the thread; batched recomputes go to the scheduler |
| **Scheduler** (`core/scheduler.rs`) | job queue, the scheduler, a flag that one was set | `schedule`, `flush`, `set_scheduler`, `set_scheduler_if_unset` | runs recomputes of batched stores |
| **Atom, AnyStore** (`core/atom.rs`, `core/any.rs`) | none of their own | forward to Store | |
| **Map** (`core/map.rs`) | a store of a struct | `set_key`, `set_field_by`, `update`, key listeners | read, modify, commit |
| **Collection** (`core/collection.rs`) | a store of an indexed map | `set_item`, `update_item`, `remove_item`, `set_order`, `set`, key and order listeners | in place, or through commit when a write hook is registered |
| **NanoMap macro** (`crates/nanostores-macros`) | compile time only | field access by name | Map |
| **Bridge** (`crates/nanostores-wasm/src/lib.rs`) | per handle: echo cell, callback locks, subscriptions; scheduler default | get/set/listen from JavaScript, echo suppression, `install_scheduler` | Store from one JavaScript thread |
| **Projection** (`packages/nanostores-wasm/src/index.ts`) | nanostores atoms, mounted flag, cached row atoms | `onMount` subscription, set, key updates | Bridge |
| **Errors, code generators** (`core/error.rs`, `generate-wrapper.mjs`, `define_stores!`) | none at run time | | |

What is hard about it, and what must be true:

- *Store.* Writers take sequence numbers under the value lock, run hooks
  outside it, store a second time, enqueue, and race for the right to drain;
  listeners run outside all locks and may write, subscribe and unsubscribe.
  At most one drainer; no queued notification left behind; the newest
  announced write reaches every listener it concerns; listeners never see an
  older write after a newer one; the store ends up with what it told.
- *Lifecycle.* Hooks run outside the state lock, so a stop may run after the
  next start: still every cleanup runs once and after its effect, none is left
  behind when nobody listens, and each hook has run once per mount.
- *Computed.* A listened store ends up equal to its function of its
  dependencies; one recompute per change of a source, from dependencies that
  are all new; no change lost between `pending`, the deferral queue and
  unmount; nothing waits for itself.
- *Scheduler.* A scheduled job runs; an application's scheduler is never
  replaced by a default.
- *Map, Collection.* Rows and order stay in step whatever overlaps; the scope of a
  write, chosen before it takes the lock, names what it then changes, so that the
  order listener hears of insertions, removals and moves, a row listener of its row.
- *Bridge, Projection.* Every change reaches a mounted projection once and as
  the hooks left it, a set of the projection itself included; callbacks may
  write the store and mount projections; no callback is entered twice.

## Modules

| Module | What it is |
| --- | --- |
| `Store` | the write path, the drain, the listener table and `subscribe` of one store |
| `Delivery` | what a store promises about delivery, with no threads, queue or flag |
| `MCStore` | the instances of `Store` TLC checks |
| `StoreProofs` | theorems about `Store` for every number of threads, listeners, writes, hooks and filters |
| `DeliveryProofs` | `Store` implements `Delivery`; what holds for programs that write in place, or whose calls follow one another |
| `Computed` | a graph of sources, computed and batched stores, the job queue, the deferred recomputes of each thread |
| `MCComputed` | the graphs TLC checks |
| `ComputedProofs` | theorems about `Computed` for every graph and every number of threads |
| `MountProofs` | the same for its mounts: who has which subscription, that one mount of a store is under way and that no subscription is lost |
| `LiveProofs` | what `Computed` promises to programs and graphs that keep to what the code relies on |
| `Lifecycle` | listeners coming and going with the start, stop and mount hooks and the cleanups of one store |
| `MCLifecycle` | its instance |
| `LifecycleProofs` | theorems about `Lifecycle` for every number of calls, listeners and hooks: effects and cleanups, runs of hooks |
| `Collection` | the writes of a collection or a map by several threads, in place and by copy |
| `MCCollection` | its instance |
| `CollectionProofs` | theorems about `Collection` for every number of threads, keys and writes |
| `Bridge` | one store, its handles and projections on the one thread of a page |
| `MCBridge` | its instances |
| `BridgeProofs` | theorems about `Bridge` for every set of projections, fields and hooks |

`Store` is the one model of delivery: `Collection` and `Bridge` take from it
what `StoreProofs` shows, and only keep what their own question needs.

### Store and the code

| Code | Model |
| --- | --- |
| `StoreInner.value` lock, `write_seq` | `value`, `write_seq`; `value_seq` records which write the value comes from |
| `notify_queue`, `draining`, `delivered_seq` | `queue`, `draining`, `delivered_seq` |
| `State.listeners`, ids never reused | `listeners[l]` in "new", "on", "off"; `Filter[l]` are its keys |
| `set_hooks`, `notify_hooks` | `hooks`; what all of one kind together may make of a value is `OnSet`, `OnNotify` (another value or `Aborted`) |
| a thread's place in `commit`, `mutate_in_place`, `add_listener` | `call[t]`, where a context `t` is a thread and a level: level 0 calls from outside or from a listener, level n + 1 from a hook or a first call that level n runs |
| a thread's place in the loop of `notify_listeners` | `drain[t]` |

Each critical section and each atomic operation is one action: `Commit` (look
whether set hooks are to run), `SetHooks`, `Write` (compare, store, take the
number), `FindNotifyHooks` (their snapshot), `NotifyHooks`, `WriteBack` (the second
store), `Enqueue`, `Claim` (the swap of the flag), `Pop`, `Check` (drop or take
`delivered_seq`), `Snapshot`, `Deliver` (one listener), `Delivered`, `Release`,
`Recheck`, `Reclaim`; `MutateInPlace` and `Mutate` for the in-place path;
`AddListener`, `Get`, `InvokeListener`, `Subscribed` for `listen` and `subscribe`.

Reentrancy. All user code runs with no lock held, and may call the store. A drain at
"deliver" is inside a listener, which may start any call (`MayCall`) that ends before
the drain goes on; on the level of its own a write finds the flag set and only
enqueues. The same holds for the recomputes flushed when the notification guard is
dropped (a stage of `Delivered`): they are calls on *other* stores, and what they do
to this one is a reentrant call. A set hook, a notify hook (between the two stores
of `commit`) and a subscriber in its first call run in the middle of a call that no
flag protects: what they call is a call one level deeper, which may write, drain and
subscribe, and the outer call waits for it (`Runs`, `Entered`). `Reentrant` says which
of the three do so in an instance, `MaxDepth` how deep it goes; the theorems hold for
every value of both.

`value_seq`, `announced`, `since` and `heard` are history: no guard reads them.
The one exception is the bound.

What the model leaves out: listeners that panic, and the start, stop and mount hooks
(Lifecycle). The hooks of one kind are taken together: they run, call the store as often
as they like, and end in one of the outcomes.
`RemoveListener` waits for the `subscribe` of that listener to return, as a
caller has no `Subscription` to drop before.

### Computed and the code

| Code | Model |
| --- | --- |
| the result store of a `Computed` and every source | one `Node` each: `val`, `write_seq`, `delivered_seq`, `queue`, `draining` as in `Store` |
| a computed value | the versions of the sources it was made from; `compute` merges the values it reads, so a value made of an old and a new version of a source can be told from a consistent one |
| `State.listeners`, `next_id` | `listeners[x]`: ids with their owner, a derived store or the program (`User`) |
| `dep_subscriptions`, `pending` | `dep_subs[c]`: empty or one id per dependency; `pending[c]` |
| `DEFERRED_RECOMPUTES` | `deferred[t]` |
| `NOTIFICATION_DEPTH` | the frames of `stack[t]` that are delivering (`Notifies`); the top one is the outermost when no other is (`Outermost`) |
| `QUEUE` and the guard `flush` holds on it | `jobs`, `job_lock` |
| the native call stack of a thread | `stack[t]`, the top first: a set notifies, a listener recomputes or schedules, a recompute gets other stores and sets its own, a listen mounts, a mount listens |
| the `Subscription`s the program holds | `held` |

One action is one critical section or one call or return: `Set`, `Write`,
`WriteBack`, `Enqueue`, `Drain`, `CallUser`, `UserReturns`, `DependencyChanged`,
`GuardDropped` and `FlushDeferred` for a notification; `Schedule`, `Flush`,
`FlushJobs`, `JobDone` for the queue of jobs; `Job`, `Look`, `ReadDependency`, `Get`,
`Load`, `ReplaceSilently` for a recompute and a `get`; `Watch`, `Unwatch`, `Mount`,
`ListenTo`, `KeepSubscriptions`, `Unmount`, `DropSubscription`, `Unsubscribed` for
listening.

Three pairs of `Store`'s steps are taken at once here: enqueue and claim, pop and
snapshot, finding the queue empty and letting go of the flag. What could go wrong
between them is the subject of `Store`: there is one drainer and no stranded
notification, whatever the interleaving (`DrainExclusion`, `NothingStranded`).
The sources have no write hooks.

Left out: a store whose last handle is dropped while a job holds a weak reference to
it; the immediate call of `subscribe` (in `Store`).

The vector that `KeepSubscriptions` replaces is always empty, as `MountsAlone`
shows and `MountProofs` proves: the frame at "discard" is in the model because the
code has the drop, and is never reached.

### Lifecycle and the code

| Code | Model |
| --- | --- |
| `State.listeners`, the three hook tables | `listeners`, `hooks` with `Kind`: "new", "on" (in the table), "off"; ids are never reused |
| `mount_cleanups` | the set of effects (hook, number of the mount) whose cleanup is kept |
| a call in progress of `add_listener`, `remove_listener`, the drop of a hook's `Subscription` | `call[c]`: the hooks and cleanups it still has to run, the effects it has made |
| what user code has set up in a mount hook and not yet ended | `effects` |
| `Weak::upgrade` of the `Subscription`s | `alive` |

`AddListener` and `RemoveListener` are the critical sections; `RunStartHook`,
`RunMountHook`, `RunCleanup`, `RunStopHook` run one hook or cleanup each, outside
the lock, in any order; `KeepCleanups` is the second critical section of a mount;
`AddHook`, `RemoveHook` and `DropStore` are registration, removal and the end of
the last handle. Hooks and cleanups may call back into the store: a call
keeps nothing per thread and holds no lock then, so a reentrant call is another
`Caller` that runs while its caller waits. A listener is removed only after its
`add_listener` has returned: the caller has no `Subscription` before. That is
what keeps a mount's cleanups from being kept after its unmount, and the
fault `RemoveListenerEarlyMutant` shows it. `mounts`, `unmounts`, `since` and
`runs` are history.

### Collection and the code

| Code | Model |
| --- | --- |
| `Collection.items`, `Collection.order`; the fields of a map | `value.items`, `value.order` (a map has all its items and no order) |
| whether a set or notify hook is registered | `hook` |
| a thread's place in a write | `call[t]`: "choose" (before the look for hooks), "mutate" (in place), "copy", "write" and "write_back" (the two stores of commit) |
| scope of a write, fixed before it | `call[t].scope` |

`Begin` takes the scope (`set_item` looks whether the key is new), `Choose` is the
look for hooks of `mutate_in_place`, `Mutate` the closure under the value lock,
`Copy` the read and the closure on the copy, `StoreCopy` the compare and the first
store of `commit`, which a set hook may refuse, `WriteBack` its second store, which
follows whatever was written meanwhile unless a notify hook aborts. The model says
under which scope a write is announced, not who hears of it: that is delivery, which
is `Store`'s with keyed listeners and scopes (`KeyListenersCatchUp`). `misfiled` and
`tidy` are history: whether an order was set that is not one of the rows (`set_order` does
not look), and whether all writes so far were made in place with no hook registered, each
row inserted and removed by its owner only. Hooks that alter a value are in `Store` and `Bridge`.

### Bridge and the code

| Code | Model |
| --- | --- |
| the Rust store's value, queue and drain flag | `value`, `queue`, `draining`, `item`, `todo` |
| the JavaScript call stack | `stack`, the callbacks under way; `base`, how many waited when the drain began |
| `mounted` and the `SubscriptionHandle` of a projection | `mounted` |
| the nanostores value of a projection | `shown` |
| `EchoCell` | `echo`: what the object JS set last parsed to |
| the `Mutex` of a callback | a callback is on the stack at most once (`NoReentrantCallback`) |

`RustWrite` is Rust code that JavaScript called; `Set` is `projection.set` or
`setKey` down to the handle; the store's set hooks are `Passed`. `Pop`, `Call`,
`Return` and `Drained` are the drain, from the callback's entry to its return; a
callback may write (`Set`, `RustWrite`) and mount projections (`Mount`). `Unmount` of a
projection is at rest only, as JS nanostores tells a store from a timer that its last
listener left. A callback on a list is unsubscribed with its `SubscriptionHandle`, by any
JavaScript that has it: not before the first call has returned (`FirstCall`), but from
its own callback or another one in the middle of a drain, whose snapshot still calls it.
Subscribing again makes a callback with a lock of its own, so one that is still called
under an old lock is another member of `Lists`. A projection that is not mounted reads the store
when its own set returns (`ReadBack`), after the drain that set started
(`after`). An atom is a map that is set whole only. JS nanostores is external: all that
is assumed of it is that `set` keeps the value and calls listeners, who may do
anything. `owed` and `behind` are history.

Left out: values that cannot be serialized; objects that JavaScript changes after
handing them over; the order in which JS nanostores calls its own listeners.

## Runs

| Run | Instance | What it shows |
| --- | --- | --- |
| `store_writes` | 2 threads, 2 values, 3 writes, both write paths, a notify hook that leaves, replaces or aborts, comes and goes and calls its store, a listener that comes and goes | one drainer, nothing stranded, the newest announced write delivered, no listener missed or taken back, all of it in the order `Delivery` promises |
| `store_delivery` | 2 threads, 2 values, 2 in-place writes of the whole scope, a whole and a key listener, fairness | `Store` implements `Delivery`; every announced write is settled, every call returns; the store holds what it delivered last |
| `store_alone` | 1 thread, 2 values, 3 writes of both kinds under the scopes of an insertion and of an update, a set hook and first calls that call the store, a whole and an order listener that subscribe or listen | the stored value is the delivered one, no write undoes a newer one, and each listener ends up told of the newest write that concerns its keys |
| `store_write_back` | 2 threads, 2 `set`s, no hook | **violated** `WritesInOrder` |
| `computed_alone` | 1 thread, a source, the diamond of `crates/nanostores/tests/core.rs:271`, a batched store over it, a scheduler the program flushes; 2 sets, 2 listeners, gets; fairness | no value mixes two versions of the source, a store is subscribed exactly while it is listened to, every listened store is fresh at rest, every nested call ends |
| `computed_shared` | 2 threads, one source written in place, a diamond; 3 sets, from inside listeners too; 2 listeners that come and go while no other call runs | every listened store is fresh at rest |
| `computed_threads` | 2 threads, 2 sources, a computed store, two batched ones (one over the computed one), the default scheduler; 2 sets and 2 listeners of the batched stores at any time | a set `pending` flag has its recompute, no deferred recompute is left, no two mounts of a store subscribe it at once, the listeners are those of the subscriptions still kept, at most one job runs at a time |
| `computed_mount` | 2 threads, a source and two computed stores in a chain, 1 set, 2 listeners | **violated** `LiveWhileMounted` |
| `lifecycle` | 2 calls at a time, 3 listeners, a start, a stop and 2 mount hooks that come and go, the store may end | every effect has its cleanup in one place, none outlives the last listener, hooks that stay have their one effect and have run once per mount |
| `collection` | 2 threads that write the same 2 rows (fields), 2 items, 4 writes of every kind, in place and by copy, a write hook that comes and goes | rows and order agree whatever overlaps; a map keeps its fields; while the threads write in place and insert and remove each its own row, the scope chosen before a write names what it changes |
| `bridge` | two projections of a map, one writable, or a row, the order and a list callback of a collection; 2 fields, 2 values, 4 writes, 3 mounts; hooks keep to the written fields | projections mirror the store, changes arrive once, no callback is entered twice |
| `bridge_map` | the two projections of a map and a set hook that changes another field; 3 writes | **violated** `Mirrors` |

Bounds. Two threads are a drainer and a writer, or a drainer leaving and one
arriving: the races over the flag and the queue are between two. A third write
puts an old item, a new item and one written meanwhile into one execution,
which is what the drop of superseded items is about; with three the queue
holds several items out of order. Two values and an aborting hook let a write be
equal to the stored value, be replaced, or never be announced. `MaxDepth = 1` lets a hook
or a first call write, drain and subscribe while the outer call waits; what it calls from
there meets the same code one level up, and a second level would only nest the same
writes again. The proofs remove the bounds, that one included, from the safety
properties. `ThreadSymmetry` is used only where no liveness is
checked.

For `Computed` the diamond is the smallest graph with two paths from a source to a
store, a store over it puts a third level of notification inside the flush of the
second, and a batched store over a computed one sends a job through both
queues. Two sets are one change in flight and one that meets it; two listeners mount a
store, keep it mounted and unmount it while another one is attached. In
`computed_shared` three sets let a listener set the source during the drain the
other thread's set waits behind. Each run fixes what would break its property for a known
reason: in `computed_shared` sources are written in place (or finding 1 shows
through) and listeners are attached and detached alone (or finding 2 does), one
source is shared (two threads that set two sources of one store recompute it concurrently
and may store the older result last: the slower of two recomputes wins), and the paths of
a diamond are equally long (the deferral is first in, first out, and recomputes a store at
the end of a short and a long path twice, first from mixed values). `computed_threads` has
none of these restrictions but on the graph: no batched store over a batched one, where
the default scheduler locks itself out (known divergences).

For `Lifecycle` three listeners allow a mount, an unmount and another mount while
the hooks of the first are still running on another call, which is as far as two
calls can overlap; two mount hooks let one go while the other's effect must stay.
For `Collection` two threads are a look and what makes it stale, or a commit
and what comes between its two stores. Four writes fill a collection, sort it or take
a row out, and let two more meet. Both threads insert and remove every row, in place and
by copy; `ChangesInScope` speaks of the part of these behaviours in which they still do so
in place and each to its own row (`tidy`), because beyond it the code breaks it (known
divergences). For `Bridge` four writes are one that starts a drain, one from the callback
of another projection, one queued behind them and one after all; three mounts let a
projection be mounted again in a callback. `bridge` leaves out what is known to break its
properties (finding 3, known divergences): it has no hook that strays and no list callback
that writes while it is called for the first time.

Deadlock is checked in every run: `Rest` lets the program leave the
store alone only when every call has returned.

Fairness (`Store!Fairness`). Every thread that is inside a call keeps running
(weak fairness of `Progress`): the operating system schedules it, and each
blocking lock is held for one bounded critical section only. Strong fairness of
`Deliver(t) \/ Delivered(t)` says that a listener returns: it may call back into
the store, but not for ever. Starting a call is never fair. That no write hook calls its
own store for ever is not assumed: the liveness properties are checked for a program
without write hooks (`store_delivery`). `Computed!Fairness` is the
same: weak fairness of each thread's `Progress`, strong fairness of `UserReturns`.
`Lifecycle`, `Collection` and `Bridge` state no fairness: their properties at rest say
what has happened when it is over, and deadlock checking that a call can always go on.

## What the runs found

1. `store_write_back`. `commit` stores the value a second time after the notify
   hooks (`core/store.rs:327-332`) whether or not a hook changed it, and does not
   look at its sequence number. A writer overtaken between its two stores puts
   its value back over a newer write. Its own notification is then dropped as
   superseded, so the store keeps one value and its listeners another
   (`StoredIsDelivered` fails in the same instance). A notify hook that sets its own
   store does the same on one thread, as it runs between the two stores with no lock
   held (one thread, `Commits`, `NotifyHookOnly`, `Reentrant <- NotifyHooksCall`,
   `MaxDepth = 1`, 2 writes). A *set* hook that does so is harmless (`store_alone`).
2. `computed_mount`. The last listener of a computed store is removed by one
   thread; before that thread's stop hook takes `dep_subscriptions`
   (`core/computed.rs:260`) another thread adds a listener. Its mount finds the old
   subscriptions and returns (`core/computed.rs:235-243`); the unmount then drops
   them. The store has a listener, no subscription, and follows nothing any
   more, although README.md:102 calls it "eager while mounted".
3. `bridge_map`. A notification under one key carries the whole value, and a
   map's projection takes over that one field (`index.ts:141-148`, `248-254`). A set
   hook that, say, normalises a second field when one is set leaves every mounted
   projection with the old second field until something writes it, although
   README.md:64-65 promises that the transformed value returns to JS. Unmounted
   projections read the whole store back and are right.

### Known divergences without a run of their own

Each of the first six was seen as a counterexample of the instance described with it.

- *An announcement is lost to the listeners of other keys.* The drop of superseded items
  ignores scopes (`core/store.rs:406-409`), so an insertion announced for `{row, ORDER}` that
  is enqueued after a younger update of `{row}` is dropped, and the order listener never
  hears of it, although `core/store.rs:12-13` and `core/collection.rs:129-130` say it does.
  Whole-store listeners lose nothing (`ListenersCatchUp`, proved). To see it: `Store` with
  two threads, `InPlace`, the scopes `InsertAndUpdate`, the filters `TwoFilters`, 2 writes,
  `KeyListenersCatchUp`.
- *`subscribe` rewinds.* Its immediate call is not ordered with the drain
  (`core/store.rs:216-219`): a listener that sets the store twice and then subscribes another
  one makes that one hear the second value, the first, and the second again; README.md:163
  says listeners never see values rewind. To see it: `Store` with one thread,
  `SubscribesAlone`, two listeners of the whole store, 3 writes, `NeverRewinds`.
- *`get` overwrites a mount.* `get` of an unmounted computed store looks once
  (`core/computed.rs:204`), computes, and stores silently (`208`); if another thread mounts
  the store and the source changes in between, the older result stays in a store that is
  listened to. To see it: `Computed` with two threads, one source, one store, the operations
  set, watch and get, one set, one watch, `LiveWhileMounted`.
- *The default scheduler locks itself out.* `flush` holds the guard of `QUEUE` to the end of
  the `while let` body (`core/scheduler.rs:53`), so a job that changes a store another
  batched store is computed from schedules that one and locks `QUEUE` again on its own
  thread, for good, although README.md:152 says that with the default scheduler a batched
  store behaves like a computed one. To see it: `Computed` with one thread, `Chain` with both
  stores batched, one set, one watch, `NoSelfDeadlock`; or `ComputedThreads.cfg` with
  `Nested = TRUE`, where a listener that a job calls sets a source of another batched store.
- *An insertion under the row's key only.* `set_item` looks whether the key is new before it
  inserts (`core/collection.rs:133`); if another thread removes the row in between, the
  insertion does not name the order, although `core/collection.rs:129-130` says otherwise. To
  see it: `Collection.cfg` with an `Owner` that gives both threads both rows.
- *A first call that writes.* A list callback of a collection that writes the store when it
  is first called is entered again by the drain it starts, while its lock is held
  (`nanostores-wasm/src/lib.rs:172-178`, `635-643`), although README.md:149-150 calls a set
  from a listener legal. To see it: `Bridge.cfg` with `Reentrant = TRUE`,
  `NoReentrantCallback`.
- Writes by copy that overlap undo each other (`core/map.rs:58-85`,
  `core/collection.rs:153-158`): a change of one field undoes one of another. Nothing in the
  repository promises otherwise. An order set for rows that have changed meanwhile leaves a
  row unlisted or lists one that is gone: `RowsAndOrderAgree` without `~misfiled`.
- README.md:256-257 says that an aborted write lands in `console.error`; README.md:62 and the
  code (`set` returns `Ok`) say it is silent.

## What is proved

Each theorem holds for every value of the constants that satisfies the named
assumptions of the model. Where a theorem assumes more, the code breaks the property
without it, and TLC shows how (see above).

**`StoreProofs`**, for every `Thread`, `Value`, `Listener`, `Filter`, `Scope`, hook
outcome and `MaxWrites`:

| Theorem | Statement |
| --- | --- |
| `TypeCorrect` | `Spec => []TypeOK` |
| `DrainExclusion` | `Spec => []SingleDrainer` |
| `NothingStranded` | `Spec => []NoStrandedNotification` |
| `NewestDelivered` | `Spec => []DeliveredNewest` |
| `NothingMissed` | `Spec => []ListenersCatchUp`, in programs that attach listeners with `listen` |
| `NoRewind` | `Spec => NeverRewinds`, in such programs |

The argument. `SingleDrainer` is inductive with the type invariant: the flag is
up exactly when some thread is in the loop, and both ways into the loop test it.
`NoStrandedNotification` is inductive on top of it: a thread that leaves a
non-empty queue still has its second look ahead, and a writer that finds the
flag up finds a thread in the loop. `DeliveredNewest` rests on `Accounted`: an
announced write is delivered, overtaken, queued, or in the hand of a thread at
the check. For the listeners the inductive invariant `ListenInv` adds, for each
listener of the whole store, that it has heard of `delivered_seq`, or that the
drainer has not yet taken its snapshot, or that the listener is in the
snapshot's `todo`, or that it is younger than that write; and that `heard` never exceeds
`delivered_seq`. `subscribe` breaks the second half, which is why
`ListenOnly` is assumed there.

**`DeliveryProofs`**, for the same constants:

| Theorem | Statement | Assumes |
| --- | --- | --- |
| `DeliveryImplemented` | `Spec => DeliversInOrder`: `Store` implements `Delivery`, its safety part | |
| `StoredDelivered` | `Spec => []StoredIsDelivered` | `WritesAlone`: in-place writes only, or `InTurn`: one thread, whose notify hooks leave their own store alone |
| `NoWriteUndone` | `Spec => WritesInOrder` | `WritesAlone` |
| `KeysCaughtUp` | `Spec => []KeyListenersCatchUp` | `ListenOnly`, and `Concerned`: each listener's keys match every scope the program writes, or `InTurn` |

The argument. `CallMoves` describes a step of a call completely: what it does to the
sequence numbers, the queue and the announcements. The refinement maps `told` to
the writes announced, `last` to `delivered_seq`, and `pending` to the announced
writes that are queued or in a drainer's hand before its check. An enqueue is then an
announcement, which needs numbers to be unique (`Numbered`): each is taken
under the value lock and is above all that were taken before. The check delivers
or supersedes, which takes the write out of `pending` only if each waiting write is in
one place once (`Once`). `Bounded` keeps
the count of writes under the bound together with the numbers that calls under way have
reserved. For `StoredDelivered` the store holds the newest write always
(`NewestStored`): with in-place writes because a mutation is stored and numbered under one
lock; with `InTurn` because no write is stored between the two stores of another: what a
set hook calls is over before the first of them, what a listener or a subscriber calls
comes after the second, and the notify hooks, which run in between, call nothing. That a
level is in a call only while the level below waits in such user code is
the invariant `Nested`, and that every other context is then idle or waits in a set hook
or a first call the lemma `Alone`. Without either assumption the code breaks both
(finding 1).
`KeysCaughtUp` follows a listener through the queue (`KeysHeard`): items are in
order of their numbers when calls follow one another (`InOrder`), so none that
concerns it is dropped; with several, a dropped item is older than one delivered
before it, and that one concerns the listener too.

**`ComputedProofs`**, for every `Thread`, `Source`, `Derived`, `Deps` (cycles included),
`Batched`, scheduler and bound:

| Theorem | Statement |
| --- | --- |
| `TypeCorrect` | `Spec => [](TypeOK /\ FramesWalk)`: the types, and no frame has read, subscribed or has left to drop more than its store has dependencies |
| `DeferredRun` | `Spec => []DeferredRuns` |
| `NeverFrozen` | `Spec => []NoFrozenStore` |

The argument. Most of the work is the type invariant: the frames on the stacks are
indices into lists of dependencies, so `TypeInv` says of each frame that it has
read no more dependencies, and holds no more subscriptions, than its store
has (`Walking`). `StepKeeps` and `StartKeeps` then say once, for any
set of frames, that a step changes the top of its own stack only. `DeferredRuns`
follows from `Flushing`: as long as the thread's queue is not empty some
frame is notifying or flushing, and `GuardDropped` turns the last notifying
frame into the flush. `NoFrozenStore` is inductive with the types: a recompute moves from
`deferred` or `jobs` to a frame and clears the flag there, never before.

**`MountProofs`**, for the same constants:

| Theorem | Statement |
| --- | --- |
| `MountedAlone` | `Spec => []MountsAlone` |
| `KeptForEver` | `Spec => []SubscriptionsKept` |

The argument. `mount` looks under a lock whether the store has subscriptions, subscribes
to the dependencies one by one with the lock released, and locks again to keep what it
got (`core/computed.rs:234-256`). What makes this safe is not a lock but
ownership. The listener whose coming started the mount cannot leave while the mount runs,
because its `Subscription` has not been returned to anybody. The invariant says
so for every stack, whose frames are numbered from the bottom so that they keep their
places. A frame *owns* the listeners it has added and not yet handed on (`Owns`). A listener
is *released* once the program holds its `Subscription`, a mounted store keeps it, or an
unmount has it to drop; only released listeners are removed. Ids are given out
once (`Numbered`), an owned one has one place (`OneOwner`) and is not released
(`OwnedNotReleased`). A mount is called by the frame that owns a listener of the store
(`Supported`), so the store stays mounted, no other listener is its first, and no second
mount begins (`OneMount`). Nobody else can then fill what the mount found empty
(`Unsubscribes`). A mount that subscribes may mount a dependency, and so on up the stack, in
a cycle too; a dependency listed twice is subscribed to twice. The invariant was checked
by TLC on such graphs before it was proved.

`SubscriptionsKept` asks where each single `Subscription` is. It is made inside `listen`,
which returns it to a mount or to the program; the mount keeps it until all its
dependencies are subscribed to and then hands the vector to the store; the stop hook takes the
vector and drops it one by one (`core/computed.rs:236-264`). Each hand-over is a step of
its own, under its own lock or none. The invariant `PlaceInv` gives every `Subscription` a
place, `Own(a, h, j, x, k)`: frame `h` of thread `a`, or store or program `a` (`h = 0`), has the
one to its dependency `j`, listener `k` of store `x`. No `Subscription` has two
places (`OnePlace`), one that has a place has its listener in the table (`Listed`), and a listener
in the table has a place (`Placed`). Ids are never used again (`Counted`). A step moves
what one place has to another (`MovedPlaces`), adds one (`AddedPlace`), takes one away
(`RemovedPlace`) or none of these (`StillPlaces`). When no call is under way the only places left are
those that `SubscriptionsKept` names.

**`LiveProofs`**, for the same constants:

| Theorem | Statement | Assumes |
| --- | --- | --- |
| `NeverSelfDeadlocked` | `Spec => []NoSelfDeadlock` | `Apart(D)` for some `D`: all that is computed from a batched store, directly or through others, is in `D`, and nothing in `D` is batched; `~Nested`: listeners make no calls |
| `SubscribedForEver` | `Spec => []SubscribedWhileMounted` | `AttachesAlone`: there is one thread, or listeners are attached and detached only while no other thread is in a call (`Exclusive`) |
| `LiveForOne` | `Spec => []LiveWhileMounted` | `SingleThread`: there is one thread |

The argument for `NeverSelfDeadlocked`. A thread locks the queue in `schedule` and `flush`, and holds it while
a job runs. So nothing that runs above a job may come to either. What can be above it
(`LockInv`): the job's store and what is computed from it recompute, write and
notify, and read other stores; as stores of `D` are not batched, none is scheduled. A
recompute that is deferred meanwhile may be of any store, though: it runs when the
outermost notification of the thread ends. If the job was called from a notification
(`schedule` under `deliver`) that one lies below the job and no flush happens above it;
if it was called from outside (`h = 1`) the thread's deferred recomputes are of `D` only.
Without `Apart` the code deadlocks, and without `~Nested` too (known divergences). No run
checks the property: the graphs in which it could fail are those in which it does.

The argument for `SubscribedForEver`. Between the first listener and the mount's last
step a store is mounted without subscriptions, and between the last listener's end and the unmount's
first step it has them unmounted. The invariant (`AloneInv`) says that
the call which is to put this right is under way: a `mount` or `listen` frame in the first
case, an `unmount` in the second (`Subscribed`). A mount cannot lose its store (`Supported` of
`MountProofs`); an unmount could find it mounted again if another call came between. On its
own thread none can, as the unmount is called last and runs next (`UnmountsLast`); on another thread
none can if a thread that attaches or detaches is the only one in a call (`OneAttacher`).
Each mount lies above a call of `listen` (`FromWatch`), which is how `Exclusive` keeps the others out of
it. Without `AttachesAlone` an unmount takes the subscriptions of the mount that came
between (finding 2).

The argument for `LiveForOne`. The invariant (`LiveInv`) follows a change from its write to
the recompute. A store with subscriptions is up to date or *told*
(`Caught`, `Coming`): a write of a dependency is still to be enqueued, waits in its queue, is being
delivered and the store's listener is still to be called, or the recompute is scheduled, deferred or
under way. Each of these hands on to the next:

- what is enqueued is newer than all that was delivered, because a write is announced before
  the thread makes another one (`Announces`), so the queue is in order and nothing in
  it is dropped as superseded (`InOrder`); a queue that is not empty is being drained (`Drained`);
- the delivery's snapshot of the listeners has the store's own, because `PlaceInv` says that what it
  keeps in `dep_subscriptions` is in the table (`DepsListened`);
- a store that is told has its `pending` flag set and so a recompute on its way, which
  `Unfrozen` of `ComputedProofs` keeps;
- a recompute of a store with subscriptions stores what its dependencies hold *when it writes*: while
  it reads, nothing but `get` runs above it (`GetsOnly`), its dependencies are mounted, so
  `get` loads them, and what it has read so far is what they still hold (`Current`, `Prefix`). A
  `get` that computes stores the value of a store nobody listens to (`Computes`).

A mount begins with a recompute of its own (`OnMounts`), and `AloneInv` and `MountInv` say that a mounted store
at rest has subscriptions. The graph may be anything: a cycle that goes on setting itself
never comes to rest. The assumption is what wasm gives: JavaScript calls from one thread.
With two threads `Current` fails, and so does the property: a source is set between the read
of a recompute (or of a `get` that computes) and its write, and if the other thread's recompute comes in between,
the older result is kept. What holds with two threads that set one source
in place is checked by `computed_shared`.

**`LifecycleProofs`**, for every `Caller`, `Listener`, `Hook` and `Kind`:

| Theorem | Statement |
| --- | --- |
| `TypeCorrect` | `Spec => []TypeOK` |
| `EffectsAccountedCorrect` | `Spec => []EffectsAccounted` |
| `NoLeakedEffectCorrect` | `Spec => []NoLeakedEffect` |
| `HooksRunOnce` | `Spec => []HooksRunOncePerMount` |
| `EffectsMatch` | `Spec => []EffectsMatchHooks` |

The argument. That an effect has one cleanup is nearly inductive: what is missing
is that a mount hook never makes an effect that is there already. So each mount has
its own number, at most one call runs the hooks of a mount, and it has not yet
run those it still has to run (`Numbered`). `NoLeakedEffect` needs more: when nobody listens
no cleanup may be kept, nor come to be kept later. A mount whose hooks are running
has its listener in the table, because no `Subscription` exists to remove it with:
so the table is empty only after a removal that took all cleanups, and no mount
is under way then (`Staged`, `Held`).

`HooksRunOncePerMount` speaks of rest, when all calls have returned; its invariant
speaks of every state: the runs of a hook and the calls that have it still to run add up to
the mounts (or unmounts) since it came (`CountedRuns`). Calls are counted as a set, so
each hook is in one call's list at most once per mount. `EffectsMatch` adds that one
mount at a time is current, that the cleanups kept are of its number, and that
a hook that stays has its effect or is still in the list of the mount
(`Matching`).

**`CollectionProofs`**, for every `Thread`, `Key`, `Item`, `Owner`, `Contents` and bound:

| Theorem | Statement | Assumes |
| --- | --- | --- |
| `TypeCorrect` | `Spec => []TypeOK` | |
| `RowsInStep` | `Spec => []RowsAndOrderAgree` | `FiledContents`: whole collections the program sets are in order themselves |
| `ScopesCover` | `Spec => ChangesInScope` | `OwnRows`: no row has two owners; the property itself speaks of programs while they are `tidy` |

The argument. The lemmas say what an insertion, a removal and an update make of a value.
That `Vec::retain` neither drops, repeats nor adds another key (`WithoutKeeps`) is a
counting argument: among the places that stay each has its rank, and every rank is taken.
An order that agrees with the rows is one that lists them and repeats none
(`FiledDistinct`), which each operation keeps. `RowsAndOrderAgree` is then inductive together
with the copies in flight, which must agree too (`CopiesFiled`): a stale copy may undo other
writes but is in order itself, at the first store and at the second. `ScopesCover` needs
that the look which fixed the scope of a `set_item` still holds when it writes: a row that
was there is there still, because no other thread removes it, and one that was not names the
order in its scope (`ScopeInv`). It says what a write is announced under; that an announced
write reaches those it concerns is `KeysCaughtUp`, with its own assumptions, and fails
with two threads that write under different scopes (known divergences).

**`BridgeProofs`**, for every `Projection`, `View`, `Field`, `Val` and hook:

| Theorem | Statement | Assumes |
| --- | --- | --- |
| `TypeCorrect` | `Spec => []TypeOK` | |
| `ProjectionsMirror` | `Spec => []Mirrors` | `~Stray`: hooks change only fields that are being written |
| `EachAppliedOnce` | `Spec => []AppliedOnce` | |
| `CallbacksNotReentered` | `Spec => []NoReentrantCallback` | `~Reentrant`: no list callback writes while it is called for the first time |

The argument. `Mirrors` speaks of rest. In between (`Current`) each field of a mounted projection
shows the store, or a waiting notification names it, or the projection is still to be
called with the one in hand; and the *last* queued notification that names a field
carries the store's value of it. `AppliedOnce` counts: what a
projection is owed is the number of its calls in the queue and in hand (`Accounted`).
For `NoReentrantCallback` (`Nested`): the drain started from the top level, and every
callback under way is of a projection of its own; only a write inside a first
call could start the drain from within one. For `TypeCorrect`: those still to be called are
projections of the store there is, and mounted unless they are list callbacks, which may have
been unsubscribed since the snapshot (`Leavers`).

Two things stay with TLC.

- Liveness under fairness: `EventuallyDelivered`, `CallsReturn`, the fairness part of
  `ImplementsDelivery`. TLAPS proves no such thing here.
- Of `Computed`, what the code keeps for some graphs and breaks for others (see the bounds):
  `OnlyConsistentValues`, and `LiveWhileMounted` with more than one thread. Their runs
  fix the graph.

## Plan

All parts of the system that keep state at run time have a model, and each model its
theorems.

## Not modelled

- A listener, hook or cleanup that panics: unwinding leaves the drain flag set and
  poisons locks held below it, which is Rust's business more than the store's.
- Closures that own a `Subscription` of their own store: dropped under the state lock
  (`core/store.rs:248`), they lock it again. The models keep no owners.
- `set_scheduler` and `set_scheduler_if_unset` (`core/scheduler.rs:26-42`): called when the
  program starts; two native threads that set different schedulers at once may
  get either.
- `define_stores!`, `export_stores!`, the export object, the wrapper generator and the
  text the derive macro produces: no state at run time.
- Error types, timing warnings, and the conversion of values to and from JavaScript, which the
  bridge delegates to serde.
