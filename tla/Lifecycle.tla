----------------------------- MODULE Lifecycle -----------------------------
(***************************************************************************)
(* The mount lifecycle of one store (store.rs, lifecycle.rs): the first    *)
(* listener runs the start and mount hooks, the last one to leave runs the *)
(* cleanups the mount hooks returned and the stop hooks.  The tables are   *)
(* read and changed under the state lock, hooks and cleanups run outside.  *)
(*                                                                         *)
(* A Caller is a call in progress, on a thread of its own or made by a     *)
(* hook or a cleanup that another call is running: no lock is held then    *)
(* and nothing is kept per thread, so a reentrant call is one that happens *)
(* to run while its caller waits.                                          *)
(***************************************************************************)
EXTENDS Integers, FiniteSets

CONSTANTS
    Caller,     \* calls that may be under way at once
    Listener,   \* listener ids, never reused
    Hook,       \* hook ids, never reused
    Kind        \* what each hook was registered for: "start", "stop", "mount"

ASSUME KindAssumption == Kind \in [Hook -> {"start", "stop", "mount"}]

VARIABLES
    alive,          \* some handle of the store is left
    listeners,      \* per listener: "new", "on" (in the table) or "off"
    hooks,          \* per hook: "new", "on" (in its table) or "off"
    mount_cleanups, \* the effects whose cleanup the store keeps
    call,           \* per caller, the call it makes
    effects,        \* what mount hooks set up and no cleanup has ended
    mounts,         \* history: how often the first listener came
    unmounts,       \* history: how often the last listener left
    since,          \* history: the hook's mounts (stop: unmounts) before it came
    runs            \* history: how often each hook ran

tables == <<listeners, hooks, mount_cleanups>>
history == <<mounts, unmounts, since>>
vars == <<alive, tables, call, effects, history, runs>>

Effect == [hook : Hook, mount : Nat]   \* a mount runs a mount hook once

(* A call to add a listener ("start"), or to end something ("stop"): what  *)
(* is left to run, the listener it adds, the effects it has set up.        *)
NoCall == [at |-> "idle", start |-> {}, mount |-> {}, stop |-> {},
           cleanups |-> {}, listener |-> {}, made |-> {}, number |-> 0]

Call == [at : {"idle", "start", "stop"}, start : SUBSET Hook, mount : SUBSET Hook,
         stop : SUBSET Hook, cleanups : SUBSET Effect,
         listener : SUBSET Listener, made : SUBSET Effect, number : Nat]

Init ==
    /\ alive = TRUE
    /\ listeners = [l \in Listener |-> "new"]
    /\ hooks = [h \in Hook |-> "new"]
    /\ mount_cleanups = {}
    /\ call = [c \in Caller |-> NoCall]
    /\ effects = {}
    /\ mounts = 0
    /\ unmounts = 0
    /\ since = [h \in Hook |-> 0]
    /\ runs = [h \in Hook |-> 0]

-----------------------------------------------------------------------------
Idle(c) == call[c].at = "idle"
Registered == {l \in Listener : listeners[l] = "on"}
On(kind) == {h \in Hook : hooks[h] = "on" /\ Kind[h] = kind}
CallBecomes(c, r) == call' = [call EXCEPT ![c] = r]
Return(c) == CallBecomes(c, NoCall)
Ran(h) == runs' = [runs EXCEPT ![h] = @ + 1]

-----------------------------------------------------------------------------
(* Operators named "...Mutant" are faults a run must find, not the code.   *)

(* add_listener: the listener enters the table; the hooks to run are those *)
(* registered when the table was found empty.                              *)
AddListener(c, l) ==
    /\ Idle(c) /\ alive
    /\ listeners[l] = "new"
    /\ listeners' = [listeners EXCEPT ![l] = "on"]
    /\ IF Registered = {}
       THEN /\ mounts' = mounts + 1
            /\ CallBecomes(c, [NoCall EXCEPT !.at = "start", !.listener = {l},
                                             !.start = On("start"),
                                             !.mount = On("mount"),
                                             !.number = mounts + 1])
       ELSE UNCHANGED <<mounts, call>>
    /\ UNCHANGED <<alive, hooks, mount_cleanups, effects, unmounts, since, runs>>

(* The hooks run one by one; table order is one of the orders.             *)
RunStartHook(c) ==
    /\ call[c].at = "start"
    /\ \E h \in call[c].start :
         /\ CallBecomes(c, [call[c] EXCEPT !.start = @ \ {h}])
         /\ Ran(h)
    /\ UNCHANGED <<alive, tables, effects, history>>

RunMountHook(c) ==
    /\ call[c].at = "start" /\ call[c].start = {}
    /\ \E h \in call[c].mount :
         LET e == [hook |-> h, mount |-> call[c].number]
         IN  /\ CallBecomes(c, [call[c] EXCEPT !.mount = @ \ {h},
                                               !.made = @ \union {e}])
             /\ effects' = effects \union {e}
             /\ Ran(h)
    /\ UNCHANGED <<alive, tables, history>>

(* Fault: only the hooks still registered get their cleanup kept. *)
KeepCleanupsMutant(c) ==
    /\ call[c].at = "start" /\ call[c].start = {} /\ call[c].mount = {}
    /\ mount_cleanups' = mount_cleanups \union
                         {e \in call[c].made : hooks[e.hook] = "on"}
    /\ Return(c)
    /\ UNCHANGED <<alive, listeners, hooks, effects, history, runs>>

(* The cleanups are kept under a second lock, all at once.  The caller     *)
(* gets its Subscription only now.                                         *)
KeepCleanups(c) ==
    /\ call[c].at = "start" /\ call[c].start = {} /\ call[c].mount = {}
    /\ mount_cleanups' = mount_cleanups \union call[c].made
    /\ Return(c)
    /\ UNCHANGED <<alive, listeners, hooks, effects, history, runs>>

(* Fault: every removal is taken for the last one. *)
RemoveListenerMutant(c, l) ==
    /\ Idle(c)
    /\ listeners[l] = "on" /\ \A d \in Caller : l \notin call[d].listener
    /\ listeners' = [listeners EXCEPT ![l] = "off"]
    /\ IF alive
       THEN /\ unmounts' = unmounts + 1
            /\ mount_cleanups' = {}
            /\ CallBecomes(c, [NoCall EXCEPT !.at = "stop", !.stop = On("stop"),
                                             !.cleanups = mount_cleanups])
       ELSE UNCHANGED <<unmounts, mount_cleanups, call>>
    /\ UNCHANGED <<alive, hooks, effects, mounts, since, runs>>

(* Fault: the Subscription exists while the hooks of its mount still run. *)
RemoveListenerEarlyMutant(c, l) ==
    /\ Idle(c)
    /\ listeners[l] = "on"
    /\ listeners' = [listeners EXCEPT ![l] = "off"]
    /\ IF alive /\ Registered = {l}
       THEN /\ unmounts' = unmounts + 1
            /\ mount_cleanups' = {}
            /\ CallBecomes(c, [NoCall EXCEPT !.at = "stop", !.stop = On("stop"),
                                             !.cleanups = mount_cleanups])
       ELSE UNCHANGED <<unmounts, mount_cleanups, call>>
    /\ UNCHANGED <<alive, hooks, effects, mounts, since, runs>>

(* remove_listener, when the Subscription is dropped: the last listener    *)
(* takes the cleanups along.  Of a store that is gone nothing is left.     *)
RemoveListener(c, l) ==
    /\ Idle(c)
    /\ listeners[l] = "on" /\ \A d \in Caller : l \notin call[d].listener
    /\ listeners' = [listeners EXCEPT ![l] = "off"]
    /\ IF alive /\ Registered = {l}
       THEN /\ unmounts' = unmounts + 1
            /\ mount_cleanups' = {}
            /\ CallBecomes(c, [NoCall EXCEPT !.at = "stop", !.stop = On("stop"),
                                             !.cleanups = mount_cleanups])
       ELSE UNCHANGED <<unmounts, mount_cleanups, call>>
    /\ UNCHANGED <<alive, hooks, effects, mounts, since, runs>>

RunCleanup(c) ==
    /\ call[c].at = "stop"
    /\ \E e \in call[c].cleanups :
         /\ CallBecomes(c, [call[c] EXCEPT !.cleanups = @ \ {e}])
         /\ effects' = effects \ {e}
    /\ UNCHANGED <<alive, tables, history, runs>>

RunStopHook(c) ==
    /\ call[c].at = "stop" /\ call[c].cleanups = {}
    /\ \E h \in call[c].stop :
         /\ CallBecomes(c, [call[c] EXCEPT !.stop = @ \ {h}])
         /\ Ran(h)
    /\ UNCHANGED <<alive, tables, effects, history>>

Stopped(c) ==
    /\ call[c].at = "stop" /\ call[c].cleanups = {} /\ call[c].stop = {}
    /\ Return(c)
    /\ UNCHANGED <<alive, tables, effects, history, runs>>

(* on_start, on_stop, on_mount.                                            *)
AddHook(c, h) ==
    /\ Idle(c) /\ alive
    /\ hooks[h] = "new"
    /\ hooks' = [hooks EXCEPT ![h] = "on"]
    /\ since' = [since EXCEPT ![h] = IF Kind[h] = "stop" THEN unmounts ELSE mounts]
    /\ UNCHANGED <<alive, listeners, mount_cleanups, call, effects, mounts,
                   unmounts, runs>>

(* Fault: the removal of a mount hook ends the effects of all. *)
RemoveHookMutant(c, h) ==
    /\ Idle(c)
    /\ hooks[h] = "on"
    /\ hooks' = [hooks EXCEPT ![h] = "off"]
    /\ IF Kind[h] = "mount"
       THEN /\ mount_cleanups' = {}
            /\ CallBecomes(c, [NoCall EXCEPT !.at = "stop",
                                             !.cleanups = mount_cleanups])
       ELSE UNCHANGED <<mount_cleanups, call>>
    /\ UNCHANGED <<alive, listeners, effects, history, runs>>

(* The drop of a hook's Subscription; that of a mount hook also takes and  *)
(* runs the cleanup it has in the store.                                   *)
RemoveHook(c, h) ==
    LET active == {e \in mount_cleanups : e.hook = h}
    IN  /\ Idle(c)
        /\ hooks[h] = "on"
        /\ hooks' = [hooks EXCEPT ![h] = "off"]
        /\ IF Kind[h] = "mount"
           THEN /\ mount_cleanups' = mount_cleanups \ active
                /\ CallBecomes(c, [NoCall EXCEPT !.at = "stop", !.cleanups = active])
           ELSE UNCHANGED <<mount_cleanups, call>>
        /\ UNCHANGED <<alive, listeners, effects, history, runs>>

(* The last handle goes, which no call holds any more: the table of        *)
(* cleanups is dropped, and with it they run; stop hooks do not.           *)
DropStore(c) ==
    /\ alive
    /\ \A d \in Caller : Idle(d)
    /\ alive' = FALSE
    /\ mount_cleanups' = {}
    /\ CallBecomes(c, [NoCall EXCEPT !.at = "stop", !.cleanups = mount_cleanups])
    /\ UNCHANGED <<listeners, hooks, effects, history, runs>>

-----------------------------------------------------------------------------
Progress(c) ==
    \/ RunStartHook(c) \/ RunMountHook(c) \/ KeepCleanups(c)
    \/ RunCleanup(c) \/ RunStopHook(c) \/ Stopped(c)

Begin(c) ==
    \/ \E l \in Listener : AddListener(c, l) \/ RemoveListener(c, l)
    \/ \E h \in Hook : AddHook(c, h) \/ RemoveHook(c, h)
    \/ DropStore(c)

Quiescent == \A c \in Caller : Idle(c)
Rest == Quiescent /\ UNCHANGED vars

Next == (\E c \in Caller : Progress(c) \/ Begin(c)) \/ Rest

Spec == Init /\ [][Next]_vars

-----------------------------------------------------------------------------
TypeOK ==
    /\ alive \in BOOLEAN
    /\ listeners \in [Listener -> {"new", "on", "off"}]
    /\ hooks \in [Hook -> {"new", "on", "off"}]
    /\ mount_cleanups \in SUBSET Effect
    /\ call \in [Caller -> Call]
    /\ effects \in SUBSET Effect
    /\ mounts \in Nat /\ unmounts \in 0..mounts
    /\ since \in [Hook -> Nat]
    /\ runs \in [Hook -> Nat]

(* The cleanup of every effect that is set up is in one place, from where  *)
(* it will run: kept by the store, made by a mount under way, or about to  *)
(* be run by an unmount or a removal of the hook.  So none is lost, and    *)
(* none runs twice, however mounts, unmounts and removals overlap.         *)
InHands(c) == call[c].made \union call[c].cleanups

EffectsAccounted ==
    /\ effects = mount_cleanups \union UNION {InHands(c) : c \in Caller}
    /\ \A c \in Caller :
         /\ InHands(c) \cap mount_cleanups = {}
         /\ \A d \in Caller \ {c} : InHands(c) \cap InHands(d) = {}

(* README.md:128 "first listener attached / last removed": when every call *)
(* has returned and nobody listens, or the store is gone, no effect of a   *)
(* mount hook is left.                                                     *)
NoLeakedEffect ==
    Quiescent /\ (Registered = {} \/ ~alive) => effects = {}

(* When every call has returned and somebody listens, each mount hook that *)
(* was there before the mount has its one effect of this mount, and one    *)
(* that came later has none.  The removal of a hook ends no other's.       *)
EffectsMatchHooks ==
    Quiescent /\ alive /\ Registered # {} =>
        \A h \in On("mount") :
            {e \in effects : e.hook = h} =
                IF since[h] < mounts THEN {[hook |-> h, mount |-> mounts]} ELSE {}

(* When every call has returned, each hook has run once for every time the *)
(* first listener came (stop hooks: the last one left) since it was there: *)
(* a program that counts its starts and stops ends with the right count,   *)
(* although a stop of one thread may run after the next start of another.  *)
HooksRunOncePerMount ==
    Quiescent /\ alive =>
        /\ mounts - unmounts = IF Registered = {} THEN 0 ELSE 1
        /\ \A h \in Hook : hooks[h] = "on" =>
             runs[h] = (IF Kind[h] = "stop" THEN unmounts ELSE mounts) - since[h]
=============================================================================
