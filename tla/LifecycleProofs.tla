-------------------------- MODULE LifecycleProofs --------------------------
(***************************************************************************)
(* Proofs about Lifecycle, for any number of callers, listeners and hooks. *)
(***************************************************************************)
EXTENDS Lifecycle, FiniteSetTheorems, TLAPS

Types ==
    /\ alive \in BOOLEAN
    /\ listeners \in [Listener -> {"new", "on", "off"}]
    /\ hooks \in [Hook -> {"new", "on", "off"}]
    /\ mount_cleanups \in SUBSET Effect
    /\ call \in [Caller -> Call]
    /\ effects \in SUBSET Effect
    /\ mounts \in Nat /\ unmounts \in Nat
    /\ since \in [Hook -> Nat]
    /\ runs \in [Hook -> Nat]

(* The first listener comes and the last one leaves in turns.              *)
Counted ==
    /\ unmounts <= mounts
    /\ Registered # {} => mounts = unmounts + 1
    /\ alive /\ Registered = {} => mounts = unmounts

TypeInv == Types /\ Counted

LEMMA NoCallType == NoCall \in Call
BY DEF NoCall, Call

(* A call that only has sets taken from it or added to stays a call.       *)
LEMMA CallTypes ==
    ASSUME NEW r \in Call, NEW e \in Effect, NEW h \in Hook
    PROVE  /\ [r EXCEPT !.start = @ \ {h}] \in Call
           /\ [r EXCEPT !.mount = @ \ {h}, !.made = @ \union {e}] \in Call
           /\ [r EXCEPT !.cleanups = @ \ {e}] \in Call
           /\ [r EXCEPT !.stop = @ \ {h}] \in Call
BY DEF Call

(* New calls.                                                              *)
LEMMA NewCallTypes ==
    ASSUME NEW A \in SUBSET Hook, NEW B \in SUBSET Hook, NEW E \in SUBSET Effect,
           NEW l \in Listener, NEW n \in Nat
    PROVE  /\ [NoCall EXCEPT !.at = "start", !.listener = {l}, !.start = A,
                             !.mount = B, !.number = n] \in Call
           /\ [NoCall EXCEPT !.at = "stop", !.stop = A, !.cleanups = E] \in Call
           /\ [NoCall EXCEPT !.at = "stop", !.cleanups = E] \in Call
BY DEF NoCall, Call

LEMMA OnTypes == \A kind : On(kind) \in SUBSET Hook
BY DEF On

-----------------------------------------------------------------------------
LEMMA TypesInit == Init => TypeInv
BY NoCallType DEF Init, TypeInv, Types, Counted, Registered

LEMMA CallUpdated ==
    ASSUME call \in [Caller -> Call], NEW c \in Caller, NEW r \in Call, CallBecomes(c, r)
    PROVE  call' \in [Caller -> Call]
BY DEF CallBecomes

(* Hooks and cleanups that run touch no table but that of the cleanups.    *)
LEMMA ProgressKeeps ==
    ASSUME NEW c \in Caller, Progress(c)
    PROVE  UNCHANGED <<alive, listeners, hooks, mounts, unmounts, since>>
BY DEF Progress, RunStartHook, RunMountHook, KeepCleanups, RunCleanup, RunStopHook,
       Stopped, tables, history

LEMMA CountedKept == Counted /\ UNCHANGED <<alive, listeners, mounts, unmounts>> => Counted'
BY DEF Counted, Registered

LEMMA TypesProgress == TypeInv /\ (\E c \in Caller : Progress(c)) => TypeInv'
<1> SUFFICES ASSUME TypeInv, NEW c \in Caller, Progress(c) PROVE TypeInv'
    OBVIOUS
<1>0. Types /\ Counted /\ call[c] \in Call /\ call \in [Caller -> Call]
    BY DEF TypeInv, Types
<1>1. Counted' /\ UNCHANGED <<alive, listeners, hooks, mounts, unmounts, since>>
    BY <1>0, ProgressKeeps, CountedKept
<1>2. SUFFICES /\ call' \in [Caller -> Call] /\ mount_cleanups' \in SUBSET Effect
               /\ effects' \in SUBSET Effect /\ runs' \in [Hook -> Nat]
    BY <1>0, <1>1 DEF TypeInv, Types
<1>3. CASE RunStartHook(c)
    <2>1. PICK h \in call[c].start :
            CallBecomes(c, [call[c] EXCEPT !.start = @ \ {h}]) /\ Ran(h)
        BY <1>3 DEF RunStartHook
    <2>2. h \in Hook
        BY <1>0, <2>1 DEF Call
    <2>3. [call[c] EXCEPT !.start = @ \ {h}] \in Call
        BY <1>0, <2>2 DEF Call
    <2>4. call' \in [Caller -> Call]
        BY <1>0, <2>1, <2>3, CallUpdated
    <2>5. runs' \in [Hook -> Nat]
        BY <1>0, <2>1, <2>2 DEF Types, Ran
    <2> QED BY <1>0, <1>3, <2>4, <2>5 DEF RunStartHook, tables, Types
<1>4. CASE RunMountHook(c)
    <2>1. PICK h \in call[c].mount :
            LET e == [hook |-> h, mount |-> call[c].number]
            IN  /\ CallBecomes(c, [call[c] EXCEPT !.mount = @ \ {h}, !.made = @ \union {e}])
                /\ effects' = effects \union {e}
                /\ Ran(h)
        BY <1>4 DEF RunMountHook
    <2> DEFINE e == [hook |-> h, mount |-> call[c].number]
    <2>2. h \in Hook /\ e \in Effect
        BY <1>0, <2>1 DEF Call, Effect
    <2>3. [call[c] EXCEPT !.mount = @ \ {h}, !.made = @ \union {e}] \in Call
        BY <1>0, <2>2, CallTypes
    <2>4. call' \in [Caller -> Call]
        BY <1>0, <2>1, <2>3, CallUpdated
    <2>5. runs' \in [Hook -> Nat]
        BY <1>0, <2>1, <2>2 DEF Types, Ran
    <2> QED BY <1>0, <1>4, <2>1, <2>2, <2>4, <2>5 DEF RunMountHook, tables, Types
<1>5. CASE KeepCleanups(c)
    <2>1. call[c].made \in SUBSET Effect
        BY <1>0 DEF Call
    <2>2. call' \in [Caller -> Call]
        BY <1>0, <1>5, NoCallType, CallUpdated DEF KeepCleanups, Return
    <2> QED BY <1>0, <1>5, <2>1, <2>2 DEF KeepCleanups, Types
<1>6. CASE RunCleanup(c)
    <2>1. PICK e \in call[c].cleanups :
            /\ CallBecomes(c, [call[c] EXCEPT !.cleanups = @ \ {e}])
            /\ effects' = effects \ {e}
        BY <1>6 DEF RunCleanup
    <2>2. [call[c] EXCEPT !.cleanups = @ \ {e}] \in Call
        BY <1>0 DEF Call
    <2>3. call' \in [Caller -> Call]
        BY <1>0, <2>1, <2>2, CallUpdated
    <2> QED BY <1>0, <1>6, <2>1, <2>3 DEF RunCleanup, tables, Types
<1>7. CASE RunStopHook(c)
    <2>1. PICK h \in call[c].stop :
            CallBecomes(c, [call[c] EXCEPT !.stop = @ \ {h}]) /\ Ran(h)
        BY <1>7 DEF RunStopHook
    <2>2. h \in Hook
        BY <1>0, <2>1 DEF Call
    <2>3. [call[c] EXCEPT !.stop = @ \ {h}] \in Call
        BY <1>0, <2>2 DEF Call
    <2>4. call' \in [Caller -> Call]
        BY <1>0, <2>1, <2>3, CallUpdated
    <2>5. runs' \in [Hook -> Nat]
        BY <1>0, <2>1, <2>2 DEF Types, Ran
    <2> QED BY <1>0, <1>7, <2>4, <2>5 DEF RunStopHook, tables, Types
<1>8. CASE Stopped(c)
    <2>1. call' \in [Caller -> Call]
        BY <1>0, <1>8, NoCallType, CallUpdated DEF Stopped, Return
    <2> QED BY <1>0, <1>8, <2>1 DEF Stopped, tables, Types
<1> QED BY <1>3, <1>4, <1>5, <1>6, <1>7, <1>8 DEF Progress

LEMMA TypesBegin == TypeInv /\ (\E c \in Caller : Begin(c)) => TypeInv'
<1> SUFFICES ASSUME TypeInv, NEW c \in Caller, Begin(c) PROVE TypeInv'
    OBVIOUS
<1>0. Types /\ Counted /\ call \in [Caller -> Call]
    BY DEF TypeInv, Types
<1>1. ASSUME NEW l \in Listener, AddListener(c, l) PROVE TypeInv'
    <2>1. listeners' \in [Listener -> {"new", "on", "off"}] /\ l \in Registered' /\ alive
        BY <1>0, <1>1 DEF AddListener, Registered, Types
    <2>2. CASE Registered = {}
        <3>1. mounts' = mounts + 1 /\ unmounts' = unmounts /\ mounts = unmounts
            BY <1>0, <1>1, <2>1, <2>2 DEF AddListener, Counted
        <3>2. Counted'
            BY <1>0, <2>1, <3>1 DEF Counted, Types
        <3>3. mounts + 1 \in Nat
            BY <1>0 DEF Types
        <3>4. call' \in [Caller -> Call]
            <4> DEFINE r == [NoCall EXCEPT !.at = "start", !.listener = {l},
                                           !.start = On("start"), !.mount = On("mount"),
                                           !.number = mounts + 1]
            <4>1. r \in Call
                BY <3>3, NewCallTypes, OnTypes
            <4>2. CallBecomes(c, r)
                BY <1>1, <2>2 DEF AddListener
            <4> HIDE DEF r
            <4> QED BY <1>0, <4>1, <4>2, CallUpdated
        <3> QED BY <1>0, <1>1, <2>1, <3>1, <3>2, <3>3, <3>4 DEF AddListener, TypeInv, Types
    <2>3. CASE Registered # {}
        <3>1. Counted'
            BY <1>0, <1>1, <2>1, <2>3 DEF AddListener, Counted
        <3> QED BY <1>0, <1>1, <2>1, <2>3, <3>1 DEF AddListener, TypeInv, Types
    <2> QED BY <2>2, <2>3
<1>2. ASSUME NEW l \in Listener, RemoveListener(c, l) PROVE TypeInv'
    <2>1. listeners' \in [Listener -> {"new", "on", "off"}]
        BY <1>0, <1>2 DEF RemoveListener, Types
    <2>2. Registered' = Registered \ {l} /\ l \in Registered
        BY <1>0, <1>2 DEF RemoveListener, Registered, Types
    <2>3. CASE alive /\ Registered = {l}
        <3>1. unmounts' = unmounts + 1 /\ mounts' = mounts /\ alive' = alive
            BY <1>2, <2>3 DEF RemoveListener
        <3>2. Counted'
            BY <1>0, <2>2, <2>3, <3>1 DEF Counted, Types
        <3>3. call' \in [Caller -> Call]
            <4> DEFINE r == [NoCall EXCEPT !.at = "stop", !.stop = On("stop"),
                                           !.cleanups = mount_cleanups]
            <4>1. r \in Call
                BY <1>0, NewCallTypes, OnTypes, 0 \in Nat DEF Types
            <4>2. CallBecomes(c, r)
                BY <1>2, <2>3 DEF RemoveListener
            <4> HIDE DEF r
            <4> QED BY <1>0, <4>1, <4>2, CallUpdated
        <3>4. mount_cleanups' \in SUBSET Effect /\ unmounts' \in Nat
            BY <1>0, <1>2, <2>3 DEF RemoveListener, Types
        <3> QED BY <1>0, <1>2, <2>1, <3>2, <3>3, <3>4 DEF RemoveListener, TypeInv, Types
    <2>4. CASE ~(alive /\ Registered = {l})
        <3>1. UNCHANGED <<unmounts, mount_cleanups, call, mounts, alive>>
            BY <1>2, <2>4 DEF RemoveListener
        <3>2. Counted'
            BY <1>0, <2>2, <2>4, <3>1 DEF Counted
        <3> QED BY <1>0, <1>2, <2>1, <3>1, <3>2 DEF RemoveListener, TypeInv, Types
    <2> QED BY <2>3, <2>4
<1>3. ASSUME NEW h \in Hook, AddHook(c, h) PROVE TypeInv'
    <2>1. Counted'
        BY <1>0, <1>3, CountedKept DEF AddHook
    <2> QED BY <1>0, <1>3, <2>1 DEF AddHook, TypeInv, Types
<1>4. ASSUME NEW h \in Hook, RemoveHook(c, h) PROVE TypeInv'
    <2>1. Counted'
        BY <1>0, <1>4, CountedKept DEF RemoveHook, history
    <2>2. call' \in [Caller -> Call] /\ mount_cleanups' \in SUBSET Effect
        <3> DEFINE active == {e \in mount_cleanups : e.hook = h}
        <3> DEFINE r == [NoCall EXCEPT !.at = "stop", !.cleanups = active]
        <3>1. active \in SUBSET Effect
            BY <1>0 DEF Types
        <3>2. r \in Call
            BY <3>1 DEF NoCall, Call
        <3>3. CASE Kind[h] = "mount"
            <4>1. CallBecomes(c, r) /\ mount_cleanups' = mount_cleanups \ active
                BY <1>4, <3>3 DEF RemoveHook
            <4> HIDE DEF r, active
            <4> QED BY <1>0, <3>2, <4>1, CallUpdated DEF Types
        <3>4. CASE Kind[h] # "mount"
            BY <1>0, <1>4, <3>4 DEF RemoveHook, Types
        <3> QED BY <3>3, <3>4
    <2> QED BY <1>0, <1>4, <2>1, <2>2 DEF RemoveHook, history, TypeInv, Types
<1>5. CASE DropStore(c)
    <2>1. Counted'
        BY <1>0, <1>5 DEF DropStore, history, Counted, Registered
    <2>2. call' \in [Caller -> Call]
        <3> DEFINE r == [NoCall EXCEPT !.at = "stop", !.cleanups = mount_cleanups]
        <3>1. r \in Call
            BY <1>0 DEF NoCall, Call, Types
        <3>2. CallBecomes(c, r)
            BY <1>5 DEF DropStore
        <3> HIDE DEF r
        <3> QED BY <1>0, <3>1, <3>2, CallUpdated
    <2> QED BY <1>0, <1>5, <2>1, <2>2 DEF DropStore, history, TypeInv, Types
<1> QED BY <1>1, <1>2, <1>3, <1>4, <1>5 DEF Begin

LEMMA TypesStep == TypeInv /\ [Next]_vars => TypeInv'
<1>1. TypeInv /\ UNCHANGED vars => TypeInv'
    BY DEF TypeInv, Types, Counted, Registered, vars, tables, history
<1> QED BY <1>1, TypesProgress, TypesBegin DEF Next, Rest

(* Every variable keeps its type: in particular the last listener never    *)
(* leaves more often than the first one came.                              *)
THEOREM TypeCorrect == Spec => []TypeOK
<1>1. TypeInv => TypeOK
    BY DEF TypeInv, Types, Counted, TypeOK
<1> QED BY <1>1, TypesInit, TypesStep, PTL DEF Spec

-----------------------------------------------------------------------------
(* Why no effect is lost: a call keeps what its stage says, the effect a   *)
(* mount hook sets up is new because each mount has a number of its own,   *)
(* and cleanups are kept only while somebody listens.                      *)
Staged ==
    \A c \in Caller :
        /\ call[c].at = "idle" => InHands(c) = {} /\ call[c].listener = {}
        /\ call[c].at = "stop" => call[c].made = {} /\ call[c].listener = {}
        /\ call[c].at = "start" =>
             /\ call[c].cleanups = {} /\ alive
             /\ \E l \in call[c].listener : listeners[l] = "on"

Numbered ==
    /\ \A c \in Caller : call[c].at = "start" =>
         /\ call[c].number <= mounts
         /\ \A d \in Caller \ {c} : call[d].at = "start" => call[c].number # call[d].number
         /\ \A h \in call[c].mount : [hook |-> h, mount |-> call[c].number] \notin effects
    /\ \A e \in effects : e.mount <= mounts

Held == mount_cleanups # {} => alive /\ Registered # {}

EffectsInv == TypeInv /\ Staged /\ Numbered /\ Held /\ EffectsAccounted

LEMMA Becomes ==
    ASSUME call \in [Caller -> Call], NEW c \in Caller, NEW r, CallBecomes(c, r)
    PROVE  call'[c] = r /\ \A d \in Caller \ {c} : call'[d] = call[d]
BY DEF CallBecomes

(* Effects pass between the table and one call, and new ones come to it.   *)
LEMMA Transfer ==
    ASSUME EffectsAccounted, NEW c \in Caller,
           \A d \in Caller \ {c} : InHands(d)' = InHands(d),
           InHands(c)' \intersect mount_cleanups' = {},
           \A e \in InHands(c)' \union mount_cleanups' :
              e \in InHands(c) \union mount_cleanups \/ e \notin effects,
           effects' = (effects \ (InHands(c) \union mount_cleanups))
                      \union InHands(c)' \union mount_cleanups'
    PROVE  EffectsAccounted'
<1>1. \A e : e \in effects <=> e \in mount_cleanups \/ \E d \in Caller : e \in InHands(d)
    BY DEF EffectsAccounted
<1>2. \A d \in Caller \ {c} : InHands(d) \intersect (InHands(c) \union mount_cleanups) = {}
    BY DEF EffectsAccounted
<1>3. \A d \in Caller \ {c} : /\ InHands(d)' \intersect InHands(c)' = {}
                              /\ InHands(d)' \intersect mount_cleanups' = {}
    BY <1>1, <1>2
<1>4. \A e : e \in effects' <=> e \in mount_cleanups' \/ \E d \in Caller : e \in InHands(d)'
    <2> TAKE e
    <2>1. CASE e \in InHands(c) \union mount_cleanups
        BY <1>2, <2>1
    <2>2. CASE e \notin InHands(c) \union mount_cleanups
        BY <1>1, <2>2
    <2> QED BY <2>1, <2>2
<1>5. effects' = mount_cleanups' \union UNION {InHands(d)' : d \in Caller}
    BY <1>4
<1>6. \A d \in Caller :
         /\ InHands(d)' \intersect mount_cleanups' = {}
         /\ \A g \in Caller \ {d} : InHands(d)' \intersect InHands(g)' = {}
    <2> TAKE d \in Caller
    <2>1. CASE d = c
        BY <1>3, <2>1
    <2>2. CASE d # c
        <3>1. \A g \in Caller \ {d, c} : InHands(d)' \intersect InHands(g)' = {}
            BY <2>2 DEF EffectsAccounted
        <3> QED BY <1>3, <2>2, <3>1
    <2> QED BY <2>1, <2>2
<1> QED BY <1>5, <1>6 DEF EffectsAccounted

LEMMA EffectsInit == Init => EffectsInv
<1> SUFFICES ASSUME Init PROVE EffectsInv
    OBVIOUS
<1>1. TypeInv
    BY TypesInit
<1>2. \A c \in Caller : call[c] = NoCall
    BY DEF Init
<1>3. \A c \in Caller : call[c].at = "idle" /\ InHands(c) = {} /\ call[c].listener = {}
    BY <1>2 DEF NoCall, InHands
<1>4. effects = {} /\ mount_cleanups = {}
    BY DEF Init
<1> QED BY <1>1, <1>3, <1>4 DEF EffectsInv, Staged, Numbered, Held, EffectsAccounted
(* A step that leaves every effect where it is.                            *)
LEMMA SameHands ==
    ASSUME EffectsInv, TypeInv', NEW c \in Caller,
           \A d \in Caller \ {c} : call'[d] = call[d],
           /\ call'[c].at = call[c].at /\ call'[c].mount = call[c].mount
           /\ call'[c].made = call[c].made /\ call'[c].cleanups = call[c].cleanups
           /\ call'[c].listener = call[c].listener /\ call'[c].number = call[c].number,
           UNCHANGED <<alive, listeners, mounts, effects, mount_cleanups>>
    PROVE  EffectsInv'
<1>1. \A d \in Caller : /\ InHands(d)' = InHands(d)
                        /\ call'[d].at = call[d].at /\ call'[d].mount = call[d].mount
                        /\ call'[d].made = call[d].made /\ call'[d].cleanups = call[d].cleanups
                        /\ call'[d].listener = call[d].listener
                        /\ call'[d].number = call[d].number
    BY DEF InHands
<1>2. Staged'
    BY <1>1 DEF EffectsInv, Staged
<1>3. Numbered'
    BY <1>1 DEF EffectsInv, Numbered
<1>4. Held' /\ EffectsAccounted'
    BY <1>1 DEF EffectsInv, Held, Registered, EffectsAccounted
<1> QED BY <1>2, <1>3, <1>4 DEF EffectsInv

(* A hook or a cleanup that runs, or the end of a mount or an unmount.     *)
LEMMA EffectsProgress == EffectsInv /\ (\E c \in Caller : Progress(c)) => EffectsInv'
<1> SUFFICES ASSUME EffectsInv, NEW c \in Caller, Progress(c) PROVE EffectsInv'
    OBVIOUS
<1>0. /\ TypeInv /\ Types /\ Staged /\ Numbered /\ Held /\ EffectsAccounted
      /\ call \in [Caller -> Call] /\ call[c] \in Call
    BY DEF EffectsInv, TypeInv, Types
<1>1. TypeInv' /\ UNCHANGED <<alive, listeners, hooks, mounts, unmounts, since>>
    BY <1>0, TypesProgress, ProgressKeeps
<1>2. CASE RunStartHook(c)
    <2>1. PICK h \in call[c].start : CallBecomes(c, [call[c] EXCEPT !.start = @ \ {h}])
        BY <1>2 DEF RunStartHook
    <2> DEFINE r == [call[c] EXCEPT !.start = @ \ {h}]
    <2>2. call'[c] = r /\ \A d \in Caller \ {c} : call'[d] = call[d]
        BY <1>0, <2>1, Becomes
    <2>3. /\ r.at = call[c].at /\ r.mount = call[c].mount /\ r.made = call[c].made
          /\ r.cleanups = call[c].cleanups /\ r.listener = call[c].listener
          /\ r.number = call[c].number
        BY <1>0 DEF Call
    <2> HIDE DEF r
    <2>4. UNCHANGED <<effects, mount_cleanups>>
        BY <1>2 DEF RunStartHook, tables
    <2> QED BY <1>0, <1>1, <2>2, <2>3, <2>4, SameHands
<1>3. CASE RunMountHook(c)
    <2>1. PICK h \in call[c].mount :
            LET e == [hook |-> h, mount |-> call[c].number]
            IN  /\ CallBecomes(c, [call[c] EXCEPT !.mount = @ \ {h}, !.made = @ \union {e}])
                /\ effects' = effects \union {e}
        BY <1>3 DEF RunMountHook
    <2> DEFINE e == [hook |-> h, mount |-> call[c].number]
    <2> DEFINE r == [call[c] EXCEPT !.mount = @ \ {h}, !.made = @ \union {e}]
    <2>2. call'[c] = r /\ (\A d \in Caller \ {c} : call'[d] = call[d]) /\ effects' = effects \union {e}
        BY <1>0, <2>1, Becomes
    <2>3. /\ r.at = call[c].at /\ r.mount = call[c].mount \ {h} /\ r.number = call[c].number
          /\ r.made = call[c].made \union {e}
          /\ r.cleanups = call[c].cleanups /\ r.listener = call[c].listener
        BY <1>0 DEF Call
    <2>4. call[c].at = "start" /\ mount_cleanups' = mount_cleanups
        BY <1>3 DEF RunMountHook, tables
    <2>5. e \notin effects /\ e.mount = call[c].number /\ e.hook = h
        BY <1>0, <2>1, <2>4 DEF Numbered
    <2> HIDE DEF r, e
    <2>6. Staged'
        BY <1>0, <1>1, <2>2, <2>3, <2>4 DEF Staged, InHands
    <2>7. Numbered'
        <3>1. \A d \in Caller : call'[d].at = "start" => call[d].at = "start" /\ call'[d].number = call[d].number
            BY <2>2, <2>3
        <3>2. \A d \in Caller : call'[d].at = "start" => call'[d].number <= mounts
            BY <1>0, <3>1 DEF Numbered
        <3>3. \A d \in Caller : call'[d].at = "start" =>
                \A g \in Caller \ {d} : call'[g].at = "start" => call'[d].number # call'[g].number
            BY <1>0, <3>1 DEF Numbered
        <3>4. \A k \in call'[c].mount : [hook |-> k, mount |-> call'[c].number] \notin effects'
            BY <1>0, <2>2, <2>3, <2>4, <2>5 DEF Numbered
        <3>5. \A d \in Caller \ {c} : call'[d].at = "start" =>
                \A k \in call'[d].mount : [hook |-> k, mount |-> call'[d].number] \notin effects'
            BY <1>0, <2>2, <2>4, <2>5 DEF Numbered
        <3>6. \A x \in effects' : x.mount <= mounts'
            BY <1>0, <1>1, <2>2, <2>4, <2>5 DEF Numbered
        <3> QED BY <1>1, <3>2, <3>3, <3>4, <3>5, <3>6 DEF Numbered
    <2>8. EffectsAccounted'
        <3>1. InHands(c)' = InHands(c) \union {e} /\ \A d \in Caller \ {c} : InHands(d)' = InHands(d)
            BY <2>2, <2>3 DEF InHands
        <3>2. /\ InHands(c) \intersect mount_cleanups = {}
              /\ InHands(c) \union mount_cleanups \subseteq effects
            BY <1>0 DEF EffectsAccounted
        <3>3. InHands(c)' \intersect mount_cleanups' = {}
            BY <2>4, <2>5, <3>1, <3>2
        <3>4. effects' = (effects \ (InHands(c) \union mount_cleanups))
                         \union InHands(c)' \union mount_cleanups'
            BY <2>2, <2>4, <3>1, <3>2
        <3>5. \A x \in InHands(c)' \union mount_cleanups' :
                 x \in InHands(c) \union mount_cleanups \/ x \notin effects
            BY <2>4, <2>5, <3>1
        <3> QED BY <1>0, <3>1, <3>3, <3>4, <3>5, Transfer
    <2> QED BY <1>0, <1>1, <2>4, <2>6, <2>7, <2>8 DEF EffectsInv, Held, Registered
<1>4. CASE KeepCleanups(c)
    <2>1. /\ call'[c] = NoCall /\ (\A d \in Caller \ {c} : call'[d] = call[d])
          /\ call[c].at = "start" /\ effects' = effects
          /\ mount_cleanups' = mount_cleanups \union call[c].made
        BY <1>0, <1>4, Becomes DEF KeepCleanups, Return
    <2>2. InHands(c) = call[c].made /\ InHands(c)' = {} /\ \A d \in Caller \ {c} : InHands(d)' = InHands(d)
        BY <1>0, <2>1 DEF InHands, NoCall, Staged
    <2>3. Staged'
        BY <1>0, <1>1, <2>1, <2>2 DEF Staged, NoCall
    <2>4. Numbered'
        BY <1>0, <1>1, <2>1 DEF Numbered, NoCall
    <2>5. Held'
        <3>1. alive /\ \E l \in Listener : listeners[l] = "on"
            BY <1>0, <2>1 DEF Staged, Call
        <3> QED BY <1>1, <3>1 DEF Held, Registered
    <2>6. EffectsAccounted'
        <3>1. InHands(c) \union mount_cleanups \subseteq effects
            BY <1>0 DEF EffectsAccounted
        <3> QED BY <1>0, <2>1, <2>2, <3>1, Transfer
    <2> QED BY <1>1, <2>3, <2>4, <2>5, <2>6 DEF EffectsInv
<1>5. CASE RunCleanup(c)
    <2>1. PICK e \in call[c].cleanups :
            CallBecomes(c, [call[c] EXCEPT !.cleanups = @ \ {e}]) /\ effects' = effects \ {e}
        BY <1>5 DEF RunCleanup
    <2> DEFINE r == [call[c] EXCEPT !.cleanups = @ \ {e}]
    <2>2. call'[c] = r /\ (\A d \in Caller \ {c} : call'[d] = call[d]) /\ effects' = effects \ {e}
        BY <1>0, <2>1, Becomes
    <2>3. /\ r.at = call[c].at /\ r.made = call[c].made /\ r.cleanups = call[c].cleanups \ {e}
          /\ r.listener = call[c].listener
        BY <1>0 DEF Call
    <2>4. call[c].at = "stop" /\ mount_cleanups' = mount_cleanups
        BY <1>5 DEF RunCleanup, tables
    <2> HIDE DEF r
    <2>5. /\ InHands(c) = call[c].cleanups /\ InHands(c)' = call[c].cleanups \ {e}
          /\ \A d \in Caller \ {c} : InHands(d)' = InHands(d)
        BY <1>0, <2>2, <2>3, <2>4 DEF InHands, Staged
    <2>6. Staged'
        BY <1>0, <1>1, <2>2, <2>3, <2>4, <2>5 DEF Staged
    <2>7. Numbered'
        BY <1>0, <1>1, <2>2, <2>3, <2>4 DEF Numbered
    <2>8. EffectsAccounted'
        <3>1. /\ InHands(c) \union mount_cleanups \subseteq effects
              /\ InHands(c) \intersect mount_cleanups = {}
            BY <1>0 DEF EffectsAccounted
        <3>2. effects' = (effects \ (InHands(c) \union mount_cleanups))
                         \union InHands(c)' \union mount_cleanups'
            BY <2>1, <2>2, <2>4, <2>5, <3>1
        <3> QED BY <1>0, <2>4, <2>5, <3>1, <3>2, Transfer
    <2> QED BY <1>0, <1>1, <2>4, <2>6, <2>7, <2>8 DEF EffectsInv, Held, Registered
<1>6. CASE RunStopHook(c)
    <2>1. PICK h \in call[c].stop : CallBecomes(c, [call[c] EXCEPT !.stop = @ \ {h}])
        BY <1>6 DEF RunStopHook
    <2> DEFINE r == [call[c] EXCEPT !.stop = @ \ {h}]
    <2>2. call'[c] = r /\ \A d \in Caller \ {c} : call'[d] = call[d]
        BY <1>0, <2>1, Becomes
    <2>3. /\ r.at = call[c].at /\ r.mount = call[c].mount /\ r.made = call[c].made
          /\ r.cleanups = call[c].cleanups /\ r.listener = call[c].listener
          /\ r.number = call[c].number
        BY <1>0 DEF Call
    <2> HIDE DEF r
    <2>4. UNCHANGED <<effects, mount_cleanups>>
        BY <1>6 DEF RunStopHook, tables
    <2> QED BY <1>0, <1>1, <2>2, <2>3, <2>4, SameHands
<1>7. CASE Stopped(c)
    <2>1. /\ call'[c] = NoCall /\ (\A d \in Caller \ {c} : call'[d] = call[d])
          /\ call[c].at = "stop" /\ call[c].cleanups = {}
          /\ UNCHANGED <<effects, mount_cleanups>>
        BY <1>0, <1>7, Becomes DEF Stopped, Return, tables
    <2>2. InHands(c) = {} /\ InHands(c)' = {} /\ \A d \in Caller \ {c} : InHands(d)' = InHands(d)
        BY <1>0, <2>1 DEF InHands, NoCall, Staged
    <2>3. Staged'
        BY <1>0, <1>1, <2>1, <2>2 DEF Staged, NoCall
    <2>4. Numbered'
        BY <1>0, <1>1, <2>1 DEF Numbered, NoCall
    <2>5. EffectsAccounted'
        BY <2>1, <2>2, <1>0 DEF EffectsAccounted
    <2> QED BY <1>0, <1>1, <2>1, <2>3, <2>4, <2>5 DEF EffectsInv, Held, Registered
<1> QED BY <1>2, <1>3, <1>4, <1>5, <1>6, <1>7 DEF Progress

(* A caller that begins had nothing in hands; what it takes up is all that *)
(* remains to look at.                                                     *)
LEMMA Taken ==
    ASSUME EffectsInv, TypeInv', NEW c \in Caller, Idle(c),
           \A d \in Caller \ {c} : call'[d] = call[d],
           call'[c].at # "start",
           call'[c].made = {} /\ call'[c].listener = {},
           call'[c].cleanups \union mount_cleanups' = mount_cleanups,
           call'[c].cleanups \intersect mount_cleanups' = {},
           call'[c].at = "idle" => call'[c].cleanups = {},
           effects' = effects /\ mounts' = mounts,
           \A d \in Caller : call[d].at = "start" =>
              alive' /\ \A l \in call[d].listener : listeners[l] = "on" => listeners'[l] = "on",
           Held'
    PROVE  EffectsInv'
<1>1. InHands(c) = {} /\ InHands(c)' = call'[c].cleanups /\ \A d \in Caller \ {c} : InHands(d)' = InHands(d)
    BY DEF EffectsInv, Staged, InHands, Idle
<1>2. Staged'
    <2> SUFFICES ASSUME NEW d \in Caller
                 PROVE  /\ call'[d].at = "idle" => InHands(d)' = {} /\ call'[d].listener = {}
                        /\ call'[d].at = "stop" => call'[d].made = {} /\ call'[d].listener = {}
                        /\ call'[d].at = "start" =>
                             /\ call'[d].cleanups = {} /\ alive'
                             /\ \E l \in call'[d].listener : listeners'[l] = "on"
        BY DEF Staged
    <2>1. CASE d = c
        BY <1>1, <2>1
    <2>2. CASE d # c
        BY <1>1, <2>2 DEF EffectsInv, Staged
    <2> QED BY <2>1, <2>2
<1>3. Numbered'
    BY DEF EffectsInv, Numbered
<1>4. EffectsAccounted'
    <2>1. InHands(c) \union mount_cleanups \subseteq effects
        BY DEF EffectsInv, EffectsAccounted
    <2>2. effects' = (effects \ (InHands(c) \union mount_cleanups))
                     \union InHands(c)' \union mount_cleanups'
        BY <1>1, <2>1
    <2> QED BY <1>1, <2>2, Transfer DEF EffectsInv
<1> QED BY <1>2, <1>3, <1>4 DEF EffectsInv

LEMMA EffectsBegin == EffectsInv /\ (\E c \in Caller : Begin(c)) => EffectsInv'
<1> SUFFICES ASSUME EffectsInv, NEW c \in Caller, Begin(c) PROVE EffectsInv'
    OBVIOUS
<1>0. /\ TypeInv /\ Types /\ Counted /\ Staged /\ Numbered /\ Held /\ EffectsAccounted
      /\ call \in [Caller -> Call] /\ call[c] \in Call
    BY DEF EffectsInv, TypeInv, Types
<1>1. TypeInv'
    BY <1>0, TypesBegin
<1>2. ASSUME NEW l \in Listener, AddListener(c, l) PROVE EffectsInv'
    <2>0. /\ alive /\ alive' = alive /\ Idle(c) /\ l \in Registered' /\ Registered \subseteq Registered'
          /\ UNCHANGED <<effects, mount_cleanups>>
          /\ \A k \in Listener : listeners[k] = "on" => listeners'[k] = "on"
          /\ listeners'[l] = "on"
        BY <1>0, <1>2 DEF AddListener, Registered, Types
    <2>1. Held'
        BY <2>0 DEF Held
    <2>2. CASE Registered = {}
        <3> DEFINE r == [NoCall EXCEPT !.at = "start", !.listener = {l}, !.start = On("start"),
                                       !.mount = On("mount"), !.number = mounts + 1]
        <3>1. call'[c] = r /\ (\A d \in Caller \ {c} : call'[d] = call[d]) /\ mounts' = mounts + 1
            BY <1>0, <1>2, <2>2, Becomes DEF AddListener
        <3>2. /\ r.at = "start" /\ r.listener = {l} /\ r.number = mounts + 1
              /\ r.made = {} /\ r.cleanups = {}
            BY DEF NoCall
        <3> HIDE DEF r
        <3>3. /\ InHands(c) = {} /\ InHands(c)' = {}
              /\ \A d \in Caller \ {c} : InHands(d)' = InHands(d)
            BY <1>0, <2>0, <3>1, <3>2 DEF Idle, Staged, InHands
        <3>4. Staged'
            <4>1. \A d \in Caller \ {c} : call[d].at = "start" => call[d].listener \subseteq Listener
                BY <1>0 DEF Call
            <4> QED BY <1>0, <2>0, <3>1, <3>2, <3>3, <4>1 DEF Staged
        <3>5. Numbered'
            <4>1. mounts \in Nat /\ \A d \in Caller : call[d].number \in Nat
                BY <1>0 DEF Types, Call
            <4>2. \A e \in effects : e.mount \in Nat /\ e.mount <= mounts
                BY <1>0 DEF Numbered, Types, Effect
            <4>3. \A d \in Caller \ {c} : call'[d].at = "start" => call'[d].number <= mounts
                BY <1>0, <3>1 DEF Numbered
            <4>4. \A k \in Hook : [hook |-> k, mount |-> mounts + 1] \notin effects
                BY <4>1, <4>2
            <4>5. \A d \in Caller : call'[d].at = "start" => call'[d].number <= mounts'
                BY <3>1, <3>2, <4>1, <4>3
            <4>6. \A d \in Caller : call'[d].at = "start" =>
                    \A g \in Caller \ {d} : call'[g].at = "start" => call'[d].number # call'[g].number
                <5> SUFFICES ASSUME NEW d \in Caller, NEW g \in Caller \ {d},
                                    call'[d].at = "start", call'[g].at = "start"
                             PROVE  call'[d].number # call'[g].number
                    OBVIOUS
                <5>1. CASE d = c
                    BY <3>1, <3>2, <4>1, <4>3, <5>1
                <5>2. CASE g = c
                    BY <3>1, <3>2, <4>1, <4>3, <5>2
                <5>3. CASE d # c /\ g # c
                    BY <1>0, <3>1, <5>3 DEF Numbered
                <5> QED BY <5>1, <5>2, <5>3
            <4>7. \A d \in Caller : call'[d].at = "start" =>
                    \A k \in call'[d].mount : [hook |-> k, mount |-> call'[d].number] \notin effects'
                <5> SUFFICES ASSUME NEW d \in Caller, call'[d].at = "start", NEW k \in call'[d].mount
                             PROVE  [hook |-> k, mount |-> call'[d].number] \notin effects
                    BY <2>0
                <5>1. k \in Hook
                    BY <1>1 DEF TypeInv, Types, Call
                <5>2. CASE d = c
                    BY <3>1, <3>2, <4>4, <5>1, <5>2
                <5>3. CASE d # c
                    BY <1>0, <3>1, <5>3 DEF Numbered
                <5> QED BY <5>2, <5>3
            <4>8. \A e \in effects' : e.mount <= mounts'
                BY <2>0, <3>1, <4>1, <4>2
            <4> QED BY <4>5, <4>6, <4>7, <4>8 DEF Numbered
        <3>6. EffectsAccounted'
            <4>1. InHands(c) \union mount_cleanups \subseteq effects
                BY <1>0 DEF EffectsAccounted
            <4> QED BY <1>0, <2>0, <3>3, <4>1, Transfer
        <3> QED BY <1>1, <2>1, <3>4, <3>5, <3>6 DEF EffectsInv
    <2>3. CASE Registered # {}
        <3>1. UNCHANGED <<mounts, call>>
            BY <1>2, <2>3 DEF AddListener
        <3>2. Staged'
            BY <1>0, <2>0, <3>1 DEF Staged, InHands, Call
        <3> QED BY <1>0, <1>1, <2>0, <2>1, <3>1, <3>2 DEF EffectsInv, Numbered, EffectsAccounted, InHands
    <2> QED BY <2>2, <2>3
<1>3. ASSUME NEW l \in Listener, RemoveListener(c, l) PROVE EffectsInv'
    <2>0. /\ Idle(c) /\ UNCHANGED <<alive, effects, mounts>>
          /\ \A d \in Caller : l \notin call[d].listener
          /\ Registered' = Registered \ {l}
          /\ \A k \in Listener \ {l} : listeners'[k] = listeners[k]
        BY <1>0, <1>3 DEF RemoveListener, Registered, Types
    <2>1. \A d \in Caller : call[d].at = "start" =>
             alive' /\ \A k \in call[d].listener : listeners[k] = "on" => listeners'[k] = "on"
        BY <1>0, <2>0 DEF Staged, Call
    <2>2. CASE alive /\ Registered = {l}
        <3> DEFINE r == [NoCall EXCEPT !.at = "stop", !.stop = On("stop"),
                                       !.cleanups = mount_cleanups]
        <3>1. call'[c] = r /\ (\A d \in Caller \ {c} : call'[d] = call[d]) /\ mount_cleanups' = {}
            BY <1>0, <1>3, <2>2, Becomes DEF RemoveListener
        <3>2. /\ r.at = "stop" /\ r.made = {} /\ r.listener = {} /\ r.cleanups = mount_cleanups
            BY DEF NoCall
        <3> HIDE DEF r
        <3>3. Held'
            BY <3>1 DEF Held
        <3> QED BY <1>1, <2>0, <2>1, <3>1, <3>2, <3>3, Taken
    <2>3. CASE ~(alive /\ Registered = {l})
        <3>1. UNCHANGED <<mount_cleanups, call>>
            BY <1>3, <2>3 DEF RemoveListener
        <3>2. Held'
            BY <1>0, <2>0, <2>3, <3>1 DEF Held
        <3>3. call[c].made = {} /\ call[c].listener = {} /\ call[c].cleanups = {}
            BY <1>0, <2>0 DEF Idle, Staged, InHands
        <3> QED BY <1>1, <2>0, <2>1, <3>1, <3>2, <3>3, Taken DEF Idle
    <2> QED BY <2>2, <2>3
<1>4. ASSUME NEW h \in Hook, AddHook(c, h) PROVE EffectsInv'
    BY <1>0, <1>1, <1>4 DEF AddHook, EffectsInv, Staged, Numbered, Held, Registered,
                            EffectsAccounted, InHands
<1>5. ASSUME NEW h \in Hook, RemoveHook(c, h) PROVE EffectsInv'
    <2>0. Idle(c) /\ UNCHANGED <<alive, listeners, effects, mounts>>
        BY <1>5 DEF RemoveHook, history
    <2>1. \A d \in Caller : call[d].at = "start" =>
             alive' /\ \A k \in call[d].listener : listeners[k] = "on" => listeners'[k] = "on"
        BY <1>0, <2>0 DEF Staged
    <2>2. CASE Kind[h] = "mount"
        <3> DEFINE active == {e \in mount_cleanups : e.hook = h}
        <3> DEFINE r == [NoCall EXCEPT !.at = "stop", !.cleanups = active]
        <3>1. /\ call'[c] = r /\ (\A d \in Caller \ {c} : call'[d] = call[d])
              /\ mount_cleanups' = mount_cleanups \ active
            BY <1>0, <1>5, <2>2, Becomes DEF RemoveHook
        <3>2. /\ r.at = "stop" /\ r.made = {} /\ r.listener = {} /\ r.cleanups = active
            BY DEF NoCall
        <3>3. active \subseteq mount_cleanups
            OBVIOUS
        <3> HIDE DEF r, active
        <3>4. Held'
            BY <1>0, <2>0, <3>1 DEF Held, Registered
        <3> QED BY <1>1, <2>0, <2>1, <3>1, <3>2, <3>3, <3>4, Taken
    <2>3. CASE Kind[h] # "mount"
        <3>1. UNCHANGED <<mount_cleanups, call>>
            BY <1>5, <2>3 DEF RemoveHook
        <3>2. Held'
            BY <1>0, <2>0, <3>1 DEF Held, Registered
        <3>3. call[c].made = {} /\ call[c].listener = {} /\ call[c].cleanups = {}
            BY <1>0, <2>0 DEF Idle, Staged, InHands
        <3> QED BY <1>1, <2>0, <2>1, <3>1, <3>2, <3>3, Taken DEF Idle
    <2> QED BY <2>2, <2>3
<1>6. CASE DropStore(c)
    <2> DEFINE r == [NoCall EXCEPT !.at = "stop", !.cleanups = mount_cleanups]
    <2>1. /\ call'[c] = r /\ (\A d \in Caller \ {c} : call'[d] = call[d])
          /\ mount_cleanups' = {} /\ UNCHANGED <<listeners, effects, mounts>>
          /\ \A d \in Caller : Idle(d)
        BY <1>0, <1>6, Becomes DEF DropStore, history
    <2>2. /\ r.at = "stop" /\ r.made = {} /\ r.listener = {} /\ r.cleanups = mount_cleanups
        BY DEF NoCall
    <2> HIDE DEF r
    <2>3. Held'
        BY <2>1 DEF Held
    <2>4. \A d \in Caller : call[d].at # "start"
        BY <2>1 DEF Idle
    <2> QED BY <1>1, <2>1, <2>2, <2>3, <2>4, Taken
<1> QED BY <1>2, <1>3, <1>4, <1>5, <1>6 DEF Begin

LEMMA EffectsStep == EffectsInv /\ [Next]_vars => EffectsInv'
<1>1. EffectsInv /\ UNCHANGED vars => EffectsInv'
    BY DEF EffectsInv, TypeInv, Types, Counted, Registered, Staged, Numbered, Held,
           EffectsAccounted, InHands, vars, tables, history
<1> QED BY <1>1, EffectsProgress, EffectsBegin DEF Next, Rest

(* The cleanup of every effect that is set up is in exactly one place,     *)
(* however mounts, unmounts and the removal of hooks overlap.              *)
THEOREM EffectsAccountedCorrect == Spec => []EffectsAccounted
<1>1. EffectsInv => EffectsAccounted
    BY DEF EffectsInv
<1> QED BY <1>1, EffectsInit, EffectsStep, PTL DEF Spec

(* When every call has returned and nobody listens, or the store is gone,  *)
(* no effect of a mount hook is left.                                      *)
THEOREM NoLeakedEffectCorrect == Spec => []NoLeakedEffect
<1>1. EffectsInv => NoLeakedEffect
    <2> SUFFICES ASSUME EffectsInv, Quiescent, Registered = {} \/ ~alive PROVE effects = {}
        BY DEF NoLeakedEffect
    <2>1. \A c \in Caller : InHands(c) = {}
        BY DEF EffectsInv, Staged, Quiescent, Idle
    <2>2. mount_cleanups = {}
        BY DEF EffectsInv, Held
    <2> QED BY <2>1, <2>2 DEF EffectsInv, EffectsAccounted
<1> QED BY <1>1, EffectsInit, EffectsStep, PTL DEF Spec

-----------------------------------------------------------------------------
(* How often each hook runs: as often as it should; and the effects that  *)
(* are set up are those of the hooks and the mount of the moment.          *)

(* A call has hooks to run of the kinds its stage says.                    *)
Sorted ==
    \A c \in Caller :
        /\ \A h \in call[c].start : Kind[h] = "start"
        /\ \A h \in call[c].mount : Kind[h] = "mount"
        /\ \A h \in call[c].stop : Kind[h] = "stop"
        /\ call[c].at # "start" => call[c].start = {} /\ call[c].mount = {}
        /\ call[c].at # "stop" => call[c].stop = {}

(* The calls that have still to run a hook.                                *)
ToRun(h) == {c \in Caller : h \in call[c].start \union call[c].mount \union call[c].stop}

Times(h) == IF Kind[h] = "stop" THEN unmounts ELSE mounts

(* A registered hook has run, or is about to, once for each time the first *)
(* listener came (the last one left) since it was there.                   *)
CountedRuns ==
    \A h \in Hook :
        /\ IsFiniteSet(ToRun(h))
        /\ hooks[h] = "new" => runs[h] = 0 /\ ToRun(h) = {}
        /\ hooks[h] = "on" => runs[h] + Cardinality(ToRun(h)) = Times(h) - since[h]

RunsInv == EffectsInv /\ Sorted /\ CountedRuns

-----------------------------------------------------------------------------
(* What each step does to the calls.                                       *)

Others(c) == \A d \in Caller \ {c} : call'[d] = call[d]

(* The fields of a call that a hook's run leaves alone.                    *)
LEMMA RunStartHookCall ==
    ASSUME Types, NEW c \in Caller, RunStartHook(c)
    PROVE  /\ Others(c) /\ call[c].at = "start"
           /\ \E h \in call[c].start : h \in Hook /\ Ran(h)
                /\ call'[c].start = call[c].start \ {h}
           /\ call'[c].at = call[c].at /\ call'[c].mount = call[c].mount
           /\ call'[c].stop = call[c].stop /\ call'[c].cleanups = call[c].cleanups
           /\ call'[c].made = call[c].made /\ call'[c].number = call[c].number
           /\ UNCHANGED <<alive, tables, effects, history>>
<1>1. call \in [Caller -> Call] /\ call[c] \in Call
    BY DEF Types
<1>2. PICK h \in call[c].start :
            CallBecomes(c, [call[c] EXCEPT !.start = @ \ {h}]) /\ Ran(h)
    BY DEF RunStartHook
<1> DEFINE r == [call[c] EXCEPT !.start = @ \ {h}]
<1>3. call'[c] = r /\ Others(c)
    BY <1>1, <1>2, Becomes DEF Others
<1>4. /\ r.start = call[c].start \ {h} /\ r.at = call[c].at /\ r.mount = call[c].mount
      /\ r.stop = call[c].stop /\ r.cleanups = call[c].cleanups /\ r.made = call[c].made
      /\ r.number = call[c].number /\ h \in Hook
    BY <1>1 DEF Call
<1> HIDE DEF r
<1>5. call[c].at = "start" /\ UNCHANGED <<alive, tables, effects, history>>
    BY DEF RunStartHook
<1>6. \E g \in call[c].start : g \in Hook /\ Ran(g)
                /\ call'[c].start = call[c].start \ {g}
    BY <1>2, <1>3, <1>4
<1> QED BY <1>3, <1>4, <1>5, <1>6

LEMMA RunMountHookCall ==
    ASSUME Types, NEW c \in Caller, RunMountHook(c)
    PROVE  /\ Others(c) /\ call[c].at = "start"
           /\ \E h \in call[c].mount : h \in Hook /\ Ran(h)
                /\ call'[c].mount = call[c].mount \ {h}
                /\ call'[c].made = call[c].made \union {[hook |-> h, mount |-> call[c].number]}
                /\ effects' = effects \union {[hook |-> h, mount |-> call[c].number]}
           /\ call'[c].at = call[c].at /\ call'[c].start = call[c].start
           /\ call'[c].stop = call[c].stop /\ call'[c].cleanups = call[c].cleanups
           /\ call'[c].number = call[c].number
           /\ UNCHANGED <<alive, tables, history>>
<1>1. call \in [Caller -> Call] /\ call[c] \in Call
    BY DEF Types
<1>2. PICK h \in call[c].mount :
            LET e == [hook |-> h, mount |-> call[c].number]
            IN  /\ CallBecomes(c, [call[c] EXCEPT !.mount = @ \ {h}, !.made = @ \union {e}])
                /\ effects' = effects \union {e}
                /\ Ran(h)
    BY DEF RunMountHook
<1> DEFINE e == [hook |-> h, mount |-> call[c].number]
<1> DEFINE r == [call[c] EXCEPT !.mount = @ \ {h}, !.made = @ \union {e}]
<1>3. call'[c] = r /\ Others(c)
    BY <1>1, <1>2, Becomes DEF Others
<1>4. /\ r.mount = call[c].mount \ {h} /\ r.at = call[c].at /\ r.start = call[c].start
      /\ r.stop = call[c].stop /\ r.cleanups = call[c].cleanups
      /\ r.made = call[c].made \union {e} /\ r.number = call[c].number /\ h \in Hook
    BY <1>1 DEF Call
<1> HIDE DEF r
<1>5. call[c].at = "start" /\ UNCHANGED <<alive, tables, history>>
    BY DEF RunMountHook
<1>6. \E g \in call[c].mount : g \in Hook /\ Ran(g)
                /\ call'[c].mount = call[c].mount \ {g}
                /\ call'[c].made = call[c].made \union {[hook |-> g, mount |-> call[c].number]}
                /\ effects' = effects \union {[hook |-> g, mount |-> call[c].number]}
    BY <1>2, <1>3, <1>4
<1> QED BY <1>3, <1>4, <1>5, <1>6

LEMMA RunStopHookCall ==
    ASSUME Types, NEW c \in Caller, RunStopHook(c)
    PROVE  /\ Others(c) /\ call[c].at = "stop"
           /\ \E h \in call[c].stop : h \in Hook /\ Ran(h)
                /\ call'[c].stop = call[c].stop \ {h}
           /\ call'[c].at = call[c].at /\ call'[c].start = call[c].start
           /\ call'[c].mount = call[c].mount /\ call'[c].cleanups = call[c].cleanups
           /\ call'[c].made = call[c].made /\ call'[c].number = call[c].number
           /\ UNCHANGED <<alive, tables, effects, history>>
<1>1. call \in [Caller -> Call] /\ call[c] \in Call
    BY DEF Types
<1>2. PICK h \in call[c].stop :
            CallBecomes(c, [call[c] EXCEPT !.stop = @ \ {h}]) /\ Ran(h)
    BY DEF RunStopHook
<1> DEFINE r == [call[c] EXCEPT !.stop = @ \ {h}]
<1>3. call'[c] = r /\ Others(c)
    BY <1>1, <1>2, Becomes DEF Others
<1>4. /\ r.stop = call[c].stop \ {h} /\ r.at = call[c].at /\ r.mount = call[c].mount
      /\ r.start = call[c].start /\ r.cleanups = call[c].cleanups /\ r.made = call[c].made
      /\ r.number = call[c].number /\ h \in Hook
    BY <1>1 DEF Call
<1> HIDE DEF r
<1>5. call[c].at = "stop" /\ UNCHANGED <<alive, tables, effects, history>>
    BY DEF RunStopHook
<1>6. \E g \in call[c].stop : g \in Hook /\ Ran(g) /\ call'[c].stop = call[c].stop \ {g}
    BY <1>2, <1>3, <1>4
<1> QED BY <1>3, <1>4, <1>5, <1>6

LEMMA RunCleanupCall ==
    ASSUME Types, NEW c \in Caller, RunCleanup(c)
    PROVE  /\ Others(c) /\ call[c].at = "stop"
           /\ effects' \subseteq effects
           /\ call'[c].at = call[c].at /\ call'[c].start = call[c].start
           /\ call'[c].mount = call[c].mount /\ call'[c].stop = call[c].stop
           /\ call'[c].made = call[c].made /\ call'[c].number = call[c].number
           /\ UNCHANGED <<alive, tables, history, runs>>
<1>1. call \in [Caller -> Call] /\ call[c] \in Call
    BY DEF Types
<1>2. PICK e \in call[c].cleanups :
            /\ CallBecomes(c, [call[c] EXCEPT !.cleanups = @ \ {e}])
            /\ effects' = effects \ {e}
    BY DEF RunCleanup
<1> DEFINE r == [call[c] EXCEPT !.cleanups = @ \ {e}]
<1>3. call'[c] = r /\ Others(c)
    BY <1>1, <1>2, Becomes DEF Others
<1>4. /\ r.stop = call[c].stop /\ r.at = call[c].at /\ r.mount = call[c].mount
      /\ r.start = call[c].start /\ r.made = call[c].made /\ r.number = call[c].number
    BY <1>1 DEF Call
<1> HIDE DEF r
<1>5. call[c].at = "stop" /\ UNCHANGED <<alive, tables, history, runs>>
    BY DEF RunCleanup
<1> QED BY <1>2, <1>3, <1>4, <1>5

LEMMA NothingToRun ==
    /\ NoCall.at = "idle" /\ NoCall.start = {} /\ NoCall.mount = {} /\ NoCall.stop = {}
    /\ NoCall.made = {} /\ NoCall.cleanups = {} /\ NoCall.listener = {}
BY DEF NoCall

(* The end of a call.                                                      *)
LEMMA ReturnCall ==
    ASSUME Types, NEW c \in Caller, KeepCleanups(c) \/ Stopped(c)
    PROVE  /\ Others(c) /\ call'[c].at = "idle"
           /\ call[c].start = {} \/ call[c].at # "start"
           /\ call[c].mount = {} \/ call[c].at # "start"
           /\ call[c].stop = {} \/ call[c].at # "stop"
           /\ call'[c].start = {} /\ call'[c].mount = {} /\ call'[c].stop = {}
           /\ call'[c].made = {}
           /\ call[c].at \in {"start", "stop"}
           /\ IF call[c].at = "start" THEN mount_cleanups' = mount_cleanups \union call[c].made
              ELSE UNCHANGED mount_cleanups
           /\ UNCHANGED <<alive, listeners, hooks, effects, history, runs>>
<1>1. CallBecomes(c, NoCall) /\ call \in [Caller -> Call]
    BY DEF KeepCleanups, Stopped, Return, Types
<1>2. call'[c] = NoCall /\ Others(c)
    BY <1>1, Becomes DEF Others
<1> QED BY <1>2, NothingToRun DEF KeepCleanups, Stopped, tables

(* A call that takes up cleanups, of an unmount with its stop hooks.       *)
LEMMA NewStop ==
    ASSUME call \in [Caller -> Call], NEW c \in Caller, NEW S, NEW E,
           CallBecomes(c, [NoCall EXCEPT !.at = "stop", !.stop = S, !.cleanups = E])
    PROVE  /\ Others(c) /\ call'[c].at = "stop" /\ call'[c].start = {} /\ call'[c].mount = {}
           /\ call'[c].stop = S /\ call'[c].cleanups = E /\ call'[c].made = {}
<1> DEFINE r == [NoCall EXCEPT !.at = "stop", !.stop = S, !.cleanups = E]
<1>1. call'[c] = r /\ Others(c)
    BY Becomes DEF Others
<1>2. /\ r.at = "stop" /\ r.start = {} /\ r.mount = {} /\ r.stop = S /\ r.cleanups = E
      /\ r.made = {}
    BY DEF NoCall
<1> HIDE DEF r
<1> QED BY <1>1, <1>2

LEMMA NewCleanups ==
    ASSUME call \in [Caller -> Call], NEW c \in Caller, NEW E,
           CallBecomes(c, [NoCall EXCEPT !.at = "stop", !.cleanups = E])
    PROVE  /\ Others(c) /\ call'[c].at = "stop" /\ call'[c].start = {} /\ call'[c].mount = {}
           /\ call'[c].stop = {} /\ call'[c].cleanups = E /\ call'[c].made = {}
<1> DEFINE r == [NoCall EXCEPT !.at = "stop", !.cleanups = E]
<1>1. call'[c] = r /\ Others(c)
    BY Becomes DEF Others
<1>2. /\ r.at = "stop" /\ r.start = {} /\ r.mount = {} /\ r.stop = {} /\ r.cleanups = E
      /\ r.made = {}
    BY DEF NoCall
<1> HIDE DEF r
<1> QED BY <1>1, <1>2

(* The first listener: nobody listened, so no other call is of a mount.    *)
LEMMA FirstListener ==
    ASSUME EffectsInv, NEW c \in Caller, NEW l \in Listener, AddListener(c, l), Registered = {}
    PROVE  /\ Others(c) /\ Idle(c) /\ call'[c].at = "start" /\ call'[c].stop = {}
           /\ call'[c].start = On("start") /\ call'[c].mount = On("mount")
           /\ call'[c].made = {} /\ call'[c].number = mounts + 1
           /\ \A d \in Caller : call[d].at # "start"
           /\ mounts' = mounts + 1 /\ mount_cleanups = {}
           /\ UNCHANGED <<alive, hooks, mount_cleanups, effects, unmounts, since, runs>>
<1> DEFINE r == [NoCall EXCEPT !.at = "start", !.listener = {l}, !.start = On("start"),
                               !.mount = On("mount"), !.number = mounts + 1]
<1>1. call \in [Caller -> Call]
    BY DEF EffectsInv, TypeInv, Types
<1>2. call'[c] = r /\ Others(c)
    BY <1>1, Becomes DEF AddListener, Others
<1>3. /\ r.at = "start" /\ r.stop = {} /\ r.start = On("start") /\ r.mount = On("mount")
      /\ r.made = {} /\ r.number = mounts + 1
    BY DEF NoCall
<1> HIDE DEF r
<1>4. ASSUME NEW d \in Caller, call[d].at = "start" PROVE FALSE
    <2>1. \E k \in call[d].listener : listeners[k] = "on"
        BY <1>4 DEF EffectsInv, Staged
    <2>2. call[d].listener \subseteq Listener
        BY <1>1 DEF Call
    <2> QED BY <2>1, <2>2 DEF Registered
<1>5. mount_cleanups = {}
    BY DEF EffectsInv, Held
<1> QED BY <1>2, <1>3, <1>4, <1>5 DEF AddListener

-----------------------------------------------------------------------------
(* Each hook runs once per mount.                                          *)

LEMMA HookTypes ==
    Types => /\ \A h \in Hook : runs[h] \in Nat /\ since[h] \in Nat
             /\ mounts \in Nat /\ unmounts \in Nat /\ hooks \in [Hook -> {"new", "on", "off"}]
             /\ \A h \in Hook : Kind[h] \in {"start", "stop", "mount"}
BY KindAssumption DEF Types

LEMMA RunsInit == Init => RunsInv
<1> SUFFICES ASSUME Init PROVE RunsInv
    OBVIOUS
<1>1. \A c \in Caller : call[c] = NoCall
    BY DEF Init
<1>2. Sorted
    BY <1>1, NothingToRun DEF Sorted
<1>3. \A h : ToRun(h) = {}
    BY <1>1, NothingToRun DEF ToRun
<1>4. \A h \in Hook : runs[h] = 0 /\ hooks[h] = "new"
    BY DEF Init
<1>5. CountedRuns
    BY <1>3, <1>4, FS_EmptySet DEF CountedRuns
<1> QED BY <1>2, <1>5, EffectsInit DEF RunsInv

(* Sorting depends on the one call that changes.                           *)
LEMMA SortedKept ==
    ASSUME Sorted, NEW c \in Caller, Others(c),
           \A h \in call'[c].start : Kind[h] = "start",
           \A h \in call'[c].mount : Kind[h] = "mount",
           \A h \in call'[c].stop : Kind[h] = "stop",
           call'[c].at # "start" => call'[c].start = {} /\ call'[c].mount = {},
           call'[c].at # "stop" => call'[c].stop = {}
    PROVE  Sorted'
BY DEF Sorted, Others

(* A step of one call that neither runs a hook nor takes one up.           *)
LEMMA NoHookRuns ==
    ASSUME CountedRuns, NEW c \in Caller, Others(c),
           call'[c].start \union call'[c].mount \union call'[c].stop
             = call[c].start \union call[c].mount \union call[c].stop,
           UNCHANGED <<hooks, mounts, unmounts, since, runs>>
    PROVE  CountedRuns'
<1>1. \A h : ToRun(h)' = ToRun(h)
    BY DEF ToRun, Others
<1> QED BY <1>1 DEF CountedRuns, Times

(* A call runs one of its hooks, which it has once.                        *)
LEMMA HookRuns ==
    ASSUME Types, CountedRuns, NEW c \in Caller, Others(c), NEW h \in Hook, Ran(h),
           h \in call[c].start \union call[c].mount \union call[c].stop,
           call'[c].start \union call'[c].mount \union call'[c].stop
             = (call[c].start \union call[c].mount \union call[c].stop) \ {h},
           UNCHANGED <<hooks, mounts, unmounts, since>>
    PROVE  CountedRuns'
<1>1. c \in ToRun(h) /\ ToRun(h)' = ToRun(h) \ {c}
    BY DEF ToRun, Others
<1>2. \A g \in Hook \ {h} : ToRun(g)' = ToRun(g)
    BY DEF ToRun, Others
<1>3. runs'[h] = runs[h] + 1 /\ (\A g \in Hook \ {h} : runs'[g] = runs[g]) /\ runs[h] \in Nat
    BY DEF Ran, Types
<1>4. IsFiniteSet(ToRun(h)) /\ hooks[h] # "new"
    BY <1>1 DEF CountedRuns
<1>5. Cardinality(ToRun(h)) \in Nat
    BY <1>4, FS_CardinalityType
<1>6. IsFiniteSet(ToRun(h)') /\ Cardinality(ToRun(h)') = Cardinality(ToRun(h)) - 1
    BY <1>1, <1>4, FS_RemoveElement
<1>7. runs'[h] + Cardinality(ToRun(h)') = runs[h] + Cardinality(ToRun(h))
    BY <1>3, <1>5, <1>6
<1> SUFFICES ASSUME NEW g \in Hook
             PROVE  /\ IsFiniteSet(ToRun(g)')
                    /\ hooks'[g] = "new" => runs'[g] = 0 /\ ToRun(g)' = {}
                    /\ hooks'[g] = "on" => runs'[g] + Cardinality(ToRun(g)') = Times(g)' - since'[g]
    BY DEF CountedRuns
<1>8. Times(g)' = Times(g) /\ since'[g] = since[g] /\ hooks'[g] = hooks[g]
    BY DEF Times
<1>9. CASE g = h
    BY <1>4, <1>6, <1>7, <1>8, <1>9 DEF CountedRuns
<1>10. CASE g # h
    BY <1>2, <1>3, <1>8, <1>10 DEF CountedRuns
<1> QED BY <1>9, <1>10

LEMMA RunsProgress ==
    ASSUME RunsInv, NEW c \in Caller, Progress(c)
    PROVE  Sorted' /\ CountedRuns'
<1>0. Types /\ Sorted /\ CountedRuns
    BY DEF RunsInv, EffectsInv, TypeInv
<1>1. UNCHANGED <<hooks, mounts, unmounts, since>>
    BY ProgressKeeps
<1>2. CASE RunStartHook(c)
    <2>1. Others(c) /\ call[c].at = "start" /\ call'[c].at = "start"
          /\ call'[c].mount = call[c].mount /\ call'[c].stop = call[c].stop
        BY <1>0, <1>2, RunStartHookCall
    <2>2. PICK h \in call[c].start : h \in Hook /\ Ran(h) /\ call'[c].start = call[c].start \ {h}
        BY <1>0, <1>2, RunStartHookCall
    <2>3. h \notin call[c].mount /\ h \notin call[c].stop
        BY <1>0, <2>2 DEF Sorted
    <2>4. Sorted'
        BY <1>0, <2>1, <2>2, SortedKept DEF Sorted
    <2>5. call'[c].start \union call'[c].mount \union call'[c].stop
             = (call[c].start \union call[c].mount \union call[c].stop) \ {h}
        BY <2>1, <2>2, <2>3
    <2> QED BY <1>0, <1>1, <2>1, <2>2, <2>4, <2>5, HookRuns
<1>3. CASE RunMountHook(c)
    <2>1. Others(c) /\ call[c].at = "start" /\ call'[c].at = "start"
          /\ call'[c].start = call[c].start /\ call'[c].stop = call[c].stop
        BY <1>0, <1>3, RunMountHookCall
    <2>2. PICK h \in call[c].mount : h \in Hook /\ Ran(h) /\ call'[c].mount = call[c].mount \ {h}
        BY <1>0, <1>3, RunMountHookCall
    <2>3. h \notin call[c].start /\ h \notin call[c].stop
        BY <1>0, <2>2 DEF Sorted
    <2>4. Sorted'
        BY <1>0, <2>1, <2>2, SortedKept DEF Sorted
    <2>5. call'[c].start \union call'[c].mount \union call'[c].stop
             = (call[c].start \union call[c].mount \union call[c].stop) \ {h}
        BY <2>1, <2>2, <2>3
    <2> QED BY <1>0, <1>1, <2>1, <2>2, <2>4, <2>5, HookRuns
<1>4. CASE RunStopHook(c)
    <2>1. Others(c) /\ call[c].at = "stop" /\ call'[c].at = "stop"
          /\ call'[c].start = call[c].start /\ call'[c].mount = call[c].mount
        BY <1>0, <1>4, RunStopHookCall
    <2>2. PICK h \in call[c].stop : h \in Hook /\ Ran(h) /\ call'[c].stop = call[c].stop \ {h}
        BY <1>0, <1>4, RunStopHookCall
    <2>3. h \notin call[c].start /\ h \notin call[c].mount
        BY <1>0, <2>2 DEF Sorted
    <2>4. Sorted'
        BY <1>0, <2>1, <2>2, SortedKept DEF Sorted
    <2>5. call'[c].start \union call'[c].mount \union call'[c].stop
             = (call[c].start \union call[c].mount \union call[c].stop) \ {h}
        BY <2>1, <2>2, <2>3
    <2> QED BY <1>0, <1>1, <2>1, <2>2, <2>4, <2>5, HookRuns
<1>5. CASE RunCleanup(c)
    <2>1. /\ Others(c) /\ call'[c].at = call[c].at /\ call'[c].start = call[c].start
          /\ call'[c].mount = call[c].mount /\ call'[c].stop = call[c].stop /\ runs' = runs
        BY <1>0, <1>5, RunCleanupCall
    <2>2. Sorted'
        BY <1>0, <2>1, SortedKept DEF Sorted
    <2> QED BY <1>0, <1>1, <2>1, <2>2, NoHookRuns
<1>6. CASE KeepCleanups(c) \/ Stopped(c)
    <2>1. /\ Others(c) /\ call'[c].start = {} /\ call'[c].mount = {} /\ call'[c].stop = {}
          /\ call'[c].at = "idle" /\ runs' = runs
        BY <1>0, <1>6, ReturnCall
    <2>2. call[c].start = {} /\ call[c].mount = {} /\ call[c].stop = {}
        BY <1>0, <1>6, ReturnCall DEF Sorted
    <2>3. Sorted'
        BY <1>0, <2>1, SortedKept
    <2> QED BY <1>0, <1>1, <2>1, <2>2, <2>3, NoHookRuns
<1> QED BY <1>2, <1>3, <1>4, <1>5, <1>6 DEF Progress

(* A call takes up the registered hooks of some kinds, once more for each. *)
LEMMA HooksTaken ==
    ASSUME Types, CountedRuns, NEW c \in Caller, Others(c), NEW K,
           call[c].start \union call[c].mount \union call[c].stop = {},
           call'[c].start \union call'[c].mount \union call'[c].stop
             = {h \in Hook : hooks[h] = "on" /\ Kind[h] \in K},
           \A h \in Hook : Times(h)' = Times(h) + IF Kind[h] \in K THEN 1 ELSE 0,
           UNCHANGED <<hooks, since, runs>>
    PROVE  CountedRuns'
<1> SUFFICES ASSUME NEW h \in Hook
             PROVE  /\ IsFiniteSet(ToRun(h)')
                    /\ hooks'[h] = "new" => runs'[h] = 0 /\ ToRun(h)' = {}
                    /\ hooks'[h] = "on" => runs'[h] + Cardinality(ToRun(h)') = Times(h)' - since'[h]
    BY DEF CountedRuns
<1>1. /\ IsFiniteSet(ToRun(h))
      /\ hooks[h] = "new" => runs[h] = 0 /\ ToRun(h) = {}
      /\ hooks[h] = "on" => runs[h] + Cardinality(ToRun(h)) = Times(h) - since[h]
    BY DEF CountedRuns
<1>2. CASE hooks[h] = "on" /\ Kind[h] \in K
    <2>1. ToRun(h)' = ToRun(h) \union {c} /\ c \notin ToRun(h)
        BY <1>2 DEF ToRun, Others
    <2>2. IsFiniteSet(ToRun(h)') /\ Cardinality(ToRun(h)') = Cardinality(ToRun(h)) + 1
        BY <1>1, <2>1, FS_AddElement DEF CountedRuns
    <2>3. /\ Cardinality(ToRun(h)) \in Nat /\ runs[h] \in Nat /\ since[h] \in Nat
          /\ Times(h) \in Nat
        BY <1>1, FS_CardinalityType, HookTypes DEF CountedRuns, Times
    <2> QED BY <1>1, <1>2, <2>2, <2>3
<1>3. CASE ~(hooks[h] = "on" /\ Kind[h] \in K)
    <2>1. ToRun(h)' = ToRun(h)
        BY <1>3 DEF ToRun, Others
    <2>2. IsFiniteSet(ToRun(h)) /\ Times(h) \in Nat
        BY HookTypes DEF CountedRuns, Times
    <2> QED BY <1>1, <1>3, <2>1, <2>2
<1> QED BY <1>2, <1>3

LEMMA RunsKept ==
    ASSUME Sorted, CountedRuns, UNCHANGED <<call, hooks, mounts, unmounts, since, runs>>
    PROVE  Sorted' /\ CountedRuns'
<1>1. \A h : ToRun(h)' = ToRun(h) /\ Times(h)' = Times(h)
    BY DEF ToRun, Times
<1> QED BY <1>1 DEF Sorted, CountedRuns

LEMMA RunsBegin ==
    ASSUME RunsInv, NEW c \in Caller, Begin(c)
    PROVE  Sorted' /\ CountedRuns'
<1>0. /\ EffectsInv /\ Types /\ Sorted /\ CountedRuns /\ call \in [Caller -> Call]
    BY DEF RunsInv, EffectsInv, TypeInv, Types
<1>1. Idle(c) => call[c].start = {} /\ call[c].mount = {} /\ call[c].stop = {}
    BY <1>0 DEF Sorted, Idle
<1>2. ASSUME NEW l \in Listener, AddListener(c, l) PROVE Sorted' /\ CountedRuns'
    <2>1. CASE Registered = {}
        <3>1. /\ Others(c) /\ Idle(c) /\ call'[c].at = "start" /\ call'[c].stop = {}
              /\ call'[c].start = On("start") /\ call'[c].mount = On("mount")
              /\ mounts' = mounts + 1 /\ UNCHANGED <<hooks, unmounts, since, runs>>
            BY <1>0, <1>2, <2>1, FirstListener
        <3>2. Sorted'
            BY <1>0, <3>1, SortedKept DEF On
        <3>3. call'[c].start \union call'[c].mount \union call'[c].stop
                = {h \in Hook : hooks[h] = "on" /\ Kind[h] \in {"start", "mount"}}
            BY <3>1 DEF On
        <3>4. \A h \in Hook : Times(h)' = Times(h) + IF Kind[h] \in {"start", "mount"} THEN 1 ELSE 0
            <4> TAKE h \in Hook
            <4>1. Kind[h] \in {"start", "stop", "mount"} /\ mounts \in Nat /\ unmounts \in Nat
                BY <1>0, HookTypes
            <4> QED BY <3>1, <4>1 DEF Times
        <3>5. call[c].start \union call[c].mount \union call[c].stop = {}
            BY <1>1, <3>1
        <3> QED BY <1>0, <3>1, <3>2, <3>3, <3>4, <3>5, HooksTaken
    <2>2. CASE Registered # {}
        BY <1>0, <1>2, <2>2, RunsKept DEF AddListener
    <2> QED BY <2>1, <2>2
<1>3. ASSUME NEW l \in Listener, RemoveListener(c, l) PROVE Sorted' /\ CountedRuns'
    <2>0. UNCHANGED <<hooks, mounts, since, runs>> /\ Idle(c)
        BY <1>3 DEF RemoveListener
    <2>1. CASE alive /\ Registered = {l}
        <3>1. /\ unmounts' = unmounts + 1
              /\ CallBecomes(c, [NoCall EXCEPT !.at = "stop", !.stop = On("stop"),
                                               !.cleanups = mount_cleanups])
            BY <1>3, <2>1 DEF RemoveListener
        <3>2. /\ Others(c) /\ call'[c].at = "stop" /\ call'[c].start = {} /\ call'[c].mount = {}
              /\ call'[c].stop = On("stop")
            BY <1>0, <3>1, NewStop
        <3>3. Sorted'
            BY <1>0, <3>2, SortedKept DEF On
        <3>4. call'[c].start \union call'[c].mount \union call'[c].stop
                = {h \in Hook : hooks[h] = "on" /\ Kind[h] \in {"stop"}}
            BY <3>2 DEF On
        <3>5. \A h \in Hook : Times(h)' = Times(h) + IF Kind[h] \in {"stop"} THEN 1 ELSE 0
            <4> TAKE h \in Hook
            <4>1. mounts \in Nat /\ unmounts \in Nat
                BY <1>0, HookTypes
            <4> QED BY <2>0, <3>1, <4>1 DEF Times
        <3>6. call[c].start \union call[c].mount \union call[c].stop = {}
            BY <1>1, <2>0
        <3> QED BY <1>0, <2>0, <3>2, <3>3, <3>4, <3>5, <3>6, HooksTaken
    <2>2. CASE ~(alive /\ Registered = {l})
        BY <1>0, <1>3, <2>2, RunsKept DEF RemoveListener
    <2> QED BY <2>1, <2>2
<1>4. ASSUME NEW h \in Hook, AddHook(c, h) PROVE Sorted' /\ CountedRuns'
    <2>1. /\ hooks[h] = "new" /\ hooks' = [hooks EXCEPT ![h] = "on"]
          /\ since' = [since EXCEPT ![h] = Times(h)]
          /\ UNCHANGED <<call, mounts, unmounts, runs>>
        BY <1>4 DEF AddHook, Times
    <2>2. Sorted'
        BY <1>0, <2>1 DEF Sorted
    <2>3. /\ \A g \in Hook : ToRun(g)' = ToRun(g) /\ Times(g)' = Times(g)
          /\ \A g \in Hook \ {h} : hooks'[g] = hooks[g] /\ since'[g] = since[g]
          /\ hooks'[h] = "on" /\ since'[h] = Times(h)
        BY <1>0, <2>1 DEF ToRun, Times, Types
    <2>4. runs[h] = 0 /\ ToRun(h) = {} /\ Times(h) \in Nat
        BY <1>0, <2>1, HookTypes DEF CountedRuns, Times
    <2>5. runs[h] + Cardinality(ToRun(h)) = Times(h) - Times(h)
        BY <2>4, FS_EmptySet
    <2> SUFFICES ASSUME NEW g \in Hook
                 PROVE  /\ IsFiniteSet(ToRun(g)')
                        /\ hooks'[g] = "new" => runs'[g] = 0 /\ ToRun(g)' = {}
                        /\ hooks'[g] = "on" => runs'[g] + Cardinality(ToRun(g)') = Times(g)' - since'[g]
        BY <2>2 DEF CountedRuns
    <2>6. CASE g = h
        BY <1>0, <2>1, <2>3, <2>5, <2>6 DEF CountedRuns
    <2>7. CASE g # h
        BY <1>0, <2>1, <2>3, <2>7 DEF CountedRuns
    <2> QED BY <2>6, <2>7
<1>5. ASSUME NEW h \in Hook, RemoveHook(c, h) PROVE Sorted' /\ CountedRuns'
    <2> DEFINE active == {e \in mount_cleanups : e.hook = h}
    <2>0. /\ hooks' = [hooks EXCEPT ![h] = "off"] /\ Idle(c)
          /\ UNCHANGED <<mounts, unmounts, since, runs>>
        BY <1>5 DEF RemoveHook, history
    <2>1. (\A g : ToRun(g)' = ToRun(g)) /\ Sorted'
        <3>1. CASE Kind[h] = "mount"
            <4>1. CallBecomes(c, [NoCall EXCEPT !.at = "stop", !.cleanups = active])
                BY <1>5, <3>1 DEF RemoveHook
            <4>2. /\ Others(c) /\ call'[c].at = "stop" /\ call'[c].start = {}
                  /\ call'[c].mount = {} /\ call'[c].stop = {}
                BY <1>0, <4>1, NewCleanups
            <4> QED BY <1>0, <1>1, <2>0, <4>2, SortedKept DEF ToRun, Others
        <3>2. CASE Kind[h] # "mount"
            BY <1>0, <1>5, <3>2 DEF RemoveHook, Sorted, ToRun
        <3> QED BY <3>1, <3>2
    <2>2. \A g \in Hook : hooks'[g] = IF g = h THEN "off" ELSE hooks[g]
        BY <1>0, <2>0 DEF Types
    <2> QED BY <1>0, <2>0, <2>1, <2>2 DEF CountedRuns, Times
<1>6. CASE DropStore(c)
    <2>1. CallBecomes(c, [NoCall EXCEPT !.at = "stop", !.cleanups = mount_cleanups]) /\ Idle(c)
          /\ UNCHANGED <<hooks, mounts, unmounts, since, runs>>
        BY <1>6 DEF DropStore, history
    <2>2. /\ Others(c) /\ call'[c].at = "stop" /\ call'[c].start = {}
          /\ call'[c].mount = {} /\ call'[c].stop = {}
        BY <1>0, <2>1, NewCleanups
    <2>3. Sorted'
        BY <1>0, <2>2, SortedKept
    <2> QED BY <1>0, <1>1, <2>1, <2>2, <2>3, NoHookRuns
<1> QED BY <1>2, <1>3, <1>4, <1>5, <1>6 DEF Begin

LEMMA RunsStep == RunsInv /\ [Next]_vars => RunsInv'
<1> SUFFICES ASSUME RunsInv, [Next]_vars PROVE RunsInv'
    OBVIOUS
<1>1. EffectsInv'
    BY EffectsStep DEF RunsInv
<1>2. CASE \E c \in Caller : Progress(c) \/ Begin(c)
    BY <1>1, <1>2, RunsProgress, RunsBegin DEF RunsInv
<1>3. CASE UNCHANGED vars
    BY <1>1, <1>3, RunsKept DEF RunsInv, vars, tables, history
<1> QED BY <1>2, <1>3 DEF Next, Rest

(* When every call has returned, a hook that stays registered has run once *)
(* for every time the first listener came (stop hooks: the last one left)  *)
(* since it was registered, on however many threads and in whatever order: *)
(* a count kept by a start and a stop hook never drifts.                   *)
THEOREM HooksRunOnce == Spec => []HooksRunOncePerMount
<1>1. RunsInv => HooksRunOncePerMount
    <2> SUFFICES ASSUME RunsInv, Quiescent, alive
                 PROVE  /\ mounts - unmounts = IF Registered = {} THEN 0 ELSE 1
                        /\ \A h \in Hook : hooks[h] = "on" => runs[h] = Times(h) - since[h]
        BY DEF HooksRunOncePerMount, Times
    <2>1. Types /\ Counted /\ Sorted /\ CountedRuns
        BY DEF RunsInv, EffectsInv, TypeInv
    <2>2. mounts - unmounts = IF Registered = {} THEN 0 ELSE 1
        BY <2>1, HookTypes DEF Counted
    <2>3. \A h \in Hook : ToRun(h) = {}
        BY <2>1 DEF Sorted, ToRun, Quiescent, Idle
    <2>4. ASSUME NEW h \in Hook, hooks[h] = "on" PROVE runs[h] = Times(h) - since[h]
        <3>1. Cardinality(ToRun(h)) = 0 /\ runs[h] \in Nat
            BY <2>1, <2>3, FS_EmptySet, HookTypes
        <3>2. runs[h] + Cardinality(ToRun(h)) = Times(h) - since[h]
            BY <2>1, <2>4 DEF CountedRuns
        <3> QED BY <3>1, <3>2
    <2> QED BY <2>2, <2>4
<1> QED BY <1>1, RunsInit, RunsStep, PTL DEF Spec

-----------------------------------------------------------------------------
(* Which effects are set up.  One mount at most is under way, the latest;  *)
(* what it makes and what the store keeps is of that mount; a hook that    *)
(* came after a mount has no effect of it; and one that was there before   *)
(* has its effect, or is about to run.                                     *)
OneMount ==
    \A c \in Caller : call[c].at = "start" =>
        /\ call[c].number = mounts
        /\ \A d \in Caller \ {c} : call[d].at # "start"
        /\ \A e \in call[c].made : e.mount = mounts

KeptNow == \A e \in mount_cleanups : e.mount = mounts

Known(h, n) == hooks[h] # "new" /\ since[h] < n
HooksCameBefore ==
    /\ \A h \in Hook : Kind[h] = "mount" => since[h] <= mounts
    /\ \A e \in effects : Known(e.hook, e.mount)
    /\ \A c \in Caller : \A h \in call[c].mount : Known(h, mounts)

Latest(h) == [hook |-> h, mount |-> mounts]
AboutToSetUp(c, h) == call[c].at = "start" /\ (Latest(h) \in call[c].made \/ h \in call[c].mount)
SetUp ==
    alive /\ Registered # {} =>
        \A h \in On("mount") : since[h] < mounts =>
            Latest(h) \in mount_cleanups \/ \E c \in Caller : AboutToSetUp(c, h)

Matching == OneMount /\ KeptNow /\ HooksCameBefore /\ SetUp

LEMMA MatchingInit == Init => Matching
<1> SUFFICES ASSUME Init PROVE Matching
    OBVIOUS
<1>1. \A c \in Caller : call[c] = NoCall
    BY DEF Init
<1>2. \A c \in Caller : call[c].at = "idle" /\ call[c].mount = {}
    BY <1>1, NothingToRun
<1>3. /\ effects = {} /\ mount_cleanups = {} /\ mounts = 0
      /\ \A h \in Hook : since[h] = 0 /\ hooks[h] = "new"
    BY DEF Init
<1>4. OneMount /\ KeptNow
    BY <1>2, <1>3 DEF OneMount, KeptNow
<1>5. HooksCameBefore
    BY <1>2, <1>3 DEF HooksCameBefore
<1>6. SetUp
    BY <1>3 DEF SetUp, On
<1> QED BY <1>4, <1>5, <1>6 DEF Matching

(* A step of one call that leaves its mount as it is.                      *)
LEMMA MatchingKept ==
    ASSUME Matching, NEW c \in Caller, Others(c),
           call'[c].at = "start" <=> call[c].at = "start",
           call'[c].number = call[c].number, call'[c].made = call[c].made,
           call'[c].mount = call[c].mount, effects' \subseteq effects,
           UNCHANGED <<alive, listeners, hooks, mounts, since, mount_cleanups>>
    PROVE  Matching'
<1>1. \A d \in Caller : /\ call'[d].at = "start" <=> call[d].at = "start"
                        /\ call'[d].number = call[d].number /\ call'[d].made = call[d].made
                        /\ call'[d].mount = call[d].mount
    BY DEF Others
<1>2. /\ \A h, n : Known(h, n)' <=> Known(h, n)
      /\ \A h : Latest(h)' = Latest(h)
      /\ \A h : \A d \in Caller : AboutToSetUp(d, h)' <=> AboutToSetUp(d, h)
      /\ Registered' = Registered /\ On("mount")' = On("mount")
    BY <1>1 DEF Known, Latest, AboutToSetUp, Registered, On
<1>3. OneMount' /\ KeptNow'
    BY <1>1 DEF Matching, OneMount, KeptNow
<1>4. HooksCameBefore'
    BY <1>1, <1>2 DEF Matching, HooksCameBefore
<1>5. SetUp'
    BY <1>2 DEF Matching, SetUp
<1> QED BY <1>3, <1>4, <1>5 DEF Matching

LEMMA MatchingMountHook ==
    ASSUME EffectsInv, Matching, NEW c \in Caller, RunMountHook(c)
    PROVE  Matching'
<1>0. Types
    BY DEF EffectsInv, TypeInv
<1>1. /\ Others(c) /\ call[c].at = "start" /\ call'[c].at = call[c].at
      /\ call'[c].number = call[c].number
      /\ UNCHANGED <<alive, listeners, hooks, mounts, since, mount_cleanups>>
    BY <1>0, RunMountHookCall DEF tables, history
<1>2. PICK h \in call[c].mount :
                /\ h \in Hook
                /\ call'[c].mount = call[c].mount \ {h}
                /\ call'[c].made = call[c].made \union {[hook |-> h, mount |-> call[c].number]}
                /\ effects' = effects \union {[hook |-> h, mount |-> call[c].number]}
    BY <1>0, RunMountHookCall
<1>3. call[c].number = mounts /\ \A d \in Caller \ {c} : call[d].at # "start"
    BY <1>1 DEF Matching, OneMount
<1>4. /\ call'[c].made = call[c].made \union {Latest(h)}
      /\ effects' = effects \union {Latest(h)} /\ Latest(h).hook = h /\ Latest(h).mount = mounts
    BY <1>2, <1>3 DEF Latest
<1>5. /\ \A g, n : Known(g, n)' <=> Known(g, n)
      /\ \A g : Latest(g)' = Latest(g)
      /\ Registered' = Registered /\ On("mount")' = On("mount")
    BY <1>1 DEF Known, Latest, Registered, On
<1>6. OneMount' /\ KeptNow'
    BY <1>1, <1>3, <1>4 DEF Matching, OneMount, KeptNow, Others
<1>7. HooksCameBefore'
    <2>1. Known(h, mounts)
        BY <1>2 DEF Matching, HooksCameBefore
    <2>2. \A e \in effects' : Known(e.hook, e.mount)
        BY <1>4, <2>1 DEF Matching, HooksCameBefore
    <2>3. \A d \in Caller : \A g \in call'[d].mount : Known(g, mounts)
        BY <1>1, <1>2 DEF Matching, HooksCameBefore, Others
    <2> QED BY <1>1, <1>5, <2>2, <2>3 DEF Matching, HooksCameBefore
<1>8. SetUp'
    <2>1. ASSUME NEW g, NEW d \in Caller, AboutToSetUp(d, g)
          PROVE  AboutToSetUp(c, g)'
        <3>1. d = c
            BY <1>3, <2>1 DEF AboutToSetUp
        <3>2. Latest(g) \in call'[c].made \/ g \in call'[c].mount
            BY <1>2, <1>4, <2>1, <3>1 DEF AboutToSetUp
        <3> QED BY <1>1, <1>5, <3>2 DEF AboutToSetUp
    <2> QED BY <1>1, <1>5, <2>1 DEF Matching, SetUp
<1> QED BY <1>6, <1>7, <1>8 DEF Matching

LEMMA MatchingReturn ==
    ASSUME EffectsInv, Matching, NEW c \in Caller, KeepCleanups(c) \/ Stopped(c)
    PROVE  Matching'
<1>0. Types
    BY DEF EffectsInv, TypeInv
<1>1. /\ Others(c) /\ call'[c].at = "idle" /\ call'[c].mount = {} /\ call'[c].made = {}
      /\ call[c].at = "start" => call[c].mount = {}
      /\ IF call[c].at = "start" THEN mount_cleanups' = mount_cleanups \union call[c].made
         ELSE mount_cleanups' = mount_cleanups
      /\ UNCHANGED <<alive, listeners, hooks, effects, mounts, since>>
    BY <1>0, ReturnCall DEF history
<1>2. /\ \A g, n : Known(g, n)' <=> Known(g, n)
      /\ \A g : Latest(g)' = Latest(g)
      /\ Registered' = Registered /\ On("mount")' = On("mount")
    BY <1>1 DEF Known, Latest, Registered, On
<1>3. OneMount' /\ KeptNow'
    BY <1>1 DEF Matching, OneMount, KeptNow, Others
<1>4. HooksCameBefore'
    BY <1>1, <1>2 DEF Matching, HooksCameBefore, Others
<1>5. ASSUME NEW g, NEW d \in Caller, AboutToSetUp(d, g)
      PROVE  Latest(g) \in mount_cleanups' \/ AboutToSetUp(d, g)'
    <2>1. CASE d = c
        BY <1>1, <1>5, <2>1 DEF AboutToSetUp
    <2>2. CASE d # c
        BY <1>1, <1>2, <1>5, <2>2 DEF AboutToSetUp, Others
    <2> QED BY <2>1, <2>2
<1>6. mount_cleanups \subseteq mount_cleanups'
    BY <1>1
<1>7. SetUp'
    BY <1>1, <1>2, <1>5, <1>6 DEF Matching, SetUp
<1> QED BY <1>3, <1>4, <1>7 DEF Matching

LEMMA MatchingProgress ==
    ASSUME EffectsInv, Matching, NEW c \in Caller, Progress(c)
    PROVE  Matching'
<1>0. Types
    BY DEF EffectsInv, TypeInv
<1>1. CASE RunStartHook(c)
    BY <1>0, <1>1, RunStartHookCall, MatchingKept DEF tables, history
<1>2. CASE RunStopHook(c)
    BY <1>0, <1>2, RunStopHookCall, MatchingKept DEF tables, history
<1>3. CASE RunCleanup(c)
    BY <1>0, <1>3, RunCleanupCall, MatchingKept DEF tables, history
<1> QED BY <1>1, <1>2, <1>3, MatchingMountHook, MatchingReturn DEF Progress

LEMMA MatchingFirst ==
    ASSUME EffectsInv, Matching, NEW c \in Caller, NEW l \in Listener, AddListener(c, l),
           Registered = {}
    PROVE  Matching'
<1>1. /\ Others(c) /\ call'[c].at = "start" /\ call'[c].mount = On("mount")
      /\ call'[c].made = {} /\ call'[c].number = mounts + 1
      /\ \A d \in Caller : call[d].at # "start"
      /\ mounts' = mounts + 1 /\ mount_cleanups = {}
      /\ UNCHANGED <<alive, hooks, mount_cleanups, effects, since>>
    BY FirstListener
<1>2. Types
    BY DEF EffectsInv, TypeInv
<1>3. OneMount' /\ KeptNow'
    BY <1>1 DEF OneMount, KeptNow, Others
<1>4. HooksCameBefore'
    <2>1. \A h \in Hook : mounts \in Nat /\ since[h] \in Nat
        BY <1>2, HookTypes
    <2>2. \A h \in Hook : Kind[h] = "mount" => since[h] <= mounts'
        BY <1>1, <2>1 DEF Matching, HooksCameBefore
    <2>3. \A e \in effects' : Known(e.hook, e.mount)'
        BY <1>1 DEF Matching, HooksCameBefore, Known
    <2>4. ASSUME NEW d \in Caller, NEW h \in call'[d].mount PROVE Known(h, mounts)'
        <3>1. CASE d = c
            <4>1. h \in Hook /\ Kind[h] = "mount" /\ hooks[h] # "new"
                BY <1>1, <2>4, <3>1 DEF On
            <4>2. since[h] < mounts'
                BY <1>1, <2>1, <4>1 DEF Matching, HooksCameBefore
            <4> QED BY <1>1, <4>1, <4>2 DEF Known
        <3>2. CASE d # c
            <4>1. h \in call[d].mount /\ h \in Hook
                BY <1>1, <1>2, <2>4, <3>2 DEF Others, Types, Call
            <4>2. since[h] < mounts /\ hooks[h] # "new"
                BY <4>1 DEF Matching, HooksCameBefore, Known
            <4> QED BY <1>1, <2>1, <4>1, <4>2 DEF Known
        <3> QED BY <3>1, <3>2
    <2> QED BY <1>1, <2>2, <2>3, <2>4 DEF HooksCameBefore
<1>5. SetUp'
    <2>1. On("mount")' = On("mount")
        BY <1>1 DEF On
    <2> QED BY <1>1, <2>1 DEF SetUp, AboutToSetUp
<1> QED BY <1>3, <1>4, <1>5 DEF Matching

(* A caller that begins to end something takes no part in a mount.         *)
LEMMA MatchingStop ==
    ASSUME EffectsInv, Matching, NEW c \in Caller, Idle(c), Others(c),
           call'[c].at # "start", call'[c].mount = {},
           mount_cleanups' \subseteq mount_cleanups,
           UNCHANGED <<effects, mounts, since>>,
           \A h \in Hook : hooks'[h] = "new" <=> hooks[h] = "new",
           \A h \in Hook : hooks'[h] = "on" => hooks[h] = "on",
           alive' /\ Registered' # {} =>
              /\ alive /\ Registered # {}
              /\ \A e \in mount_cleanups : hooks'[e.hook] = "on" => e \in mount_cleanups'
    PROVE  Matching'
<1>1. Types
    BY DEF EffectsInv, TypeInv
<1>2. /\ \A h \in Hook : \A n : Known(h, n)' <=> Known(h, n)
      /\ \A h : Latest(h)' = Latest(h)
      /\ On("mount")' \subseteq On("mount")
    BY DEF Known, Latest, On
<1>3. OneMount' /\ KeptNow'
    BY DEF Matching, OneMount, KeptNow, Others
<1>4. HooksCameBefore'
    <2>1. \A e \in effects : e.hook \in Hook
        BY <1>1 DEF Types, Effect
    <2>2. \A d \in Caller : call[d].mount \subseteq Hook
        BY <1>1 DEF Types, Call
    <2> QED BY <1>2, <2>1, <2>2 DEF Matching, HooksCameBefore, Others
<1>5. SetUp'
    <2> SUFFICES ASSUME alive', Registered' # {}, NEW h \in On("mount")', since[h] < mounts
                 PROVE  Latest(h) \in mount_cleanups' \/ \E d \in Caller : AboutToSetUp(d, h)'
        BY <1>2 DEF SetUp
    <2>1. h \in On("mount") /\ hooks'[h] = "on" /\ Latest(h).hook = h
        BY <1>2 DEF On, Latest
    <2>2. CASE Latest(h) \in mount_cleanups
        BY <2>1, <2>2
    <2>3. ASSUME NEW d \in Caller, AboutToSetUp(d, h) PROVE AboutToSetUp(d, h)'
        <3>1. d # c
            BY <2>3 DEF AboutToSetUp, Idle
        <3> QED BY <1>2, <2>3, <3>1 DEF AboutToSetUp, Others
    <2> QED BY <2>1, <2>2, <2>3 DEF Matching, SetUp
<1> QED BY <1>3, <1>4, <1>5 DEF Matching

LEMMA MatchingBegin ==
    ASSUME EffectsInv, Matching, NEW c \in Caller, Begin(c)
    PROVE  Matching'
<1>0. Types /\ call \in [Caller -> Call]
    BY DEF EffectsInv, TypeInv, Types
<1>1. ASSUME NEW l \in Listener, AddListener(c, l), Registered # {} PROVE Matching'
    <2>1. UNCHANGED <<alive, hooks, mounts, call, mount_cleanups, effects, since>>
        BY <1>1 DEF AddListener
    <2>2. OneMount' /\ KeptNow' /\ HooksCameBefore'
        BY <2>1 DEF Matching, OneMount, KeptNow, HooksCameBefore, Known
    <2>3. SetUp'
        BY <1>1, <2>1 DEF Matching, SetUp, On, Latest, AboutToSetUp
    <2> QED BY <2>2, <2>3 DEF Matching
<1>2. ASSUME NEW l \in Listener, RemoveListener(c, l) PROVE Matching'
    <2>0. UNCHANGED <<alive, hooks, effects, mounts, since>> /\ Idle(c) /\ l \in Registered
        BY <1>2 DEF RemoveListener, Registered
    <2>1. CASE alive /\ Registered = {l}
        <3>1. /\ CallBecomes(c, [NoCall EXCEPT !.at = "stop", !.stop = On("stop"),
                                               !.cleanups = mount_cleanups])
              /\ mount_cleanups' = {} /\ Registered' = {}
            BY <1>0, <1>2, <2>1 DEF RemoveListener, Registered, Types
        <3>2. Others(c) /\ call'[c].at = "stop" /\ call'[c].mount = {}
            BY <1>0, <3>1, NewStop
        <3> QED BY <2>0, <3>1, <3>2, MatchingStop
    <2>2. CASE ~(alive /\ Registered = {l})
        <3>1. UNCHANGED <<mount_cleanups, call>>
            BY <1>2, <2>2 DEF RemoveListener
        <3>2. OneMount' /\ KeptNow' /\ HooksCameBefore'
            BY <2>0, <3>1 DEF Matching, OneMount, KeptNow, HooksCameBefore, Known
        <3>3. SetUp'
            BY <2>0, <3>1 DEF Matching, SetUp, On, Latest, AboutToSetUp
        <3> QED BY <3>2, <3>3 DEF Matching
    <2> QED BY <2>1, <2>2
<1>3. ASSUME NEW h \in Hook, AddHook(c, h) PROVE Matching'
    <2>1. /\ hooks[h] = "new" /\ hooks' = [hooks EXCEPT ![h] = "on"]
          /\ since' = [since EXCEPT ![h] = Times(h)]
          /\ UNCHANGED <<alive, listeners, mount_cleanups, call, effects, mounts>>
        BY <1>3 DEF AddHook, Times
    <2>2. /\ \A g \in Hook : g # h => hooks'[g] = hooks[g] /\ since'[g] = since[g]
          /\ hooks'[h] = "on" /\ since'[h] = Times(h)
        BY <1>0, <2>1 DEF Types
    <2>3. mounts \in Nat /\ (Kind[h] = "mount" => Times(h) = mounts)
        BY <1>0, HookTypes DEF Times
    <2>4. OneMount' /\ KeptNow'
        BY <2>1 DEF Matching, OneMount, KeptNow
    <2>5. HooksCameBefore'
        <3>1. \A g \in Hook : Kind[g] = "mount" => since'[g] <= mounts
            BY <2>2, <2>3 DEF Matching, HooksCameBefore
        <3>2. \A g \in Hook : \A n : Known(g, n) => Known(g, n)'
            BY <2>1, <2>2 DEF Known
        <3>3. \A e \in effects : e.hook \in Hook
            BY <1>0 DEF Types, Effect
        <3>4. \A d \in Caller : call[d].mount \subseteq Hook
            BY <1>0 DEF Types, Call
        <3> QED BY <2>1, <3>1, <3>2, <3>3, <3>4 DEF Matching, HooksCameBefore
    <2>6. SetUp'
        <3> SUFFICES ASSUME alive, Registered # {}, NEW g \in On("mount")', since'[g] < mounts
                     PROVE  Latest(g) \in mount_cleanups \/ \E d \in Caller : AboutToSetUp(d, g)
            BY <2>1 DEF SetUp, Registered, Latest, AboutToSetUp
        <3>1. g \in Hook /\ Kind[g] = "mount" /\ hooks'[g] = "on"
            BY DEF On
        <3>2. g # h
            BY <2>2, <2>3, <3>1
        <3>3. g \in On("mount") /\ since[g] < mounts
            BY <2>2, <3>1, <3>2 DEF On
        <3> QED BY <3>3 DEF Matching, SetUp
    <2> QED BY <2>4, <2>5, <2>6 DEF Matching
<1>4. ASSUME NEW h \in Hook, RemoveHook(c, h) PROVE Matching'
    <2> DEFINE active == {e \in mount_cleanups : e.hook = h}
    <2>0. /\ hooks[h] = "on" /\ hooks' = [hooks EXCEPT ![h] = "off"] /\ Idle(c)
          /\ UNCHANGED <<alive, listeners, effects, mounts, since>>
        BY <1>4 DEF RemoveHook, history
    <2>1. /\ \A g \in Hook : hooks'[g] = "new" <=> hooks[g] = "new"
          /\ \A g \in Hook : hooks'[g] = "on" => hooks[g] = "on" /\ g # h
          /\ Registered' = Registered
        BY <1>0, <2>0 DEF Types, Registered
    <2>2. CASE Kind[h] = "mount"
        <3>1. /\ CallBecomes(c, [NoCall EXCEPT !.at = "stop", !.cleanups = active])
              /\ mount_cleanups' = mount_cleanups \ active
            BY <1>4, <2>2 DEF RemoveHook
        <3>2. Others(c) /\ call'[c].at = "stop" /\ call'[c].mount = {}
            BY <1>0, <3>1, NewCleanups
        <3>3. \A e \in mount_cleanups : hooks'[e.hook] = "on" => e \in mount_cleanups'
            BY <1>0, <2>1, <3>1 DEF Types, Effect
        <3> QED BY <2>0, <2>1, <3>1, <3>2, <3>3, MatchingStop
    <2>3. CASE Kind[h] # "mount"
        <3>1. UNCHANGED <<mount_cleanups, call>>
            BY <1>4, <2>3 DEF RemoveHook
        <3>2. /\ \A g \in Hook : \A n : Known(g, n)' <=> Known(g, n)
              /\ On("mount")' = On("mount")
            BY <2>0, <2>1, <2>3, <1>0 DEF Known, On, Types
        <3>3. (\A e \in effects : e.hook \in Hook) /\ \A d \in Caller : call[d].mount \subseteq Hook
            BY <1>0 DEF Types, Effect, Call
        <3>4. OneMount' /\ KeptNow'
            BY <2>0, <3>1 DEF Matching, OneMount, KeptNow
        <3>5. HooksCameBefore'
            BY <2>0, <3>1, <3>2, <3>3 DEF Matching, HooksCameBefore
        <3>6. SetUp'
            BY <2>0, <2>1, <3>1, <3>2 DEF Matching, SetUp, Latest, AboutToSetUp
        <3> QED BY <3>4, <3>5, <3>6 DEF Matching
    <2> QED BY <2>2, <2>3
<1>5. CASE DropStore(c)
    <2>1. /\ CallBecomes(c, [NoCall EXCEPT !.at = "stop", !.cleanups = mount_cleanups])
          /\ Idle(c) /\ alive' = FALSE /\ mount_cleanups' = {}
          /\ UNCHANGED <<hooks, effects, mounts, since>>
        BY <1>5 DEF DropStore, history
    <2>2. Others(c) /\ call'[c].at = "stop" /\ call'[c].mount = {}
        BY <1>0, <2>1, NewCleanups
    <2> QED BY <2>1, <2>2, MatchingStop
<1> QED BY <1>1, <1>2, <1>3, <1>4, <1>5, MatchingFirst DEF Begin

LEMMA MatchingStep == EffectsInv /\ Matching /\ [Next]_vars => Matching'
<1>1. Matching /\ UNCHANGED vars => Matching'
    BY DEF Matching, OneMount, KeptNow, HooksCameBefore, Known, SetUp, Registered, On, Latest,
           AboutToSetUp, vars, tables, history
<1> QED BY <1>1, MatchingProgress, MatchingBegin DEF Next, Rest

(* When every call has returned and somebody listens, a registered mount   *)
(* hook has exactly its effect of the latest mount if it was there before, *)
(* none if it came later: no effect of an earlier mount survives, and the  *)
(* removal of one hook ends no other's.                                    *)
THEOREM EffectsMatch == Spec => []EffectsMatchHooks
<1>1. EffectsInv /\ Matching => EffectsMatchHooks
    <2> SUFFICES ASSUME EffectsInv, Matching, Quiescent, alive, Registered # {},
                        NEW h \in On("mount")
                 PROVE  {e \in effects : e.hook = h}
                          = IF since[h] < mounts THEN {[hook |-> h, mount |-> mounts]} ELSE {}
        BY DEF EffectsMatchHooks
    <2>1. \A c \in Caller : InHands(c) = {} /\ call[c].at # "start"
        BY DEF EffectsInv, Staged, Quiescent, Idle
    <2>2. effects = mount_cleanups
        BY <2>1 DEF EffectsInv, EffectsAccounted
    <2>3. effects \subseteq Effect
        BY DEF EffectsInv, TypeInv, Types
    <2>4. \A e \in effects : e.hook = h => e = Latest(h) /\ since[h] < mounts
        BY <2>2, <2>3 DEF Matching, KeptNow, HooksCameBefore, Known, Effect, Latest
    <2>5. since[h] < mounts => Latest(h) \in effects
        BY <2>1, <2>2 DEF Matching, SetUp, AboutToSetUp
    <2>6. Latest(h).hook = h
        BY DEF Latest
    <2>7. CASE since[h] < mounts
        BY <2>4, <2>5, <2>6, <2>7 DEF Latest
    <2>8. CASE ~(since[h] < mounts)
        BY <2>4, <2>8
    <2> QED BY <2>7, <2>8
<1>2. EffectsInv /\ Matching /\ [Next]_vars => EffectsInv' /\ Matching'
    BY EffectsStep, MatchingStep
<1> QED BY <1>1, <1>2, EffectsInit, MatchingInit, PTL DEF Spec
=============================================================================
