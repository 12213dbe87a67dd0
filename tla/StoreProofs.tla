---------------------------- MODULE StoreProofs ----------------------------
(***************************************************************************)
(* Theorems about Store for every value of its constants.                  *)
(***************************************************************************)
EXTENDS Store, SequenceTheorems, TLAPS

(* The constants and initial records are well typed. *)
LEMMA Defaults ==
    /\ Anything \in Value
    /\ AnyScope \in Scope
    /\ NoNotification \in Notification
    /\ NoCall \in Call
    /\ NoDrain \in Drain
BY ValueAssumption
   DEF Anything, AnyScope, NoNotification, NoCall, NoDrain, Notification, Call,
       Drain, CallStage, DrainStage

(* What hooks leave in the context is a value, unless they abort. *)
LEMMA Outcomes ==
    ASSUME NEW v \in Value, NEW w, w \in OnSet[v] \/ w \in OnNotify[v], w # Aborted
    PROVE  w \in Value
BY HookAssumption

LEMMA InitTypeOK == Init => TypeOK
<1> SUFFICES ASSUME Init PROVE TypeOK
  OBVIOUS
<1>1. WritesOK
  BY EmptySeq DEF Init, WritesOK
<1>2. TablesOK
  BY DEF Init, TablesOK
<1>3. ThreadsOK
  BY Defaults DEF Init, ThreadsOK
<1>4. draining \in BOOLEAN
  BY Zenon DEF Init
<1> QED
  BY <1>1, <1>2, <1>3, <1>4 DEF TypeOK

(* The drain flag is a Boolean after every step. *)
LEMMA FlagType ==
    ASSUME draining \in BOOLEAN, [Next]_vars
    PROVE  draining' \in BOOLEAN
<1>1. ASSUME NEW t \in Context, Progress(t) PROVE draining' \in BOOLEAN
  BY <1>1, Zenon
     DEF Progress, SetHooks, Write, FindNotifyHooks, NotifyHooks, WriteBack,
         Mutate, Enqueue, Claim, Pop, Check, Snapshot, Deliver, Delivered,
         Release, Recheck, Reclaim, Get, InvokeListener, Subscribed
<1>2. ASSUME NEW t \in Context, Start(t) PROVE draining' \in BOOLEAN
  BY <1>2, Zenon
     DEF Start, Commit, MutateInPlace, AddListener, RemoveListener, AddHook,
         RemoveHook
<1>3. CASE UNCHANGED vars
  BY <1>3, Zenon DEF vars
<1> QED
  BY <1>1, <1>2, <1>3, Zenon DEF Next, Rest

(* Every step keeps the stored value, the numbers and the queue well typed. *)
LEMMA WritesTypes ==
    ASSUME WritesOK, ThreadsOK, NEW t \in Context, Progress(t) \/ Start(t)
    PROVE  WritesOK'
<1>1. call[t] \in Call
  BY DEF ThreadsOK
<1> USE DEF WritesOK, store, notifications
<1>2. CASE Write(t)
  BY <1>1, <1>2 DEF Write, Call
<1>3. CASE WriteBack(t)
  BY <1>1, <1>3 DEF WriteBack, Call
<1>4. CASE Mutate(t)
  <2>1. \/ UNCHANGED <<value, write_seq, value_seq>>
        \/ value' \in Value /\ write_seq' = write_seq + 1 /\ value_seq' = write_seq + 1
    BY <1>4 DEF Mutate, CallBecomes, Return
  <2>2. UNCHANGED <<delivered_seq, queue, announced>>
    BY <1>4 DEF Mutate
  <2> QED
    BY <2>1, <2>2
<1>5. CASE Enqueue(t)
  <2> DEFINE n == [seq |-> call[t].seq, value |-> call[t].value,
                   scope |-> call[t].scope]
  <2>1. n \in Notification
    BY <1>1 DEF Notification, Call
  <2>2. Append(queue, n) \in Seq(Notification)
    BY <2>1, AppendProperties
  <2> QED
    BY <1>5, <2>1, <2>2 DEF Enqueue
<1>6. CASE Pop(t)
  <2>1. queue # <<>> => Tail(queue) \in Seq(Notification)
    BY HeadTailProperties
  <2> QED
    BY <1>6, <2>1 DEF Pop
<1>7. CASE Check(t)
  <2>1. drain[t].item.seq \in Nat
    BY DEF ThreadsOK, Drain, Notification
  <2> QED
    BY <1>7, <2>1 DEF Check
<1>8. CASE \/ SetHooks(t) \/ FindNotifyHooks(t) \/ NotifyHooks(t) \/ Claim(t)
           \/ Snapshot(t)
           \/ Deliver(t) \/ Delivered(t) \/ Release(t) \/ Recheck(t) \/ Reclaim(t)
           \/ Get(t) \/ InvokeListener(t) \/ Subscribed(t)
  BY <1>8
     DEF SetHooks, FindNotifyHooks, NotifyHooks, Claim, Snapshot, Deliver,
         Delivered, Release, Recheck, Reclaim, Get, InvokeListener, Subscribed
<1>9. CASE Start(t)
  BY <1>9 DEF Start, Commit, MutateInPlace, AddListener, RemoveListener, AddHook,
              RemoveHook
<1> QED
  BY <1>2, <1>3, <1>4, <1>5, <1>6, <1>7, <1>8, <1>9 DEF Progress

(* Every step keeps the listener and hook tables well typed. *)
LEMMA TablesTypes ==
    ASSUME WritesOK, TablesOK, ThreadsOK, NEW t \in Context, Progress(t) \/ Start(t)
    PROVE  TablesOK'
<1>1. call[t].seq \in Nat
  BY DEF ThreadsOK, Call
<1> USE DEF TablesOK
<1>2. CASE Deliver(t)
  <2>1. drain[t].item.seq \in Nat
    BY DEF ThreadsOK, Drain, Notification
  <2> QED
    BY <1>2, <2>1 DEF Deliver
<1>3. CASE InvokeListener(t) \/ Subscribed(t)
  BY <1>1, <1>3 DEF InvokeListener, Subscribed
<1>4. CASE \/ SetHooks(t) \/ Write(t) \/ FindNotifyHooks(t) \/ NotifyHooks(t)
           \/ WriteBack(t)
           \/ Mutate(t) \/ Enqueue(t) \/ Claim(t) \/ Pop(t) \/ Check(t)
           \/ Snapshot(t) \/ Delivered(t) \/ Release(t) \/ Recheck(t)
           \/ Reclaim(t) \/ Get(t)
  BY <1>4
     DEF SetHooks, Write, FindNotifyHooks, NotifyHooks, WriteBack, Mutate,
         Enqueue, Claim, Pop, Check, Snapshot, Delivered, Release, Recheck,
         Reclaim, Get
<1>5. CASE Commit(t) \/ MutateInPlace(t)
  BY <1>5 DEF Commit, MutateInPlace
<1>6. ASSUME NEW l \in Listener, AddListener(t, l) \/ RemoveListener(t, l)
      PROVE  TablesOK'
  BY <1>6 DEF AddListener, RemoveListener, WritesOK
<1>7. ASSUME NEW h \in Hook, AddHook(t, h) \/ RemoveHook(t, h)
      PROVE  TablesOK'
  BY <1>7 DEF AddHook, RemoveHook
<1> QED
  BY <1>2, <1>3, <1>4, <1>5, <1>6, <1>7 DEF Progress, Start

(* A call or a drain record replaced by another one. *)
LEMMA CallStep ==
    ASSUME ThreadsOK, NEW t \in Context, NEW c \in Call, CallBecomes(t, c),
           UNCHANGED drain
    PROVE  ThreadsOK'
BY DEF ThreadsOK, CallBecomes

LEMMA DrainStep ==
    ASSUME ThreadsOK, NEW t \in Context, NEW d \in Drain, DrainBecomes(t, d),
           UNCHANGED call
    PROVE  ThreadsOK'
BY DEF ThreadsOK, DrainBecomes

LEMMA CallTypes ==
    ASSUME WritesOK, ThreadsOK, NEW t \in Context,
           \/ Commit(t) \/ SetHooks(t) \/ Write(t) \/ FindNotifyHooks(t)
           \/ NotifyHooks(t)
           \/ WriteBack(t) \/ MutateInPlace(t) \/ Mutate(t) \/ Enqueue(t)
           \/ Get(t) \/ InvokeListener(t) \/ Subscribed(t) \/ \E l \in Listener : AddListener(t, l)
    PROVE  ThreadsOK'
<1>1. call[t] \in Call /\ NoCall \in Call
  BY Defaults DEF ThreadsOK
<1>2. CASE Commit(t)
  <2>1. PICK v \in Value, s \in Scope, run_set_hooks \in BOOLEAN :
          CallBecomes(t,
            [NoCall EXCEPT !.at = IF run_set_hooks /\ Active("set") THEN "set_hooks" ELSE "write",
                           !.value = v, !.scope = s])
    BY <1>2 DEF Commit
  <2>2. [NoCall EXCEPT !.at = IF run_set_hooks /\ Active("set") THEN "set_hooks" ELSE "write",
                       !.value = v, !.scope = s] \in Call
    BY <1>1 DEF Call, CallStage
  <2> QED
    BY <1>2, <2>1, <2>2, CallStep DEF Commit
<1>3. CASE SetHooks(t)
  <2>1. PICK w \in OnSet[call[t].value] :
          IF w = Aborted
          THEN Return(t)
          ELSE CallBecomes(t, [call[t] EXCEPT !.at = "write", !.value = w])
    BY <1>3 DEF SetHooks
  <2>2. w # Aborted => w \in Value
    BY <1>1, Outcomes DEF Call
  <2>3. w # Aborted => [call[t] EXCEPT !.at = "write", !.value = w] \in Call
    BY <1>1, <2>2 DEF Call, CallStage
  <2> QED
    BY <1>1, <1>3, <2>1, <2>3, CallStep DEF SetHooks, Return
<1>4. CASE Write(t)
  <2>1. write_seq + 1 \in Nat
    BY DEF WritesOK
  <2>2. [call[t] EXCEPT !.at = "written", !.seq = write_seq + 1] \in Call
    BY <1>1, <2>1 DEF Call, CallStage
  <2> QED
    BY <1>1, <1>4, <2>2, CallStep DEF Write, Return
<1>5. CASE NotifyHooks(t)
  <2>1. PICK w \in OnNotify[call[t].value] :
          IF w = Aborted
          THEN Return(t)
          ELSE CallBecomes(t, [call[t] EXCEPT !.at = "write_back", !.value = w])
    BY <1>5 DEF NotifyHooks
  <2>2. w # Aborted => w \in Value
    BY <1>1, Outcomes DEF Call
  <2>3. w # Aborted => [call[t] EXCEPT !.at = "write_back", !.value = w] \in Call
    BY <1>1, <2>2 DEF Call, CallStage
  <2> QED
    BY <1>1, <1>5, <2>1, <2>3, CallStep DEF NotifyHooks, Return
<1>6. CASE FindNotifyHooks(t) \/ WriteBack(t)
  <2>1. /\ [call[t] EXCEPT !.at = "enqueue"] \in Call
        /\ [call[t] EXCEPT !.at = IF Active("notify") THEN "notify_hooks"
                                                      ELSE "write_back"] \in Call
    BY <1>1 DEF Call, CallStage
  <2> QED
    BY <1>6, <2>1, CallStep DEF FindNotifyHooks, WriteBack, Goto
<1>7. CASE MutateInPlace(t)
  <2>1. PICK s \in Scope : CallBecomes(t, [NoCall EXCEPT !.at = "mutate", !.scope = s])
    BY <1>7 DEF MutateInPlace
  <2>2. [NoCall EXCEPT !.at = "mutate", !.scope = s] \in Call
    BY <1>1 DEF Call, CallStage
  <2> QED
    BY <1>7, <2>1, <2>2, CallStep DEF MutateInPlace
<1>8. CASE Mutate(t)
  <2>1. CASE Return(t)
    BY <1>1, <1>8, <2>1, CallStep DEF Mutate, Return
  <2>2. ASSUME NEW v \in Value,
               CallBecomes(t, [call[t] EXCEPT !.at = "enqueue", !.value = v,
                                              !.seq = write_seq + 1])
        PROVE  ThreadsOK'
    <3>1. write_seq + 1 \in Nat
      BY DEF WritesOK
    <3>2. [call[t] EXCEPT !.at = "enqueue", !.value = v, !.seq = write_seq + 1]
            \in Call
      BY <1>1, <3>1 DEF Call, CallStage
    <3> QED
      BY <1>8, <2>2, <3>2, CallStep DEF Mutate
  <2> QED
    BY <1>8, <2>1, <2>2 DEF Mutate
<1>9. CASE Enqueue(t)
  <2>1. [call[t] EXCEPT !.at = "claim"] \in Call
    BY <1>1 DEF Call, CallStage
  <2> QED
    BY <1>9, <2>1, CallStep DEF Enqueue, Goto
<1>10. CASE Get(t)
  <2>1. [call[t] EXCEPT !.at = "invoke", !.value = value, !.seq = value_seq] \in Call
    BY <1>1 DEF WritesOK, Call, CallStage
  <2> QED
    BY <1>10, <2>1, CallStep DEF Get
<1>11. CASE InvokeListener(t) \/ Subscribed(t)
  <2>1. [call[t] EXCEPT !.at = "first_call"] \in Call
    BY <1>1 DEF Call, CallStage
  <2> QED
    BY <1>1, <1>11, <2>1, CallStep DEF InvokeListener, Subscribed, Goto, Return
<1>12. ASSUME NEW l \in Listener, AddListener(t, l) PROVE ThreadsOK'
  <2>1. [NoCall EXCEPT !.at = "get", !.listener = {l}] \in Call
    BY <1>1 DEF Call, CallStage
  <2>2. CASE UNCHANGED call
    BY <1>12, <2>2 DEF AddListener, ThreadsOK
  <2> QED
    BY <1>12, <2>1, <2>2, CallStep DEF AddListener
<1> QED
  BY <1>2, <1>3, <1>4, <1>5, <1>6, <1>7, <1>8, <1>9, <1>10, <1>11, <1>12

LEMMA DrainTypes ==
    ASSUME WritesOK, ThreadsOK, NEW t \in Context,
           \/ Claim(t) \/ Pop(t) \/ Check(t) \/ Snapshot(t) \/ Deliver(t)
           \/ Delivered(t) \/ Release(t) \/ Recheck(t) \/ Reclaim(t)
    PROVE  ThreadsOK'
<1>1. drain[t] \in Drain /\ NoDrain \in Drain /\ NoCall \in Call
  BY Defaults DEF ThreadsOK
<1>2. \A stage \in DrainStage : [drain[t] EXCEPT !.at = stage] \in Drain
  BY <1>1 DEF Drain
<1>3. [NoDrain EXCEPT !.at = "pop"] \in Drain
  BY <1>1 DEF Drain, DrainStage
<1>4. {"none", "pop", "snapshot", "release", "recheck", "reclaim"} \subseteq DrainStage
  BY DEF DrainStage
<1>5. CASE Claim(t)
  <2>1. [drain[t] EXCEPT !.at = "pop"] \in Drain
    BY <1>2, <1>4
  <2> QED
    BY <1>1, <1>5, <2>1
       DEF Claim, Return, CallBecomes, DrainGoto, DrainBecomes, ThreadsOK
<1>6. CASE Pop(t)
  <2>1. queue # <<>> => Head(queue) \in Notification
    BY HeadTailProperties DEF WritesOK
  <2>2. queue # <<>> =>
          [drain[t] EXCEPT !.at = "check", !.item = Head(queue)] \in Drain
    BY <1>1, <2>1 DEF Drain, DrainStage
  <2>3. [drain[t] EXCEPT !.at = "release"] \in Drain
    BY <1>2, <1>4
  <2> QED
    BY <1>6, <2>2, <2>3, DrainStep DEF Pop, DrainGoto
<1>7. CASE Check(t)
  <2>1. [drain[t] EXCEPT !.at = "snapshot"] \in Drain
    BY <1>2, <1>4
  <2> QED
    BY <1>3, <1>7, <2>1, DrainStep DEF Check, DrainGoto
<1>8. CASE Snapshot(t)
  <2> DEFINE T == {l \in Registered : Matches(l, drain[t].item.scope)}
  <2>1. T \in SUBSET Listener
    BY DEF Registered
  <2> HIDE DEF T
  <2>2. [drain[t] EXCEPT !.at = "deliver", !.todo = T] \in Drain
    BY <1>1, <2>1 DEF Drain, DrainStage
  <2>3. DrainBecomes(t, [drain[t] EXCEPT !.at = "deliver", !.todo = T])
    BY <1>8 DEF Snapshot, T
  <2> QED
    BY <1>8, <2>2, <2>3, DrainStep DEF Snapshot
<1>9. CASE Deliver(t)
  <2>1. PICK l \in drain[t].todo : DrainBecomes(t, [drain[t] EXCEPT !.todo = @ \ {l}])
    BY <1>9 DEF Deliver
  <2>2. [drain[t] EXCEPT !.todo = @ \ {l}] \in Drain
    BY <1>1 DEF Drain
  <2> QED
    BY <1>9, <2>1, <2>2, DrainStep DEF Deliver
<1>10. CASE Delivered(t)
  BY <1>3, <1>10, DrainStep DEF Delivered
<1>11. CASE Release(t)
  <2>1. [drain[t] EXCEPT !.at = "recheck"] \in Drain
    BY <1>2, <1>4
  <2> QED
    BY <1>11, <2>1, DrainStep DEF Release, DrainGoto
<1>12. CASE Recheck(t)
  <2>1. \A stage \in {"none", "reclaim"} : [drain[t] EXCEPT !.at = stage] \in Drain
    BY <1>2, <1>4
  <2> QED
    BY <1>12, <2>1, DrainStep DEF Recheck, DrainGoto
<1>13. CASE Reclaim(t)
  <2>1. \A stage \in {"none", "pop"} : [drain[t] EXCEPT !.at = stage] \in Drain
    BY <1>2, <1>4
  <2> QED
    BY <1>13, <2>1, DrainStep DEF Reclaim, DrainGoto
<1> QED
  BY <1>5, <1>6, <1>7, <1>8, <1>9, <1>10, <1>11, <1>12, <1>13

LEMMA NextTypeOK == TypeOK /\ [Next]_vars => TypeOK'
<1> SUFFICES ASSUME TypeOK, [Next]_vars PROVE TypeOK'
  OBVIOUS
<1>1. draining' \in BOOLEAN
  BY FlagType DEF TypeOK
<1>2. WritesOK /\ TablesOK /\ ThreadsOK
  BY DEF TypeOK
<1>3. CASE UNCHANGED vars
  BY <1>1, <1>2, <1>3
     DEF TypeOK, WritesOK, TablesOK, ThreadsOK, vars, store, notifications
<1>4. ASSUME NEW t \in Context, Progress(t) \/ Start(t)
      PROVE  WritesOK' /\ TablesOK' /\ ThreadsOK'
  <2>1. WritesOK' /\ TablesOK'
    BY <1>2, <1>4, WritesTypes, TablesTypes
  <2>2. ASSUME \/ \E l \in Listener : RemoveListener(t, l)
               \/ \E h \in Hook : AddHook(t, h) \/ RemoveHook(t, h)
        PROVE  ThreadsOK'
    BY <1>2, <2>2 DEF RemoveListener, AddHook, RemoveHook, ThreadsOK
  <2>3. ThreadsOK'
    BY <1>2, <1>4, <2>2, CallTypes, DrainTypes DEF Progress, Start
  <2> QED
    BY <2>1, <2>3
<1>5. CASE \E t \in Context : Progress(t) \/ Start(t)
  BY <1>1, <1>4, <1>5 DEF TypeOK
<1> QED
  BY <1>3, <1>5 DEF Next, Rest

(* Every variable keeps its type, for any threads, values and listeners.   *)
THEOREM TypeCorrect == Spec => []TypeOK
BY InitTypeOK, NextTypeOK, PTL DEF Spec

-----------------------------------------------------------------------------
(* The stage a drain record replaced by another one is at. *)
LEMMA DrainStages ==
    ASSUME ThreadsOK, NEW t \in Context, NEW d, DrainBecomes(t, d)
    PROVE  \A u \in Context : drain'[u] = IF u = t THEN d ELSE drain[u]
BY DEF ThreadsOK, DrainBecomes

LEMMA CallStages ==
    ASSUME ThreadsOK, NEW t \in Context, NEW c, CallBecomes(t, c)
    PROVE  \A u \in Context : call'[u] = IF u = t THEN c ELSE call[u]
BY DEF ThreadsOK, CallBecomes

(* Which steps move a thread in or out of the drain loop: a claim, a       *)
(* release and a second claim.                                             *)
LEMMA DrainLoop ==
    ASSUME ThreadsOK, draining \in BOOLEAN, NEW t \in Context, Progress(t) \/ Start(t)
    PROVE  \/ /\ ~draining /\ draining' = TRUE /\ drain'[t].at = "pop"
              /\ \A u \in Context \ {t} : drain'[u] = drain[u]
           \/ /\ Draining(t)
              /\ draining' = FALSE /\ drain'[t].at = "recheck"
              /\ \A u \in Context \ {t} : drain'[u] = drain[u]
           \/ /\ UNCHANGED draining
              /\ \A u \in Context : Draining(u)' <=> Draining(u)
              /\ \A u \in Context \ {t} : drain'[u] = drain[u]
<1> USE DEF Draining
<1>0. drain[t] \in Drain /\ NoDrain \in Drain
  BY Defaults DEF ThreadsOK
<1>1. CASE UNCHANGED <<drain, draining>>
  BY <1>1
<1>2. CASE Claim(t)
  <2>1. CASE draining
    BY <1>1, <1>2, <2>1 DEF Claim
  <2>2. CASE ~draining
    <3>1. DrainBecomes(t, [drain[t] EXCEPT !.at = "pop"]) /\ draining' = TRUE
      BY <1>2, <2>2 DEF Claim, DrainGoto
    <3>2. [drain[t] EXCEPT !.at = "pop"].at = "pop"
      BY <1>0 DEF Drain
    <3>3. drain'[t].at = "pop" /\ \A u \in Context \ {t} : drain'[u] = drain[u]
      BY <3>1, <3>2 DEF ThreadsOK, DrainBecomes
    <3> QED
      BY <2>2, <3>1, <3>3
  <2> QED
    BY <2>1, <2>2
<1>3. CASE Pop(t)
  <2>1. [drain[t] EXCEPT !.at = "release"].at = "release"
    BY <1>0 DEF Drain
  <2>2. [drain[t] EXCEPT !.at = "check", !.item = Head(queue)].at = "check"
    BY <1>0 DEF Drain
  <2>3. drain[t].at = "pop" /\ UNCHANGED draining
    BY <1>3 DEF Pop
  <2>4. /\ drain'[t].at \in {"release", "check"}
        /\ \A u \in Context \ {t} : drain'[u] = drain[u]
    BY <1>3, <2>1, <2>2, DrainStages DEF Pop, DrainGoto
  <2> QED
    BY <2>3, <2>4
<1>4. CASE Check(t)
  <2>1. [drain[t] EXCEPT !.at = "snapshot"].at = "snapshot"
    BY <1>0 DEF Drain
  <2>2. [NoDrain EXCEPT !.at = "pop"].at = "pop"
    BY <1>0 DEF Drain
  <2>3. drain[t].at = "check" /\ UNCHANGED draining
    BY <1>4 DEF Check
  <2>4. /\ drain'[t].at \in {"snapshot", "pop"}
        /\ \A u \in Context \ {t} : drain'[u] = drain[u]
    BY <1>4, <2>1, <2>2, DrainStages DEF Check, DrainGoto
  <2> QED
    BY <2>3, <2>4
<1>5. CASE Snapshot(t)
  <2> DEFINE T == {l \in Registered : Matches(l, drain[t].item.scope)}
  <2>1. DrainBecomes(t, [drain[t] EXCEPT !.at = "deliver", !.todo = T])
    BY <1>5 DEF Snapshot
  <2> HIDE DEF T
  <2>2. [drain[t] EXCEPT !.at = "deliver", !.todo = T].at = "deliver"
    BY <1>0 DEF Drain
  <2>3. drain'[t].at = "deliver" /\ \A u \in Context \ {t} : drain'[u] = drain[u]
    BY <2>1, <2>2 DEF ThreadsOK, DrainBecomes
  <2>4. drain[t].at = "snapshot" /\ UNCHANGED draining
    BY <1>5 DEF Snapshot
  <2> QED
    BY <2>3, <2>4
<1>6. CASE Deliver(t)
  <2>1. PICK l \in drain[t].todo : DrainBecomes(t, [drain[t] EXCEPT !.todo = @ \ {l}])
    BY <1>6 DEF Deliver
  <2>2. [drain[t] EXCEPT !.todo = @ \ {l}].at = drain[t].at
    BY <1>0 DEF Drain
  <2>3. drain'[t].at = drain[t].at /\ \A u \in Context \ {t} : drain'[u] = drain[u]
    BY <2>1, <2>2, DrainStages
  <2>4. UNCHANGED draining
    BY <1>6 DEF Deliver
  <2> QED
    BY <2>3, <2>4
<1>7. CASE Delivered(t)
  <2>1. [NoDrain EXCEPT !.at = "pop"].at = "pop"
    BY <1>0 DEF Drain
  <2>2. drain'[t].at = "pop" /\ \A u \in Context \ {t} : drain'[u] = drain[u]
    BY <1>7, <2>1, DrainStages DEF Delivered
  <2>3. drain[t].at = "deliver" /\ UNCHANGED draining
    BY <1>7 DEF Delivered
  <2> QED
    BY <2>2, <2>3
<1>8. CASE Release(t)
  <2>1. [drain[t] EXCEPT !.at = "recheck"].at = "recheck"
    BY <1>0 DEF Drain
  <2>2. drain'[t].at = "recheck" /\ \A u \in Context \ {t} : drain'[u] = drain[u]
    BY <1>8, <2>1, DrainStages DEF Release, DrainGoto
  <2>3. drain[t].at = "release" /\ draining' = FALSE
    BY <1>8 DEF Release
  <2> QED
    BY <2>2, <2>3
<1>9. CASE Recheck(t)
  <2>1. \A s \in {"none", "reclaim"} : [drain[t] EXCEPT !.at = s].at = s
    BY <1>0 DEF Drain
  <2>2. DrainBecomes(t, [drain[t] EXCEPT !.at = IF queue = <<>> THEN "none" ELSE "reclaim"])
    BY <1>9 DEF Recheck, DrainGoto
  <2>3. /\ drain'[t].at \in {"none", "reclaim"}
        /\ \A u \in Context \ {t} : drain'[u] = drain[u]
    BY <2>1, <2>2, DrainStages
  <2>4. drain[t].at = "recheck" /\ UNCHANGED draining
    BY <1>9 DEF Recheck
  <2> QED
    BY <2>3, <2>4
<1>10. CASE Reclaim(t)
  <2>1. \A s \in {"none", "pop"} : [drain[t] EXCEPT !.at = s].at = s
    BY <1>0 DEF Drain
  <2>2. DrainBecomes(t, [drain[t] EXCEPT !.at = IF draining THEN "none" ELSE "pop"])
    BY <1>10 DEF Reclaim, DrainGoto
  <2>3. drain[t].at = "reclaim" /\ draining' = TRUE
    BY <1>10 DEF Reclaim
  <2>4. CASE draining
    <3>1. drain'[t].at = "none" /\ \A u \in Context \ {t} : drain'[u] = drain[u]
      BY <2>1, <2>2, <2>4, DrainStages
    <3>2. draining = TRUE
      BY <2>4, Zenon
    <3> QED
      BY <2>3, <3>1, <3>2
  <2>5. CASE ~draining
    <3>1. drain'[t].at = "pop" /\ \A u \in Context \ {t} : drain'[u] = drain[u]
      BY <2>1, <2>2, <2>5, DrainStages
    <3> QED
      BY <2>3, <2>5, <3>1
  <2> QED
    BY <2>4, <2>5
<1>11. CASE \/ SetHooks(t) \/ Write(t) \/ FindNotifyHooks(t) \/ NotifyHooks(t)
            \/ WriteBack(t)
            \/ Mutate(t) \/ Enqueue(t) \/ Get(t) \/ InvokeListener(t)
            \/ Subscribed(t)
  BY <1>1, <1>11
     DEF SetHooks, Write, FindNotifyHooks, NotifyHooks, WriteBack, Mutate,
         Enqueue, Get, InvokeListener, Subscribed
<1>12. CASE Start(t)
  BY <1>1, <1>12
     DEF Start, Commit, MutateInPlace, AddListener, RemoveListener, AddHook,
         RemoveHook
<1> QED
  BY <1>2, <1>3, <1>4, <1>5, <1>6, <1>7, <1>8, <1>9, <1>10, <1>11, <1>12
     DEF Progress

LEMMA NextSingleDrainer ==
    ASSUME TypeOK, SingleDrainer, [Next]_vars
    PROVE  SingleDrainer'
<1>1. CASE UNCHANGED vars
  BY <1>1 DEF vars, SingleDrainer, Draining
<1>2. ASSUME NEW t \in Context, Progress(t) \/ Start(t)
      PROVE  SingleDrainer'
  <2>1. CASE /\ ~draining /\ draining' = TRUE /\ drain'[t].at = "pop"
             /\ \A u \in Context \ {t} : drain'[u] = drain[u]
    BY <2>1 DEF SingleDrainer, Draining
  <2>2. CASE /\ Draining(t) /\ draining' = FALSE /\ drain'[t].at = "recheck"
             /\ \A u \in Context \ {t} : drain'[u] = drain[u]
    BY <2>2 DEF SingleDrainer, Draining
  <2>3. CASE /\ UNCHANGED draining
             /\ \A u \in Context : Draining(u)' <=> Draining(u)
    BY <2>3 DEF SingleDrainer
  <2> QED
    BY <1>2, <2>1, <2>2, <2>3, DrainLoop DEF TypeOK
<1> QED
  BY <1>1, <1>2 DEF Next, Rest

LEMMA InitSingleDrainer == Init => SingleDrainer
BY DEF Init, SingleDrainer, Draining, NoDrain

(* Never two threads in the drain loop, reentrant writes included.         *)
THEOREM DrainExclusion == Spec => []SingleDrainer
<1>1. TypeOK /\ SingleDrainer /\ [Next]_vars => SingleDrainer'
  BY NextSingleDrainer
<1> QED
  BY <1>1, InitSingleDrainer, TypeCorrect, PTL DEF Spec

-----------------------------------------------------------------------------
(* The elements of a queue after an append and after its head is taken. *)
LEMMA AppendElements ==
    ASSUME NEW S, NEW q \in Seq(S), NEW n \in S
    PROVE  {Append(q, n)[i] : i \in DOMAIN Append(q, n)}
             = {q[i] : i \in DOMAIN q} \union {n}
<1>1. /\ DOMAIN q = 1..Len(q) /\ Len(q) \in Nat
      /\ DOMAIN Append(q, n) = 1..(Len(q) + 1)
      /\ \A i \in 1..Len(q) : Append(q, n)[i] = q[i]
      /\ Append(q, n)[Len(q) + 1] = n
  BY AppendProperties, LenProperties
<1> QED
  BY <1>1

LEMMA TailElements ==
    ASSUME NEW S, NEW q \in Seq(S), q # <<>>
    PROVE  {q[i] : i \in DOMAIN q}
             = {Tail(q)[i] : i \in DOMAIN Tail(q)} \union {Head(q)}
<1>1. /\ DOMAIN q = 1..Len(q) /\ Len(q) \in Nat /\ Len(q) > 0
      /\ DOMAIN Tail(q) = 1..(Len(q) - 1)
      /\ \A i \in 1..(Len(q) - 1) : Tail(q)[i] = q[i + 1]
      /\ Head(q) = q[1]
  BY HeadTailProperties, LenProperties
<1>2. ASSUME NEW i \in DOMAIN q
      PROVE  q[i] = Head(q) \/ \E k \in DOMAIN Tail(q) : Tail(q)[k] = q[i]
  <2>1. CASE i = 1
    BY <1>1, <2>1
  <2>2. CASE i # 1
    <3>1. i - 1 \in DOMAIN Tail(q) /\ Tail(q)[i - 1] = q[(i - 1) + 1]
      BY <1>1, <2>2
    <3>2. (i - 1) + 1 = i
      BY <1>1
    <3> QED
      BY <3>1, <3>2
  <2> QED
    BY <2>1, <2>2
<1>3. ASSUME NEW k \in DOMAIN Tail(q)
      PROVE  \E i \in DOMAIN q : q[i] = Tail(q)[k]
  <2>1. k + 1 \in DOMAIN q /\ q[k + 1] = Tail(q)[k]
    BY <1>1
  <2> QED
    BY <2>1
<1>4. \E i \in DOMAIN q : q[i] = Head(q)
  BY <1>1
<1> QED
  BY <1>2, <1>3, <1>4

(* Which steps take a thread away from "claim", and what becomes of the    *)
(* queue.                                                                  *)
LEMMA CallLoop ==
    ASSUME TypeOK, NEW t \in Context, Progress(t) \/ Start(t)
    PROVE  \/ /\ Enqueue(t) /\ call'[t].at = "claim"
           \/ Claim(t)
           \/ /\ queue' # <<>> => queue # <<>>
              /\ \A u \in Context : call[u].at = "claim" => call'[u].at = "claim"
<1>1. call[t] \in Call /\ queue \in Seq(Notification)
  BY DEF TypeOK, ThreadsOK, WritesOK
<1>2. CASE Enqueue(t)
  <2>1. [call[t] EXCEPT !.at = "claim"].at = "claim"
    BY <1>1 DEF Call
  <2>2. call'[t].at = "claim"
    BY <1>2, <2>1 DEF Enqueue, Goto, CallBecomes, TypeOK, ThreadsOK
  <2> QED
    BY <1>2, <2>2
<1>3. CASE Pop(t)
  BY <1>3 DEF Pop
<1>4. CASE \/ Check(t) \/ Snapshot(t) \/ Deliver(t) \/ Delivered(t) \/ Release(t)
           \/ Recheck(t) \/ Reclaim(t)
  BY <1>4
     DEF Check, Snapshot, Deliver, Delivered, Release, Recheck, Reclaim,
         notifications
<1>5. CASE /\ UNCHANGED queue
           /\ call[t].at # "claim"
           /\ \A u \in Context \ {t} : call'[u] = call[u]
  BY <1>5
<1>6. CASE \/ SetHooks(t) \/ Write(t) \/ FindNotifyHooks(t) \/ NotifyHooks(t)
           \/ WriteBack(t)
           \/ Mutate(t) \/ Get(t) \/ InvokeListener(t) \/ Subscribed(t)
  <2>1. call[t].at # "claim" /\ UNCHANGED queue
    BY <1>6
       DEF SetHooks, Write, FindNotifyHooks, NotifyHooks, WriteBack, Mutate,
           Get, InvokeListener, Subscribed, notifications
  <2>2. \E c : CallBecomes(t, c)
    BY <1>6, Zenon
       DEF SetHooks, Write, FindNotifyHooks, NotifyHooks, WriteBack, Mutate,
           Get, InvokeListener, Subscribed, Return, Goto
  <2> QED
    BY <1>5, <2>1, <2>2 DEF CallBecomes, TypeOK, ThreadsOK
<1>7. CASE Commit(t) \/ MutateInPlace(t)
  <2>1. call[t].at # "claim" /\ UNCHANGED queue
    BY <1>7 DEF Commit, MutateInPlace, MayCall, notifications
  <2>2. \E c : CallBecomes(t, c)
    BY <1>7, Zenon DEF Commit, MutateInPlace
  <2> QED
    BY <1>5, <2>1, <2>2 DEF CallBecomes, TypeOK, ThreadsOK
<1>8. ASSUME NEW l \in Listener, AddListener(t, l)
      PROVE  /\ queue' # <<>> => queue # <<>>
             /\ \A u \in Context : call[u].at = "claim" => call'[u].at = "claim"
  <2>1. call[t].at # "claim" /\ UNCHANGED queue
    BY <1>8 DEF AddListener, MayCall, notifications
  <2>2. UNCHANGED call \/ \E c : CallBecomes(t, c)
    BY <1>8, Zenon DEF AddListener
  <2> QED
    BY <2>1, <2>2 DEF CallBecomes, TypeOK, ThreadsOK
<1>9. ASSUME \/ \E l \in Listener : RemoveListener(t, l)
             \/ \E h \in Hook : AddHook(t, h) \/ RemoveHook(t, h)
      PROVE  UNCHANGED <<queue, call>>
  BY <1>9 DEF RemoveListener, AddHook, RemoveHook, notifications
<1> QED
  BY <1>2, <1>3, <1>4, <1>6, <1>7, <1>8, <1>9 DEF Progress, Start

LEMMA NextNoStranded ==
    ASSUME TypeOK, SingleDrainer, NoStrandedNotification, [Next]_vars
    PROVE  NoStrandedNotification'
<1>1. SingleDrainer' /\ TypeOK'
  BY NextSingleDrainer, NextTypeOK
<1>2. CASE draining'
  BY <1>1, <1>2 DEF SingleDrainer, NoStrandedNotification
<1>3. CASE UNCHANGED vars
  BY <1>3 DEF vars, notifications, NoStrandedNotification, Draining
<1>4. ASSUME NEW t \in Context, Progress(t) \/ Start(t), ~draining', queue' # <<>>
      PROVE  \E u \in Context : \/ Draining(u)'
                                \/ drain'[u].at \in {"recheck", "reclaim"}
                                \/ call'[u].at = "claim"
  <2>1. CASE call'[t].at = "claim"
    BY <2>1
  <2>2. CASE Draining(t) /\ drain'[t].at = "recheck"
    BY <2>2
  <2>3. ~Claim(t) /\ ~Reclaim(t)
    BY <1>4 DEF Claim, Reclaim
  <2>4. CASE /\ queue # <<>>
             /\ \A u \in Context : call[u].at = "claim" => call'[u].at = "claim"
             /\ \A u \in Context : Draining(u)' <=> Draining(u)
             /\ \A u \in Context \ {t} : drain'[u] = drain[u]
    <3>1. PICK u \in Context : \/ Draining(u)
                               \/ drain[u].at \in {"recheck", "reclaim"}
                               \/ call[u].at = "claim"
      BY <2>4 DEF NoStrandedNotification
    <3>2. CASE u # t \/ Draining(u) \/ call[u].at = "claim"
      BY <2>4, <3>1, <3>2
    <3>3. CASE drain[t].at \in {"recheck", "reclaim"}
      <4>1. CASE Recheck(t)
        <5>1. [drain[t] EXCEPT !.at = "reclaim"].at = "reclaim"
          BY DEF TypeOK, ThreadsOK, Drain
        <5>2. drain'[t].at = "reclaim"
          BY <2>4, <4>1, <5>1
             DEF Recheck, DrainGoto, DrainBecomes, TypeOK, ThreadsOK
        <5> QED
          BY <5>2
      <4>2. CASE UNCHANGED drain
        BY <3>3, <4>2
      <4>3. Recheck(t) \/ UNCHANGED drain
        BY <1>4, <2>3, <3>3
           DEF Progress, Start, SetHooks, Write, FindNotifyHooks, NotifyHooks,
               WriteBack, Mutate, Enqueue, Pop, Check, Snapshot, Deliver,
               Delivered, Release, Get, InvokeListener, Subscribed, Commit,
               MutateInPlace, AddListener, RemoveListener, AddHook, RemoveHook
      <4> QED
        BY <4>1, <4>2, <4>3
    <3> QED
      BY <3>1, <3>2, <3>3
  <2> QED
    BY <1>4, <2>1, <2>2, <2>3, <2>4, DrainLoop, CallLoop DEF TypeOK
<1> QED
  BY <1>2, <1>3, <1>4 DEF Next, Rest, NoStrandedNotification, Draining

(* Whatever the interleaving of writers with the end of a drain, a queued  *)
(* notification has a thread that will see it.                             *)
THEOREM NothingStranded == Spec => []NoStrandedNotification
<1>1. Init => NoStrandedNotification
  BY DEF Init, NoStrandedNotification
<1>2. /\ TypeOK /\ SingleDrainer /\ NoStrandedNotification /\ [Next]_vars
      => NoStrandedNotification'
  BY NextNoStranded
<1> QED
  BY <1>1, <1>2, TypeCorrect, DrainExclusion, PTL DEF Spec

-----------------------------------------------------------------------------
(* Only Pop takes an item in hand and only Check lets go of it. *)
LEMMA HandStages ==
    ASSUME TypeOK, SingleDrainer, NEW t \in Context, Progress(t) \/ Start(t),
           ~Pop(t), ~Check(t), NEW u \in Context
    PROVE  /\ drain'[u].at = "check" <=> drain[u].at = "check"
           /\ drain[u].at = "check" => drain'[u] = drain[u]
<1> SUFFICES ASSUME drain' # drain
             PROVE  /\ \A v \in Context \ {t} : drain'[v] = drain[v]
                    /\ drain[t].at # "check"
                    /\ drain'[t].at # "check"
  OBVIOUS
<1>1. drain[t] \in Drain /\ NoDrain \in Drain
  BY Defaults DEF TypeOK, ThreadsOK
<1>2. \A s \in DrainStage : [drain[t] EXCEPT !.at = s].at = s
  BY <1>1 DEF Drain
<1>3. [NoDrain EXCEPT !.at = "pop"].at = "pop"
  BY <1>1 DEF Drain
<1>4. {"none", "pop", "recheck", "reclaim"} \subseteq DrainStage
  BY DEF DrainStage
<1>5. \A v \in Context \ {t} : drain'[v] = drain[v]
  BY DrainLoop DEF TypeOK
<1>6. CASE Claim(t)
  <2>1. ~draining /\ DrainBecomes(t, [drain[t] EXCEPT !.at = "pop"])
    BY <1>6 DEF Claim, DrainGoto
  <2>2. drain'[t].at = "pop"
    BY <1>2, <1>4, <2>1 DEF DrainBecomes, TypeOK, ThreadsOK
  <2> QED
    BY <1>5, <2>1, <2>2 DEF SingleDrainer, Draining
<1>7. CASE Snapshot(t)
  <2> DEFINE T == {l \in Registered : Matches(l, drain[t].item.scope)}
  <2>1. DrainBecomes(t, [drain[t] EXCEPT !.at = "deliver", !.todo = T])
    BY <1>7 DEF Snapshot
  <2> HIDE DEF T
  <2>2. [drain[t] EXCEPT !.at = "deliver", !.todo = T].at = "deliver"
    BY <1>1 DEF Drain
  <2>3. drain'[t].at = "deliver"
    BY <2>1, <2>2 DEF DrainBecomes, TypeOK, ThreadsOK
  <2> QED
    BY <1>5, <1>7, <2>3 DEF Snapshot
<1>8. CASE Deliver(t)
  <2>1. PICK l \in drain[t].todo : DrainBecomes(t, [drain[t] EXCEPT !.todo = @ \ {l}])
    BY <1>8 DEF Deliver
  <2>2. [drain[t] EXCEPT !.todo = @ \ {l}].at = drain[t].at
    BY <1>1 DEF Drain
  <2>3. drain'[t].at = drain[t].at
    BY <2>1, <2>2 DEF DrainBecomes, TypeOK, ThreadsOK
  <2> QED
    BY <1>5, <1>8, <2>3 DEF Deliver
<1>9. CASE Delivered(t)
  <2>1. drain'[t].at = "pop"
    BY <1>3, <1>9 DEF Delivered, DrainBecomes, TypeOK, ThreadsOK
  <2> QED
    BY <1>5, <1>9, <2>1 DEF Delivered
<1>10. CASE Release(t) \/ Recheck(t) \/ Reclaim(t)
  <2>1. \E s \in {"none", "pop", "recheck", "reclaim"} : DrainGoto(t, s)
    BY <1>10 DEF Release, Recheck, Reclaim
  <2>2. drain'[t].at # "check"
    BY <1>2, <1>4, <2>1 DEF DrainGoto, DrainBecomes, TypeOK, ThreadsOK
  <2> QED
    BY <1>5, <1>10, <2>2 DEF Release, Recheck, Reclaim
<1>11. CASE \/ SetHooks(t) \/ Write(t) \/ FindNotifyHooks(t) \/ NotifyHooks(t)
            \/ WriteBack(t)
            \/ Mutate(t) \/ Enqueue(t) \/ Get(t) \/ InvokeListener(t)
            \/ Subscribed(t)
  BY <1>11
     DEF SetHooks, Write, FindNotifyHooks, NotifyHooks, WriteBack, Mutate,
         Enqueue, Get, InvokeListener, Subscribed
<1>12. CASE Start(t)
  BY <1>12
     DEF Start, Commit, MutateInPlace, AddListener, RemoveListener, AddHook,
         RemoveHook
<1> QED
  BY <1>6, <1>7, <1>8, <1>9, <1>10, <1>11, <1>12 DEF Progress

(* Only Enqueue announces, only Enqueue and Pop touch the queue and only   *)
(* Check marks a delivery.                                                 *)
LEMMA NotificationsKept ==
    ASSUME NEW t \in Context, Progress(t) \/ Start(t),
           ~Enqueue(t), ~Pop(t), ~Check(t)
    PROVE  UNCHANGED <<queue, announced, delivered_seq>>
<1>1. CASE \/ SetHooks(t) \/ Write(t) \/ FindNotifyHooks(t) \/ NotifyHooks(t)
           \/ WriteBack(t)
           \/ Mutate(t) \/ Get(t) \/ InvokeListener(t) \/ Subscribed(t)
  BY <1>1
     DEF SetHooks, Write, FindNotifyHooks, NotifyHooks, WriteBack, Mutate, Get,
         InvokeListener, Subscribed, notifications
<1>2. CASE \/ Claim(t) \/ Snapshot(t) \/ Deliver(t) \/ Delivered(t) \/ Release(t)
           \/ Recheck(t) \/ Reclaim(t)
  BY <1>2
     DEF Claim, Snapshot, Deliver, Delivered, Release, Recheck, Reclaim,
         notifications
<1>3. CASE Start(t)
  BY <1>3
     DEF Start, Commit, MutateInPlace, AddListener, RemoveListener, AddHook,
         RemoveHook, notifications
<1> QED
  BY <1>1, <1>2, <1>3 DEF Progress

LEMMA NextAccounted ==
    ASSUME TypeOK, SingleDrainer, Accounted, [Next]_vars
    PROVE  Accounted'
<1> USE DEF Accounted, Queued, InHand
<1>1. CASE UNCHANGED vars
  BY <1>1 DEF vars, notifications
<1>2. ASSUME NEW t \in Context, Enqueue(t)
      PROVE  Accounted'
  <2> DEFINE n == [seq |-> call[t].seq, value |-> call[t].value,
                   scope |-> call[t].scope]
  <2>1. n \in Notification /\ queue \in Seq(Notification)
    BY DEF TypeOK, ThreadsOK, WritesOK, Call, Notification
  <2>2. queue' = Append(queue, n) /\ announced' = announced \union {n}
    BY <1>2 DEF Enqueue
  <2>3. UNCHANGED <<drain, delivered_seq>>
    BY <1>2 DEF Enqueue
  <2> HIDE DEF n
  <2>4. Queued' = Queued \union {n}
    BY <2>1, <2>2, AppendElements
  <2> QED
    BY <2>2, <2>3, <2>4
<1>3. ASSUME NEW t \in Context, Pop(t)
      PROVE  Accounted'
  <2>1. UNCHANGED <<announced, delivered_seq>> /\ drain[t].at = "pop"
    BY <1>3 DEF Pop
  <2>2. CASE queue = <<>>
    <3>1. UNCHANGED queue /\ DrainBecomes(t, [drain[t] EXCEPT !.at = "release"])
      BY <1>3, <2>2 DEF Pop, DrainGoto
    <3>2. [drain[t] EXCEPT !.at = "release"].at = "release"
      BY DEF TypeOK, ThreadsOK, Drain
    <3>3. \A u \in Context : /\ drain'[u].at = "check" <=> drain[u].at = "check"
                             /\ drain[u].at = "check" => drain'[u] = drain[u]
      BY <2>1, <3>1, <3>2 DEF DrainBecomes, TypeOK, ThreadsOK
    <3> QED
      BY <2>1, <3>1, <3>3
  <2>3. CASE queue # <<>>
    <3> DEFINE d == [drain[t] EXCEPT !.at = "check", !.item = Head(queue)]
    <3>1. queue' = Tail(queue) /\ DrainBecomes(t, d)
      BY <1>3, <2>3 DEF Pop
    <3>2. d.at = "check" /\ d.item = Head(queue)
      BY DEF TypeOK, ThreadsOK, Drain
    <3> HIDE DEF d
    <3>3. drain'[t].at = "check" /\ drain'[t].item = Head(queue)
      BY <3>1, <3>2 DEF DrainBecomes, TypeOK, ThreadsOK
    <3>4. \A u \in Context \ {t} : drain'[u] = drain[u]
      BY <3>1 DEF DrainBecomes, TypeOK, ThreadsOK
    <3>5. Queued = Queued' \union {Head(queue)}
      BY <2>3, <3>1, TailElements DEF TypeOK, WritesOK
    <3>6. \A m \in announced' : m.seq <= delivered_seq' \/ m \in Queued'
                                                        \/ InHand(m)'
      <4> SUFFICES ASSUME NEW m \in announced
                   PROVE  m.seq <= delivered_seq \/ m \in Queued' \/ InHand(m)'
        BY <2>1
      <4>1. CASE m \in Queued
        BY <3>3, <3>5, <4>1
      <4>2. CASE InHand(m)
        BY <2>1, <3>4, <4>2
      <4> QED
        BY <4>1, <4>2
    <3>7. \A u \in Context : drain'[u].at = "check" => drain'[u].item \in announced'
      BY <2>1, <3>3, <3>4, <3>5
    <3> QED
      BY <2>1, <3>5, <3>6, <3>7
  <2> QED
    BY <2>2, <2>3
<1>4. ASSUME NEW t \in Context, Check(t)
      PROVE  Accounted'
  <2>1. UNCHANGED <<queue, announced>> /\ drain[t].at = "check"
    BY <1>4 DEF Check, notifications
  <2>2. drain[t].item \in announced
    BY <2>1
  <2>3. \A u \in Context : drain[u].at = "check" => u = t
    BY <2>1 DEF SingleDrainer, Draining
  <2>4. \A m \in announced : m.seq \in Nat
    BY DEF TypeOK, WritesOK, Notification
  <2>5. /\ drain'[t].at # "check"
        /\ \A u \in Context \ {t} : drain'[u] = drain[u]
    <3>1. /\ [drain[t] EXCEPT !.at = "snapshot"].at = "snapshot"
          /\ [NoDrain EXCEPT !.at = "pop"].at = "pop"
      BY Defaults DEF TypeOK, ThreadsOK, Drain
    <3> QED
      BY <1>4, <3>1 DEF Check, DrainGoto, DrainBecomes, TypeOK, ThreadsOK
  <2>6. /\ delivered_seq' \in Nat /\ delivered_seq \in Nat
        /\ delivered_seq <= delivered_seq' /\ drain[t].item.seq <= delivered_seq'
        /\ delivered_seq' # delivered_seq => delivered_seq' = drain[t].item.seq
    BY <1>4, <2>2, <2>4 DEF Check, TypeOK, WritesOK
  <2>7. \A m \in announced' : m.seq <= delivered_seq' \/ m \in Queued'
                                                      \/ InHand(m)'
    BY <2>1, <2>3, <2>4, <2>6
  <2> QED
    BY <2>1, <2>2, <2>3, <2>5, <2>6, <2>7
<1>5. ASSUME NEW t \in Context, Progress(t) \/ Start(t),
             ~Enqueue(t), ~Pop(t), ~Check(t)
      PROVE  Accounted'
  <2> HIDE DEF Accounted, Queued, InHand
  <2>1. UNCHANGED <<queue, announced, delivered_seq>>
    BY <1>5, NotificationsKept
  <2>2. \A u \in Context : /\ drain'[u].at = "check" <=> drain[u].at = "check"
                           /\ drain[u].at = "check" => drain'[u] = drain[u]
    BY <1>5, HandStages
  <2>3. UNCHANGED Queued /\ \A n : InHand(n)' <=> InHand(n)
    BY <2>1, <2>2 DEF Queued, InHand
  <2> QED
    BY <2>1, <2>2, <2>3 DEF Accounted
<1> QED
  BY <1>1, <1>2, <1>3, <1>4, <1>5 DEF Next, Rest

LEMMA InitAccounted == Init => Accounted
BY DEF Init, Accounted, Queued, NoDrain

(* Once every call has returned, the newest announced write is the one     *)
(* delivered last.                                                         *)
THEOREM NewestDelivered == Spec => []DeliveredNewest
<1>1. TypeOK /\ SingleDrainer /\ Accounted /\ [Next]_vars => Accounted'
  BY NextAccounted
<1>2. NoStrandedNotification /\ Accounted => DeliveredNewest
  <2> SUFFICES ASSUME NoStrandedNotification, Accounted, Quiescent
               PROVE  /\ queue = <<>>
                      /\ \A n \in announced : n.seq <= delivered_seq
                      /\ delivered_seq # 0 =>
                           \E n \in announced : n.seq = delivered_seq
    BY DEF DeliveredNewest
  <2>1. queue = <<>>
    BY DEF NoStrandedNotification, Quiescent, Outside, Draining
  <2>2. Queued = {}
    BY <2>1 DEF Queued
  <2>3. \A n : ~InHand(n)
    BY DEF InHand, Quiescent, Outside
  <2> QED
    BY <2>1, <2>2, <2>3 DEF Accounted
<1> QED
  BY <1>1, <1>2, InitAccounted, TypeCorrect, DrainExclusion, NothingStranded, PTL
     DEF Spec

-----------------------------------------------------------------------------
(* The listeners, in a program that attaches them with `listen`: the calls *)
(* a listener gets all come from the drain.                                *)
ListenOnly == "subscribe" \notin Operation

NoImmediate == \A t \in Context : call[t].at \notin {"get", "invoke", "first_call"}

(* Every number in use has been handed out. *)
SeqBounds ==
    /\ delivered_seq <= write_seq
    /\ \A n \in announced : n.seq <= write_seq
    /\ \A t \in Context : call[t].seq <= write_seq

(* The drainer delivers the newest item, and no listener is ahead of it.   *)
Delivering(t) == drain[t].at \in {"snapshot", "deliver"}

ItemIsNewest == \A t \in Context : Delivering(t) => drain[t].item.seq = delivered_seq
NobodyAhead == \A l \in Listener : heard[l] <= delivered_seq

(* A listener of the whole store that was there before the newest write    *)
(* has heard of it, or the drainer is still to take its snapshot or to     *)
(* come to it.                                                             *)
WillHear(l) ==
    \/ heard[l] = delivered_seq
    \/ \E t \in Context : \/ drain[t].at = "snapshot"
                          \/ drain[t].at = "deliver" /\ l \in drain[t].todo

AllWillHear ==
    \A l \in Listener :
        listeners[l] = "on" /\ Filter[l] = Unfiltered /\ since[l] < delivered_seq
            => WillHear(l)

LEMMA NextNoImmediate ==
    ASSUME ListenOnly, TypeOK, NoImmediate, [Next]_vars
    PROVE  NoImmediate'
<1> USE DEF NoImmediate
<1>1. CASE UNCHANGED vars
  BY <1>1 DEF vars
<1>2. ASSUME NEW t \in Context, NEW c, CallBecomes(t, c),
             c.at \notin {"get", "invoke", "first_call"}
      PROVE  NoImmediate'
  BY <1>2 DEF CallBecomes, TypeOK, ThreadsOK
<1>3. ASSUME NEW t \in Context, Progress(t) \/ Start(t)
      PROVE  NoImmediate'
  <2>0. /\ call[t] \in Call /\ NoCall \in Call /\ NoCall.at = "idle"
        /\ \A s : [call[t] EXCEPT !.at = s].at = s
    BY Defaults DEF TypeOK, ThreadsOK, Call, NoCall
  <2>1. CASE Commit(t)
    <3>1. PICK v \in Value, s \in Scope, run_set_hooks \in BOOLEAN :
            CallBecomes(t,
              [NoCall EXCEPT !.at = IF run_set_hooks /\ Active("set") THEN "set_hooks" ELSE "write",
                             !.value = v, !.scope = s])
      BY <2>1 DEF Commit
    <3>2. [NoCall EXCEPT !.at = IF run_set_hooks /\ Active("set") THEN "set_hooks" ELSE "write",
                         !.value = v, !.scope = s].at \in {"set_hooks", "write"}
      BY <2>0 DEF Call
    <3> QED
      BY <1>2, <3>1, <3>2
  <2>2. CASE MutateInPlace(t)
    <3>1. PICK s \in Scope : CallBecomes(t, [NoCall EXCEPT !.at = "mutate", !.scope = s])
      BY <2>2 DEF MutateInPlace
    <3>2. [NoCall EXCEPT !.at = "mutate", !.scope = s].at = "mutate"
      BY <2>0 DEF Call
    <3> QED
      BY <1>2, <3>1, <3>2
  <2>3. CASE SetHooks(t) \/ NotifyHooks(t)
    <3>1. PICK w : \/ Return(t)
                   \/ CallBecomes(t, [call[t] EXCEPT !.at = "write", !.value = w])
                   \/ CallBecomes(t, [call[t] EXCEPT !.at = "write_back", !.value = w])
      BY <2>3, Zenon DEF SetHooks, NotifyHooks
    <3>2. /\ [call[t] EXCEPT !.at = "write", !.value = w].at = "write"
          /\ [call[t] EXCEPT !.at = "write_back", !.value = w].at = "write_back"
      BY <2>0 DEF Call
    <3> QED
      BY <1>2, <2>0, <3>1, <3>2 DEF Return
  <2>4. CASE Write(t)
    <3>1. [call[t] EXCEPT !.at = "written", !.seq = write_seq + 1].at = "written"
      BY <2>0 DEF Call
    <3> QED
      BY <1>2, <2>0, <2>4, <3>1 DEF Write, Return
  <2>5. CASE FindNotifyHooks(t) \/ WriteBack(t) \/ Enqueue(t)
    <3>1. \E s \in {"notify_hooks", "write_back", "enqueue", "claim"} : Goto(t, s)
      BY <2>5 DEF FindNotifyHooks, WriteBack, Enqueue
    <3> QED
      BY <1>2, <2>0, <3>1 DEF Goto
  <2>6. CASE Mutate(t)
    <3>1. PICK v : \/ Return(t)
                   \/ CallBecomes(t, [call[t] EXCEPT !.at = "enqueue", !.value = v,
                                                     !.seq = write_seq + 1])
      BY <2>6, Zenon DEF Mutate
    <3>2. [call[t] EXCEPT !.at = "enqueue", !.value = v, !.seq = write_seq + 1].at
            = "enqueue"
      BY <2>0 DEF Call
    <3> QED
      BY <1>2, <2>0, <3>1, <3>2 DEF Return
  <2>7. CASE Claim(t)
    BY <1>2, <2>0, <2>7 DEF Claim, Return
  <2>8. CASE Get(t) \/ InvokeListener(t) \/ Subscribed(t)
    BY <2>8 DEF Get, InvokeListener, Subscribed
  <2>9. CASE UNCHANGED call
    BY <2>9
  <2>10. \/ UNCHANGED call
         \/ Commit(t) \/ MutateInPlace(t) \/ SetHooks(t) \/ FindNotifyHooks(t)
         \/ NotifyHooks(t) \/ Write(t)
         \/ WriteBack(t) \/ Enqueue(t) \/ Mutate(t) \/ Claim(t) \/ Get(t)
         \/ InvokeListener(t) \/ Subscribed(t)
    BY <1>3
       DEF Progress, Start, Pop, Check, Snapshot, Deliver, Delivered, Release,
           Recheck, Reclaim, AddListener, RemoveListener, AddHook, RemoveHook,
           ListenOnly
  <2> QED
    BY <2>1, <2>2, <2>3, <2>4, <2>5, <2>6, <2>7, <2>8, <2>9, <2>10
<1> QED
  BY <1>1, <1>3 DEF Next, Rest

(* The number a call carries: none, the one it had, or a fresh one. *)
LEMMA CallSeq ==
    ASSUME TypeOK, NoImmediate, NEW t \in Context, Progress(t) \/ Start(t)
    PROVE  /\ write_seq' \in {write_seq, write_seq + 1}
           /\ call'[t].seq \in {0, call[t].seq, write_seq'}
           /\ \A u \in Context \ {t} : call'[u] = call[u]
<1>0. /\ call[t] \in Call /\ NoCall \in Call /\ NoCall.seq = 0
      /\ \A s : [call[t] EXCEPT !.at = s].seq = call[t].seq
  BY Defaults DEF TypeOK, ThreadsOK, Call, NoCall
<1>1. ASSUME NEW c, CallBecomes(t, c), c.seq \in {0, call[t].seq, write_seq'}
      PROVE  /\ call'[t].seq \in {0, call[t].seq, write_seq'}
             /\ \A u \in Context \ {t} : call'[u] = call[u]
  BY <1>1 DEF CallBecomes, TypeOK, ThreadsOK
<1>2. CASE Commit(t)
  <2>1. PICK v \in Value, s \in Scope, run_set_hooks \in BOOLEAN :
          CallBecomes(t,
            [NoCall EXCEPT !.at = IF run_set_hooks /\ Active("set") THEN "set_hooks" ELSE "write",
                           !.value = v, !.scope = s])
    BY <1>2 DEF Commit
  <2>2. [NoCall EXCEPT !.at = IF run_set_hooks /\ Active("set") THEN "set_hooks" ELSE "write",
                       !.value = v, !.scope = s].seq = 0
    BY <1>0 DEF Call
  <2>3. UNCHANGED write_seq
    BY <1>2 DEF Commit, store
  <2> QED
    BY <1>1, <2>1, <2>2, <2>3
<1>3. CASE MutateInPlace(t)
  <2>1. PICK s \in Scope : CallBecomes(t, [NoCall EXCEPT !.at = "mutate", !.scope = s])
    BY <1>3 DEF MutateInPlace
  <2>2. [NoCall EXCEPT !.at = "mutate", !.scope = s].seq = 0
    BY <1>0 DEF Call
  <2>3. UNCHANGED write_seq
    BY <1>3 DEF MutateInPlace, store
  <2> QED
    BY <1>1, <2>1, <2>2, <2>3
<1>4. CASE SetHooks(t) \/ NotifyHooks(t)
  <2>1. PICK w : \/ Return(t)
                 \/ CallBecomes(t, [call[t] EXCEPT !.at = "write", !.value = w])
                 \/ CallBecomes(t, [call[t] EXCEPT !.at = "write_back", !.value = w])
    BY <1>4, Zenon DEF SetHooks, NotifyHooks
  <2>2. /\ [call[t] EXCEPT !.at = "write", !.value = w].seq = call[t].seq
        /\ [call[t] EXCEPT !.at = "write_back", !.value = w].seq = call[t].seq
    BY <1>0 DEF Call
  <2>3. UNCHANGED write_seq
    BY <1>4 DEF SetHooks, NotifyHooks, store
  <2> QED
    BY <1>0, <1>1, <2>1, <2>2, <2>3 DEF Return
<1>5. CASE Write(t)
  <2>1. CASE Return(t) /\ UNCHANGED store
    BY <1>0, <1>1, <2>1 DEF Return, store
  <2>2. CASE /\ write_seq' = write_seq + 1
             /\ CallBecomes(t, [call[t] EXCEPT !.at = "written", !.seq = write_seq + 1])
    <3>1. [call[t] EXCEPT !.at = "written", !.seq = write_seq + 1].seq
            = write_seq + 1
      BY <1>0 DEF Call
    <3> QED
      BY <1>1, <2>2, <3>1
  <2> QED
    BY <1>5, <2>1, <2>2 DEF Write
<1>6. CASE FindNotifyHooks(t) \/ WriteBack(t) \/ Enqueue(t)
  <2>1. \E s \in {"notify_hooks", "write_back", "enqueue", "claim"} : Goto(t, s)
    BY <1>6 DEF FindNotifyHooks, WriteBack, Enqueue
  <2>2. UNCHANGED write_seq
    BY <1>6 DEF FindNotifyHooks, WriteBack, Enqueue, store
  <2> QED
    BY <1>0, <1>1, <2>1, <2>2 DEF Goto
<1>7. CASE Mutate(t)
  <2>1. CASE Return(t) /\ UNCHANGED store
    BY <1>0, <1>1, <2>1 DEF Return, store
  <2>2. ASSUME NEW v, write_seq' = write_seq + 1,
               CallBecomes(t, [call[t] EXCEPT !.at = "enqueue", !.value = v,
                                              !.seq = write_seq + 1])
        PROVE  /\ call'[t].seq \in {0, call[t].seq, write_seq'}
               /\ \A u \in Context \ {t} : call'[u] = call[u]
    <3>1. [call[t] EXCEPT !.at = "enqueue", !.value = v, !.seq = write_seq + 1].seq
            = write_seq + 1
      BY <1>0 DEF Call
    <3> QED
      BY <1>1, <2>2, <3>1
  <2>3. \/ Return(t) /\ UNCHANGED store
        \/ \E v : /\ write_seq' = write_seq + 1
                  /\ CallBecomes(t, [call[t] EXCEPT !.at = "enqueue", !.value = v,
                                                    !.seq = write_seq + 1])
    BY <1>7, Zenon DEF Mutate
  <2> QED
    BY <2>1, <2>2, <2>3 DEF store
<1>8. CASE Claim(t)
  BY <1>0, <1>1, <1>8 DEF Claim, Return, store
<1>9. CASE UNCHANGED <<call, write_seq>>
  BY <1>9
<1>10. \/ UNCHANGED <<call, write_seq>>
       \/ Commit(t) \/ MutateInPlace(t) \/ SetHooks(t) \/ FindNotifyHooks(t)
       \/ NotifyHooks(t) \/ Write(t)
       \/ WriteBack(t) \/ Enqueue(t) \/ Mutate(t) \/ Claim(t)
       \/ \E l \in Listener : AddListener(t, l)
  <2>1. ~Get(t) /\ ~InvokeListener(t) /\ ~Subscribed(t)
    BY DEF NoImmediate, Get, InvokeListener, Subscribed
  <2> QED
    BY <2>1
       DEF Progress, Start, Pop, Check, Snapshot, Deliver, Delivered, Release,
           Recheck, Reclaim, RemoveListener, AddHook, RemoveHook, store
<1>11. ASSUME NEW l \in Listener, AddListener(t, l)
       PROVE  /\ UNCHANGED write_seq
              /\ call'[t].seq \in {0, call[t].seq, write_seq'}
              /\ \A u \in Context \ {t} : call'[u] = call[u]
  <2>1. UNCHANGED write_seq
    BY <1>11 DEF AddListener, store
  <2>2. UNCHANGED call \/ CallBecomes(t, [NoCall EXCEPT !.at = "get", !.listener = {l}])
    BY <1>11 DEF AddListener
  <2>3. [NoCall EXCEPT !.at = "get", !.listener = {l}].seq = 0
    BY <1>0 DEF Call
  <2> QED
    BY <1>1, <2>1, <2>2, <2>3
<1>12. ASSUME Write(t) \/ Mutate(t)
       PROVE  write_seq' \in {write_seq, write_seq + 1}
  BY <1>12, Zenon DEF Write, Mutate, store
<1>13. ASSUME ~Write(t), ~Mutate(t)
       PROVE  write_seq' = write_seq
  BY <1>13, <1>9, <1>10, <1>11
     DEF Commit, MutateInPlace, SetHooks, FindNotifyHooks, NotifyHooks,
         WriteBack, Enqueue, Claim, store
<1> QED
  BY <1>2, <1>3, <1>4, <1>5, <1>6, <1>7, <1>8, <1>9, <1>10, <1>11, <1>12, <1>13

LEMMA NextSeqBounds ==
    ASSUME TypeOK, NoImmediate, SingleDrainer, Accounted, SeqBounds, [Next]_vars
    PROVE  SeqBounds'
<1>0. /\ write_seq \in Nat /\ delivered_seq \in Nat
      /\ \A n \in announced : n.seq \in Nat
      /\ \A u \in Context : call[u].seq \in Nat
  BY DEF TypeOK, WritesOK, ThreadsOK, Notification, Call
<1>1. CASE UNCHANGED vars
  BY <1>1 DEF SeqBounds, vars, store, notifications
<1>2. ASSUME NEW t \in Context, Progress(t) \/ Start(t)
      PROVE  SeqBounds'
  <2>1. /\ write_seq' \in {write_seq, write_seq + 1}
        /\ call'[t].seq \in {0, call[t].seq, write_seq'}
        /\ \A u \in Context \ {t} : call'[u] = call[u]
    BY <1>2, CallSeq
  <2>2. \A u \in Context : call'[u].seq <= write_seq'
    BY <1>0, <2>1 DEF SeqBounds
  <2>3. \A n \in announced' : n.seq <= write_seq'
    <3>1. CASE Enqueue(t)
      <4> DEFINE n == [seq |-> call[t].seq, value |-> call[t].value,
                       scope |-> call[t].scope]
      <4>1. announced' = announced \union {n} /\ n.seq = call[t].seq
        BY <3>1 DEF Enqueue
      <4> QED
        BY <1>0, <2>1, <4>1 DEF SeqBounds
    <3>2. CASE UNCHANGED announced
      BY <1>0, <2>1, <3>2 DEF SeqBounds
    <3>3. Pop(t) \/ Check(t) => UNCHANGED announced
      BY DEF Pop, Check, notifications
    <3> QED
      BY <1>2, <3>1, <3>2, <3>3, NotificationsKept
  <2>4. delivered_seq' <= write_seq'
    <3>1. CASE Check(t)
      <4>1. drain[t].item \in announced
        BY <3>1 DEF Check, Accounted
      <4> QED
        BY <1>0, <2>1, <3>1, <4>1 DEF Check, SeqBounds
    <3>2. CASE UNCHANGED delivered_seq
      BY <1>0, <2>1, <3>2 DEF SeqBounds
    <3>3. Enqueue(t) \/ Pop(t) => UNCHANGED delivered_seq
      BY DEF Enqueue, Pop
    <3> QED
      BY <1>2, <3>1, <3>2, <3>3, NotificationsKept
  <2> QED
    BY <2>2, <2>3, <2>4 DEF SeqBounds
<1> QED
  BY <1>1, <1>2 DEF Next, Rest

(* Only four steps bear on a delivery under way. *)
LEMMA DeliveryStages ==
    ASSUME TypeOK, SingleDrainer, NEW t \in Context, Progress(t) \/ Start(t),
           ~Check(t), ~Snapshot(t), ~Deliver(t), ~Delivered(t), NEW u \in Context
    PROVE  /\ Delivering(u)' <=> Delivering(u)
           /\ Delivering(u) => drain'[u] = drain[u]
<1> SUFFICES ASSUME drain' # drain
             PROVE  /\ \A v \in Context \ {t} : drain'[v] = drain[v]
                    /\ ~Delivering(t)
                    /\ drain'[t].at \notin {"snapshot", "deliver"}
  BY DEF Delivering
<1> USE DEF Delivering
<1>1. drain[t] \in Drain
  BY DEF TypeOK, ThreadsOK
<1>2. \A s \in DrainStage : [drain[t] EXCEPT !.at = s].at = s
  BY <1>1 DEF Drain
<1>3. {"none", "pop", "release", "recheck", "reclaim"} \subseteq DrainStage
  BY DEF DrainStage
<1>4. \A v \in Context \ {t} : drain'[v] = drain[v]
  BY DrainLoop DEF TypeOK
<1>5. CASE Claim(t)
  <2>1. ~draining /\ DrainBecomes(t, [drain[t] EXCEPT !.at = "pop"])
    BY <1>5 DEF Claim, DrainGoto
  <2>2. drain'[t].at = "pop"
    BY <1>2, <1>3, <2>1 DEF DrainBecomes, TypeOK, ThreadsOK
  <2> QED
    BY <1>4, <2>1, <2>2 DEF SingleDrainer, Draining
<1>6. CASE Pop(t)
  <2>1. [drain[t] EXCEPT !.at = "check", !.item = Head(queue)].at = "check"
    BY <1>1 DEF Drain
  <2>2. [drain[t] EXCEPT !.at = "release"].at = "release"
    BY <1>1 DEF Drain
  <2>3. drain'[t].at \in {"check", "release"}
    BY <1>6, <2>1, <2>2 DEF Pop, DrainGoto, DrainBecomes, TypeOK, ThreadsOK
  <2> QED
    BY <1>4, <1>6, <2>3 DEF Pop
<1>7. CASE Release(t) \/ Recheck(t) \/ Reclaim(t)
  <2>1. \E s \in {"none", "pop", "recheck", "reclaim"} : DrainGoto(t, s)
    BY <1>7 DEF Release, Recheck, Reclaim
  <2>2. drain'[t].at \notin {"snapshot", "deliver"}
    BY <1>2, <1>3, <2>1 DEF DrainGoto, DrainBecomes, TypeOK, ThreadsOK
  <2> QED
    BY <1>4, <1>7, <2>2 DEF Release, Recheck, Reclaim
<1>8. CASE \/ SetHooks(t) \/ Write(t) \/ FindNotifyHooks(t) \/ NotifyHooks(t)
           \/ WriteBack(t)
           \/ Mutate(t) \/ Enqueue(t) \/ Get(t) \/ InvokeListener(t)
           \/ Subscribed(t)
  BY <1>8
     DEF SetHooks, Write, FindNotifyHooks, NotifyHooks, WriteBack, Mutate,
         Enqueue, Get, InvokeListener, Subscribed
<1>9. CASE Start(t)
  BY <1>9
     DEF Start, Commit, MutateInPlace, AddListener, RemoveListener, AddHook,
         RemoveHook
<1> QED
  BY <1>5, <1>6, <1>7, <1>8, <1>9 DEF Progress

(* What the four steps do to the drain record. *)
LEMMA DeliverySteps ==
    ASSUME TypeOK, NEW t \in Context
    PROVE  /\ Check(t) =>
                \/ drain'[t].at = "pop" /\ UNCHANGED delivered_seq
                \/ /\ drain'[t].at = "snapshot"
                   /\ drain'[t].item = drain[t].item
                   /\ delivered_seq' = drain[t].item.seq
                   /\ delivered_seq < delivered_seq'
           /\ Snapshot(t) =>
                /\ drain'[t].at = "deliver"
                /\ drain'[t].item = drain[t].item
                /\ \A l \in Registered :
                     Matches(l, drain[t].item.scope) => l \in drain'[t].todo
           /\ Deliver(t) =>
                \E l \in drain[t].todo :
                    /\ heard' = [heard EXCEPT ![l] = drain[t].item.seq]
                    /\ drain'[t].at = "deliver"
                    /\ drain'[t].item = drain[t].item
                    /\ drain'[t].todo = drain[t].todo \ {l}
           /\ Delivered(t) => drain'[t].at = "pop"
           /\ Check(t) \/ Snapshot(t) \/ Deliver(t) \/ Delivered(t) =>
                \A u \in Context \ {t} : drain'[u] = drain[u]
<1>1. drain[t] \in Drain /\ NoDrain \in Drain
  BY Defaults DEF TypeOK, ThreadsOK
<1>2. [NoDrain EXCEPT !.at = "pop"].at = "pop"
  BY <1>1 DEF Drain
<1>3. ASSUME NEW d, DrainBecomes(t, d)
      PROVE  drain'[t] = d /\ \A u \in Context \ {t} : drain'[u] = drain[u]
  BY <1>3 DEF DrainBecomes, TypeOK, ThreadsOK
<1>4. ASSUME Check(t)
      PROVE  /\ \/ drain'[t].at = "pop" /\ UNCHANGED delivered_seq
                \/ /\ drain'[t].at = "snapshot"
                   /\ drain'[t].item = drain[t].item
                   /\ delivered_seq' = drain[t].item.seq
                   /\ delivered_seq < delivered_seq'
             /\ \A u \in Context \ {t} : drain'[u] = drain[u]
  <2>1. [drain[t] EXCEPT !.at = "snapshot"].at = "snapshot"
    BY <1>1 DEF Drain
  <2>2. [drain[t] EXCEPT !.at = "snapshot"].item = drain[t].item
    BY <1>1 DEF Drain
  <2>3. drain[t].item.seq \in Nat /\ delivered_seq \in Nat
    BY <1>1 DEF Drain, Notification, TypeOK, WritesOK
  <2> QED
    <3>1. CASE drain[t].item.seq <= delivered_seq
      BY <1>2, <1>3, <1>4, <3>1 DEF Check
    <3>2. CASE ~(drain[t].item.seq <= delivered_seq)
      <4>1. DrainBecomes(t, [drain[t] EXCEPT !.at = "snapshot"])
        BY <1>4, <3>2 DEF Check, DrainGoto
      <4>2. delivered_seq' = drain[t].item.seq /\ delivered_seq < drain[t].item.seq
        BY <1>4, <2>3, <3>2 DEF Check
      <4> QED
        BY <1>3, <2>1, <2>2, <4>1, <4>2
    <3> QED
      BY <3>1, <3>2
<1>5. ASSUME Snapshot(t)
      PROVE  /\ drain'[t].at = "deliver"
             /\ drain'[t].item = drain[t].item
             /\ \A l \in Registered :
                  Matches(l, drain[t].item.scope) => l \in drain'[t].todo
             /\ \A u \in Context \ {t} : drain'[u] = drain[u]
  <2> DEFINE T == {l \in Registered : Matches(l, drain[t].item.scope)}
             d == [drain[t] EXCEPT !.at = "deliver", !.todo = T]
  <2>1. DrainBecomes(t, d)
    BY <1>5 DEF Snapshot
  <2>2. d.at = "deliver" /\ d.item = drain[t].item /\ d.todo = T
    BY <1>1 DEF Drain
  <2> HIDE DEF d
  <2> QED
    BY <1>3, <2>1, <2>2
<1>6. ASSUME Deliver(t)
      PROVE  /\ \E l \in drain[t].todo :
                  /\ heard' = [heard EXCEPT ![l] = drain[t].item.seq]
                  /\ drain'[t].at = "deliver"
                  /\ drain'[t].item = drain[t].item
                  /\ drain'[t].todo = drain[t].todo \ {l}
             /\ \A u \in Context \ {t} : drain'[u] = drain[u]
  <2>1. PICK l \in drain[t].todo :
          /\ heard' = [heard EXCEPT ![l] = drain[t].item.seq]
          /\ DrainBecomes(t, [drain[t] EXCEPT !.todo = @ \ {l}])
    BY <1>6 DEF Deliver
  <2> DEFINE d == [drain[t] EXCEPT !.todo = @ \ {l}]
  <2>2. d.at = drain[t].at /\ d.item = drain[t].item /\ d.todo = drain[t].todo \ {l}
    BY <1>1 DEF Drain
  <2>3. DrainBecomes(t, d)
    BY <2>1
  <2> HIDE DEF d
  <2>4. drain[t].at = "deliver"
    BY <1>6 DEF Deliver
  <2> QED
    BY <1>3, <2>1, <2>2, <2>3, <2>4
<1>7. ASSUME Delivered(t)
      PROVE  drain'[t].at = "pop" /\ \A u \in Context \ {t} : drain'[u] = drain[u]
  BY <1>2, <1>3, <1>7 DEF Delivered
<1> QED
  BY <1>4, <1>5, <1>6, <1>7

(* A listener's place changes only when it is added or removed, and it is  *)
(* added after every write delivered so far; only Deliver calls it.        *)
LEMMA ListenersKept ==
    ASSUME NoImmediate, NEW t \in Context, Progress(t) \/ Start(t)
    PROVE  /\ ~Deliver(t) => UNCHANGED heard
           /\ ~Start(t) => UNCHANGED <<listeners, since>>
           /\ Start(t) => UNCHANGED <<heard, drain, delivered_seq>>
<1>1. ~InvokeListener(t) /\ ~Subscribed(t) /\ ~Get(t)
  BY DEF NoImmediate, InvokeListener, Subscribed, Get
<1>2. CASE Start(t)
  BY <1>2
     DEF Start, Commit, MutateInPlace, AddListener, RemoveListener, AddHook,
         RemoveHook
<1>3. CASE ~Start(t)
  <2>1. UNCHANGED <<listeners, since>> /\ (~Deliver(t) => UNCHANGED heard)
    BY <1>1, <1>3
       DEF Progress, SetHooks, Write, FindNotifyHooks, NotifyHooks, WriteBack,
           Mutate, Enqueue, Claim, Pop, Check, Snapshot, Deliver, Delivered,
           Release, Recheck, Reclaim
  <2> QED
    BY <1>3, <2>1
<1> QED
  BY <1>2, <1>3

LEMMA NextItemIsNewest ==
    ASSUME TypeOK, SingleDrainer, ItemIsNewest, [Next]_vars
    PROVE  ItemIsNewest'
<1> USE DEF ItemIsNewest, Delivering
<1>1. CASE UNCHANGED vars
  BY <1>1 DEF vars
<1>2. ASSUME NEW t \in Context, Check(t) PROVE ItemIsNewest'
  <2>1. \A u \in Context : Delivering(u) => u = t
    BY <1>2 DEF SingleDrainer, Draining, Check
  <2> QED
    BY <1>2, <2>1, DeliverySteps
<1>3. ASSUME NEW t \in Context, Snapshot(t) \/ Deliver(t) \/ Delivered(t)
      PROVE  ItemIsNewest'
  <2>1. UNCHANGED delivered_seq /\ Delivering(t)
    BY <1>3 DEF Snapshot, Deliver, Delivered
  <2>2. \/ drain'[t].at = "pop"
        \/ drain'[t].item = drain[t].item
    BY <1>3, DeliverySteps
  <2>3. \A u \in Context \ {t} : drain'[u] = drain[u]
    BY <1>3, DeliverySteps
  <2> QED
    BY <2>1, <2>2, <2>3
<1>4. ASSUME NEW t \in Context, Progress(t) \/ Start(t),
             ~Check(t), ~Snapshot(t), ~Deliver(t), ~Delivered(t)
      PROVE  ItemIsNewest'
  <2>1. UNCHANGED delivered_seq
    <3>1. Enqueue(t) \/ Pop(t) => UNCHANGED delivered_seq
      BY DEF Enqueue, Pop
    <3> QED
      BY <1>4, <3>1, NotificationsKept
  <2>2. \A u \in Context : /\ Delivering(u)' <=> Delivering(u)
                           /\ Delivering(u) => drain'[u] = drain[u]
    BY <1>4, DeliveryStages
  <2> QED
    BY <2>1, <2>2
<1> QED
  BY <1>1, <1>2, <1>3, <1>4 DEF Next, Rest

LEMMA NextNobodyAhead ==
    ASSUME TypeOK, NoImmediate, SingleDrainer, ItemIsNewest, NobodyAhead, [Next]_vars
    PROVE  NobodyAhead'
<1>0. /\ delivered_seq \in Nat /\ heard \in [Listener -> Nat]
      /\ \A t \in Context : drain[t].item.seq \in Nat
  BY DEF TypeOK, WritesOK, TablesOK, ThreadsOK, Drain, Notification
<1>1. CASE UNCHANGED vars
  BY <1>1 DEF vars, NobodyAhead
<1>2. ASSUME NEW t \in Context, Deliver(t) PROVE NobodyAhead'
  <2>1. UNCHANGED delivered_seq /\ drain[t].item.seq = delivered_seq
    BY <1>2 DEF Deliver, ItemIsNewest, Delivering
  <2>2. \E l \in drain[t].todo : heard' = [heard EXCEPT ![l] = drain[t].item.seq]
    BY <1>2 DEF Deliver
  <2> QED
    BY <1>0, <2>1, <2>2 DEF NobodyAhead
<1>3. ASSUME NEW t \in Context, Progress(t) \/ Start(t), ~Deliver(t)
      PROVE  NobodyAhead'
  <2>1. UNCHANGED heard
    BY <1>3, ListenersKept
  <2>2. delivered_seq' \in Nat /\ delivered_seq <= delivered_seq'
    <3>1. CASE Check(t)
      BY <1>0, <3>1 DEF Check
    <3>2. Enqueue(t) \/ Pop(t) => UNCHANGED delivered_seq
      BY DEF Enqueue, Pop
    <3> QED
      BY <1>0, <1>3, <3>1, <3>2, NotificationsKept
  <2> QED
    BY <1>0, <2>1, <2>2 DEF NobodyAhead
<1> QED
  BY <1>1, <1>2, <1>3 DEF Next, Rest

LEMMA NextAllWillHear ==
    ASSUME TypeOK, NoImmediate, SingleDrainer, SeqBounds, ItemIsNewest, AllWillHear,
           [Next]_vars
    PROVE  AllWillHear'
<1>0. /\ delivered_seq \in Nat /\ write_seq \in Nat
      /\ heard \in [Listener -> Nat] /\ since \in [Listener -> Nat]
  BY DEF TypeOK, WritesOK, TablesOK
<1>1. CASE UNCHANGED vars
  BY <1>1 DEF vars, AllWillHear, WillHear
<1>2. ASSUME NEW t \in Context, Check(t) PROVE AllWillHear'
  <2>1. drain[t].at = "check" /\ \A u \in Context : Delivering(u) => u = t
    BY <1>2 DEF SingleDrainer, Draining, Delivering, Check
  <2>2. \A l \in Listener : WillHear(l) => heard[l] = delivered_seq
    BY <2>1 DEF WillHear, Delivering
  <2>3. UNCHANGED <<listeners, since, heard>>
    BY <1>2 DEF Check
  <2>4. drain'[t].at = "snapshot" \/ UNCHANGED delivered_seq
    BY <1>2, DeliverySteps
  <2>5. CASE drain'[t].at = "snapshot"
    BY <2>5 DEF AllWillHear, WillHear
  <2>6. CASE UNCHANGED delivered_seq
    BY <2>2, <2>3, <2>6 DEF AllWillHear, WillHear
  <2> QED
    BY <2>4, <2>5, <2>6
<1>3. ASSUME NEW t \in Context, Snapshot(t) PROVE AllWillHear'
  <2>1. UNCHANGED <<listeners, since, heard, delivered_seq>>
    BY <1>3 DEF Snapshot
  <2>2. \A l \in Listener : listeners[l] = "on" /\ Filter[l] = Unfiltered =>
          l \in drain'[t].todo
    BY <1>3, DeliverySteps DEF Registered, Matches
  <2>3. drain'[t].at = "deliver"
    BY <1>3, DeliverySteps
  <2> QED
    BY <2>1, <2>2, <2>3 DEF AllWillHear, WillHear
<1>4. ASSUME NEW t \in Context, Deliver(t) PROVE AllWillHear'
  <2>1. UNCHANGED <<listeners, since, delivered_seq>>
    BY <1>4 DEF Deliver
  <2>2. PICK l \in drain[t].todo :
          /\ heard' = [heard EXCEPT ![l] = drain[t].item.seq]
          /\ drain'[t].at = "deliver"
          /\ drain'[t].todo = drain[t].todo \ {l}
    BY <1>4, DeliverySteps
  <2>3. drain[t].at = "deliver" /\ drain[t].item.seq = delivered_seq
    BY <1>4 DEF Deliver, ItemIsNewest, Delivering
  <2>4. \A u \in Context : Delivering(u) => u = t
    BY <2>3 DEF SingleDrainer, Draining, Delivering
  <2>5. ASSUME NEW m \in Listener, WillHear(m) PROVE WillHear(m)'
    <3>1. heard[m] = delivered_seq \/ m \in drain[t].todo
      BY <2>3, <2>4, <2>5 DEF WillHear, Delivering
    <3>2. CASE m = l \/ heard[m] = delivered_seq
      BY <1>0, <2>1, <2>2, <2>3, <3>2 DEF WillHear
    <3>3. CASE m # l /\ m \in drain[t].todo
      BY <2>2, <3>3 DEF WillHear
    <3> QED
      BY <3>1, <3>2, <3>3
  <2> QED
    BY <2>1, <2>5 DEF AllWillHear
<1>5. ASSUME NEW t \in Context, Delivered(t) PROVE AllWillHear'
  <2>1. UNCHANGED <<listeners, since, heard, delivered_seq>>
    BY <1>5 DEF Delivered
  <2>2. drain[t].at = "deliver" /\ drain[t].todo = {}
    BY <1>5 DEF Delivered
  <2>3. \A u \in Context : Delivering(u) => u = t
    BY <2>2 DEF SingleDrainer, Draining, Delivering
  <2>4. \A l \in Listener : WillHear(l) => heard[l] = delivered_seq
    BY <2>2, <2>3 DEF WillHear, Delivering
  <2> QED
    BY <2>1, <2>4 DEF AllWillHear, WillHear
<1>6. ASSUME NEW t \in Context, Progress(t) \/ Start(t),
             ~Check(t), ~Snapshot(t), ~Deliver(t), ~Delivered(t)
      PROVE  AllWillHear'
  <2>1. UNCHANGED <<heard, delivered_seq>>
    <3>1. Enqueue(t) \/ Pop(t) => UNCHANGED delivered_seq
      BY DEF Enqueue, Pop
    <3> QED
      BY <1>6, <3>1, NotificationsKept, ListenersKept
  <2>2. \A u \in Context : /\ Delivering(u)' <=> Delivering(u)
                           /\ Delivering(u) => drain'[u] = drain[u]
    BY <1>6, DeliveryStages
  <2>3. \A l \in Listener : WillHear(l) => WillHear(l)'
    BY <2>1, <2>2 DEF WillHear, Delivering
  <2>4. ASSUME NEW l \in Listener, listeners'[l] = "on", since'[l] < delivered_seq'
        PROVE  listeners[l] = "on" /\ since[l] < delivered_seq
    <3>1. CASE UNCHANGED <<listeners, since>>
      BY <2>1, <2>4, <3>1
    <3>2. ASSUME NEW m \in Listener, AddListener(t, m)
          PROVE  listeners[l] = "on" /\ since[l] < delivered_seq
      <4>1. /\ listeners' = [listeners EXCEPT ![m] = "on"]
            /\ since' = [since EXCEPT ![m] = write_seq]
        BY <3>2 DEF AddListener
      <4>2. CASE l = m
        BY <1>0, <2>1, <2>4, <4>1, <4>2 DEF SeqBounds
      <4>3. CASE l # m
        BY <2>1, <2>4, <4>1, <4>3
      <4> QED
        BY <4>2, <4>3
    <3>3. ASSUME NEW m \in Listener, RemoveListener(t, m)
          PROVE  listeners[l] = "on" /\ since[l] < delivered_seq
      <4>1. listeners' = [listeners EXCEPT ![m] = "off"] /\ UNCHANGED since
        BY <3>3 DEF RemoveListener
      <4> QED
        BY <2>1, <2>4, <4>1 DEF TypeOK, TablesOK
    <3>4. CASE Commit(t) \/ MutateInPlace(t)
      BY <3>1, <3>4 DEF Commit, MutateInPlace
    <3>5. ASSUME NEW h \in Hook, AddHook(t, h) \/ RemoveHook(t, h)
          PROVE  UNCHANGED <<listeners, since>>
      BY <3>5 DEF AddHook, RemoveHook
    <3> QED
      BY <1>6, <3>1, <3>2, <3>3, <3>4, <3>5, ListenersKept DEF Start
  <2> QED
    BY <2>3, <2>4 DEF AllWillHear
<1> QED
  BY <1>1, <1>2, <1>3, <1>4, <1>5, <1>6 DEF Next, Rest

ListenInv ==
    /\ TypeOK
    /\ SingleDrainer
    /\ NoStrandedNotification
    /\ Accounted
    /\ NoImmediate
    /\ SeqBounds
    /\ ItemIsNewest
    /\ NobodyAhead
    /\ AllWillHear

LEMMA InitListenInv == Init => ListenInv
<1> SUFFICES ASSUME Init PROVE ListenInv
  OBVIOUS
<1>1. TypeOK /\ SingleDrainer /\ NoStrandedNotification /\ Accounted
  BY InitTypeOK, InitSingleDrainer, InitAccounted DEF Init, NoStrandedNotification
<1>2. \A t \in Context : /\ call[t].at = "idle" /\ call[t].seq = 0
                         /\ drain[t].at = "none"
  BY DEF Init, NoCall, NoDrain
<1>3. delivered_seq = 0 /\ write_seq = 0 /\ announced = {}
  BY DEF Init
<1>4. \A l \in Listener : heard[l] = 0 /\ since[l] = 0
  BY DEF Init
<1>5. NoImmediate /\ SeqBounds /\ ItemIsNewest
  BY <1>2, <1>3 DEF NoImmediate, SeqBounds, ItemIsNewest, Delivering
<1>6. NobodyAhead /\ AllWillHear
  BY <1>3, <1>4 DEF NobodyAhead, AllWillHear
<1> QED
  BY <1>1, <1>5, <1>6 DEF ListenInv

LEMMA NextListenInv ==
    ASSUME ListenOnly, ListenInv, [Next]_vars
    PROVE  ListenInv'
<1>1. TypeOK' /\ SingleDrainer' /\ NoStrandedNotification' /\ Accounted'
  BY NextTypeOK, NextSingleDrainer, NextNoStranded, NextAccounted DEF ListenInv
<1>2. NoImmediate' /\ SeqBounds'
  BY NextNoImmediate, NextSeqBounds DEF ListenInv
<1>3. ItemIsNewest' /\ NobodyAhead' /\ AllWillHear'
  BY NextItemIsNewest, NextNobodyAhead, NextAllWillHear DEF ListenInv
<1> QED
  BY <1>1, <1>2, <1>3 DEF ListenInv

LEMMA ListenInvariant ==
    ASSUME ListenOnly
    PROVE  Spec => []ListenInv
<1>1. ListenInv /\ [Next]_vars => ListenInv'
  BY NextListenInv
<1> QED
  BY <1>1, InitListenInv, PTL DEF Spec

(* Once every call has returned, a listener of the whole store has heard   *)
(* of a write at least as new as every announced write younger than it.    *)
THEOREM NothingMissed ==
    ASSUME ListenOnly
    PROVE  Spec => []ListenersCatchUp
<1>1. ListenInv /\ DeliveredNewest => ListenersCatchUp
  <2> SUFFICES ASSUME ListenInv, DeliveredNewest, Quiescent,
                      NEW l \in Listener, Filter[l] = Unfiltered, listeners[l] = "on",
                      NEW n \in announced, n.seq > since[l]
               PROVE  heard[l] >= n.seq
    BY DEF ListenersCatchUp, CaughtUp
  <2>1. /\ n.seq \in Nat /\ since[l] \in Nat /\ delivered_seq \in Nat
        /\ n.seq <= delivered_seq
    BY DEF ListenInv, TypeOK, WritesOK, TablesOK, Notification, DeliveredNewest
  <2>2. WillHear(l)
    BY <2>1 DEF ListenInv, AllWillHear
  <2>3. heard[l] = delivered_seq
    BY <2>2 DEF WillHear, Quiescent, Outside
  <2> QED
    BY <2>1, <2>3
<1> QED
  BY <1>1, ListenInvariant, NewestDelivered, PTL

(* No listener is called with an older write after a newer one.            *)
THEOREM NoRewind ==
    ASSUME ListenOnly
    PROVE  Spec => NeverRewinds
<1>1. ListenInv /\ [Next]_vars => [\A l \in Listener : heard'[l] >= heard[l]]_vars
  <2> SUFFICES ASSUME ListenInv, [Next]_vars, NEW l \in Listener
               PROVE  heard'[l] >= heard[l]
    OBVIOUS
  <2>0. /\ heard \in [Listener -> Nat] /\ delivered_seq \in Nat
        /\ heard[l] <= delivered_seq
    BY DEF ListenInv, TypeOK, WritesOK, TablesOK, NobodyAhead
  <2>1. CASE UNCHANGED heard
    BY <2>0, <2>1
  <2>2. ASSUME NEW t \in Context, Deliver(t) PROVE heard'[l] >= heard[l]
    <3>1. drain[t].item.seq = delivered_seq
      BY <2>2 DEF Deliver, ListenInv, ItemIsNewest, Delivering
    <3>2. \E m \in drain[t].todo : heard' = [heard EXCEPT ![m] = drain[t].item.seq]
      BY <2>2 DEF Deliver
    <3> QED
      BY <2>0, <3>1, <3>2
  <2>3. CASE UNCHANGED vars
    BY <2>1, <2>3 DEF vars
  <2> QED
    BY <2>1, <2>2, <2>3, ListenersKept DEF Next, Rest, ListenInv
<1> QED
  BY <1>1, ListenInvariant, PTL DEF Spec, NeverRewinds
=============================================================================
