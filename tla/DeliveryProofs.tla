--------------------------- MODULE DeliveryProofs ---------------------------
(***************************************************************************)
(* Store implements Delivery, and which programs end up with the value     *)
(* they told their listeners of.  Both rest on the numbers of the writes:  *)
(* each is handed out once, under the value lock, and reaches the queue at *)
(* most once.                                                              *)
(***************************************************************************)
EXTENDS StoreProofs, FiniteSetTheorems

(* What a step does to the call of its thread and to the store. *)
Begins(t) ==
    /\ Room /\ UNCHANGED store
    /\ call[t].at = "idle"
    /\ \/ call'[t].at = "mutate"
       \/ call'[t].at \in {"set_hooks", "write"} /\ "commit" \in Operation

Returns(t) == UNCHANGED store /\ call'[t].at = "idle"

Prepares(t) ==
    /\ UNCHANGED store
    /\ call[t].at = "set_hooks" /\ call'[t].at = "write"

Commits(t) ==
    /\ call[t].at = "write" /\ call'[t].at = "written"
    /\ write_seq' = write_seq + 1 /\ value_seq' = write_seq'
    /\ call'[t].seq = write_seq'

Revises(t) ==
    /\ UNCHANGED store
    /\ call[t].at \in {"written", "notify_hooks"}
    /\ call'[t].at \in {"notify_hooks", "write_back"}
    /\ call'[t].seq = call[t].seq

StoresAgain(t) ==
    /\ call[t].at = "write_back" /\ call'[t].at = "enqueue"
    /\ call'[t].seq = call[t].seq /\ call'[t].value = call[t].value
    /\ value' = call[t].value /\ UNCHANGED write_seq
    /\ value_seq' \in {value_seq, call[t].seq}

Mutates(t) ==
    /\ call[t].at = "mutate" /\ call'[t].at = "enqueue"
    /\ write_seq' = write_seq + 1 /\ value_seq' = write_seq'
    /\ call'[t].seq = write_seq' /\ call'[t].value = value'

Announces(t) ==
    /\ UNCHANGED store
    /\ call[t].at = "enqueue" /\ call'[t].at = "claim"

Subscribes(t) ==
    /\ UNCHANGED store
    /\ call[t].at \in {"idle", "get", "invoke"}
    /\ call'[t].at \in {"get", "invoke", "first_call"}

Moves(t) ==
    \/ UNCHANGED <<call, store>>
    \/ Begins(t) \/ Returns(t) \/ Prepares(t) \/ Commits(t) \/ Revises(t)
    \/ StoresAgain(t) \/ Mutates(t) \/ Announces(t) \/ Subscribes(t)

LEMMA CallMoves ==
    ASSUME TypeOK, NEW t \in Context, Progress(t) \/ Start(t)
    PROVE  /\ \A u \in Context \ {t} : call'[u] = call[u]
           /\ Moves(t)
<1>0. /\ call[t] \in Call /\ NoCall \in Call /\ NoCall.at = "idle"
      /\ \A s : /\ [call[t] EXCEPT !.at = s].at = s
                /\ [call[t] EXCEPT !.at = s].seq = call[t].seq
                /\ [call[t] EXCEPT !.at = s].value = call[t].value
      /\ value \in Value /\ write_seq \in Nat
  BY Defaults DEF TypeOK, ThreadsOK, WritesOK, Call, NoCall
<1>1. ASSUME NEW c, CallBecomes(t, c)
      PROVE  /\ call'[t] = c
             /\ \A u \in Context \ {t} : call'[u] = call[u]
  BY <1>1 DEF CallBecomes, TypeOK, ThreadsOK
<1>2. CASE Commit(t)
  <2>1. PICK v \in Value, s \in Scope, run_set_hooks \in BOOLEAN :
          CallBecomes(t,
            [NoCall EXCEPT !.at = IF run_set_hooks /\ Active("set") THEN "set_hooks" ELSE "write",
                           !.value = v, !.scope = s])
    BY <1>2 DEF Commit
  <2>2. [NoCall EXCEPT !.at = IF run_set_hooks /\ Active("set") THEN "set_hooks" ELSE "write",
                       !.value = v, !.scope = s].at \in {"set_hooks", "write"}
    BY <1>0 DEF Call
  <2>3. Begins(t)
    BY <1>1, <1>2, <2>1, <2>2 DEF Commit, Begins, MayCall, store
  <2> QED
    BY <1>1, <2>1, <2>3 DEF Moves
<1>3. CASE MutateInPlace(t)
  <2>1. PICK s \in Scope : CallBecomes(t, [NoCall EXCEPT !.at = "mutate", !.scope = s])
    BY <1>3 DEF MutateInPlace
  <2>2. [NoCall EXCEPT !.at = "mutate", !.scope = s].at = "mutate"
    BY <1>0 DEF Call
  <2>3. Begins(t)
    BY <1>1, <1>3, <2>1, <2>2 DEF MutateInPlace, Begins, MayCall, store
  <2> QED
    BY <1>1, <2>1, <2>3 DEF Moves
<1>4. ASSUME Return(t), UNCHANGED store
      PROVE  Moves(t) /\ \A u \in Context \ {t} : call'[u] = call[u]
  <2>1. CallBecomes(t, NoCall)
    BY <1>4 DEF Return
  <2>2. Returns(t)
    BY <1>0, <1>1, <1>4, <2>1 DEF Returns
  <2> QED
    BY <1>1, <2>1, <2>2 DEF Moves
<1>5. CASE SetHooks(t)
  <2>1. PICK w : \/ Return(t)
                 \/ CallBecomes(t, [call[t] EXCEPT !.at = "write", !.value = w])
    BY <1>5, Zenon DEF SetHooks
  <2>2. [call[t] EXCEPT !.at = "write", !.value = w].at = "write"
    BY <1>0 DEF Call
  <2>3. call[t].at = "set_hooks" /\ UNCHANGED store
    BY <1>5 DEF SetHooks, store
  <2> QED
    BY <1>1, <1>4, <2>1, <2>2, <2>3 DEF Moves, Prepares
<1>6. CASE Write(t)
  <2>1. CASE Return(t) /\ UNCHANGED store
    BY <1>4, <2>1
  <2>2. CASE /\ write_seq' = write_seq + 1
             /\ value_seq' = write_seq + 1
             /\ CallBecomes(t, [call[t] EXCEPT !.at = "written",
                                               !.seq = write_seq + 1])
    <3>1. /\ [call[t] EXCEPT !.at = "written", !.seq = write_seq + 1].seq
               = write_seq + 1
          /\ [call[t] EXCEPT !.at = "written", !.seq = write_seq + 1].at
               = "written"
      BY <1>0 DEF Call
    <3>2. Commits(t)
      BY <1>1, <1>6, <2>2, <3>1 DEF Write, Commits
    <3> QED
      BY <1>1, <2>2, <3>2 DEF Moves
  <2> QED
    BY <1>6, <2>1, <2>2 DEF Write
<1>7. CASE FindNotifyHooks(t)
  <2>1. PICK stage \in {"notify_hooks", "write_back"} :
          CallBecomes(t, [call[t] EXCEPT !.at = stage])
    BY <1>7 DEF FindNotifyHooks, Goto
  <2>2. call[t].at = "written" /\ UNCHANGED store
    BY <1>7 DEF FindNotifyHooks, store
  <2>3. Revises(t)
    BY <1>0, <1>1, <2>1, <2>2 DEF Revises
  <2> QED
    BY <1>1, <2>1, <2>3 DEF Moves
<1>8. CASE NotifyHooks(t)
  <2>1. PICK w : \/ Return(t)
                 \/ CallBecomes(t, [call[t] EXCEPT !.at = "write_back", !.value = w])
    BY <1>8, Zenon DEF NotifyHooks
  <2>2. /\ [call[t] EXCEPT !.at = "write_back", !.value = w].at = "write_back"
        /\ [call[t] EXCEPT !.at = "write_back", !.value = w].seq = call[t].seq
    BY <1>0 DEF Call
  <2>3. call[t].at = "notify_hooks" /\ UNCHANGED store
    BY <1>8 DEF NotifyHooks, store
  <2> QED
    BY <1>1, <1>4, <2>1, <2>2, <2>3 DEF Moves, Revises
<1>9. CASE WriteBack(t)
  <2>1. CallBecomes(t, [call[t] EXCEPT !.at = "enqueue"])
    BY <1>9 DEF WriteBack, Goto
  <2>2. /\ call[t].at = "write_back" /\ value' = call[t].value /\ UNCHANGED write_seq
        /\ value_seq' \in {value_seq, call[t].seq}
    BY <1>9 DEF WriteBack
  <2>3. call'[t] = [call[t] EXCEPT !.at = "enqueue"]
    BY <1>1, <2>1
  <2>4. /\ call'[t].at = "enqueue"
        /\ call'[t].seq = call[t].seq /\ call'[t].value = call[t].value
    BY <1>0, <2>3
  <2>5. StoresAgain(t)
    BY <2>2, <2>4 DEF StoresAgain
  <2> QED
    BY <1>1, <2>1, <2>5 DEF Moves
<1>10. CASE Mutate(t)
  <2>1. \/ Return(t) /\ UNCHANGED store
        \/ \E v : /\ value' = v
                  /\ write_seq' = write_seq + 1
                  /\ value_seq' = write_seq + 1
                  /\ CallBecomes(t, [call[t] EXCEPT !.at = "enqueue", !.value = v,
                                                    !.seq = write_seq + 1])
    BY <1>10, Zenon DEF Mutate
  <2>2. ASSUME NEW v, value' = v, write_seq' = write_seq + 1,
               value_seq' = write_seq + 1,
               CallBecomes(t, [call[t] EXCEPT !.at = "enqueue", !.value = v,
                                              !.seq = write_seq + 1])
        PROVE  Moves(t) /\ \A u \in Context \ {t} : call'[u] = call[u]
    <3> DEFINE c == [call[t] EXCEPT !.at = "enqueue", !.value = v,
                                    !.seq = write_seq + 1]
    <3>1. c.at = "enqueue" /\ c.value = v /\ c.seq = write_seq + 1
      BY <1>0 DEF Call
    <3> HIDE DEF c
    <3>2. call'[t] = c /\ \A u \in Context \ {t} : call'[u] = call[u]
      BY <1>1, <2>2 DEF c
    <3>3. Mutates(t)
      BY <1>10, <2>2, <3>1, <3>2 DEF Mutates, Mutate
    <3> QED
      BY <3>2, <3>3 DEF Moves
  <2> QED
    BY <1>4, <2>1, <2>2
<1>11. CASE Enqueue(t)
  <2>1. CallBecomes(t, [call[t] EXCEPT !.at = "claim"])
    BY <1>11 DEF Enqueue, Goto
  <2>2. call[t].at = "enqueue" /\ UNCHANGED store
    BY <1>11 DEF Enqueue, store
  <2> QED
    BY <1>0, <1>1, <2>1, <2>2 DEF Moves, Announces
<1>12. CASE Claim(t) \/ Subscribed(t)
  BY <1>4, <1>12 DEF Claim, Subscribed, store
<1>13. CASE InvokeListener(t)
  <2>1. CallBecomes(t, [call[t] EXCEPT !.at = "first_call"])
    BY <1>13 DEF InvokeListener, Goto
  <2>2. call[t].at = "invoke" /\ UNCHANGED store
    BY <1>13 DEF InvokeListener, store
  <2> QED
    BY <1>0, <1>1, <2>1, <2>2 DEF Moves, Subscribes
<1>14. CASE Get(t)
  <2>1. CallBecomes(t, [call[t] EXCEPT !.at = "invoke", !.value = value,
                                       !.seq = value_seq])
    BY <1>14 DEF Get
  <2>2. [call[t] EXCEPT !.at = "invoke", !.value = value, !.seq = value_seq].at
          = "invoke"
    BY <1>0 DEF Call
  <2>3. call[t].at = "get" /\ UNCHANGED store
    BY <1>14 DEF Get, store
  <2>4. Subscribes(t)
    BY <1>1, <2>1, <2>2, <2>3 DEF Subscribes
  <2> QED
    BY <1>1, <2>1, <2>4 DEF Moves
<1>15. ASSUME NEW l \in Listener, AddListener(t, l)
       PROVE  Moves(t) /\ \A u \in Context \ {t} : call'[u] = call[u]
  <2>1. CASE CallBecomes(t, [NoCall EXCEPT !.at = "get", !.listener = {l}])
    <3>1. [NoCall EXCEPT !.at = "get", !.listener = {l}].at = "get"
      BY <1>0 DEF Call
    <3>2. call[t].at = "idle" /\ UNCHANGED store
      BY <1>15 DEF AddListener, MayCall, store
    <3>3. Subscribes(t)
      BY <1>1, <2>1, <3>1, <3>2 DEF Subscribes
    <3> QED
      BY <1>1, <2>1, <3>3 DEF Moves
  <2>2. CASE UNCHANGED call
    BY <1>15, <2>2 DEF AddListener, Moves, store
  <2> QED
    BY <1>15, <2>1, <2>2 DEF AddListener
<1>16. ASSUME \/ \E l \in Listener : RemoveListener(t, l)
              \/ \E h \in Hook : AddHook(t, h) \/ RemoveHook(t, h)
       PROVE  UNCHANGED <<call, store>>
  BY <1>16 DEF RemoveListener, AddHook, RemoveHook, store
<1>17. ASSUME \/ Pop(t) \/ Check(t) \/ Snapshot(t) \/ Deliver(t) \/ Delivered(t)
              \/ Release(t) \/ Recheck(t) \/ Reclaim(t)
       PROVE  UNCHANGED <<call, store>>
  BY <1>17
     DEF Pop, Check, Snapshot, Deliver, Delivered, Release, Recheck, Reclaim,
         store
<1> QED
  BY <1>2, <1>3, <1>5, <1>6, <1>7, <1>8, <1>9, <1>10, <1>11, <1>12, <1>13, <1>14,
     <1>15, <1>16, <1>17, Zenon DEF Progress, Start, Moves

-----------------------------------------------------------------------------
(* Numbers never run out: each call under way has one set aside. *)
Bounded ==
    /\ IsFiniteSet(Reserved)
    /\ write_seq + Cardinality(Reserved) <= MaxWrites

LEMMA NextBounded ==
    ASSUME TypeOK, Bounded, [Next]_vars
    PROVE  Bounded'
<1> USE BoundAssumption
<1>0. write_seq \in Nat /\ IsFiniteSet(Reserved) /\ Cardinality(Reserved) \in Nat
  BY FS_CardinalityType DEF TypeOK, WritesOK, Bounded
<1>1. CASE UNCHANGED vars
  <2>1. UNCHANGED <<write_seq, call>>
    BY <1>1 DEF vars, store
  <2>2. Reserved' = Reserved
    BY <2>1 DEF Reserved
  <2> QED
    BY <2>1, <2>2 DEF Bounded
<1>2. ASSUME NEW t \in Context, Progress(t) \/ Start(t)
      PROVE  Bounded'
  <2>1. Moves(t) /\ \A u \in Context \ {t} : call'[u] = call[u]
    BY <1>2, CallMoves
  <2>2. CASE Begins(t)
    <3>1. t \notin Reserved /\ Reserved' = Reserved \union {t}
      BY <2>1, <2>2 DEF Begins, Reserved
    <3>2. /\ IsFiniteSet(Reserved')
          /\ Cardinality(Reserved') = Cardinality(Reserved) + 1
      BY <1>0, <3>1, FS_AddElement
    <3>3. UNCHANGED write_seq /\ Room
      BY <2>2 DEF Begins, store
    <3> QED
      BY <1>0, <3>2, <3>3 DEF Bounded, Room
  <2>3. CASE Commits(t) \/ Mutates(t)
    <3>1. t \in Reserved /\ Reserved' = Reserved \ {t} /\ write_seq' = write_seq + 1
      BY <2>1, <2>3 DEF Commits, Mutates, Reserved
    <3>2. /\ IsFiniteSet(Reserved')
          /\ Cardinality(Reserved') = Cardinality(Reserved) - 1
      BY <1>0, <3>1, FS_RemoveElement
    <3> QED
      BY <1>0, <3>1, <3>2 DEF Bounded
  <2>4. CASE \/ UNCHANGED <<call, store>> \/ Returns(t) \/ Prepares(t)
             \/ Revises(t)
             \/ StoresAgain(t) \/ Announces(t) \/ Subscribes(t)
    <3>1. Reserved' \subseteq Reserved /\ UNCHANGED write_seq
      BY <2>1, <2>4
         DEF Returns, Prepares, Revises, StoresAgain, Announces, Subscribes,
             Reserved, store
    <3>2. IsFiniteSet(Reserved') /\ Cardinality(Reserved') <= Cardinality(Reserved)
      BY <1>0, <3>1, FS_Subset
    <3>3. Cardinality(Reserved') \in Nat
      BY <3>2, FS_CardinalityType
    <3> QED
      BY <1>0, <3>1, <3>2, <3>3 DEF Bounded
  <2> QED
    BY <2>1, <2>2, <2>3, <2>4 DEF Moves
<1> QED
  BY <1>1, <1>2 DEF Next, Rest

LEMMA InitBounded == Init => Bounded
<1> SUFFICES ASSUME Init PROVE Bounded
  OBVIOUS
<1>1. Reserved = {} /\ write_seq = 0
  BY DEF Init, Reserved, NoCall
<1> QED
  BY <1>1, FS_EmptySet, BoundAssumption DEF Bounded

-----------------------------------------------------------------------------
(* The stages in which a call holds a number that is not announced yet. *)
Holding(t) == call[t].at \in {"written", "notify_hooks", "write_back", "enqueue"}

(* No number is in two places: two calls, a call and the announced ones,   *)
(* or two announced notifications.                                         *)
Numbered ==
    /\ \A t \in Context : Holding(t) => call[t].seq \in 1..write_seq
    /\ \A n \in announced : n.seq \in 1..write_seq
    /\ \A t, u \in Context :
         Holding(t) /\ Holding(u) /\ call[t].seq = call[u].seq => t = u
    /\ \A t \in Context, n \in announced : Holding(t) => n.seq # call[t].seq
    /\ \A m, n \in announced : m.seq = n.seq => m = n

(* Only a store hands out a number, and only one thread at a time.         *)
LEMMA NumberSteps ==
    ASSUME TypeOK, NEW t \in Context, Progress(t) \/ Start(t)
    PROVE  /\ \A u \in Context \ {t} : call'[u] = call[u]
           /\ \/ /\ write_seq' = write_seq + 1 /\ ~Holding(t)
                 /\ Holding(t)' => call'[t].seq = write_seq'
              \/ /\ write_seq' = write_seq
                 /\ Holding(t)' => Holding(t) /\ call'[t].seq = call[t].seq
<1>1. Moves(t) /\ \A u \in Context \ {t} : call'[u] = call[u]
  BY CallMoves
<1>2. CASE Commits(t) \/ Mutates(t)
  BY <1>1, <1>2 DEF Commits, Mutates, Holding
<1>3. CASE \/ UNCHANGED <<call, store>> \/ Begins(t) \/ Returns(t) \/ Prepares(t)
           \/ Revises(t) \/ StoresAgain(t) \/ Announces(t) \/ Subscribes(t)
  BY <1>1, <1>3
     DEF Begins, Returns, Prepares, Revises, StoresAgain, Announces, Subscribes,
         Holding, store
<1> QED
  BY <1>1, <1>2, <1>3 DEF Moves

(* Only Enqueue announces, and then the number its call held is free.      *)
LEMMA AnnounceSteps ==
    ASSUME TypeOK, NEW t \in Context, Progress(t) \/ Start(t)
    PROVE  \/ UNCHANGED announced
           \/ /\ Enqueue(t) /\ Holding(t) /\ ~Holding(t)'
              /\ UNCHANGED write_seq
              /\ \E n \in Notification :
                   /\ n.seq = call[t].seq /\ n.value = call[t].value
                   /\ queue' = Append(queue, n)
                   /\ announced' = announced \union {n}
<1>1. CASE Enqueue(t)
  <2> DEFINE n == [seq |-> call[t].seq, value |-> call[t].value,
                   scope |-> call[t].scope]
  <2>1. n \in Notification /\ n.seq = call[t].seq /\ n.value = call[t].value
    BY DEF TypeOK, ThreadsOK, Call, Notification
  <2>2. queue' = Append(queue, n) /\ announced' = announced \union {n}
    BY <1>1 DEF Enqueue
  <2> HIDE DEF n
  <2>3. call'[t].at = "claim" /\ call[t].at = "enqueue" /\ UNCHANGED write_seq
    BY <1>1
       DEF Enqueue, Goto, CallBecomes, TypeOK, ThreadsOK, Call, store
  <2> QED
    BY <1>1, <2>1, <2>2, <2>3 DEF Holding
<1>2. CASE Pop(t) \/ Check(t)
  BY <1>2 DEF Pop, Check, notifications
<1> QED
  BY <1>1, <1>2, NotificationsKept

LEMMA NextNumbered ==
    ASSUME TypeOK, Numbered, [Next]_vars
    PROVE  Numbered'
<1>0. write_seq \in Nat
  BY DEF TypeOK, WritesOK
<1>1. CASE UNCHANGED vars
  <2>1. UNCHANGED <<write_seq, call, announced>>
    BY <1>1 DEF vars, store, notifications
  <2> QED
    BY <2>1 DEF Numbered, Holding
<1>2. ASSUME NEW t \in Context, Progress(t) \/ Start(t)
      PROVE  Numbered'
  <2>1. /\ \A u \in Context \ {t} : call'[u] = call[u]
        /\ \/ /\ write_seq' = write_seq + 1 /\ ~Holding(t)
              /\ Holding(t)' => call'[t].seq = write_seq'
           \/ /\ write_seq' = write_seq
              /\ Holding(t)' => Holding(t) /\ call'[t].seq = call[t].seq
    BY <1>2, NumberSteps
  <2>2. /\ write_seq' \in Nat /\ write_seq <= write_seq'
        /\ \A i \in 1..write_seq : i \in 1..write_seq'
        /\ write_seq' = write_seq + 1 =>
             write_seq' \in 1..write_seq' /\ write_seq' \notin 1..write_seq
    BY <1>0, <2>1
  <2>3. \A u \in Context \ {t} : Holding(u)' <=> Holding(u)
    BY <2>1 DEF Holding
  <2>4. \A u \in Context : Holding(u)' => call'[u].seq \in 1..write_seq'
    BY <2>1, <2>2, <2>3 DEF Numbered
  <2>5. ASSUME NEW u \in Context \ {t}, Holding(u)', Holding(t)'
        PROVE  call'[u].seq # call'[t].seq
    <3>1. Holding(u) /\ call[u].seq \in 1..write_seq /\ call'[u].seq = call[u].seq
      BY <2>1, <2>3, <2>5 DEF Numbered
    <3>2. CASE Holding(t) /\ call'[t].seq = call[t].seq
      BY <3>1, <3>2 DEF Numbered
    <3>3. CASE write_seq' = write_seq + 1 /\ call'[t].seq = write_seq'
      BY <2>2, <3>1, <3>3
    <3> QED
      BY <2>1, <2>5, <3>2, <3>3
  <2>6. \A u, v \in Context :
          Holding(u)' /\ Holding(v)' /\ call'[u].seq = call'[v].seq => u = v
    BY <2>1, <2>3, <2>5 DEF Numbered
  <2>7. CASE UNCHANGED announced
    <3>1. \A n \in announced' : n.seq \in 1..write_seq'
      BY <2>2, <2>7 DEF Numbered
    <3>2. \A m, n \in announced' : m.seq = n.seq => m = n
      BY <2>7 DEF Numbered
    <3>3. ASSUME NEW n \in announced', Holding(t)'
          PROVE  n.seq # call'[t].seq
      BY <2>1, <2>2, <2>7, <3>3 DEF Numbered
    <3>4. \A u \in Context, n \in announced' : Holding(u)' => n.seq # call'[u].seq
      BY <2>1, <2>3, <2>7, <3>3 DEF Numbered
    <3> QED
      BY <2>4, <2>6, <3>1, <3>2, <3>4 DEF Numbered
  <2>8. ASSUME NEW n, Holding(t), ~Holding(t)', UNCHANGED write_seq,
               n.seq = call[t].seq, announced' = announced \union {n}
        PROVE  Numbered'
    <3>1. n.seq \in 1..write_seq /\ \A m \in announced : m.seq # n.seq
      BY <2>8 DEF Numbered
    <3>2. \A m \in announced' : m.seq \in 1..write_seq'
      BY <2>8, <3>1 DEF Numbered
    <3>3. \A l, m \in announced' : l.seq = m.seq => l = m
      BY <2>8, <3>1 DEF Numbered
    <3>4. \A u \in Context, m \in announced' : Holding(u)' => m.seq # call'[u].seq
      BY <2>1, <2>3, <2>8 DEF Numbered
    <3> QED
      BY <2>4, <2>6, <3>2, <3>3, <3>4 DEF Numbered
  <2> QED
    BY <1>2, <2>7, <2>8, AnnounceSteps
<1> QED
  BY <1>1, <1>2 DEF Next, Rest

LEMMA InitNumbered == Init => Numbered
BY DEF Init, Numbered, Holding, NoCall

-----------------------------------------------------------------------------
(* A sequence without repetitions. *)
Distinct(q) == \A i, j \in DOMAIN q : q[i] = q[j] => i = j

LEMMA AppendDistinct ==
    ASSUME NEW S, NEW q \in Seq(S), Distinct(q), NEW n \in S,
           n \notin {q[i] : i \in DOMAIN q}
    PROVE  Distinct(Append(q, n))
<1>1. /\ DOMAIN q = 1..Len(q) /\ Len(q) \in Nat
      /\ DOMAIN Append(q, n) = 1..(Len(q) + 1)
      /\ \A i \in 1..Len(q) : Append(q, n)[i] = q[i]
      /\ Append(q, n)[Len(q) + 1] = n
  BY AppendProperties, LenProperties
<1>2. \A i \in 1..(Len(q) + 1) : i \in 1..Len(q) \/ i = Len(q) + 1
  BY <1>1
<1>3. \A i \in 1..Len(q) : q[i] # n
  BY <1>1
<1> QED
  BY <1>1, <1>2, <1>3 DEF Distinct

LEMMA TailDistinct ==
    ASSUME NEW S, NEW q \in Seq(S), Distinct(q), q # <<>>
    PROVE  /\ Distinct(Tail(q))
           /\ Head(q) \notin {Tail(q)[i] : i \in DOMAIN Tail(q)}
<1>1. /\ DOMAIN q = 1..Len(q) /\ Len(q) \in Nat /\ Len(q) > 0
      /\ DOMAIN Tail(q) = 1..(Len(q) - 1)
      /\ \A i \in 1..(Len(q) - 1) : Tail(q)[i] = q[i + 1]
      /\ Head(q) = q[1]
  BY HeadTailProperties, LenProperties
<1>2. \A i \in 1..(Len(q) - 1) : i + 1 \in DOMAIN q /\ i + 1 # 1
  BY <1>1
<1>3. ASSUME NEW i \in DOMAIN Tail(q), NEW j \in DOMAIN Tail(q),
             Tail(q)[i] = Tail(q)[j]
      PROVE  i = j
  <2>1. i + 1 = j + 1
    BY <1>1, <1>2, <1>3 DEF Distinct
  <2> QED
    BY <1>1, <2>1
<1>4. ASSUME NEW i \in DOMAIN Tail(q) PROVE Tail(q)[i] # Head(q)
  <2>1. 1 \in DOMAIN q
    BY <1>1
  <2> QED
    BY <1>1, <1>2, <2>1 DEF Distinct
<1> QED
  BY <1>3, <1>4 DEF Distinct

(* An announced notification waits in the queue or in the drainer's hand   *)
(* at most once, and no longer once it is delivered.                       *)
Waiting(n) == n \in Queued \/ InHand(n)

Once ==
    /\ Distinct(queue)
    /\ \A t \in Context : drain[t].at = "check" => drain[t].item \notin Queued
    /\ \A n \in announced : Waiting(n) => n.seq # delivered_seq

OnceInv == TypeOK /\ SingleDrainer /\ Accounted /\ Bounded /\ Numbered /\ Once

(* What the three steps that touch the queue do to it and to the hand.     *)
LEMMA EnqueueStep ==
    ASSUME TypeOK, NEW t \in Context, Enqueue(t)
    PROVE  \E n \in Notification :
             /\ n.seq = call[t].seq
             /\ queue' = Append(queue, n) /\ announced' = announced \union {n}
             /\ Queued' = Queued \union {n}
             /\ UNCHANGED <<drain, delivered_seq>>
             /\ Holding(t)
<1>1. PICK n \in Notification :
        /\ n.seq = call[t].seq
        /\ queue' = Append(queue, n) /\ announced' = announced \union {n}
  <2> DEFINE n == [seq |-> call[t].seq, value |-> call[t].value,
                   scope |-> call[t].scope]
  <2>1. n \in Notification /\ n.seq = call[t].seq
    BY DEF TypeOK, ThreadsOK, Call, Notification
  <2>2. queue' = Append(queue, n) /\ announced' = announced \union {n}
    BY DEF Enqueue
  <2> HIDE DEF n
  <2> QED
    BY <2>1, <2>2
<1>2. Queued' = Queued \union {n}
  BY <1>1, AppendElements DEF TypeOK, WritesOK, Queued
<1>3. UNCHANGED <<drain, delivered_seq>> /\ Holding(t)
  BY DEF Enqueue, Holding
<1> QED
  BY <1>1, <1>2, <1>3

LEMMA PopStep ==
    ASSUME TypeOK, SingleDrainer, NEW t \in Context, Pop(t)
    PROVE  /\ UNCHANGED <<announced, delivered_seq>>
           /\ \A n : ~InHand(n)
           /\ \/ UNCHANGED queue /\ \A n : ~InHand(n)'
              \/ /\ queue # <<>> /\ queue' = Tail(queue)
                 /\ Queued = Queued' \union {Head(queue)}
                 /\ \A n : InHand(n)' <=> n = Head(queue)
                 /\ \A u \in Context :
                      drain'[u].at = "check" => drain'[u].item = Head(queue)
<1>1. UNCHANGED <<announced, delivered_seq>> /\ drain[t].at = "pop"
  BY DEF Pop
<1>2. \A u \in Context \ {t} : drain[u].at # "check"
  BY <1>1 DEF SingleDrainer, Draining
<1>3. \A n : ~InHand(n)
  BY <1>1, <1>2 DEF InHand
<1>4. CASE queue = <<>>
  <2>1. UNCHANGED queue /\ DrainBecomes(t, [drain[t] EXCEPT !.at = "release"])
    BY <1>4 DEF Pop, DrainGoto
  <2>2. [drain[t] EXCEPT !.at = "release"].at = "release"
    BY DEF TypeOK, ThreadsOK, Drain
  <2>3. \A u \in Context : drain'[u].at # "check"
    BY <1>2, <2>1, <2>2 DEF DrainBecomes, TypeOK, ThreadsOK
  <2> QED
    BY <1>1, <1>3, <2>1, <2>3 DEF InHand
<1>5. CASE queue # <<>>
  <2> DEFINE d == [drain[t] EXCEPT !.at = "check", !.item = Head(queue)]
  <2>1. queue' = Tail(queue) /\ DrainBecomes(t, d)
    BY <1>5 DEF Pop
  <2>2. d.at = "check" /\ d.item = Head(queue)
    BY DEF TypeOK, ThreadsOK, Drain
  <2> HIDE DEF d
  <2>3. drain'[t].at = "check" /\ drain'[t].item = Head(queue)
    BY <2>1, <2>2 DEF DrainBecomes, TypeOK, ThreadsOK
  <2>4. \A u \in Context \ {t} : drain'[u].at # "check"
    BY <1>2, <2>1 DEF DrainBecomes, TypeOK, ThreadsOK
  <2>5. Queued = Queued' \union {Head(queue)}
    BY <1>5, <2>1, TailElements DEF TypeOK, WritesOK, Queued
  <2>6. \A n : InHand(n)' <=> n = Head(queue)
    BY <2>3, <2>4 DEF InHand
  <2>7. \A u \in Context : drain'[u].at = "check" => drain'[u].item = Head(queue)
    BY <2>3, <2>4
  <2> QED
    BY <1>1, <1>3, <1>5, <2>1, <2>5, <2>6, <2>7
<1> QED
  BY <1>4, <1>5

LEMMA CheckStep ==
    ASSUME TypeOK, SingleDrainer, NEW t \in Context, Check(t)
    PROVE  /\ UNCHANGED <<queue, announced>>
           /\ \A n : InHand(n) <=> n = drain[t].item
           /\ \A n : ~InHand(n)'
           /\ \A u \in Context : drain'[u].at # "check"
           /\ \/ drain[t].item.seq <= delivered_seq /\ UNCHANGED delivered_seq
              \/ /\ delivered_seq < drain[t].item.seq
                 /\ delivered_seq' = drain[t].item.seq
<1>1. UNCHANGED <<queue, announced>> /\ drain[t].at = "check"
  BY DEF Check, notifications
<1>2. \A u \in Context \ {t} : drain[u].at # "check"
  BY <1>1 DEF SingleDrainer, Draining
<1>3. /\ drain'[t].at # "check"
      /\ \A u \in Context \ {t} : drain'[u] = drain[u]
  <2>1. /\ [drain[t] EXCEPT !.at = "snapshot"].at = "snapshot"
        /\ [NoDrain EXCEPT !.at = "pop"].at = "pop"
    BY Defaults DEF TypeOK, ThreadsOK, Drain
  <2> QED
    BY <2>1 DEF Check, DrainGoto, DrainBecomes, TypeOK, ThreadsOK
<1>4. drain[t].item.seq \in Nat /\ delivered_seq \in Nat
  BY DEF TypeOK, ThreadsOK, WritesOK, Drain, Notification
<1>5. \/ drain[t].item.seq <= delivered_seq /\ UNCHANGED delivered_seq
      \/ /\ delivered_seq < drain[t].item.seq
         /\ delivered_seq' = drain[t].item.seq
  BY <1>4 DEF Check
<1>6. \A u \in Context : drain'[u].at # "check"
  BY <1>2, <1>3
<1>7. \A n : InHand(n) <=> n = drain[t].item
  BY <1>1, <1>2 DEF InHand
<1>8. \A n : ~InHand(n)'
  BY <1>6 DEF InHand
<1> QED
  BY <1>1, <1>5, <1>6, <1>7, <1>8

LEMMA OtherSteps ==
    ASSUME TypeOK, SingleDrainer, NEW t \in Context, Progress(t) \/ Start(t),
           ~Enqueue(t), ~Pop(t), ~Check(t)
    PROVE  /\ UNCHANGED <<queue, announced, delivered_seq>>
           /\ \A n : InHand(n)' <=> InHand(n)
           /\ \A u \in Context : drain'[u].at = "check" =>
                drain[u].at = "check" /\ drain'[u].item = drain[u].item
<1>1. UNCHANGED <<queue, announced, delivered_seq>>
  BY NotificationsKept
<1>2. \A u \in Context : /\ drain'[u].at = "check" <=> drain[u].at = "check"
                         /\ drain[u].at = "check" => drain'[u] = drain[u]
  BY HandStages
<1>3. \A n : InHand(n)' <=> InHand(n)
  BY <1>2 DEF InHand
<1> QED
  BY <1>1, <1>2, <1>3

LEMMA NextOnce ==
    ASSUME OnceInv, [Next]_vars
    PROVE  Once'
<1> USE DEF OnceInv
<1>0. /\ queue \in Seq(Notification) /\ delivered_seq \in Nat
      /\ Queued = {queue[i] : i \in DOMAIN queue} /\ Queued \subseteq announced
  BY DEF TypeOK, WritesOK, Queued, Accounted
<1>1. CASE UNCHANGED vars
  BY <1>1 DEF vars, notifications, Once, Waiting, Queued, InHand
<1>2. ASSUME NEW t \in Context, Enqueue(t)
      PROVE  Once'
  <2>1. PICK n \in Notification :
          /\ n.seq = call[t].seq
          /\ queue' = Append(queue, n) /\ announced' = announced \union {n}
          /\ Queued' = Queued \union {n}
          /\ UNCHANGED <<drain, delivered_seq>>
          /\ Holding(t)
    BY <1>2, EnqueueStep
  <2>2. n \notin announced /\ n.seq \in 1..write_seq
    BY <2>1 DEF Numbered
  <2>3. n.seq # delivered_seq
    BY <1>0, <2>1, <2>2 DEF Accounted, Numbered
  <2>4. Distinct(queue)'
    BY <1>0, <2>1, <2>2, AppendDistinct DEF Once
  <2>5. \A u \in Context : drain'[u].at = "check" => drain'[u].item \notin Queued'
    BY <2>1, <2>2 DEF Once, Accounted
  <2>6. \A m : Waiting(m)' => Waiting(m) \/ m = n
    BY <2>1 DEF Waiting, InHand
  <2>7. \A m \in announced' : Waiting(m)' => m.seq # delivered_seq'
    BY <2>1, <2>2, <2>3, <2>6 DEF Once
  <2> QED
    BY <2>4, <2>5, <2>7 DEF Once
<1>3. ASSUME NEW t \in Context, Pop(t)
      PROVE  Once'
  <2>1. /\ UNCHANGED <<announced, delivered_seq>>
        /\ \/ UNCHANGED queue /\ \A n : ~InHand(n)'
           \/ /\ queue # <<>> /\ queue' = Tail(queue)
              /\ Queued = Queued' \union {Head(queue)}
              /\ \A n : InHand(n)' <=> n = Head(queue)
              /\ \A u \in Context :
                   drain'[u].at = "check" => drain'[u].item = Head(queue)
    BY <1>3, PopStep
  <2>2. CASE UNCHANGED queue /\ \A n : ~InHand(n)'
    <3>1. UNCHANGED Queued
      BY <2>2 DEF Queued
    <3>2. \A u \in Context : drain'[u].at # "check"
      BY <2>2 DEF InHand
    <3>3. \A m \in announced' : Waiting(m)' => m.seq # delivered_seq'
      BY <2>1, <2>2, <3>1 DEF Once, Waiting
    <3> QED
      BY <2>2, <3>2, <3>3 DEF Once
  <2>3. CASE /\ queue # <<>> /\ queue' = Tail(queue)
             /\ Queued = Queued' \union {Head(queue)}
             /\ \A n : InHand(n)' <=> n = Head(queue)
             /\ \A u \in Context :
                  drain'[u].at = "check" => drain'[u].item = Head(queue)
    <3>1. Distinct(queue)' /\ Head(queue) \notin Queued'
      BY <1>0, <2>3, TailDistinct DEF Once, Queued
    <3>2. \A m : Waiting(m)' => Waiting(m)
      BY <2>3 DEF Waiting
    <3>3. \A m \in announced' : Waiting(m)' => m.seq # delivered_seq'
      BY <2>1, <3>2 DEF Once
    <3> QED
      BY <2>3, <3>1, <3>3 DEF Once
  <2> QED
    BY <2>1, <2>2, <2>3
<1>4. ASSUME NEW t \in Context, Check(t)
      PROVE  Once'
  <2>1. /\ UNCHANGED <<queue, announced>>
        /\ \A n : InHand(n) <=> n = drain[t].item
        /\ \A n : ~InHand(n)'
        /\ \A u \in Context : drain'[u].at # "check"
        /\ \/ drain[t].item.seq <= delivered_seq /\ UNCHANGED delivered_seq
           \/ /\ delivered_seq < drain[t].item.seq
              /\ delivered_seq' = drain[t].item.seq
    BY <1>4, CheckStep
  <2>2. UNCHANGED Queued
    BY <2>1 DEF Queued
  <2>3. drain[t].at = "check"
    BY <1>4 DEF Check
  <2>4. drain[t].item \in announced /\ drain[t].item \notin Queued
    BY <2>3 DEF Accounted, Once
  <2>5. ASSUME NEW m \in announced, m \in Queued
        PROVE  m.seq # delivered_seq'
    <3>1. m.seq # drain[t].item.seq
      BY <2>4, <2>5 DEF Numbered
    <3>2. m.seq # delivered_seq
      BY <2>5 DEF Once, Waiting
    <3> QED
      BY <2>1, <3>1, <3>2
  <2>6. \A m \in announced' : Waiting(m)' => m.seq # delivered_seq'
    BY <2>1, <2>2, <2>5 DEF Waiting
  <2> QED
    BY <2>1, <2>6 DEF Once
<1>5. ASSUME NEW t \in Context, Progress(t) \/ Start(t),
             ~Enqueue(t), ~Pop(t), ~Check(t)
      PROVE  Once'
  <2>1. /\ UNCHANGED <<queue, announced, delivered_seq>>
        /\ \A n : InHand(n)' <=> InHand(n)
        /\ \A u \in Context : drain'[u].at = "check" =>
             drain[u].at = "check" /\ drain'[u].item = drain[u].item
    BY <1>5, OtherSteps
  <2>2. UNCHANGED Queued
    BY <2>1 DEF Queued
  <2>3. \A m \in announced' : Waiting(m)' => m.seq # delivered_seq'
    BY <2>1, <2>2 DEF Once, Waiting
  <2> QED
    BY <2>1, <2>2, <2>3 DEF Once
<1> QED
  BY <1>1, <1>2, <1>3, <1>4, <1>5 DEF Next, Rest

LEMMA InitOnceInv == Init => OnceInv
<1> SUFFICES ASSUME Init PROVE OnceInv
  OBVIOUS
<1>1. Once
  BY DEF Init, Once, Distinct, Waiting, NoDrain
<1>2. /\ TypeOK /\ SingleDrainer /\ Accounted /\ Bounded /\ Numbered
  BY InitTypeOK, InitSingleDrainer, InitAccounted, InitBounded, InitNumbered
<1> QED
  BY <1>1, <1>2 DEF OnceInv

LEMMA NextOnceInv == OnceInv /\ [Next]_vars => OnceInv'
<1> SUFFICES ASSUME OnceInv, [Next]_vars PROVE OnceInv'
  OBVIOUS
<1>1. TypeOK' /\ SingleDrainer'
  BY NextTypeOK, NextSingleDrainer DEF OnceInv
<1>2. Accounted' /\ Bounded' /\ Numbered'
  BY NextAccounted, NextBounded, NextNumbered DEF OnceInv
<1> QED
  BY <1>1, <1>2, NextOnce DEF OnceInv

LEMMA OnceInvariant == Spec => []OnceInv
BY InitOnceInv, NextOnceInv, PTL DEF Spec

-----------------------------------------------------------------------------
(* Delivery's told and pending. *)
Told == {n.seq : n \in announced}
Pending == {n.seq : n \in {m \in announced : Waiting(m)}}

(* A step announces one write, settles the one in the drainer's hand, or   *)
(* is not seen by Delivery.                                                *)
LEMMA NextDelivery ==
    ASSUME OnceInv, OnceInv', [Next]_vars
    PROVE  [DeliverySpec!Next]_(DeliverySpec!vars)
<1> USE DEF OnceInv
<1>0. /\ delivered_seq \in Nat /\ write_seq \in Nat /\ MaxWrites \in Nat
      /\ Queued \subseteq announced
      /\ \A n \in announced : n.seq \in Nat /\ n.seq >= 1
  BY BoundAssumption DEF TypeOK, WritesOK, Accounted, Numbered
<1>1. \A n \in announced' : n.seq \in DeliverySpec!Write
  <2>1. write_seq' \in Nat /\ IsFiniteSet(Reserved')
    BY DEF TypeOK, WritesOK, Bounded
  <2>2. Cardinality(Reserved') \in Nat
    BY <2>1, FS_CardinalityType
  <2>3. write_seq' <= MaxWrites
    BY <1>0, <2>1, <2>2 DEF Bounded
  <2> QED
    BY <1>0, <2>1, <2>3 DEF Numbered, DeliverySpec!Write
<1>2. CASE Told' = Told /\ Pending' = Pending /\ UNCHANGED delivered_seq
  BY <1>2 DEF DeliverySpec!vars, Told, Pending, Waiting
<1>3. CASE UNCHANGED vars
  BY <1>2, <1>3
     DEF vars, notifications, Told, Pending, Waiting, Queued, InHand
<1>4. ASSUME NEW t \in Context, Enqueue(t)
      PROVE  DeliverySpec!Next
  <2>1. PICK n \in Notification :
          /\ n.seq = call[t].seq
          /\ queue' = Append(queue, n) /\ announced' = announced \union {n}
          /\ Queued' = Queued \union {n}
          /\ UNCHANGED <<drain, delivered_seq>>
          /\ Holding(t)
    BY <1>4, EnqueueStep
  <2>2. n.seq \notin Told
    BY <2>1 DEF Numbered, Told
  <2>3. Told' = Told \union {n.seq}
    BY <2>1 DEF Told
  <2>4. \A m : Waiting(m)' <=> Waiting(m) \/ m = n
    BY <2>1 DEF Waiting, InHand
  <2>5. Pending' = Pending \union {n.seq}
    BY <2>1, <2>4 DEF Pending
  <2>6. DeliverySpec!Announce(n.seq)
    BY <2>1, <2>2, <2>3, <2>5 DEF DeliverySpec!Announce, Told, Pending, Waiting
  <2>7. n.seq \in DeliverySpec!Write
    BY <1>1, <2>1
  <2> QED
    BY <2>6, <2>7 DEF DeliverySpec!Next
<1>5. ASSUME NEW t \in Context, Pop(t)
      PROVE  UNCHANGED <<announced, delivered_seq>> /\ Pending' = Pending
  <2>1. /\ UNCHANGED <<announced, delivered_seq>>
        /\ \A n : ~InHand(n)
        /\ \/ UNCHANGED queue /\ \A n : ~InHand(n)'
           \/ /\ Queued = Queued' \union {Head(queue)}
              /\ \A n : InHand(n)' <=> n = Head(queue)
    BY <1>5, PopStep
  <2>2. UNCHANGED queue => UNCHANGED Queued
    BY DEF Queued
  <2>3. \A n : Waiting(n)' <=> Waiting(n)
    BY <2>1, <2>2 DEF Waiting
  <2> QED
    BY <2>1, <2>3 DEF Pending
<1>6. ASSUME NEW t \in Context, Check(t)
      PROVE  DeliverySpec!Next
  <2>0. PICK i : i = drain[t].item
    OBVIOUS
  <2>1. /\ UNCHANGED <<queue, announced>>
        /\ \A n : InHand(n) <=> n = i
        /\ \A n : ~InHand(n)'
        /\ \/ i.seq <= delivered_seq /\ UNCHANGED delivered_seq
           \/ delivered_seq < i.seq /\ delivered_seq' = i.seq
    BY <1>6, <2>0, CheckStep
  <2>2. drain[t].at = "check"
    BY <1>6 DEF Check
  <2>3. i \in announced /\ i \notin Queued /\ Waiting(i)
    BY <2>0, <2>1, <2>2 DEF Accounted, Once, Waiting
  <2>4. i.seq # delivered_seq /\ i.seq \in Nat
    BY <1>0, <2>3 DEF Once
  <2>5. UNCHANGED <<Queued, Told>>
    BY <2>1 DEF Queued, Told
  <2>6. \A n : Waiting(n)' <=> Waiting(n) /\ n # i
    BY <2>1, <2>3, <2>5 DEF Waiting
  <2>7. Pending' = Pending \ {i.seq}
    BY <2>1, <2>3, <2>6 DEF Pending, Numbered
  <2>8. i.seq \in Pending /\ i.seq \in DeliverySpec!Write
    BY <1>1, <2>1, <2>3 DEF Pending
  <2>9. CASE i.seq <= delivered_seq /\ UNCHANGED delivered_seq
    <3>1. i.seq < delivered_seq
      BY <1>0, <2>4, <2>9
    <3>2. DeliverySpec!Supersede(i.seq)
      BY <2>5, <2>7, <2>8, <2>9, <3>1
         DEF DeliverySpec!Supersede, Told, Pending, Waiting
    <3> QED
      BY <2>8, <3>2 DEF DeliverySpec!Next, DeliverySpec!Settle
  <2>10. CASE delivered_seq < i.seq /\ delivered_seq' = i.seq
    <3>1. DeliverySpec!Deliver(i.seq)
      BY <2>5, <2>7, <2>8, <2>10 DEF DeliverySpec!Deliver, Told, Pending, Waiting
    <3> QED
      BY <2>8, <3>1 DEF DeliverySpec!Next, DeliverySpec!Settle
  <2> QED
    BY <2>1, <2>9, <2>10
<1>7. ASSUME NEW t \in Context, Progress(t) \/ Start(t),
             ~Enqueue(t), ~Pop(t), ~Check(t)
      PROVE  UNCHANGED <<announced, delivered_seq>> /\ Pending' = Pending
  <2>1. /\ UNCHANGED <<queue, announced, delivered_seq>>
        /\ \A n : InHand(n)' <=> InHand(n)
    BY <1>7, OtherSteps
  <2>2. \A n : Waiting(n)' <=> Waiting(n)
    BY <2>1 DEF Waiting, Queued
  <2> QED
    BY <2>1, <2>2 DEF Pending
<1>8. UNCHANGED announced => Told' = Told
  BY DEF Told
<1> QED
  BY <1>2, <1>3, <1>4, <1>5, <1>6, <1>7, <1>8 DEF Next, Rest

(* The threads, the queue and the drain flag of notify_listeners implement *)
(* the promise the store makes: each write is announced at most once, a    *)
(* delivery is newer than all before it, and what is dropped is older than *)
(* a delivery.                                                             *)
THEOREM DeliveryImplemented == Spec => DeliversInOrder
<1>1. Init => DeliverySpec!Init
  BY DEF Init, DeliverySpec!Init
<1>2. OnceInv /\ OnceInv' /\ [Next]_vars => [DeliverySpec!Next]_(DeliverySpec!vars)
  BY NextDelivery
<1> QED
  BY <1>1, <1>2, OnceInvariant, PTL DEF Spec, DeliversInOrder, DeliverySpec!Spec

-----------------------------------------------------------------------------
(* One thread at a time is in a call, or waits for user code it runs: what *)
(* that code calls is one level deeper.                                    *)
Nested ==
    \A t, u \in Context :
        u[1] = t[1] /\ t[2] < u[2] /\ ~Outside(u) => call[t].at \in Reentrant

LEMMA DrainMoves ==
    ASSUME TypeOK, NEW t \in Context, Progress(t) \/ Start(t),
           NEW u \in Context \ {t}
    PROVE  drain'[u] = drain[u]
<1>1. CASE UNCHANGED drain
  BY <1>1
<1>2. ASSUME NEW d, DrainBecomes(t, d) PROVE drain'[u] = drain[u]
  BY <1>2 DEF DrainBecomes, TypeOK, ThreadsOK
<1>3. CASE \/ Claim(t) \/ Pop(t) \/ Check(t) \/ Snapshot(t) \/ Deliver(t)
           \/ Delivered(t) \/ Release(t) \/ Recheck(t) \/ Reclaim(t)
  <2>1. UNCHANGED drain \/ \E d : DrainBecomes(t, d)
    BY <1>3, Zenon
       DEF Claim, Pop, Check, Snapshot, Deliver, Delivered, Release, Recheck,
           Reclaim, DrainGoto
  <2> QED
    BY <1>1, <1>2, <2>1
<1>4. CASE \/ SetHooks(t) \/ Write(t) \/ FindNotifyHooks(t) \/ NotifyHooks(t)
           \/ WriteBack(t) \/ Mutate(t) \/ Enqueue(t) \/ Get(t)
           \/ InvokeListener(t) \/ Subscribed(t)
  BY <1>1, <1>4
     DEF SetHooks, Write, FindNotifyHooks, NotifyHooks, WriteBack, Mutate,
         Enqueue, Get, InvokeListener, Subscribed
<1>5. CASE Start(t)
  BY <1>1, <1>5
     DEF Start, Commit, MutateInPlace, AddListener, RemoveListener, AddHook,
         RemoveHook
<1> QED
  BY <1>3, <1>4, <1>5 DEF Progress

(* Who steps has no user code of its own running, and comes from user code *)
(* if it is one level down.                                                *)
LEMMA StepEntered ==
    ASSUME NEW t \in Context, Progress(t) \/ Start(t)
    PROVE  Runs(t) /\ (Outside(t) => Entered(t))
<1>1. CASE Progress(t)
  <2>1. ~Outside(t)
    BY <1>1
       DEF Progress, SetHooks, Write, FindNotifyHooks, NotifyHooks, WriteBack,
           Mutate, Enqueue, Claim, Pop, Check, Snapshot, Deliver, Delivered,
           Release, Recheck, Reclaim, Get, InvokeListener, Subscribed, Outside
  <2> QED
    BY <1>1, <2>1 DEF Progress
<1>2. CASE Start(t)
  BY <1>2
     DEF Start, Commit, MutateInPlace, AddListener, RemoveListener, AddHook,
         RemoveHook, MayCall
<1> QED
  BY <1>1, <1>2

(* Below a level that has been entered all wait for the user code they run. *)
LEMMA BelowEntered ==
    ASSUME Nested, NEW t \in Context, Outside(t) => Entered(t),
           NEW u \in Context, u[1] = t[1], u[2] < t[2]
    PROVE  call[u].at \in Reentrant
<1>0. /\ t[1] \in Thread /\ t[2] \in 0..MaxDepth /\ u[2] \in 0..MaxDepth
      /\ u = <<t[1], u[2]>> /\ MaxDepth \in Nat
  BY ContextAssumption DEF Context
<1>1. CASE ~Outside(t)
  BY <1>1 DEF Nested
<1>2. CASE Outside(t)
  <2> DEFINE p == <<t[1], t[2] - 1>>
  <2>1. p \in Context /\ p[1] = t[1] /\ p[2] = t[2] - 1
    BY <1>0 DEF Context
  <2>2. call[p].at \in Reentrant
    BY <1>0, <1>2 DEF Entered
  <2>3. ~Outside(p)
    BY <2>2, ContextAssumption DEF Outside, Callback
  <2>4. CASE u[2] = t[2] - 1
    BY <1>0, <2>2, <2>4
  <2>5. CASE u[2] < t[2] - 1
    BY <2>1, <2>3, <2>5 DEF Nested
  <2> QED
    BY <1>0, <2>4, <2>5
<1> QED
  BY <1>1, <1>2

LEMMA NextNested ==
    ASSUME TypeOK, Nested, [Next]_vars
    PROVE  Nested'
<1>1. CASE UNCHANGED vars
  BY <1>1 DEF vars, Nested, Outside
<1>2. ASSUME NEW t \in Context, Progress(t) \/ Start(t)
      PROVE  Nested'
  <2>1. \A u \in Context \ {t} : call'[u] = call[u]
    BY <1>2, CallMoves
  <2>2. \A u \in Context \ {t} : drain'[u] = drain[u]
    BY <1>2, DrainMoves
  <2>3. Runs(t) /\ (Outside(t) => Entered(t))
    BY <1>2, StepEntered
  <2>4. ASSUME NEW s \in Context, NEW u \in Context,
               u[1] = s[1], s[2] < u[2], ~Outside(u)'
        PROVE  call'[s].at \in Reentrant
    <3>1. CASE u # t /\ s = t
      BY <2>1, <2>2, <2>3, <2>4, <3>1 DEF Runs, Outside
    <3>2. CASE u # t /\ s # t
      BY <2>1, <2>2, <2>4, <3>2 DEF Nested, Outside
    <3>3. CASE u = t
      <4>1. s # t /\ s[2] \in Int /\ t[2] \in Int
        BY <2>4, <3>3, ContextAssumption DEF Context
      <4>2. call[s].at \in Reentrant
        BY <2>3, <2>4, <3>3, BelowEntered DEF Nested
      <4> QED
        BY <2>1, <4>1, <4>2
    <3> QED
      BY <3>1, <3>2, <3>3
  <2> QED
    BY <2>4 DEF Nested
<1> QED
  BY <1>1, <1>2 DEF Next, Rest

LEMMA InitNested == Init => Nested
BY DEF Init, Nested, Outside, NoCall, NoDrain

(* Programs whose calls follow one another: one thread makes them, and its *)
(* notify hooks, which run between the two stores of a commit, make none.  *)
InTurn == (\A p, q \in Thread : p = q) /\ "notify_hooks" \notin Reentrant

LEMMA Alone ==
    ASSUME InTurn, Nested, NEW t \in Context, Progress(t) \/ Start(t),
           NEW u \in Context \ {t}
    PROVE  call[u].at \in {"idle", "set_hooks", "first_call"}
<1>1. u[1] = t[1] /\ u[2] # t[2] /\ u[2] \in Int /\ t[2] \in Int
  BY ContextAssumption DEF InTurn, Context
<1>2. Runs(t) /\ (Outside(t) => Entered(t))
  BY StepEntered
<1>3. CASE u[2] > t[2]
  BY <1>1, <1>2, <1>3 DEF Runs, Outside
<1>4. CASE u[2] < t[2]
  <2>1. call[u].at \in Reentrant
    BY <1>1, <1>2, <1>4, BelowEntered DEF Nested
  <2> QED
    BY <2>1, ContextAssumption DEF InTurn, Callback
<1> QED
  BY <1>1, <1>3, <1>4

-----------------------------------------------------------------------------
(* Programs in which no write comes between the two stores of a commit:    *)
(* those that write in place only, and those whose calls follow one        *)
(* another.                                                                *)
WritesAlone == "commit" \notin Operation \/ InTurn

Rewriting == {"written", "notify_hooks", "write_back"}
Committing == {"set_hooks", "write"} \union Rewriting

InPlaceOnly ==
    "commit" \notin Operation => \A t \in Context : call[t].at \notin Committing

(* The call that is about to store again made the newest write, and        *)
(* whoever was told, or is to be told, of the newest write has the stored  *)
(* value.                                                                  *)
NewestStored ==
    /\ value_seq <= write_seq
    /\ \A t \in Context :
         call[t].at \in Rewriting => call[t].seq = write_seq
    /\ \A t \in Context :
         call[t].at = "enqueue" /\ call[t].seq = write_seq => call[t].value = value
    /\ \A n \in announced : n.seq = write_seq => n.value = value

LEMMA NextInPlaceOnly ==
    ASSUME TypeOK, InPlaceOnly, [Next]_vars
    PROVE  InPlaceOnly'
<1>1. CASE UNCHANGED vars
  BY <1>1 DEF vars, InPlaceOnly
<1>2. ASSUME NEW t \in Context, Progress(t) \/ Start(t)
      PROVE  InPlaceOnly'
  <2>1. Moves(t) /\ \A u \in Context \ {t} : call'[u] = call[u]
    BY <1>2, CallMoves
  <2>2. call'[t].at \in Committing =>
          call[t].at \in Committing \/ "commit" \in Operation
    BY <2>1
       DEF Moves, Begins, Returns, Prepares, Commits, Revises, StoresAgain,
           Mutates, Announces, Subscribes, Committing, Rewriting
  <2> QED
    BY <2>1, <2>2 DEF InPlaceOnly
<1> QED
  BY <1>1, <1>2 DEF Next, Rest

LEMMA NextNewestStored ==
    ASSUME WritesAlone, TypeOK, Nested, Numbered, InPlaceOnly, NewestStored,
           [Next]_vars
    PROVE  NewestStored'
<1>0. write_seq \in Nat /\ value_seq \in Nat
  BY DEF TypeOK, WritesOK
<1>1. CASE UNCHANGED vars
  <2>1. UNCHANGED <<value, write_seq, value_seq, call, announced>>
    BY <1>1 DEF vars, store, notifications
  <2> QED
    BY <2>1 DEF NewestStored
<1>2. ASSUME NEW t \in Context, Progress(t) \/ Start(t)
      PROVE  NewestStored'
  <2>1. Moves(t) /\ \A u \in Context \ {t} : call'[u] = call[u]
    BY <1>2, CallMoves
  <2>2. /\ \A u \in Context \ {t} : call[u].at \notin Rewriting
        /\ call[t].at \in Committing =>
             \A u \in Context \ {t} : call[u].at # "enqueue"
    BY <1>2, Alone DEF WritesAlone, InPlaceOnly, Committing, Rewriting
  <2>3. call[t].at # "enqueue" => UNCHANGED announced
    BY <1>2, AnnounceSteps DEF Enqueue
  <2>4. ASSUME write_seq' = write_seq + 1, call[t].at # "enqueue"
        PROVE  /\ \A n \in announced' : n.seq # write_seq'
               /\ \A u \in Context \ {t} : call[u].at = "enqueue" => call[u].seq # write_seq'
    <3>1. write_seq' \notin 1..write_seq
      BY <1>0, <2>4
    <3> QED
      BY <2>3, <2>4, <3>1 DEF Numbered, Holding
  <2>5. CASE Commits(t)
    <3>1. call[t].at \in Committing /\ call[t].at # "enqueue"
      BY <2>5 DEF Commits, Committing
    <3>2. \A u \in Context \ {t} :
            call'[u].at \notin Rewriting /\ call'[u].at # "enqueue"
      BY <2>1, <2>2, <3>1
    <3>3. \A n \in announced' : n.seq # write_seq'
      BY <2>4, <2>5, <3>1 DEF Commits
    <3>4. value_seq' <= write_seq'
      BY <1>0, <2>5 DEF Commits
    <3> QED
      BY <2>5, <3>2, <3>3, <3>4 DEF Commits, NewestStored, Rewriting
  <2>6. CASE Mutates(t)
    <3>1. call[t].at # "enqueue" /\ write_seq' = write_seq + 1
      BY <2>6 DEF Mutates
    <3>2. value_seq' <= write_seq'
      BY <1>0, <2>6 DEF Mutates
    <3>3. \A u \in Context : call'[u].at \notin Rewriting
      BY <2>1, <2>2, <2>6 DEF Mutates, Rewriting
    <3>4. ASSUME NEW u \in Context, call'[u].at = "enqueue", call'[u].seq = write_seq'
          PROVE  call'[u].value = value'
      <4>1. CASE u = t
        BY <2>6, <4>1 DEF Mutates
      <4>2. CASE u # t
        BY <2>1, <2>4, <3>1, <3>4, <4>2
      <4> QED
        BY <4>1, <4>2
    <3>5. \A n \in announced' : n.seq # write_seq'
      BY <2>4, <3>1
    <3> QED
      BY <3>2, <3>3, <3>4, <3>5 DEF NewestStored
  <2>7. CASE StoresAgain(t)
    <3>1. /\ call[t].at \in Committing /\ call[t].at # "enqueue" /\ Holding(t)
          /\ call[t].seq = write_seq
      BY <2>7 DEF StoresAgain, Committing, Rewriting, Holding, NewestStored
    <3>2. \A u \in Context \ {t} :
            call'[u].at \notin Rewriting /\ call'[u].at # "enqueue"
      BY <2>1, <2>2, <3>1
    <3>3. \A n \in announced' : n.seq # write_seq'
      BY <2>3, <2>7, <3>1 DEF StoresAgain, Numbered
    <3>4. value_seq' <= write_seq'
      BY <1>0, <2>7, <3>1 DEF StoresAgain, NewestStored
    <3> QED
      BY <2>7, <3>2, <3>3, <3>4 DEF StoresAgain, NewestStored, Rewriting
  <2>8. CASE Announces(t)
    <3>1. UNCHANGED <<value, write_seq, value_seq>> /\ call[t].at = "enqueue"
      BY <2>8 DEF Announces, store
    <3>2. \A n \in announced' : n.seq = write_seq => n.value = value
      BY <1>2, <3>1, AnnounceSteps DEF NewestStored
    <3>3. call'[t].at = "claim"
      BY <2>8 DEF Announces
    <3> QED
      BY <2>1, <3>1, <3>2, <3>3 DEF NewestStored, Rewriting
  <2>9. CASE \/ Begins(t) \/ Returns(t) \/ Prepares(t) \/ Revises(t)
             \/ Subscribes(t)
    <3>1. UNCHANGED <<value, write_seq, value_seq>>
      BY <2>9 DEF Begins, Returns, Prepares, Revises, Subscribes, store
    <3>2. /\ call'[t].at # "enqueue"
          /\ call'[t].at \in Rewriting =>
               call[t].at \in Rewriting /\ call'[t].seq = call[t].seq
      BY <2>9 DEF Begins, Returns, Prepares, Revises, Subscribes, Rewriting
    <3>3. UNCHANGED announced \/ \E n : /\ n.seq = call[t].seq /\ n.value = call[t].value
                                        /\ call[t].at = "enqueue"
                                        /\ announced' = announced \union {n}
      BY <1>2, AnnounceSteps DEF Enqueue
    <3>4. \A n \in announced' : n.seq = write_seq => n.value = value
      BY <3>3 DEF NewestStored
    <3> QED
      BY <2>1, <3>1, <3>2, <3>4 DEF NewestStored
  <2>10. CASE UNCHANGED <<call, store>>
    <3>1. UNCHANGED <<value, write_seq, value_seq, call>>
      BY <2>10 DEF store
    <3>2. UNCHANGED announced \/ \E n : /\ n.seq = call[t].seq /\ n.value = call[t].value
                                        /\ call[t].at = "enqueue"
                                        /\ announced' = announced \union {n}
      BY <1>2, AnnounceSteps DEF Enqueue
    <3>3. \A n \in announced' : n.seq = write_seq => n.value = value
      BY <3>2 DEF NewestStored
    <3> QED
      BY <3>1, <3>3 DEF NewestStored
  <2> QED
    BY <2>1, <2>5, <2>6, <2>7, <2>8, <2>9, <2>10 DEF Moves
<1> QED
  BY <1>1, <1>2 DEF Next, Rest

LEMMA InitNewestStored == Init => InPlaceOnly /\ NewestStored
BY DEF Init, InPlaceOnly, NewestStored, NoCall, Committing, Rewriting

LEMMA StoredInvariant ==
    ASSUME WritesAlone
    PROVE  Spec => [](OnceInv /\ Nested /\ InPlaceOnly /\ NewestStored)
<1>1. Init => OnceInv /\ Nested /\ InPlaceOnly /\ NewestStored
  BY InitOnceInv, InitNested, InitNewestStored
<1>2. OnceInv /\ Nested /\ InPlaceOnly /\ NewestStored /\ [Next]_vars
        => (OnceInv /\ Nested /\ InPlaceOnly /\ NewestStored)'
  BY NextOnceInv, NextNested, NextInPlaceOnly, NextNewestStored DEF OnceInv
<1> QED
  BY <1>1, <1>2, PTL DEF Spec

(* In a program that writes in place, or in which one thread makes all     *)
(* calls and none from a notify hook, the store holds, at rest, the value  *)
(* its listeners were told last: the second store of commit puts back no   *)
(* overtaken value there.                                                  *)
THEOREM StoredDelivered ==
    ASSUME WritesAlone
    PROVE  Spec => []StoredIsDelivered
<1>1. NewestStored => StoredIsDelivered
  BY DEF NewestStored, StoredIsDelivered
<1> QED
  BY <1>1, StoredInvariant, PTL

(* In such a program no write is undone by an older one.                   *)
THEOREM NoWriteUndone ==
    ASSUME WritesAlone
    PROVE  Spec => WritesInOrder
<1>1. ASSUME OnceInv, InPlaceOnly, NewestStored, [Next]_vars
      PROVE  [value_seq' >= value_seq]_vars
  <2>0. /\ write_seq \in Nat /\ value_seq \in Nat /\ value_seq <= write_seq
        /\ TypeOK
    BY <1>1 DEF OnceInv, TypeOK, WritesOK, NewestStored
  <2>1. ASSUME NEW t \in Context, Progress(t) \/ Start(t)
        PROVE  value_seq' >= value_seq
    <3>1. Moves(t)
      BY <2>0, <2>1, CallMoves
    <3>2. CASE Commits(t) \/ Mutates(t)
      BY <2>0, <3>2 DEF Commits, Mutates
    <3>3. CASE StoresAgain(t)
      <4>1. call[t].seq = write_seq
        BY <1>1, <3>3 DEF StoresAgain, NewestStored, Rewriting
      <4> QED
        BY <2>0, <3>3, <4>1 DEF StoresAgain
    <3>4. CASE \/ UNCHANGED <<call, store>> \/ Begins(t) \/ Returns(t)
               \/ Prepares(t)
               \/ Revises(t) \/ Announces(t) \/ Subscribes(t)
      <4>1. UNCHANGED value_seq
        BY <3>4
           DEF Begins, Returns, Prepares, Revises, Announces, Subscribes, store
      <4> QED
        BY <2>0, <4>1
    <3> QED
      BY <3>1, <3>2, <3>3, <3>4 DEF Moves
  <2> QED
    BY <1>1, <2>1 DEF Next, Rest
<1> QED
  BY <1>1, StoredInvariant, PTL DEF Spec, WritesInOrder

-----------------------------------------------------------------------------
(* Listeners filtered on keys. What the drain drops as superseded may      *)
(* concern one that the newer write does not; but not when every write     *)
(* concerns it, nor when the calls, and so their numbers, follow one       *)
(* another.                                                                *)
Concerned(l) == InTurn \/ \A s \in Scope : Matches(l, s)

Ascending(q) == \A i, j \in DOMAIN q : i < j => q[i].seq < q[j].seq

LEMMA AppendAscending ==
    ASSUME NEW S, NEW q \in Seq(S), Ascending(q), NEW n \in S,
           \A m \in {q[i] : i \in DOMAIN q} : m.seq < n.seq
    PROVE  Ascending(Append(q, n))
<1>1. /\ DOMAIN q = 1..Len(q) /\ Len(q) \in Nat
      /\ DOMAIN Append(q, n) = 1..(Len(q) + 1)
      /\ \A i \in 1..Len(q) : Append(q, n)[i] = q[i]
      /\ Append(q, n)[Len(q) + 1] = n
  BY AppendProperties, LenProperties
<1>2. \A i \in 1..(Len(q) + 1) : i \in 1..Len(q) \/ i = Len(q) + 1
  BY <1>1
<1>3. \A i \in 1..Len(q) : q[i].seq < n.seq
  BY <1>1
<1>4. \A i, j \in 1..(Len(q) + 1) : i < j => i \in 1..Len(q)
  BY <1>1
<1> QED
  BY <1>1, <1>2, <1>3, <1>4 DEF Ascending

LEMMA TailAscending ==
    ASSUME NEW S, NEW q \in Seq(S), Ascending(q), q # <<>>
    PROVE  /\ Ascending(Tail(q))
           /\ \A m \in {Tail(q)[i] : i \in DOMAIN Tail(q)} : Head(q).seq < m.seq
<1>1. /\ DOMAIN q = 1..Len(q) /\ Len(q) \in Nat /\ Len(q) > 0
      /\ DOMAIN Tail(q) = 1..(Len(q) - 1)
      /\ \A i \in 1..(Len(q) - 1) : Tail(q)[i] = q[i + 1]
      /\ Head(q) = q[1]
  BY HeadTailProperties, LenProperties
<1>2. \A i \in 1..(Len(q) - 1) : i + 1 \in DOMAIN q /\ 1 < i + 1
  BY <1>1
<1>3. \A i, j \in 1..(Len(q) - 1) : i < j => i + 1 < j + 1
  BY <1>1
<1>4. 1 \in DOMAIN q
  BY <1>1
<1> QED
  BY <1>1, <1>2, <1>3, <1>4 DEF Ascending

(* In such a program writes are announced in their order, so that nothing  *)
(* waiting is older than a delivery.                                       *)
InOrder ==
    InTurn =>
        /\ \A t \in Context : Holding(t) => call[t].seq = write_seq
        /\ Ascending(queue)
        /\ \A n \in Queued : delivered_seq < n.seq
        /\ \A t \in Context : drain[t].at = "check" =>
             /\ delivered_seq < drain[t].item.seq
             /\ \A n \in Queued : drain[t].item.seq < n.seq

LEMMA NextInOrder ==
    ASSUME OnceInv, Nested, InOrder, [Next]_vars
    PROVE  InOrder'
<1> SUFFICES ASSUME InTurn PROVE InOrder'
  BY DEF InOrder
<1> USE DEF OnceInv
<1>0. /\ queue \in Seq(Notification) /\ write_seq \in Nat /\ delivered_seq \in Nat
      /\ Queued = {queue[i] : i \in DOMAIN queue} /\ Queued \subseteq announced
      /\ \A n \in announced : n.seq \in Nat
  BY DEF TypeOK, WritesOK, Notification, Queued, Accounted
<1>1. CASE UNCHANGED vars
  <2>1. UNCHANGED <<write_seq, call, queue, drain, delivered_seq>>
    BY <1>1 DEF vars, store, notifications
  <2>2. UNCHANGED Queued
    BY <2>1 DEF Queued
  <2> QED
    BY <2>1, <2>2 DEF InOrder, Holding
<1>2. ASSUME NEW t \in Context, Progress(t) \/ Start(t)
      PROVE  \A u \in Context : Holding(u)' => call'[u].seq = write_seq'
  <2>1. \A u \in Context \ {t} : call'[u] = call[u] /\ ~Holding(u)
    BY <1>2, Alone, CallMoves DEF Holding
  <2>2. \/ Holding(t)' => call'[t].seq = write_seq'
        \/ /\ write_seq' = write_seq
           /\ Holding(t)' => Holding(t) /\ call'[t].seq = call[t].seq
    BY <1>2, NumberSteps
  <2> QED
    BY <2>1, <2>2 DEF InOrder, Holding
<1>3. ASSUME NEW t \in Context, Progress(t) \/ Start(t), Enqueue(t)
      PROVE  InOrder'
  <2>1. PICK n \in Notification :
          /\ n.seq = call[t].seq
          /\ queue' = Append(queue, n) /\ announced' = announced \union {n}
          /\ Queued' = Queued \union {n}
          /\ UNCHANGED <<drain, delivered_seq>>
          /\ Holding(t)
    BY <1>3, EnqueueStep
  <2>2. \A m \in announced : m.seq < n.seq
    <3> SUFFICES ASSUME NEW m \in announced PROVE m.seq < n.seq
      OBVIOUS
    <3>1. n.seq = write_seq /\ m.seq <= write_seq /\ m.seq # n.seq
      BY <1>0, <2>1 DEF InOrder, Numbered
    <3> QED
      BY <1>0, <3>1
  <2>3. delivered_seq < n.seq
    <3>1. n.seq \in Nat /\ n.seq >= 1
      BY <2>1 DEF Numbered, Notification
    <3> QED
      BY <1>0, <2>2, <3>1 DEF Accounted
  <2>4. Ascending(queue)'
    BY <1>0, <2>1, <2>2, AppendAscending DEF InOrder
  <2>5. \A m \in Queued' : delivered_seq' < m.seq
    BY <2>1, <2>3 DEF InOrder
  <2>6. \A u \in Context : drain'[u].at = "check" =>
          /\ delivered_seq' < drain'[u].item.seq
          /\ \A m \in Queued' : drain'[u].item.seq < m.seq
    BY <2>1, <2>2 DEF InOrder, Accounted
  <2> QED
    BY <1>2, <1>3, <2>4, <2>5, <2>6 DEF InOrder
<1>4. ASSUME NEW t \in Context, Progress(t) \/ Start(t), Pop(t)
      PROVE  InOrder'
  <2>1. /\ UNCHANGED <<announced, delivered_seq>>
        /\ \/ UNCHANGED queue /\ \A n : ~InHand(n)'
           \/ /\ queue # <<>> /\ queue' = Tail(queue)
              /\ Queued = Queued' \union {Head(queue)}
              /\ \A u \in Context :
                   drain'[u].at = "check" => drain'[u].item = Head(queue)
    BY <1>4, PopStep
  <2>2. CASE UNCHANGED queue /\ \A n : ~InHand(n)'
    <3>1. UNCHANGED Queued
      BY <2>2 DEF Queued
    <3>2. \A u \in Context : drain'[u].at # "check"
      BY <2>2 DEF InHand
    <3> QED
      BY <1>2, <1>4, <2>1, <2>2, <3>1, <3>2 DEF InOrder
  <2>3. CASE /\ queue # <<>> /\ queue' = Tail(queue)
             /\ Queued = Queued' \union {Head(queue)}
             /\ \A u \in Context :
                  drain'[u].at = "check" => drain'[u].item = Head(queue)
    <3>1. Ascending(queue)' /\ \A m \in Queued' : Head(queue).seq < m.seq
      BY <1>0, <2>3, TailAscending DEF InOrder, Queued
    <3>2. delivered_seq' < Head(queue).seq /\ \A m \in Queued' : delivered_seq' < m.seq
      BY <2>1, <2>3 DEF InOrder
    <3>3. \A u \in Context : drain'[u].at = "check" =>
            /\ delivered_seq' < drain'[u].item.seq
            /\ \A m \in Queued' : drain'[u].item.seq < m.seq
      BY <2>3, <3>1, <3>2
    <3> QED
      BY <1>2, <1>4, <3>1, <3>2, <3>3 DEF InOrder
  <2> QED
    BY <2>1, <2>2, <2>3
<1>5. ASSUME NEW t \in Context, Progress(t) \/ Start(t), Check(t)
      PROVE  InOrder'
  <2>1. /\ UNCHANGED queue
        /\ \A u \in Context : drain'[u].at # "check"
        /\ delivered_seq' \in {delivered_seq, drain[t].item.seq}
        /\ drain[t].at = "check"
    BY <1>5, CheckStep DEF Check
  <2>2. UNCHANGED Queued
    BY <2>1 DEF Queued
  <2>3. \A m \in Queued' : delivered_seq' < m.seq
    BY <2>1, <2>2 DEF InOrder
  <2> QED
    BY <1>2, <1>5, <2>1, <2>2, <2>3 DEF InOrder
<1>6. ASSUME NEW t \in Context, Progress(t) \/ Start(t),
             ~Enqueue(t), ~Pop(t), ~Check(t)
      PROVE  InOrder'
  <2>1. /\ UNCHANGED <<queue, announced, delivered_seq>>
        /\ \A u \in Context : drain'[u].at = "check" =>
             drain[u].at = "check" /\ drain'[u].item = drain[u].item
    BY <1>6, OtherSteps
  <2>2. UNCHANGED Queued
    BY <2>1 DEF Queued
  <2> QED
    BY <1>2, <1>6, <2>1, <2>2 DEF InOrder
<1> QED
  BY <1>1, <1>3, <1>4, <1>5, <1>6 DEF Next, Rest

LEMMA InitInOrder == Init => InOrder
BY DEF Init, InOrder, Ascending, Holding, NoCall, NoDrain, Queued

(* The drainer is to tell listener l of n: before its snapshot, or with l  *)
(* still to come.                                                          *)
Telling(l, n) ==
    \E t \in Context :
        /\ drain[t].item = n
        /\ \/ drain[t].at = "snapshot"
           \/ drain[t].at = "deliver" /\ l \in drain[t].todo

Settled(l, n) == heard[l] >= n.seq \/ Waiting(n) \/ Telling(l, n)

(* A write younger than a listener, and that concerns it, has been heard,  *)
(* is waiting, or is being told.                                           *)
KeysHeard ==
    \A l \in Listener : Concerned(l) /\ listeners[l] = "on" =>
        \A n \in announced :
            since[l] < n.seq /\ Matches(l, n.scope) => Settled(l, n)

KeysInv == ListenInv /\ OnceInv /\ Nested /\ InOrder /\ KeysHeard

(* A listener in the table after a step was there before it, or is younger *)
(* than every write so far.                                                *)
LEMMA TableSteps ==
    ASSUME TypeOK, NoImmediate, NEW t \in Context, Progress(t) \/ Start(t),
           NEW l \in Listener, listeners'[l] = "on"
    PROVE  \/ listeners[l] = "on" /\ since'[l] = since[l]
           \/ since'[l] = write_seq
<1>1. CASE UNCHANGED <<listeners, since>>
  BY <1>1
<1>2. ASSUME NEW m \in Listener, AddListener(t, m)
      PROVE  \/ listeners[l] = "on" /\ since'[l] = since[l]
             \/ since'[l] = write_seq
  BY <1>2 DEF AddListener, TypeOK, TablesOK
<1>3. ASSUME NEW m \in Listener, RemoveListener(t, m)
      PROVE  listeners[l] = "on" /\ since'[l] = since[l]
  BY <1>3 DEF RemoveListener, TypeOK, TablesOK
<1>4. CASE Commit(t) \/ MutateInPlace(t)
  BY <1>1, <1>4 DEF Commit, MutateInPlace
<1>5. ASSUME NEW h \in Hook, AddHook(t, h) \/ RemoveHook(t, h)
      PROVE  UNCHANGED <<listeners, since>>
  BY <1>5 DEF AddHook, RemoveHook
<1> QED
  BY <1>1, <1>2, <1>3, <1>4, <1>5, ListenersKept DEF Start

(* It is enough that what was settled stays settled, and that what is      *)
(* announced now is.                                                       *)
LEMMA SettledKept ==
    ASSUME KeysInv, NEW t \in Context, Progress(t) \/ Start(t),
           \A l \in Listener, n \in announced' :
               /\ Concerned(l) /\ Matches(l, n.scope) /\ listeners[l] = "on"
               /\ since[l] < n.seq
               /\ n \in announced => Settled(l, n)
               => Settled(l, n)',
           \A n \in announced' : n \in announced \/ Waiting(n)'
    PROVE  KeysHeard'
<1>0. /\ TypeOK /\ NoImmediate /\ write_seq \in Nat
      /\ \A n \in announced : n.seq \in Nat /\ n.seq <= write_seq
  BY DEF KeysInv, ListenInv, SeqBounds, TypeOK, WritesOK, Notification
<1> SUFFICES ASSUME NEW l \in Listener, Concerned(l), listeners'[l] = "on",
                    NEW n \in announced', since'[l] < n.seq, Matches(l, n.scope)
             PROVE  Settled(l, n)'
  BY DEF KeysHeard, Concerned, InTurn, Matches
<1>1. CASE n \notin announced
  BY <1>1 DEF Settled
<1>2. CASE n \in announced
  <2>1. since'[l] # write_seq
    BY <1>0, <1>2
  <2>2. listeners[l] = "on" /\ since'[l] = since[l]
    BY <1>0, <2>1, TableSteps
  <2>3. Settled(l, n)
    BY <1>2, <2>2 DEF KeysInv, KeysHeard
  <2> QED
    BY <2>2, <2>3
<1> QED
  BY <1>1, <1>2

LEMMA NextKeysHeard ==
    ASSUME KeysInv, [Next]_vars
    PROVE  KeysHeard'
<1>0. /\ TypeOK /\ SingleDrainer /\ NoImmediate /\ NobodyAhead
      /\ heard \in [Listener -> Nat] /\ delivered_seq \in Nat
      /\ \A n \in announced : n.seq \in Nat
  BY DEF KeysInv, ListenInv, TypeOK, WritesOK, TablesOK, Notification
<1>1. CASE UNCHANGED vars
  <2>1. UNCHANGED <<listeners, announced, since, heard, queue, drain>>
    BY <1>1 DEF vars, notifications
  <2>2. \A l \in Listener : \A n : Settled(l, n) => Settled(l, n)'
    BY <2>1 DEF Settled, Waiting, Queued, InHand, Telling
  <2> QED
    BY <2>1, <2>2 DEF KeysInv, KeysHeard, Concerned, InTurn, Matches
<1>2. ASSUME NEW t \in Context, Progress(t) \/ Start(t), Enqueue(t)
      PROVE  KeysHeard'
  <2>1. PICK n \in Notification :
          /\ announced' = announced \union {n}
          /\ Queued' = Queued \union {n}
          /\ UNCHANGED drain
    BY <1>0, <1>2, EnqueueStep
  <2>2. UNCHANGED heard
    BY <1>2 DEF Enqueue
  <2>3. \A m \in announced' : m \in announced \/ Waiting(m)'
    BY <2>1 DEF Waiting
  <2>4. \A m : Waiting(m) => Waiting(m)'
    BY <2>1 DEF Waiting, InHand
  <2>5. \A l \in Listener, m \in announced' :
          (m \in announced => Settled(l, m)) => Settled(l, m)'
    BY <2>1, <2>2, <2>3, <2>4 DEF Settled, Telling
  <2> QED
    BY <1>2, <2>3, <2>5, SettledKept
<1>3. ASSUME NEW t \in Context, Progress(t) \/ Start(t), Pop(t)
      PROVE  KeysHeard'
  <2>1. /\ UNCHANGED <<announced, heard>>
        /\ \A n : ~InHand(n)
        /\ \/ UNCHANGED queue
           \/ /\ Queued = Queued' \union {Head(queue)}
              /\ \A n : InHand(n)' <=> n = Head(queue)
        /\ drain[t].at = "pop"
    BY <1>0, <1>3, PopStep DEF Pop
  <2>2. UNCHANGED queue => UNCHANGED Queued
    BY DEF Queued
  <2>3. \A n : Waiting(n) => Waiting(n)'
    BY <2>1, <2>2 DEF Waiting
  <2>4. \A l, n : ~Telling(l, n)
    BY <1>0, <2>1 DEF Telling, SingleDrainer, Draining
  <2>5. \A l \in Listener : \A n : Settled(l, n) => Settled(l, n)'
    BY <2>1, <2>3, <2>4 DEF Settled
  <2> QED
    BY <1>3, <2>1, <2>5, SettledKept
<1>4. ASSUME NEW t \in Context, Progress(t) \/ Start(t), Check(t)
      PROVE  KeysHeard'
  <2>0. PICK i : i = drain[t].item
    OBVIOUS
  <2>1. /\ UNCHANGED <<queue, announced, heard>>
        /\ \A n : InHand(n) <=> n = i
        /\ \/ i.seq <= delivered_seq
           \/ delivered_seq < i.seq /\ delivered_seq' = i.seq
        /\ drain[t].at = "check"
    BY <1>0, <1>4, <2>0, CheckStep DEF Check
  <2>2. UNCHANGED Queued
    BY <2>1 DEF Queued
  <2>3. \A l, n : ~Telling(l, n)
    BY <1>0, <2>1 DEF Telling, SingleDrainer, Draining
  <2>4. i \in announced
    BY <2>0, <2>1 DEF KeysInv, ListenInv, Accounted
  <2>5. \A n : n # i /\ Waiting(n) => Waiting(n)'
    BY <2>1, <2>2 DEF Waiting
  <2>6. ASSUME NEW l \in Listener, Concerned(l), Matches(l, i.scope),
               listeners[l] = "on", since[l] < i.seq
        PROVE  Settled(l, i)'
    <3>1. CASE i.seq <= delivered_seq
      <4>1. \A s \in Scope : Matches(l, s)
        <5>1. ~InTurn
          BY <1>0, <2>0, <2>1, <2>4, <3>1 DEF KeysInv, InOrder
        <5> QED
          BY <2>6, <5>1 DEF Concerned
      <4>2. i.seq >= 1 /\ since[l] \in Nat
        BY <2>4 DEF KeysInv, OnceInv, Numbered, TypeOK, WritesOK, TablesOK
      <4>3. PICK m \in announced : m.seq = delivered_seq
        BY <1>0, <2>4, <3>1, <4>2 DEF KeysInv, ListenInv, Accounted
      <4>4. Matches(l, m.scope)
        <5>1. m.scope \in Scope
          BY <1>0 DEF TypeOK, WritesOK, Notification
        <5> QED
          BY <4>1, <5>1
      <4>5. since[l] < m.seq
        BY <1>0, <2>4, <2>6, <3>1, <4>2, <4>3
      <4>6. Settled(l, m)
        BY <2>6, <4>4, <4>5 DEF KeysInv, KeysHeard
      <4>7. ~Waiting(m)
        BY <4>3 DEF KeysInv, OnceInv, Once
      <4>8. heard[l] >= m.seq
        BY <2>3, <4>6, <4>7 DEF Settled
      <4>9. heard'[l] >= i.seq
        BY <1>0, <2>1, <2>4, <3>1, <4>3, <4>8
      <4> QED
        BY <4>9 DEF Settled
    <3>2. CASE delivered_seq < i.seq /\ delivered_seq' = i.seq
      <4>1. drain'[t].at = "snapshot" /\ drain'[t].item = i
        BY <1>0, <1>4, <2>0, <2>4, <3>2, DeliverySteps
      <4> QED
        BY <4>1 DEF Settled, Telling
    <3> QED
      BY <2>1, <3>1, <3>2
  <2>7. \A l \in Listener, n \in announced : n # i /\ Settled(l, n) => Settled(l, n)'
    BY <2>1, <2>3, <2>5 DEF Settled
  <2> QED
    BY <1>4, <2>1, <2>6, <2>7, SettledKept
<1>5. ASSUME NEW t \in Context, Progress(t) \/ Start(t), Snapshot(t)
      PROVE  KeysHeard'
  <2>1. /\ UNCHANGED <<announced, heard, listeners>>
        /\ drain[t].at = "snapshot"
    BY <1>5 DEF Snapshot, notifications
  <2>2. /\ drain'[t].at = "deliver" /\ drain'[t].item = drain[t].item
        /\ \A l \in Registered : Matches(l, drain[t].item.scope) => l \in drain'[t].todo
        /\ \A u \in Context \ {t} : drain'[u] = drain[u]
    BY <1>0, <1>5, DeliverySteps
  <2>3. \A n : InHand(n) => InHand(n)'
    BY <2>1, <2>2 DEF InHand
  <2>4. \A n : Waiting(n) => Waiting(n)'
    <3>1. UNCHANGED queue
      BY <1>5 DEF Snapshot, notifications
    <3> QED
      BY <2>3, <3>1 DEF Waiting, Queued
  <2>5. \A u \in Context : Delivering(u) => u = t
    BY <1>0, <2>1 DEF SingleDrainer, Draining, Delivering
  <2>6. ASSUME NEW l \in Listener, NEW n \in announced, listeners[l] = "on",
               Matches(l, n.scope), Telling(l, n)
        PROVE  Telling(l, n)'
    <3>1. drain[t].item = n
      BY <2>5, <2>6 DEF Telling, Delivering
    <3>2. l \in drain'[t].todo
      BY <2>2, <2>6, <3>1 DEF Registered
    <3> QED
      BY <2>2, <3>1, <3>2 DEF Telling
  <2>7. \A l \in Listener, n \in announced' :
          /\ Matches(l, n.scope) /\ listeners[l] = "on"
          /\ n \in announced => Settled(l, n)
          => Settled(l, n)'
    BY <2>1, <2>4, <2>6 DEF Settled
  <2> QED
    BY <1>5, <2>1, <2>7, SettledKept
<1>6. ASSUME NEW t \in Context, Progress(t) \/ Start(t), Deliver(t)
      PROVE  KeysHeard'
  <2>1. UNCHANGED <<queue, announced>> /\ drain[t].at = "deliver"
    BY <1>6 DEF Deliver, notifications
  <2>2. PICK l \in drain[t].todo :
          /\ heard' = [heard EXCEPT ![l] = drain[t].item.seq]
          /\ drain'[t].at = "deliver"
          /\ drain'[t].item = drain[t].item
          /\ drain'[t].todo = drain[t].todo \ {l}
    BY <1>0, <1>6, DeliverySteps
  <2>3. \A u \in Context \ {t} : drain'[u] = drain[u]
    BY <1>0, <1>6, DeliverySteps
  <2>4. drain[t].item.seq = delivered_seq
    BY <2>1 DEF KeysInv, ListenInv, ItemIsNewest, Delivering
  <2>5. \A u \in Context : Delivering(u) => u = t
    BY <1>0, <2>1 DEF SingleDrainer, Draining, Delivering
  <2>6. \A n : Waiting(n) => Waiting(n)'
    BY <2>1, <2>2, <2>3 DEF Waiting, Queued, InHand
  <2>7. ASSUME NEW m \in Listener, NEW n \in announced, heard[m] >= n.seq
        PROVE  heard'[m] >= n.seq
    BY <1>0, <2>2, <2>4, <2>7 DEF NobodyAhead
  <2>8. ASSUME NEW m \in Listener, NEW n \in announced, Telling(m, n)
        PROVE  heard'[m] >= n.seq \/ Telling(m, n)'
    <3>1. drain[t].item = n /\ m \in drain[t].todo
      BY <2>1, <2>5, <2>8 DEF Telling, Delivering
    <3>2. CASE m = l
      BY <1>0, <2>2, <3>1, <3>2
    <3>3. CASE m # l
      BY <2>2, <3>1, <3>3 DEF Telling
    <3> QED
      BY <3>2, <3>3
  <2>9. \A m \in Listener, n \in announced : Settled(m, n) => Settled(m, n)'
    BY <2>6, <2>7, <2>8 DEF Settled
  <2> QED
    BY <1>6, <2>1, <2>9, SettledKept
<1>7. ASSUME NEW t \in Context, Progress(t) \/ Start(t), Delivered(t)
      PROVE  KeysHeard'
  <2>1. /\ UNCHANGED <<queue, announced, heard>>
        /\ drain[t].at = "deliver" /\ drain[t].todo = {}
    BY <1>7 DEF Delivered, notifications
  <2>2. \A u \in Context : Delivering(u) => u = t
    BY <1>0, <2>1 DEF SingleDrainer, Draining, Delivering
  <2>3. \A l, n : ~Telling(l, n)
    BY <2>1, <2>2 DEF Telling, Delivering
  <2>4. \A u \in Context \ {t} : drain'[u] = drain[u]
    BY <1>0, <1>7, DeliverySteps
  <2>5. \A n : Waiting(n) => Waiting(n)'
    BY <2>1, <2>4 DEF Waiting, Queued, InHand
  <2>6. \A l \in Listener, n \in announced : Settled(l, n) => Settled(l, n)'
    BY <2>1, <2>3, <2>5 DEF Settled
  <2> QED
    BY <1>7, <2>1, <2>6, SettledKept
<1>8. ASSUME NEW t \in Context, Progress(t) \/ Start(t), ~Enqueue(t), ~Pop(t),
             ~Check(t), ~Snapshot(t), ~Deliver(t), ~Delivered(t)
      PROVE  KeysHeard'
  <2>1. UNCHANGED <<queue, announced>> /\ \A n : InHand(n)' <=> InHand(n)
    BY <1>0, <1>8, OtherSteps
  <2>2. UNCHANGED heard
    BY <1>0, <1>8, ListenersKept
  <2>3. \A u \in Context : /\ Delivering(u)' <=> Delivering(u)
                           /\ Delivering(u) => drain'[u] = drain[u]
    BY <1>0, <1>8, DeliveryStages
  <2>4. \A l, n : Telling(l, n) => Telling(l, n)'
    BY <2>3 DEF Telling, Delivering
  <2>5. \A n : Waiting(n) => Waiting(n)'
    BY <2>1 DEF Waiting, Queued
  <2>6. \A l \in Listener, n \in announced : Settled(l, n) => Settled(l, n)'
    BY <2>2, <2>4, <2>5 DEF Settled
  <2> QED
    BY <1>8, <2>1, <2>6, SettledKept
<1> QED
  BY <1>1, <1>2, <1>3, <1>4, <1>5, <1>6, <1>7, <1>8 DEF Next, Rest

LEMMA KeysInvariant ==
    ASSUME ListenOnly
    PROVE  Spec => []KeysInv
<1>1. Init => KeysInv
  <2> SUFFICES ASSUME Init PROVE KeysInv
    OBVIOUS
  <2>1. KeysHeard
    BY DEF Init, KeysHeard
  <2> QED
    BY <2>1, InitListenInv, InitOnceInv, InitNested, InitInOrder DEF KeysInv
<1>2. KeysInv /\ [Next]_vars => KeysInv'
  BY NextListenInv, NextOnceInv, NextNested, NextInOrder, NextKeysHeard
     DEF KeysInv, OnceInv
<1> QED
  BY <1>1, <1>2, PTL DEF Spec

(* Once every call has returned, a listener filtered on keys has heard of  *)
(* every announced write that concerns it, if every write does or the      *)
(* calls follow one another; otherwise the drain may drop one for it, as   *)
(* it looks at the age of a notification and not at its scope.             *)
THEOREM KeysCaughtUp ==
    ASSUME ListenOnly, \A l \in Listener : Concerned(l)
    PROVE  Spec => []KeyListenersCatchUp
<1>1. KeysInv /\ DeliveredNewest => KeyListenersCatchUp
  <2> SUFFICES ASSUME KeysInv, DeliveredNewest, Quiescent,
                      NEW l \in Listener, listeners[l] = "on",
                      NEW n \in announced, n.seq > since[l], Matches(l, n.scope)
               PROVE  heard[l] >= n.seq
    BY DEF KeyListenersCatchUp, CaughtUp
  <2>1. n.seq \in Nat /\ since[l] \in Nat
    BY DEF KeysInv, ListenInv, TypeOK, WritesOK, TablesOK, Notification
  <2>2. Settled(l, n)
    BY <2>1 DEF KeysInv, KeysHeard
  <2>3. ~Waiting(n) /\ ~Telling(l, n)
    BY DEF DeliveredNewest, Quiescent, Outside, Waiting, Queued, InHand, Telling
  <2> QED
    BY <2>2, <2>3 DEF Settled
<1> QED
  BY <1>1, KeysInvariant, NewestDelivered, PTL
=============================================================================
