----------------------------- MODULE LiveProofs -----------------------------
(***************************************************************************)
(* What Computed promises to programs that keep to what the code relies on *)
(* without saying so, for every graph, scheduler and bound.                *)
(***************************************************************************)
EXTENDS MountProofs

-----------------------------------------------------------------------------
(* The lock of the job queue.  FlushJobs runs a job with the lock held     *)
(* (scheduler.rs:53), so no job may come to schedule or flush another.     *)

DependsOn(c, x) == \E i \in DOMAIN Deps[c] : Deps[c][i] = x

(* What is computed, at whatever distance, from a batched store is in D,   *)
(* and no store of D is batched.                                           *)
Apart(D) ==
    /\ D \subseteq Derived
    /\ D \cap Batched = {}
    /\ \A c \in Derived, x \in Batched \union D : DependsOn(c, x) => c \in D

Locking == {"running", "schedule", "flush_jobs"}

(* What a job calls.                                                       *)
Working == {"job", "look", "recompute", "write_back", "enqueue", "drain",
            "deliver", "user", "flush"}

Inside(f, D) ==
    \/ f.at \in {"get", "load", "compute"}
    \/ f.at \in Working /\ f.node \in Batched \union D

Among(s, D) == \A i \in DOMAIN s : s[i] \in D

Informs(x, L) == \A l \in L : l.to # User => l.to \in Derived /\ DependsOn(l.to, x)

(* The thread that holds the lock runs a job.  A job that a notification   *)
(* has scheduled runs within it and defers what it finds to the end of it; *)
(* one of a flush the program called empties the queue of the deferred.    *)
LockInv(D) ==
    /\ \A t \in job_lock : \E h \in Slots(t) : Slot(t, h).at = "running"
    /\ \A t \in Thread : \A h \in Slots(t) :
         LET f == Slot(t, h)
         IN  /\ f.at \in Locking => h = 1 \/ Slot(t, h - 1).at = "deliver"
             /\ f.at = "schedule" => f.node \in Batched
             /\ Informs(f.node, f.todo)
             /\ f.at = "running" /\ h = 1 => Among(deferred[t], D)
             /\ \A g \in Slots(t) : g < h /\ Slot(t, g).at = "running" =>
                  Inside(f, D) /\ (g > 1 => f.at # "flush")
    /\ \A x \in Node : Informs(x, listeners[x])
    /\ Among(jobs, Batched)

(* A job runs under the top frame of t, within a notification.             *)
Busy(t) == \E g \in Slots(t) : g < Depth(t) /\ Slot(t, g).at = "running"
Deep(t) == \E g \in Slots(t) : g < Depth(t) /\ g > 1 /\ Slot(t, g).at = "running"

(* What a step has to show of the frames it puts on the stack, and of      *)
(* what it defers.                                                         *)
Orderly(t, D) ==
    LET f(h) == Low((stack')[t], h)
    IN  /\ \A h \in Upper(t) :
             /\ Busy(t) => Inside(f(h), D)
             /\ Deep(t) => f(h).at # "flush"
             /\ f(h).at \in Locking => h = 1 \/ f(h - 1).at = "deliver"
             /\ f(h).at = "schedule" => f(h).node \in Batched
             /\ Informs(f(h).node, f(h).todo)
             /\ f(h).at = "running" =>
                  /\ \A g \in Upper(t) : g > h => Inside(f(g), D) /\ f(g).at # "flush"
                  /\ h = 1 => Among((deferred')[t], D)
        /\ Busy(t) /\ Among(deferred[t], D) => Among((deferred')[t], D)

(* It takes the lock with a job, and keeps it as long as the job runs.     *)
Locks(t) ==
    /\ job_lock' \subseteq job_lock \union {t}
    /\ t \in job_lock' =>
         \/ t \in job_lock /\ (stack[t] # <<>> => Top(t).at # "running")
         \/ \E h \in Upper(t) : Low((stack')[t], h).at = "running"

(* What the invariant says of the frame that moves. *)
LEMMA TopOrder ==
    ASSUME Stacks, NEW D, LockInv(D), NEW t \in Thread, stack[t] # <<>>
    PROVE  /\ Depth(t) \in Slots(t) /\ Depth(t) \in Nat \ {0}
           /\ Slot(t, Depth(t)) = Top(t)
           /\ Busy(t) => Inside(Top(t), D)
           /\ Deep(t) => Top(t).at # "flush"
           /\ Top(t).at \in Locking => Depth(t) = 1 \/ Slot(t, Depth(t) - 1).at = "deliver"
           /\ Top(t).at = "schedule" => Top(t).node \in Batched
           /\ Informs(Top(t).node, Top(t).todo)
<1>1. Slot(t, Depth(t)) = Top(t) /\ Depth(t) \in Nat \ {0}
  BY LowTail DEF Stacks, Slot, Depth, Top
<1>2. Depth(t) \in Slots(t)
  BY <1>1 DEF Slots, Depth
<1> QED
  BY <1>1, <1>2 DEF LockInv, Busy, Deep

(* Then the invariant is kept. *)
LEMMA LockKept ==
    ASSUME TypeInv, NEW D, LockInv(D), NEW t \in Thread, Others(t), Lower(t),
           Orderly(t, D), Locks(t),
           \A u \in Thread \ {t} : (deferred')[u] = deferred[u],
           \A x \in Node : Informs(x, (listeners')[x]), Among(jobs', Batched)
    PROVE  LockInv(D)'
<1>1. Stacks /\ Depth(t) \in Nat /\ \A u \in Thread : Len(stack[u]) \in Nat
  BY SlotType DEF TypeInv, Depth
<1>2. ASSUME NEW u \in Thread \ {t}
      PROVE  /\ Slots(u)' = Slots(u)
             /\ \A h \in Slots(u) : Slot(u, h)' = Slot(u, h)
  BY DEF Others, Slots, Slot
<1>3. \A h \in Slots(t)' : h \in Upper(t) \/ (h \in Slots(t) /\ h < Depth(t))
  BY <1>1 DEF Lower, Upper, Slots, Depth
<1>4. \A h \in Slots(t) : h < Depth(t) => h \in Slots(t)' /\ Alike(Slot(t, h)', Slot(t, h))
  BY <1>1 DEF Lower, Slots, Slot, Depth
<1>5. \A h \in Upper(t) : h \in Slots(t)' /\ Slot(t, h)' = Low((stack')[t], h) /\ h >= Depth(t)
  <2>1. \A h \in Upper(t) : h \in 1..Len((stack')[t]) /\ h >= Depth(t)
    BY DEF Upper
  <2> QED
    BY <2>1 DEF Slots, Slot
<1>6. ASSUME NEW u \in job_lock' PROVE \E h \in Slots(u)' : Slot(u, h)'.at = "running"
  <2>1. CASE u # t
    <3>1. u \in job_lock /\ u \in Thread \ {t}
      BY <1>6, <2>1 DEF Locks, TypeInv, Jobs
    <3>2. PICK h \in Slots(u) : Slot(u, h).at = "running"
      BY <3>1 DEF LockInv
    <3> QED
      BY <1>2, <3>1, <3>2
  <2>2. CASE u = t /\ \E h \in Upper(t) : Low((stack')[t], h).at = "running"
    BY <1>5, <2>2
  <2>3. CASE u = t /\ t \in job_lock /\ (stack[t] # <<>> => Top(t).at # "running")
    <3>1. PICK h \in Slots(t) : Slot(t, h).at = "running"
      BY <2>3 DEF LockInv
    <3>2. stack[t] # <<>>
      BY <3>1, EmptySeq DEF Slots
    <3>3. h # Depth(t) /\ h < Depth(t)
      BY <1>1, <2>3, <3>1, <3>2, TopOrder DEF Slots, Depth
    <3> QED
      BY <1>4, <2>3, <3>1, <3>3 DEF Alike
  <2> QED
    BY <1>6, <2>1, <2>2, <2>3 DEF Locks
<1>7. ASSUME NEW u \in Thread, NEW h \in Slots(u)'
      PROVE  LET f == Slot(u, h)'
             IN  /\ f.at \in Locking => h = 1 \/ Slot(u, h - 1)'.at = "deliver"
                 /\ f.at = "schedule" => f.node \in Batched
                 /\ Informs(f.node, f.todo)
                 /\ f.at = "running" /\ h = 1 => Among((deferred')[u], D)
                 /\ \A g \in Slots(u)' : g < h /\ Slot(u, g)'.at = "running" =>
                      Inside(f, D) /\ (g > 1 => f.at # "flush")
  <2>0. h \in Nat \ {0} /\ h - 1 < h /\ (h = 1 \/ h - 1 \in Slots(u)')
    BY <1>7 DEF Slots
  <2>1. CASE u # t
    <3>1. h \in Slots(u) /\ (h = 1 \/ h - 1 \in Slots(u))
      BY <1>2, <2>0, <2>1
    <3> QED
      BY <1>2, <2>1, <3>1 DEF LockInv
  <2>2. CASE u = t /\ h \in Slots(t) /\ h < Depth(t)
    <3>1. Alike(Slot(t, h)', Slot(t, h))
      BY <1>4, <2>2
    <3>2. h = 1 \/ Alike(Slot(t, h - 1)', Slot(t, h - 1))
      <4>1. h = 1 \/ (h - 1 \in Slots(t) /\ h - 1 < Depth(t))
        BY <1>1, <2>0, <2>2 DEF Slots
      <4> QED
        BY <1>4, <4>1
    <3>3. ASSUME NEW g \in Slots(t)', g < h
          PROVE  g \in Slots(t) /\ Alike(Slot(t, g)', Slot(t, g))
      <4>1. g \in Slots(t) /\ g < Depth(t)
        BY <1>1, <2>0, <2>2, <3>3 DEF Slots
      <4> QED
        BY <1>4, <4>1
    <3>4. Slot(t, h).at = "running" /\ h = 1 => Among((deferred')[t], D)
      BY <2>2 DEF LockInv, Orderly, Busy
    <3> QED
      BY <2>2, <3>1, <3>2, <3>3, <3>4 DEF LockInv, Alike, Inside
  <2>3. CASE u = t /\ h \in Upper(t)
    <3>1. /\ Slot(t, h)' = Low((stack')[t], h)
          /\ h = 1 \/ Slot(t, h - 1)' = Low((stack')[t], h - 1)
      BY <1>5, <2>3 DEF Slot
    <3>2. ASSUME NEW g \in Slots(t)', g < h, Slot(t, g)'.at = "running"
          PROVE  Inside(Slot(t, h)', D) /\ (g > 1 => Slot(t, h)'.at # "flush")
      <4>1. CASE g \in Upper(t)
        BY <1>5, <2>3, <3>1, <3>2, <4>1 DEF Orderly
      <4>2. CASE g \in Slots(t) /\ g < Depth(t)
        <5>1. Slot(t, g).at = "running"
          BY <1>4, <3>2, <4>2 DEF Alike
        <5>2. Busy(t) /\ (g > 1 => Deep(t))
          BY <4>2, <5>1 DEF Busy, Deep
        <5> QED
          BY <2>3, <3>1, <5>2 DEF Orderly
      <4> QED
        BY <1>3, <4>1, <4>2
    <3> QED
      BY <2>3, <3>1, <3>2 DEF Orderly
  <2> QED
    BY <1>3, <2>1, <2>2, <2>3
<1> QED
  BY <1>6, <1>7 DEF LockInv

(* A frame on the top that keeps the order. *)
Fit(t, D, f) ==
    /\ f.at \notin Locking
    /\ Busy(t) => Inside(f, D)
    /\ Deep(t) => f.at # "flush"
    /\ Informs(f.node, f.todo)

Fits(t, D) == Lower(t) /\ \A h \in Upper(t) : Fit(t, D, Low((stack')[t], h))

(* The changes of a stack, for frames that fit. *)
LEMMA FitOps ==
    ASSUME Stacks, NEW D, LockInv(D), NEW t \in Thread
    PROVE  /\ \A f : stack[t] # <<>> /\ Goto(t, f) /\ Fit(t, D, f) => Fits(t, D)
           /\ \A f, g : stack[t] # <<>> /\ GotoCall(t, f, g) /\ Fit(t, D, f) /\ Fit(t, D, g)
                => Fits(t, D)
           /\ stack[t] # <<>> /\ Return(t) => Fits(t, D)
           /\ \A v : stack[t] # <<>> /\ ReturnValue(t, v) => Fits(t, D)
           /\ \A f : /\ stack[t] = <<>> \/ Fit(t, D, Top(t))
                    /\ Call(t, f) /\ Fit(t, D, f)
                    => Fits(t, D)
           /\ UNCHANGED stack /\ (stack[t] = <<>> \/ Fit(t, D, Top(t))) => Fits(t, D)
<1>1. ASSUME stack[t] # <<>>, NEW f, Goto(t, f), Fit(t, D, f) PROVE Fits(t, D)
  BY <1>1, GotoUpper DEF Fits
<1>2. ASSUME stack[t] # <<>>, NEW f, NEW g, GotoCall(t, f, g), Fit(t, D, f), Fit(t, D, g)
      PROVE  Fits(t, D)
  BY <1>2, GotoCallUpper DEF Fits
<1>3. ASSUME stack[t] # <<>>, Return(t) PROVE Fits(t, D)
  BY <1>3, ReturnUpper DEF Fits
<1>4. ASSUME stack[t] # <<>>, NEW v, ReturnValue(t, v) PROVE Fits(t, D)
  BY <1>4, ReturnValueUpper DEF Fits
<1>5. stack[t] # <<>> => Slot(t, Depth(t)) = Top(t)
  BY TopOrder
<1>6. stack[t] = <<>> => Depth(t) \notin Slots(t)
  BY EmptySeq DEF Depth, Slots
<1>7. ASSUME NEW f, Call(t, f), Fit(t, D, f), stack[t] = <<>> \/ Fit(t, D, Top(t))
      PROVE  Fits(t, D)
  <2>1. /\ Lower(t)
        /\ \A h \in Upper(t) :
             \/ h = Depth(t) /\ h \in Slots(t) /\ Low((stack')[t], h) = Slot(t, h)
             \/ h = Depth(t) + 1 /\ Low((stack')[t], h) = f
    BY <1>7, CallUpper
  <2> QED
    BY <1>5, <1>6, <1>7, <2>1 DEF Fits
<1>8. ASSUME UNCHANGED stack, stack[t] = <<>> \/ Fit(t, D, Top(t)) PROVE Fits(t, D)
  <2>1. Depth(t) \in Nat /\ \A h \in Upper(t) : h = Depth(t) /\ h \in Slots(t)
    BY <1>8, SlotType DEF Upper, Slots, Depth
  <2>2. Lower(t)
    BY <1>8, <2>1 DEF Lower, Slot, Depth, Alike
  <2>3. \A h \in Upper(t) : Low((stack')[t], h) = Slot(t, Depth(t))
    BY <1>8, <2>1 DEF Slot
  <2> QED
    BY <1>5, <1>6, <1>8, <2>1, <2>2, <2>3 DEF Fits
<1> QED
  BY <1>1, <1>2, <1>3, <1>4, <1>7, <1>8

(* Steps that put such frames on the stack only, and take no lock.         *)
LEMMA FitOrderly ==
    ASSUME NEW D, NEW t \in Thread, Fits(t, D), UNCHANGED job_lock,
           stack[t] # <<>> => Top(t).at # "running",
           Busy(t) /\ Among(deferred[t], D) => Among((deferred')[t], D)
    PROVE  Lower(t) /\ Orderly(t, D) /\ Locks(t)
BY DEF Fits, Fit, Orderly, Locks, Locking

(* A frame that goes on at another stage. *)
LEMMA FitMove ==
    ASSUME TypeInv, NEW D, LockInv(D), NEW t \in Thread, stack[t] # <<>>, NEW f,
           f.node = Top(t).node, f.todo \subseteq Top(t).todo, f.at \notin Locking,
           Top(t).at \in Working => f.at \in Working,
           Top(t).at \in {"get", "load", "compute"} => f.at \in {"get", "load", "compute"},
           f.at = "flush" => Top(t).at = "flush" \/ ~Deep(t)
    PROVE  Fit(t, D, f)
<1>1. /\ Busy(t) => Inside(Top(t), D)
      /\ Deep(t) => Top(t).at # "flush"
      /\ Informs(Top(t).node, Top(t).todo)
  BY TopOrder DEF TypeInv
<1>2. Busy(t) => Inside(f, D)
  BY <1>1 DEF Inside
<1>3. Informs(f.node, f.todo)
  BY <1>1 DEF Informs
<1> QED
  BY <1>1, <1>2, <1>3 DEF Fit

(* A frame that is called. *)
LEMMA FitNew ==
    ASSUME NEW D, NEW t \in Thread, NEW stage \in Stage \ Locking, NEW x,
           Busy(t) => /\ stage # "flush"
                      /\ \/ stage \in {"get", "load", "compute"}
                         \/ stage \in Working /\ x \in Batched \union D
    PROVE  Fit(t, D, NewFrame(stage, x))
<1>1. /\ NewFrame(stage, x).at = stage /\ NewFrame(stage, x).node = x
      /\ NewFrame(stage, x).todo = {}
  BY DEF NewFrame
<1>2. Deep(t) => Busy(t)
  BY DEF Deep, Busy
<1> QED
  BY <1>1, <1>2 DEF Fit, Inside, Informs

(* A thread that is in no call runs no job. *)
LEMMA IdleNotBusy ==
    ASSUME NEW t \in Thread, stack[t] = <<>>
    PROVE  ~Busy(t) /\ ~Deep(t)
BY EmptySeq DEF Busy, Deep, Slots

(* A frame that moves on keeps its store and its snapshot. *)
LEMMA AtFields ==
    ASSUME TypeInv, NEW t \in Thread, stack[t] # <<>>, NEW stage \in Stage
    PROVE  LET f == [Top(t) EXCEPT !.at = stage]
           IN  f \in Frame /\ f.at = stage /\ f.node = Top(t).node /\ f.todo = Top(t).todo
<1>1. Top(t) \in Frame
  BY TopType DEF TypeInv
<1> QED
  BY <1>1 DEF Frame

(* set, write, enqueue and drain *)
LEMMA LockStore ==
    ASSUME TypeInv, NEW D, LockInv(D), NEW t \in Thread, ~Nested,
           Write(t) \/ WriteBack(t) \/ Enqueue(t) \/ Drain(t) \/ \E s \in Source : Set(t, s)
    PROVE  Lower(t) /\ Orderly(t, D) /\ Locks(t)
<1> DEFINE f == Top(t)
<1>1. Stacks
  BY DEF TypeInv
<1>2. stack[t] # <<>> => f \in Frame
  BY <1>1, TopType
<1>3. CASE \E s \in Source : Set(t, s)
  <2>1. PICK s \in Source, n \in Int :
          Call(t, [NewFrame("write", s) EXCEPT !.value = Version(s, n)])
    BY <1>3 DEF Set, TypeInv, Program
  <2> DEFINE g == [NewFrame("write", s) EXCEPT !.value = Version(s, n)]
  <2>2. g.at = "write" /\ g.node = s /\ g.todo = {}
    BY DEF NewFrame
  <2>3. stack[t] = <<>>
    BY <1>3 DEF Set, MayCall
  <2> HIDE DEF g
  <2>4. Fit(t, D, g)
    BY <2>2, <2>3, IdleNotBusy DEF Fit, Informs, Locking
  <2>5. Fits(t, D)
    BY <1>1, <2>1, <2>3, <2>4, FitOps DEF g
  <2> QED
    BY <1>3, <2>3, <2>5, FitOrderly DEF Set, recomputes
<1>4. CASE Write(t)
  <2> DEFINE g(stage) == [f EXCEPT !.at = stage, !.n = write_seq[f.node] + 1]
  <2>1. stack[t] # <<>> /\ f.at \in {"write", "recompute"}
    BY <1>4 DEF Write, Writes, At
  <2>2. Return(t) \/ \E stage \in {"enqueue", "write_back"} : Goto(t, g(stage))
    BY <1>4 DEF Write
  <2>3. ASSUME NEW stage \in {"enqueue", "write_back"} PROVE Fit(t, D, g(stage))
    <3>1. g(stage).at = stage /\ g(stage).node = f.node /\ g(stage).todo = f.todo
      BY <1>2, <2>1 DEF Frame
    <3> HIDE DEF g
    <3> QED
      BY <2>1, <3>1, FitMove DEF Working, Locking
  <2> HIDE DEF g
  <2>4. Fits(t, D)
    BY <1>1, <2>1, <2>2, <2>3, FitOps
  <2> QED
    BY <1>4, <2>1, <2>4, FitOrderly DEF Write, recomputes
<1>5. CASE WriteBack(t)
  <2>1. stack[t] # <<>> /\ f.at = "write_back" /\ Goto(t, [f EXCEPT !.at = "enqueue"])
    BY <1>5 DEF WriteBack, At
  <2> DEFINE g == [f EXCEPT !.at = "enqueue"]
  <2>2. g.at = "enqueue" /\ g.node = f.node /\ g.todo = f.todo
    BY <2>1, AtFields DEF Stage
  <2> HIDE DEF g
  <2>3. Fit(t, D, g)
    BY <2>1, <2>2, FitMove DEF Working, Locking
  <2>4. Fits(t, D)
    BY <1>1, <2>1, <2>3, FitOps DEF g
  <2> QED
    BY <1>5, <2>1, <2>4, FitOrderly DEF WriteBack, recomputes
<1>6. CASE Enqueue(t)
  <2>1. /\ stack[t] # <<>> /\ f.at = "enqueue"
        /\ Return(t) \/ Goto(t, NewFrame("drain", f.node))
    BY <1>6 DEF Enqueue, At
  <2>2. Busy(t) => f.node \in Batched \union D
    BY <1>1, <2>1, TopOrder DEF Inside
  <2>3. Fit(t, D, NewFrame("drain", f.node))
    BY <2>2, FitNew DEF Working, Locking, Stage
  <2>4. Fits(t, D)
    BY <1>1, <2>1, <2>3, FitOps
  <2> QED
    BY <1>6, <2>1, <2>4, FitOrderly DEF Enqueue, recomputes
<1>7. CASE Drain(t)
  <2> DEFINE g == [f EXCEPT !.at = "deliver", !.todo = listeners[f.node]]
  <2>1. stack[t] # <<>> /\ f.at = "drain" /\ (Return(t) \/ UNCHANGED stack \/ Goto(t, g))
    BY <1>7 DEF Drain, At
  <2>2. g.at = "deliver" /\ g.node = f.node /\ g.todo = listeners[f.node] /\ f.node \in Node
    BY <1>2, <2>1 DEF Frame
  <2>3. Fit(t, D, f)
    BY <2>1, FitMove DEF Working, Locking
  <2> HIDE DEF g
  <2>4. Fit(t, D, g)
    <3>1. Informs(g.node, g.todo)
      BY <2>2 DEF LockInv
    <3>2. Busy(t) => Inside(g, D)
      BY <2>1, <2>2, <2>3 DEF Fit, Inside, Working
    <3> QED
      BY <2>2, <3>1, <3>2 DEF Fit, Locking
  <2>5. Fits(t, D)
    BY <1>1, <2>1, <2>3, <2>4, FitOps
  <2> QED
    BY <1>7, <2>1, <2>5, FitOrderly DEF Drain, recomputes
<1> QED
  BY <1>3, <1>4, <1>5, <1>6, <1>7

(* The delivery to listeners: a store told of a change is computed from    *)
(* the one that changed, so a job tells none that is batched.              *)
LEMMA LockDelivers ==
    ASSUME TypeInv, NEW D, Apart(D), LockInv(D), NEW t \in Thread,
           CallUser(t) \/ DependencyChanged(t)
    PROVE  Lower(t) /\ Orderly(t, D) /\ Locks(t)
<1> DEFINE f == Top(t)
<1>1. Stacks /\ stack[t] # <<>> /\ f.at = "deliver" /\ UNCHANGED job_lock
  BY DEF TypeInv, CallUser, DependencyChanged, At, recomputes
<1>2. f \in Frame
  BY <1>1, TopType
<1>3. PICK l \in f.todo :
        \/ Goto(t, [Called(t, l) EXCEPT !.at = "user"]) /\ UNCHANGED deferred
        \/ Goto(t, Called(t, l)) /\ UNCHANGED deferred
        \/ /\ l.to # User /\ Goto(t, Called(t, l))
           /\ deferred' = [deferred EXCEPT ![t] = Append(@, l.to)]
        \/ /\ l.to # User /\ l.to \in Batched /\ UNCHANGED deferred
           /\ GotoCall(t, Called(t, l), NewFrame("schedule", l.to))
  BY DEF CallUser, DependencyChanged, recomputes
<1>4. LET g == Called(t, l)
          h == [g EXCEPT !.at = "user"]
      IN  /\ g.at = "deliver" /\ g.node = f.node /\ g.todo \subseteq f.todo
          /\ h.at = "user" /\ h.node = f.node /\ h.todo \subseteq f.todo
  <2> DEFINE g == [f EXCEPT !.todo = f.todo \ {l}]
             h == [g EXCEPT !.at = "user"]
  <2>1. g \in Frame /\ g.at = "deliver" /\ g.node = f.node /\ g.todo \subseteq f.todo
    BY <1>1, <1>2 DEF Frame
  <2>2. g = Called(t, l)
    BY DEF Called
  <2> HIDE DEF g
  <2>3. h.at = "user" /\ h.node = f.node /\ h.todo = g.todo
    BY <2>1 DEF Frame
  <2> QED
    BY <2>1, <2>2, <2>3
<1> DEFINE g == Called(t, l)
           m == [Called(t, l) EXCEPT !.at = "user"]
<1>5. Fit(t, D, g) /\ Fit(t, D, m)
  <2> HIDE DEF g, m
  <2>1. /\ g.at = "deliver" /\ g.node = f.node /\ g.todo \subseteq f.todo
        /\ m.at = "user" /\ m.node = f.node /\ m.todo \subseteq f.todo
    BY <1>4 DEF g, m
  <2> QED
    BY <1>1, <2>1, FitMove DEF Working, Locking
<1>6. ASSUME l.to # User, Busy(t) PROVE l.to \in D
  <2>1. f.node \in Batched \union D /\ Informs(f.node, f.todo)
    BY <1>1, <1>6, TopOrder DEF Inside
  <2>2. l.to \in Derived /\ DependsOn(l.to, f.node)
    BY <1>6, <2>1 DEF Informs
  <2> QED
    BY <2>1, <2>2 DEF Apart
<1>7. g.at = "deliver"
  BY <1>4
<1> HIDE DEF g, m
<1>8. CASE /\ Goto(t, g) \/ Goto(t, m)
           /\ UNCHANGED deferred
  <2>1. Fits(t, D)
    BY <1>1, <1>5, <1>8, FitOps
  <2> QED
    BY <1>1, <1>8, <2>1, FitOrderly
<1>9. CASE /\ l.to # User /\ Goto(t, g)
           /\ deferred' = [deferred EXCEPT ![t] = Append(@, l.to)]
  <2>1. Fits(t, D)
    BY <1>1, <1>5, <1>9, FitOps
  <2>2. ASSUME Busy(t), Among(deferred[t], D) PROVE Among((deferred')[t], D)
    <3>1. deferred[t] \in Seq(Derived) /\ l.to \in D /\ l.to \in Derived
      BY <1>6, <1>9, <2>2 DEF TypeInv, Jobs, Apart
    <3>2. (deferred')[t] = Append(deferred[t], l.to)
      BY <1>9 DEF TypeInv, Jobs
    <3>3. /\ \A j \in 1..Len(deferred[t]) : Append(deferred[t], l.to)[j] = deferred[t][j]
          /\ Append(deferred[t], l.to)[Len(deferred[t]) + 1] = l.to
          /\ Len(deferred[t]) \in Nat /\ DOMAIN deferred[t] = 1..Len(deferred[t])
          /\ DOMAIN Append(deferred[t], l.to) = 1..(Len(deferred[t]) + 1)
      BY <3>1, AppendProperties, LenProperties
    <3>4. \A j \in 1..(Len(deferred[t]) + 1) :
            j \in 1..Len(deferred[t]) \/ j = Len(deferred[t]) + 1
      BY <3>3
    <3> QED
      BY <2>2, <3>1, <3>2, <3>3, <3>4 DEF Among
  <2> QED
    BY <1>1, <2>1, <2>2, FitOrderly
<1>10. CASE /\ l.to # User /\ l.to \in Batched /\ UNCHANGED deferred
            /\ GotoCall(t, g, NewFrame("schedule", l.to))
  <2> DEFINE e == NewFrame("schedule", l.to)
  <2>1. e.at = "schedule" /\ e.node = l.to /\ e.todo = {}
    BY DEF NewFrame
  <2> HIDE DEF e
  <2>2. /\ Lower(t) /\ Upper(t) = {Depth(t), Depth(t) + 1} /\ Depth(t) \in Nat
        /\ Low((stack')[t], Depth(t)) = g /\ Low((stack')[t], Depth(t) + 1) = e
    BY <1>1, <1>10, GotoCallUpper, SlotType DEF e
  <2>3. ~Busy(t)
    BY <1>6, <1>10 DEF Apart
  <2>4. Depth(t) + 1 - 1 = Depth(t)
    BY <2>2
  <2>5. Informs(e.node, e.todo)
    BY <2>1 DEF Informs
  <2>6. Orderly(t, D)
    <3>1. ASSUME NEW h \in Upper(t), NEW k, k = Low((stack')[t], h)
          PROVE  /\ k.at \in Locking => Low((stack')[t], h - 1).at = "deliver"
                 /\ k.at = "schedule" => k.node \in Batched
                 /\ Informs(k.node, k.todo)
                 /\ k.at # "running"
      <4>1. CASE h = Depth(t)
        BY <1>5, <2>2, <3>1, <4>1 DEF Fit, Locking
      <4>2. CASE h = Depth(t) + 1
        <5>1. k = e /\ h - 1 = Depth(t) /\ Low((stack')[t], h - 1) = g
          BY <2>2, <2>4, <3>1, <4>2
        <5> QED
          BY <1>7, <1>10, <2>1, <2>5, <5>1
      <4> QED
        BY <2>2, <4>1, <4>2
    <3>2. ~Deep(t)
      BY <2>3 DEF Deep, Busy
    <3> QED
      BY <2>3, <3>1, <3>2 DEF Orderly
  <2> QED
    BY <1>1, <2>2, <2>6 DEF Locks
<1> QED
  BY <1>3, <1>8, <1>9, <1>10 DEF g, m

(* A notification that ends, and the flush of the outermost one: a job     *)
(* that runs under it is one the program's flush has called.               *)
LEMMA LockFlushes ==
    ASSUME TypeInv, NEW D, LockInv(D), NEW t \in Thread,
           UserReturns(t) \/ GuardDropped(t) \/ FlushDeferred(t)
    PROVE  Lower(t) /\ Orderly(t, D) /\ Locks(t)
<1> DEFINE f == Top(t)
           g(stage) == [f EXCEPT !.at = stage]
<1>1. /\ Stacks /\ stack[t] # <<>> /\ f.at \in {"user", "deliver", "flush"}
      /\ UNCHANGED job_lock
  BY DEF TypeInv, UserReturns, GuardDropped, FlushDeferred, At, recomputes
<1>2. ASSUME NEW stage \in {"deliver", "drain", "flush"}, stage = "flush" => ~Deep(t)
      PROVE  Fit(t, D, g(stage))
  <2>1. g(stage).at = stage /\ g(stage).node = f.node /\ g(stage).todo = f.todo
    BY <1>1, AtFields DEF Stage
  <2> HIDE DEF g
  <2> QED
    BY <1>1, <1>2, <2>1, FitMove DEF Working, Locking
<1>3. Deep(t) => ~Outermost(t)
  <2>1. SUFFICES ASSUME NEW r \in Slots(t), r < Depth(t), r > 1, Slot(t, r).at = "running"
                 PROVE  ~Outermost(t)
    BY DEF Deep
  <2>2. Slot(t, r - 1).at = "deliver"
    BY <2>1 DEF LockInv, Locking
  <2>3. Depth(t) = Len(stack[t]) /\ Len(stack[t]) \in Nat /\ r \in Nat
    BY <1>1, SlotType DEF Depth, Slots
  <2>4. Len(stack[t]) + 1 - (r - 1) \in 2..Len(stack[t])
    BY <2>1, <2>3
  <2>5. stack[t][Len(stack[t]) + 1 - (r - 1)].at = "deliver"
    BY <2>2 DEF Slot, Low
  <2> QED
    BY <2>4, <2>5 DEF Outermost, Notifies
<1>4. CASE UserReturns(t)
  <2>1. Fits(t, D)
    BY <1>1, <1>2, <1>4, FitOps DEF UserReturns
  <2> QED
    BY <1>1, <1>4, <2>1, FitOrderly DEF UserReturns, recomputes
<1>5. CASE GuardDropped(t)
  <2>1. Goto(t, g("drain")) \/ (~Deep(t) /\ Goto(t, g("flush")))
    BY <1>3, <1>5 DEF GuardDropped
  <2>2. Fit(t, D, g("drain")) /\ (~Deep(t) => Fit(t, D, g("flush")))
    BY <1>2
  <2> HIDE DEF g
  <2>3. Fits(t, D)
    BY <1>1, <2>1, <2>2, FitOps
  <2> QED
    BY <1>1, <1>5, <2>3, FitOrderly DEF GuardDropped, recomputes
<1>6. CASE FlushDeferred(t)
  <2>1. f.at = "flush" /\ ~Deep(t)
    BY <1>1, <1>6, TopOrder DEF FlushDeferred, At
  <2>2. CASE deferred[t] = <<>>
    <3>1. Fits(t, D)
      BY <1>1, <1>2, <1>6, <2>2, FitOps DEF FlushDeferred
    <3> QED
      BY <1>1, <1>6, <2>2, <3>1, FitOrderly DEF FlushDeferred
  <2>3. CASE deferred[t] # <<>>
    <3>1. /\ deferred[t] \in Seq(Derived) /\ (deferred')[t] = Tail(deferred[t])
          /\ Call(t, NewFrame("job", Head(deferred[t])))
      BY <1>6, <2>3 DEF FlushDeferred, TypeInv, Jobs
    <3>2. /\ Head(deferred[t]) = deferred[t][1] /\ 1 \in DOMAIN deferred[t]
          /\ \A j \in DOMAIN Tail(deferred[t]) :
               j + 1 \in DOMAIN deferred[t] /\ Tail(deferred[t])[j] = deferred[t][j + 1]
      BY <2>3, <3>1, HeadTailProperties, LenProperties, EmptySeq
    <3>3. Busy(t) => Among(deferred[t], D)
      <4>1. SUFFICES ASSUME NEW r \in Slots(t), r < Depth(t), Slot(t, r).at = "running"
                     PROVE  Among(deferred[t], D)
        BY DEF Busy
      <4>2. r = 1
        BY <2>1, <4>1 DEF Deep, Slots
      <4> QED
        BY <4>1, <4>2 DEF LockInv
    <3>4. Busy(t) => Head(deferred[t]) \in D
      BY <3>2, <3>3 DEF Among
    <3>5. Fit(t, D, NewFrame("job", Head(deferred[t])))
      BY <3>4, FitNew DEF Working, Locking, Stage
    <3>6. Fit(t, D, f)
      BY <1>1, <2>1, FitMove DEF Working, Locking
    <3> HIDE DEF f
    <3>7. Fits(t, D)
      BY <1>1, <3>1, <3>5, <3>6, FitOps DEF f
    <3>8. Among(deferred[t], D) => Among((deferred')[t], D)
      BY <3>1, <3>2 DEF Among
    <3> QED
      BY <1>1, <2>1, <3>7, <3>8, FitOrderly DEF f
  <2> QED
    BY <2>2, <2>3
<1> QED
  BY <1>4, <1>5, <1>6

(* A thread that has deferred a recompute is in a notification. *)
LEMMA OneFrame ==
    ASSUME TypeInv, Flushing, NEW t \in Thread, Depth(t) = 1, Top(t) \notin Flushers
    PROVE  deferred[t] = <<>>
<1>1. DOMAIN stack[t] = {1} /\ stack[t][1] = Top(t)
  <2>1. stack[t] \in Seq(GoodFrame) /\ Len(stack[t]) = 1
    BY DEF TypeInv, Stacks, Depth
  <2> DEFINE s == stack[t]
  <2> HIDE DEF s
  <2>2. s \in Seq(GoodFrame) /\ Len(s) = 1
    BY <2>1 DEF s
  <2>3. s # <<>> /\ DOMAIN s = {1} /\ s[1] = Head(s)
    BY <2>2
  <2> QED
    BY <2>3 DEF s, Top
<1> QED
  BY <1>1 DEF Flushing, Has

(* The lock is taken only where no job runs underneath.                    *)
LEMMA LockSchedules ==
    ASSUME TypeInv, Flushing, NEW D, LockInv(D), NEW t \in Thread, ~Nested,
           Schedule(t) \/ FlushJobs(t) \/ JobDone(t) \/ Flush(t)
    PROVE  Lower(t) /\ Orderly(t, D) /\ Locks(t)
<1> DEFINE f == Top(t)
<1>1. Stacks /\ UNCHANGED deferred
  BY DEF TypeInv, Schedule, FlushJobs, JobDone, Flush, recomputes
<1>2. CASE Flush(t)
  <2>1. PICK x \in Node : Call(t, NewFrame("flush_jobs", x))
    BY <1>2, GraphAssumption DEF Flush, Node
  <2> DEFINE g == NewFrame("flush_jobs", x)
  <2>2. g.at = "flush_jobs" /\ g.todo = {}
    BY DEF NewFrame
  <2> HIDE DEF g
  <2>3. stack[t] = <<>> /\ ~Busy(t) /\ ~Deep(t)
    BY <1>2, IdleNotBusy DEF Flush, MayCall
  <2>4. Depth(t) = 0 /\ Slots(t) = {}
    BY <2>3, EmptySeq DEF Depth, Slots
  <2>5. Lower(t) /\ \A h \in Upper(t) : h = 1 /\ Low((stack')[t], h) = g
    BY <1>1, <2>1, <2>4, CallUpper DEF g
  <2>6. Orderly(t, D)
    BY <2>2, <2>3, <2>5 DEF Orderly, Informs
  <2> QED
    BY <1>2, <2>3, <2>5, <2>6 DEF Locks, Flush, recomputes
<1> DEFINE g(stage) == [f EXCEPT !.at = stage]
<1>3. ASSUME stack[t] # <<>>, NEW stage \in {"flush_jobs", "running"}
      PROVE  g(stage).at = stage /\ g(stage).node = f.node /\ g(stage).todo = f.todo
  BY <1>3, AtFields DEF Stage
<1> HIDE DEF g
<1>4. CASE Schedule(t) \/ FlushJobs(t) \/ JobDone(t)
  <2>1. /\ stack[t] # <<>> /\ f.at \in Locking
        /\ \/ Return(t) /\ (job_lock' = job_lock /\ f.at # "running")
           \/ /\ Goto(t, g("flush_jobs"))
              /\ job_lock' = {} \/ (job_lock' = job_lock /\ f.at # "running")
           \/ /\ FlushJobs(t) /\ jobs # <<>> /\ job_lock' = {t} /\ f.at = "flush_jobs"
              /\ GotoCall(t, g("running"), NewFrame("job", Head(jobs)))
    BY <1>4 DEF Schedule, FlushJobs, JobDone, At, Locking, g
  <2>2. /\ ~Busy(t) /\ ~Deep(t) /\ Depth(t) \in Nat \ {0}
        /\ Depth(t) = 1 \/ Slot(t, Depth(t) - 1).at = "deliver"
        /\ Informs(f.node, f.todo)
    BY <1>1, <2>1, TopOrder DEF Inside, Working, Locking, Deep, Busy
  <2>3. Lower(t) => (Depth(t) = 1 \/ Low((stack')[t], Depth(t) - 1).at = "deliver")
    <3>1. Depth(t) = 1 \/ Depth(t) - 1 \in 1..(Depth(t) - 1)
      BY <2>2
    <3> QED
      BY <2>2, <3>1 DEF Lower, Alike
  <2>4. CASE Return(t) /\ (job_lock' = job_lock /\ f.at # "running")
    <3>1. Lower(t) /\ Upper(t) = {}
      BY <1>1, <2>1, <2>4, ReturnUpper
    <3> QED
      BY <2>2, <2>4, <3>1 DEF Orderly, Locks
  <2>5. CASE /\ Goto(t, g("flush_jobs"))
             /\ job_lock' = {} \/ (job_lock' = job_lock /\ f.at # "running")
    <3>1. Lower(t) /\ Upper(t) = {Depth(t)} /\ Low((stack')[t], Depth(t)) = g("flush_jobs")
      BY <1>1, <2>1, <2>5, GotoUpper
    <3>2. Orderly(t, D)
      BY <1>3, <2>1, <2>2, <2>3, <3>1 DEF Orderly
    <3> QED
      BY <2>5, <3>1, <3>2 DEF Locks
  <2>6. CASE /\ FlushJobs(t) /\ jobs # <<>> /\ job_lock' = {t} /\ f.at = "flush_jobs"
             /\ GotoCall(t, g("running"), NewFrame("job", Head(jobs)))
    <3> DEFINE e == NewFrame("job", Head(jobs))
    <3>1. e.at = "job" /\ e.node = Head(jobs) /\ e.todo = {}
      BY DEF NewFrame
    <3> HIDE DEF e
    <3>2. /\ Lower(t) /\ Upper(t) = {Depth(t), Depth(t) + 1}
          /\ Low((stack')[t], Depth(t)) = g("running") /\ Low((stack')[t], Depth(t) + 1) = e
      BY <1>1, <2>1, <2>6, GotoCallUpper DEF e
    <3>3. Head(jobs) \in Batched
      <4>1. jobs \in Seq(Derived) /\ Head(jobs) = jobs[1] /\ 1 \in DOMAIN jobs
        BY <2>6, HeadTailProperties, LenProperties, EmptySeq DEF TypeInv, Jobs
      <4> QED
        BY <4>1 DEF LockInv, Among
    <3>4. Inside(e, D) /\ Informs(e.node, e.todo)
      BY <3>1, <3>3 DEF Inside, Working, Informs
    <3>5. Depth(t) = 1 => Among((deferred')[t], D)
      <4>1. Top(t) \notin Flushers
        BY <2>6 DEF Flushers
      <4>2. Depth(t) = 1 => (deferred')[t] = <<>>
        BY <1>1, <4>1, OneFrame
      <4> QED
        BY <4>2 DEF Among
    <3>6. ASSUME NEW h \in Upper(t), NEW k, k = Low((stack')[t], h)
          PROVE  /\ k.at \in Locking => h = 1 \/ Low((stack')[t], h - 1).at = "deliver"
                 /\ k.at # "schedule"
                 /\ Informs(k.node, k.todo)
                 /\ k.at = "running" =>
                      /\ h = Depth(t)
                      /\ h = 1 => Among((deferred')[t], D)
      <4>1. CASE h = Depth(t)
        BY <1>3, <2>1, <2>2, <2>3, <3>2, <3>5, <3>6, <4>1
      <4>2. CASE h = Depth(t) + 1
        BY <3>1, <3>2, <3>4, <3>6, <4>2 DEF Locking
      <4> QED
        BY <3>2, <4>1, <4>2
    <3>7. ASSUME NEW h \in Upper(t), h > Depth(t)
          PROVE  Inside(Low((stack')[t], h), D) /\ Low((stack')[t], h).at # "flush"
      BY <2>2, <3>1, <3>2, <3>4, <3>7
    <3>8. Orderly(t, D)
      BY <2>2, <3>6, <3>7 DEF Orderly
    <3>9. Depth(t) \in Upper(t) /\ Low((stack')[t], Depth(t)).at = "running"
      BY <1>3, <2>1, <3>2
    <3> QED
      BY <2>6, <3>2, <3>8, <3>9 DEF Locks
  <2> QED
    BY <2>1, <2>4, <2>5, <2>6
<1> QED
  BY <1>2, <1>4

(* The job itself, and get *)
LEMMA LockRecomputes ==
    ASSUME TypeInv, NEW D, LockInv(D), NEW t \in Thread, ~Nested,
           \/ Job(t) \/ Look(t) \/ ReadDependency(t) \/ Get(t) \/ Load(t)
           \/ ReplaceSilently(t) \/ \E c \in Derived : GetCall(t, c)
    PROVE  Lower(t) /\ Orderly(t, D) /\ Locks(t)
<1> DEFINE f == Top(t)
           g(stage) == [f EXCEPT !.at = stage]
<1>1. Stacks /\ UNCHANGED <<deferred, job_lock>>
  BY DEF TypeInv, Job, Look, ReadDependency, Get, Load, ReplaceSilently, GetCall, recomputes
<1>2. CASE \E c \in Derived : GetCall(t, c)
  <2>1. PICK c \in Derived : Call(t, NewFrame("get", c)) /\ stack[t] = <<>>
    BY <1>2 DEF GetCall, MayCall
  <2>2. Fit(t, D, NewFrame("get", c))
    BY FitNew DEF Stage, Locking
  <2>3. Fits(t, D)
    BY <1>1, <2>1, <2>2, FitOps
  <2> QED
    BY <1>1, <2>1, <2>3, FitOrderly
<1>3. CASE Job(t) \/ Look(t) \/ Get(t)
  <2>1. /\ stack[t] # <<>> /\ f.at \in {"job", "look", "get"}
        /\ \/ Return(t)
           \/ f.at # "get" /\ \E stage \in {"look", "recompute"} : Goto(t, g(stage))
           \/ f.at = "get" /\ \E stage \in {"load", "compute"} : Goto(t, g(stage))
    BY <1>3 DEF Job, Look, Get, At
  <2>2. ASSUME NEW stage \in {"look", "recompute", "load", "compute"},
               f.at = "get" <=> stage \in {"load", "compute"}
        PROVE  Fit(t, D, g(stage))
    <3>1. g(stage).at = stage /\ g(stage).node = f.node /\ g(stage).todo = f.todo
      BY <2>1, AtFields DEF Stage
    <3> HIDE DEF g
    <3> QED
      BY <2>1, <2>2, <3>1, FitMove DEF Working, Locking
  <2> HIDE DEF g
  <2>3. Fits(t, D)
    BY <1>1, <2>1, <2>2, FitOps
  <2> QED
    BY <1>1, <2>1, <2>3, FitOrderly
<1>4. CASE ReadDependency(t)
  <2> DEFINE e == [f EXCEPT !.n = f.n + 1]
             d == Deps[e.node][e.n]
             k == [e EXCEPT !.value = Merge(e.value, val[d])]
  <2>1. stack[t] # <<>> /\ f.at \in {"recompute", "compute"}
    BY <1>4 DEF ReadDependency, Reads
  <2>2. f \in Frame
    BY <1>1, <2>1, TopType
  <2>3. /\ e.at = f.at /\ e.node = f.node /\ e.todo = f.todo
        /\ k.at = f.at /\ k.node = f.node /\ k.todo = f.todo
    BY <2>2 DEF Frame
  <2>4. Goto(t, k) \/ GotoCall(t, e, NewFrame("get", d))
    BY <1>4 DEF ReadDependency
  <2> HIDE DEF e, k, d
  <2>5. Fit(t, D, e) /\ Fit(t, D, k)
    BY <2>1, <2>3, FitMove DEF Working, Locking
  <2>6. Fit(t, D, NewFrame("get", d))
    BY FitNew DEF Stage, Locking
  <2>7. Fits(t, D)
    BY <1>1, <2>1, <2>4, <2>5, <2>6, FitOps
  <2> QED
    BY <1>1, <2>1, <2>7, FitOrderly
<1>5. CASE Load(t) \/ ReplaceSilently(t)
  <2>1. /\ stack[t] # <<>> /\ f.at \in {"load", "compute"}
        /\ \E v : ReturnValue(t, v)
    BY <1>5 DEF Load, ReplaceSilently, At
  <2>2. Fits(t, D)
    BY <1>1, <2>1, FitOps
  <2> QED
    BY <1>1, <2>1, <2>2, FitOrderly
<1> QED
  BY <1>2, <1>3, <1>4, <1>5

(* Mounts and unmounts: no job calls them. *)
LEMMA LockMounts ==
    ASSUME TypeInv, NEW D, LockInv(D), NEW t \in Thread,
           \/ Watching(t) \/ Mount(t) \/ ListenTo(t) \/ KeepSubscriptions(t)
           \/ Unmount(t) \/ DropSubscription(t) \/ Unsubscribed(t)
    PROVE  Lower(t) /\ Orderly(t, D) /\ Locks(t)
<1> DEFINE f == Top(t)
           c == f.node
           Mounting == {"watch", "mount", "listen", "unmount", "unsubscribe", "discard"}
<1>1. /\ Stacks /\ stack[t] # <<>> /\ UNCHANGED <<deferred, job_lock>>
      /\ f.at \in Mounting
  BY DEF TypeInv, Watching, Mount, ListenTo, KeepSubscriptions, Unmount,
     DropSubscription, Unsubscribed, recomputes, At
<1>2. f \in Frame
  BY <1>1, TopType
<1>3. ~Busy(t) /\ Informs(f.node, f.todo)
  <2>1. ~Inside(f, D)
    BY <1>1 DEF Inside, Working
  <2> QED
    BY <1>1, <2>1, TopOrder
<1>4. ASSUME NEW g, g.at \notin Locking, g.todo = {} \/ (g.node = f.node /\ g.todo = f.todo)
      PROVE  Fit(t, D, g)
  BY <1>3, <1>4 DEF Fit, Informs, Busy, Deep
<1>5. ASSUME NEW stage, stage \notin Locking, NEW x PROVE Fit(t, D, NewFrame(stage, x))
  <2>1. NewFrame(stage, x).at = stage /\ NewFrame(stage, x).todo = {}
    BY DEF NewFrame
  <2> QED
    BY <1>4, <1>5, <2>1
<1>6. ASSUME NEW ids, NEW stage \in {"listen", "unsubscribe"}
      PROVE  /\ Fit(t, D, [f EXCEPT !.ids = ids])
             /\ Fit(t, D, [f EXCEPT !.at = stage])
             /\ Fit(t, D, [f EXCEPT !.at = stage, !.ids = ids])
  <2> DEFINE a == [f EXCEPT !.ids = ids]
             b == [f EXCEPT !.at = stage]
             e == [f EXCEPT !.at = stage, !.ids = ids]
  <2>1. /\ a.at = f.at /\ a.node = f.node /\ a.todo = f.todo
        /\ b.at = stage /\ b.node = f.node /\ b.todo = f.todo
        /\ e.at = stage /\ e.node = f.node /\ e.todo = f.todo
    BY <1>2 DEF Frame
  <2> HIDE DEF a, b, e
  <2>2. Fit(t, D, a) /\ Fit(t, D, b) /\ Fit(t, D, e)
    BY <1>1, <1>4, <2>1 DEF Locking
  <2> QED
    BY <2>2 DEF a, b, e
<1>7. ASSUME NEW ids PROVE Fit(t, D, [NewFrame("discard", c) EXCEPT !.ids = ids])
  <2> DEFINE g == [NewFrame("discard", c) EXCEPT !.ids = ids]
  <2>1. g.at = "discard" /\ g.todo = {}
    BY DEF NewFrame
  <2> HIDE DEF g
  <2>2. Fit(t, D, g)
    BY <1>4, <2>1 DEF Locking
  <2> QED
    BY <2>2 DEF g
<1>8. CASE Watching(t) \/ Mount(t) \/ Unmount(t) \/ Unsubscribed(t)
  <2>1. \/ Return(t)
        \/ Goto(t, [f EXCEPT !.at = "listen"])
        \/ Goto(t, [f EXCEPT !.at = "unsubscribe", !.ids = dep_subs[c]])
    BY <1>8 DEF Watching, Mount, Unmount, Unsubscribed
  <2>2. Fits(t, D)
    BY <1>1, <1>6, <2>1, FitOps
  <2> QED
    BY <1>1, <2>2, FitOrderly
<1>9. CASE KeepSubscriptions(t)
  <2>1. LET e == NewFrame("recompute", c)
            g == [NewFrame("discard", c) EXCEPT !.ids = dep_subs[c]]
        IN  Goto(t, e) \/ GotoCall(t, e, g)
    BY <1>9 DEF KeepSubscriptions
  <2>2. Fit(t, D, NewFrame("recompute", c))
    BY <1>5 DEF Locking
  <2>3. Fits(t, D)
    BY <1>1, <1>7, <2>1, <2>2, FitOps
  <2> QED
    BY <1>1, <2>3, FitOrderly
<1>10. CASE ListenTo(t) \/ DropSubscription(t)
  <2>1. \E ids : LET e == [f EXCEPT !.ids = ids]
                 IN  \/ Goto(t, e)
                     \/ \E x : \/ GotoCall(t, e, NewFrame("mount", x))
                               \/ GotoCall(t, e, NewFrame("unmount", x))
    <3>1. CASE ListenTo(t)
      BY <3>1, ListenToStack
    <3>2. CASE DropSubscription(t)
      BY <1>1, <3>2, DropSubscriptionStack
    <3> QED
      BY <1>10, <3>1, <3>2
  <2>2. \A x : Fit(t, D, NewFrame("mount", x)) /\ Fit(t, D, NewFrame("unmount", x))
    BY <1>5 DEF Locking
  <2>3. Fits(t, D)
    BY <1>1, <1>6, <2>1, <2>2, FitOps
  <2> QED
    BY <1>1, <2>3, FitOrderly
<1> QED
  BY <1>8, <1>9, <1>10

(* The program attaches and detaches: no job runs on its stack then. *)
LEMMA LockWatches ==
    ASSUME TypeInv, NEW D, LockInv(D), NEW t \in Thread, ~Nested,
           NEW x \in Watched, Watch(t, x) \/ Unwatch(t, x)
    PROVE  Lower(t) /\ Orderly(t, D) /\ Locks(t)
<1>1. /\ Stacks /\ stack[t] = <<>> /\ UNCHANGED <<deferred, job_lock>>
      /\ ~Busy(t) /\ ~Deep(t) /\ Slots(t) = {}
  BY EmptySeq, IdleNotBusy DEF TypeInv, Watch, Unwatch, MayAttach, MayCall, recomputes, Slots
<1>2. ASSUME NEW g, g.at \notin Locking, g.todo = {} PROVE Fit(t, D, g)
  BY <1>1, <1>2 DEF Fit, Informs
<1>3. CASE Watch(t, x)
  <2> DEFINE f == [NewFrame("watch", x) EXCEPT !.n = next_id[x]]
             g == NewFrame("mount", x)
  <2>1. /\ Lower(t)
        /\ \A h \in Upper(t) : Low((stack')[t], h) \in {f, g}
    BY <1>1, <1>3, WatchUpper
  <2>2. f.at = "watch" /\ f.todo = {} /\ g.at = "mount" /\ g.todo = {}
    BY DEF NewFrame
  <2> HIDE DEF f, g
  <2>3. Fit(t, D, f) /\ Fit(t, D, g)
    BY <1>2, <2>2 DEF Locking
  <2>4. Fits(t, D)
    BY <2>1, <2>3 DEF Fits
  <2> QED
    BY <1>1, <2>4, FitOrderly
<1>4. CASE Unwatch(t, x)
  <2> DEFINE g == NewFrame("unmount", x)
  <2>1. UNCHANGED stack \/ Call(t, g)
    BY <1>1, <1>4, UnwatchStack
  <2>2. g.at = "unmount" /\ g.todo = {}
    BY DEF NewFrame
  <2> HIDE DEF g
  <2>3. Fit(t, D, g)
    BY <1>2, <2>2 DEF Locking
  <2>4. Fits(t, D)
    BY <1>1, <2>1, <2>3, FitOps
  <2> QED
    BY <1>1, <2>4, FitOrderly
<1> QED
  BY <1>3, <1>4

(* A listener is told of what its store is computed from, and only batched *)
(* stores come to the queue.                                               *)
LEMMA LockTables ==
    ASSUME TypeInv, NEW D, LockInv(D), NEW t \in Thread, Progress(t) \/ Start(t)
    PROVE  /\ \A x \in Node : Informs(x, (listeners')[x])
           /\ Among(jobs', Batched)
<1>1. listeners \in [Node -> SUBSET Listener] /\ jobs \in Seq(Derived) /\ Stacks
  BY DEF TypeInv, Tables, Jobs
<1>2. ASSUME NEW x, NEW owner, NEW rest, NEW f, AddListener(t, x, owner, rest, f),
             owner # User => owner \in Derived /\ DependsOn(owner, x), NEW y \in Node
      PROVE  Informs(y, (listeners')[y])
  BY <1>1, <1>2 DEF AddListener, LockInv, Informs
<1>3. ASSUME NEW x, NEW id, NEW rest, RemoveListener(t, x, id, rest), NEW y \in Node
      PROVE  Informs(y, (listeners')[y])
  BY <1>1, <1>3 DEF RemoveListener, LockInv, Informs
<1>4. ASSUME ListenTo(t)
      PROVE  LET c == Top(t).node
                 d == Deps[c][Len(Top(t).ids) + 1]
             IN  c \in Derived /\ DependsOn(c, d)
  <2>1. stack[t] # <<>> /\ Top(t).at = "listen" /\ Len(Top(t).ids) < Len(Deps[Top(t).node])
    BY <1>4 DEF ListenTo, At
  <2>2. Top(t) \in GoodFrame /\ Top(t) \in Frame
    BY <1>1, <2>1, TopType
  <2>3. Top(t).node \in Derived /\ Len(Top(t).ids) \in Nat
    BY <2>1, <2>2, LenProperties DEF GoodFrame, DerivedStage, Stage, Frame
  <2>4. DOMAIN Deps[Top(t).node] = 1..Len(Deps[Top(t).node]) /\ Len(Deps[Top(t).node]) \in Nat
    BY <2>3, Dependencies, LenProperties
  <2>5. Len(Top(t).ids) + 1 \in DOMAIN Deps[Top(t).node]
    BY <2>1, <2>3, <2>4
  <2> QED
    BY <2>3, <2>5 DEF DependsOn
<1>5. \A x \in Node : Informs(x, (listeners')[x])
  <2>1. CASE UNCHANGED listeners
    BY <2>1 DEF LockInv
  <2>2. ASSUME NEW x \in Watched, Watch(t, x), NEW y \in Node PROVE Informs(y, (listeners')[y])
    BY <1>2, <2>2 DEF Watch
  <2>3. ASSUME NEW x \in Watched, Unwatch(t, x), NEW y \in Node PROVE Informs(y, (listeners')[y])
    BY <1>3, <2>3 DEF Unwatch
  <2>4. ASSUME ListenTo(t), NEW y \in Node PROVE Informs(y, (listeners')[y])
    BY <1>2, <1>4, <2>4 DEF ListenTo
  <2>5. ASSUME DropSubscription(t), NEW y \in Node PROVE Informs(y, (listeners')[y])
    BY <1>3, <2>5 DEF DropSubscription
  <2> QED
    BY <2>1, <2>2, <2>3, <2>4, <2>5, WhoListens
<1>6. CASE jobs' = Append(jobs, Top(t).node) /\ Schedule(t)
  <2>1. Top(t).node \in Batched /\ Top(t).node \in Derived
    BY <1>1, <1>6, TopOrder, GraphAssumption DEF Schedule, At
  <2>2. /\ \A j \in 1..Len(jobs) : Append(jobs, Top(t).node)[j] = jobs[j]
        /\ Append(jobs, Top(t).node)[Len(jobs) + 1] = Top(t).node
        /\ Len(jobs) \in Nat /\ DOMAIN jobs = 1..Len(jobs)
        /\ DOMAIN Append(jobs, Top(t).node) = 1..(Len(jobs) + 1)
    BY <1>1, <2>1, AppendProperties, LenProperties
  <2>3. \A j \in 1..(Len(jobs) + 1) : j \in 1..Len(jobs) \/ j = Len(jobs) + 1
    BY <2>2
  <2> QED
    BY <1>5, <1>6, <2>1, <2>2, <2>3 DEF Among, LockInv
<1>7. CASE jobs' = Tail(jobs) /\ jobs # <<>>
  <2>1. \A j \in DOMAIN Tail(jobs) : j + 1 \in DOMAIN jobs /\ Tail(jobs)[j] = jobs[j + 1]
    BY <1>1, <1>7, HeadTailProperties, LenProperties
  <2> QED
    BY <1>5, <1>7, <2>1 DEF Among, LockInv
<1>8. CASE UNCHANGED jobs
  BY <1>5, <1>8 DEF LockInv
<1>9. \/ jobs' = Append(jobs, Top(t).node) /\ Schedule(t)
      \/ jobs' = Tail(jobs) /\ jobs # <<>>
      \/ UNCHANGED jobs
  BY WhoSchedules DEF DependencyChanged, FlushDeferred, Schedule, FlushJobs, JobDone,
     Job, Unsubscribed, recomputes
<1> QED
  BY <1>6, <1>7, <1>8, <1>9

(* Every step keeps the invariant. *)
LEMMA LockStep ==
    ASSUME NEW D, Apart(D), ~Nested
    PROVE  TypeInv /\ Flushing /\ LockInv(D) /\ [Next]_vars => LockInv(D)'
<1> SUFFICES ASSUME TypeInv, Flushing, LockInv(D), [Next]_vars PROVE LockInv(D)'
  OBVIOUS
<1>1. ASSUME NEW t \in Thread, Progress(t) \/ Start(t) PROVE LockInv(D)'
  <2>1. Others(t)
    BY <1>1, OthersKeep DEF Others, TypeInv
  <2>2. \A u \in Thread \ {t} : (deferred')[u] = deferred[u]
    BY <1>1, WhoSchedules DEF DependencyChanged, FlushDeferred, Schedule,
       FlushJobs, JobDone, Job, Unsubscribed, recomputes, TypeInv, Jobs
  <2>3. Lower(t) /\ Orderly(t, D) /\ Locks(t)
    BY <1>1, LockStore, LockDelivers, LockFlushes, LockSchedules, LockRecomputes,
       LockMounts, LockWatches DEF Progress, Start
  <2> QED
    BY <1>1, <2>1, <2>2, <2>3, LockKept, LockTables
<1>2. CASE UNCHANGED vars
  BY <1>2 DEF LockInv, Slots, Slot, vars, tables, recomputes
<1> QED
  BY <1>1, <1>2 DEF Next, Rest

(* It holds when nothing has been called. *)
LEMMA LockInit ==
    ASSUME NEW D
    PROVE  Init => LockInv(D)
<1> SUFFICES ASSUME Init PROVE LockInv(D)
  OBVIOUS
<1>1. \A t \in Thread : Slots(t) = {}
  BY EmptySeq DEF Init, Slots
<1> QED
  BY <1>1, EmptySeq DEF Init, LockInv, Informs, Among

(* No thread waits for the job queue while it holds its lock, if listeners *)
(* make no calls of their own and no batched store is computed, directly   *)
(* or through others, from a batched store.  Without either condition the  *)
(* code deadlocks: on a chain of two batched stores, for one.              *)
THEOREM NeverSelfDeadlocked ==
    ASSUME NEW D, Apart(D), ~Nested
    PROVE  Spec => []NoSelfDeadlock
<1>1. TypeInv /\ LockInv(D) => NoSelfDeadlock
  <2> SUFFICES ASSUME TypeInv, LockInv(D), NEW t \in job_lock,
                      At(t, "schedule") \/ At(t, "flush_jobs")
               PROVE  FALSE
    BY DEF NoSelfDeadlock
  <2>1. t \in Thread /\ stack[t] # <<>> /\ Top(t).at \in {"schedule", "flush_jobs"}
    BY DEF At, TypeInv, Jobs
  <2>2. PICK h \in Slots(t) : Slot(t, h).at = "running"
    BY DEF LockInv
  <2>3. h < Depth(t)
    BY <2>1, <2>2, TopOrder DEF Slots, Depth, TypeInv
  <2>4. Inside(Top(t), D)
    BY <2>1, <2>2, <2>3, TopOrder DEF Busy, TypeInv
  <2> QED
    BY <2>1, <2>4 DEF Inside, Working
<1>2. Spec => []Flushing
  BY FlushingInit, FlushingStep, AlwaysTypeInv, PTL DEF Spec
<1>3. Spec => []LockInv(D)
  BY <1>2, LockInit, LockStep, AlwaysTypeInv, PTL DEF Spec
<1> QED
  BY <1>1, <1>3, AlwaysTypeInv, PTL

-----------------------------------------------------------------------------
(* Listeners attached and detached while no other thread is in a call      *)

(* One thread, or a program that keeps the others out meanwhile.           *)
AttachesAlone == Exclusive \/ \A t, u \in Thread : t = u

Attaches(f) == f.at \in {"watch", "mount", "listen", "unmount", "unsubscribe"}
Alone(t) == \A u \in Thread \ {t} : stack[u] = <<>>

(* A thread that attaches or detaches is the only one in a call, *)
OneAttacher == \A t \in Thread : \A h \in Slots(t) : Attaches(Slot(t, h)) => Alone(t)

(* its mounts all come from one call of listen, *)
FromWatch ==
    \A t \in Thread : \A h \in Slots(t) :
        Mounts(Slot(t, h)) => \E g \in Slots(t) : g < h /\ Slot(t, g).at = "watch"

(* an unmount starts at once, before anybody listens again, *)
UnmountsLast ==
    \A t \in Thread : \A h \in Slots(t) :
        Slot(t, h).at = "unmount" => h = Depth(t) /\ ~Mounted(Slot(t, h).node)

(* and a mounted store is subscribed, or about to be, and no other is.     *)
Stages(c, S) == \E t \in Thread : \E h \in Slots(t) : Slot(t, h).at \in S /\ Slot(t, h).node = c

Subscribed ==
    \A c \in Derived :
        /\ Mounted(c) /\ dep_subs[c] = <<>> => Stages(c, {"mount", "listen"})
        /\ ~Mounted(c) /\ dep_subs[c] # <<>> => Stages(c, {"unmount"})

AloneInv == OneAttacher /\ FromWatch /\ UnmountsLast /\ Subscribed

(* While one thread attaches or detaches no other takes a step. *)
LEMMA Elsewhere ==
    ASSUME AttachesAlone, TypeInv, AloneInv, NEW t \in Thread, Progress(t) \/ Start(t),
           NEW u \in Thread \ {t}, NEW h \in Slots(u)
    PROVE  ~Attaches(Slot(u, h))
<1> SUFFICES ASSUME Attaches(Slot(u, h)) PROVE FALSE
  OBVIOUS
<1>1. stack[t] = <<>>
  BY DEF AloneInv, OneAttacher, Alone
<1>2. ~Progress(t)
  BY <1>1 DEF Progress, Write, Writes, WriteBack, Enqueue, Drain, CallUser, UserReturns,
     DependencyChanged, GuardDropped, FlushDeferred, Schedule, FlushJobs, JobDone,
     Job, Look, ReadDependency, Reads, Get, Load, ReplaceSilently, Watching, Mount,
     ListenTo, KeepSubscriptions, Unmount, DropSubscription, Unsubscribed, At
<1>3. MayCall(t)
  BY <1>2 DEF Start, Set, Watch, Unwatch, MayAttach, GetCall, Flush
<1>4. ~Attaching(u)
  BY <1>3 DEF MayCall, AttachesAlone
<1>5. PICK g \in Slots(u) : Slot(u, g).at \in {"watch", "unmount", "unsubscribe"}
  BY DEF Attaches, AloneInv, FromWatch, Mounts
<1>6. Len(stack[u]) \in Nat /\ DOMAIN stack[u] = 1..Len(stack[u])
  BY LenProperties DEF TypeInv, Stacks
<1>7. Len(stack[u]) + 1 - g \in DOMAIN stack[u]
  BY <1>5, <1>6 DEF Slots
<1> QED
  BY <1>4, <1>5, <1>7 DEF Attaching, Slot, Low

(* What a step has to show of the frames it puts on the stack. *)
Covered(t) == \E g \in Slots(t) : g < Depth(t) /\ Slot(t, g).at = "watch"

Attached(t) ==
    LET f(h) == Low((stack')[t], h)
    IN  \A h \in Upper(t) :
          /\ Attaches(f(h)) => Alone(t)
          /\ Mounts(f(h)) => Covered(t) \/ \E g \in Upper(t) : g < h /\ f(g).at = "watch"
          /\ f(h).at = "unmount" => h = Len((stack')[t]) /\ (listeners')[f(h).node] = {}

(* Then those parts of the invariant are kept. *)
LEMMA AttachedKept ==
    ASSUME AttachesAlone, TypeInv, AloneInv, NEW t \in Thread, Progress(t) \/ Start(t),
           Others(t), Lower(t), Attached(t)
    PROVE  OneAttacher' /\ FromWatch' /\ UnmountsLast'
<1>1. Depth(t) \in Nat /\ \A u \in Thread : Len(stack[u]) \in Nat
  BY SlotType DEF TypeInv, Depth
<1>2. \A h \in Upper(t) : h \in Slots(t)' /\ Slot(t, h)' = Low((stack')[t], h) /\ h >= Depth(t)
  <2>1. \A h \in Upper(t) : h \in 1..Len((stack')[t]) /\ h >= Depth(t)
    BY DEF Upper
  <2> QED
    BY <2>1 DEF Slots, Slot
<1>3. \A h \in Slots(t) : h < Depth(t) => h \in Slots(t)' /\ Alike(Slot(t, h)', Slot(t, h))
  BY <1>1 DEF Lower, Slots, Slot, Depth
<1>4. ASSUME NEW u \in Thread, NEW h \in Slots(u)', Attaches(Slot(u, h)')
      PROVE  /\ u = t
             /\ \/ h \in Slots(t) /\ h < Depth(t) /\ Alike(Slot(t, h)', Slot(t, h))
                                  /\ Attaches(Slot(t, h))
                \/ h \in Upper(t)
  <2>1. CASE h \in Slots(u) /\ Alike(Slot(u, h)', Slot(u, h)) /\ (u = t => h < Depth(t))
    <3>1. Attaches(Slot(u, h))
      BY <1>4, <2>1 DEF Alike, Attaches
    <3> QED
      BY <2>1, <3>1, Elsewhere
  <2>2. CASE u = t /\ h \in Upper(t)
    BY <2>2
  <2> QED
    BY <2>1, <2>2, OldOrUpper
<1>5. OneAttacher'
  <2>1. ASSUME NEW u \in Thread, NEW h \in Slots(u)', Attaches(Slot(u, h)')
        PROVE  Alone(u)'
    <3>1. u = t /\ Alone(t)
      BY <1>2, <1>4, <2>1 DEF Attached, AloneInv, OneAttacher
    <3> QED
      BY <3>1 DEF Alone, Others
  <2> QED
    BY <2>1 DEF OneAttacher
<1>6. FromWatch'
  <2>1. ASSUME NEW u \in Thread, NEW h \in Slots(u)', Mounts(Slot(u, h)')
        PROVE  \E g \in Slots(u)' : g < h /\ Slot(u, g)'.at = "watch"
    <3>0. Attaches(Slot(u, h)') /\ h \in Int
      BY <2>1 DEF Attaches, Mounts, Slots
    <3>1. CASE h \in Slots(t) /\ h < Depth(t) /\ Alike(Slot(t, h)', Slot(t, h)) /\ u = t
      <4>1. PICK g \in Slots(t) : g < h /\ Slot(t, g).at = "watch"
        BY <2>1, <3>1 DEF AloneInv, FromWatch, Alike, Mounts
      <4>2. g < Depth(t)
        BY <1>1, <3>1, <4>1 DEF Slots
      <4> QED
        BY <1>3, <3>1, <4>1, <4>2 DEF Alike
    <3>2. CASE u = t /\ h \in Upper(t) /\ Covered(t)
      <4>1. PICK g \in Slots(t) : g < Depth(t) /\ Slot(t, g).at = "watch"
        BY <3>2 DEF Covered
      <4>2. g < h
        BY <1>1, <1>2, <3>0, <3>2, <4>1 DEF Slots
      <4> QED
        BY <1>3, <3>2, <4>1, <4>2 DEF Alike
    <3>3. CASE u = t /\ h \in Upper(t) /\ ~Covered(t)
      BY <1>2, <2>1, <3>3 DEF Attached
    <3> QED
      BY <1>4, <3>0, <3>1, <3>2, <3>3
  <2> QED
    BY <2>1 DEF FromWatch
<1>7. UnmountsLast'
  <2>1. ASSUME NEW u \in Thread, NEW h \in Slots(u)', Slot(u, h)'.at = "unmount"
        PROVE  h = Depth(u)' /\ (listeners')[Slot(u, h)'.node] = {}
    <3>1. u = t /\ \/ h \in Upper(t)
                   \/ h \in Slots(t) /\ h < Depth(t) /\ Slot(t, h).at = "unmount"
      BY <1>4, <2>1 DEF Attaches, Alike
    <3>2. ~(h \in Slots(t) /\ h < Depth(t) /\ Slot(t, h).at = "unmount")
      BY <1>1 DEF AloneInv, UnmountsLast, Slots
    <3> QED
      BY <1>2, <2>1, <3>1, <3>2 DEF Attached, Depth, Mounted
  <2> QED
    BY <2>1 DEF UnmountsLast, Mounted
<1> QED
  BY <1>5, <1>6, <1>7

(* A call stays where it is unless it is the one that takes the step. *)
LEMMA StagesKept ==
    ASSUME TypeInv, NEW t \in Thread, Others(t), Lower(t), NEW c, NEW S, Stages(c, S),
           stack[t] # <<>> => ~(Top(t).at \in S /\ Top(t).node = c)
    PROVE  Stages(c, S)'
<1>0. PICK u \in Thread : \E h \in Slots(u) : Slot(u, h).at \in S /\ Slot(u, h).node = c
  BY DEF Stages
<1>1. PICK h \in Slots(u) : Slot(u, h).at \in S /\ Slot(u, h).node = c
  BY <1>0
<1>2. Depth(t) \in Nat /\ Len(stack[u]) \in Nat
  BY SlotType DEF TypeInv, Depth
<1>3. CASE u # t
  BY <1>1, <1>3 DEF Stages, Others, Slots, Slot
<1>4. CASE u = t
  <2>1. stack[t] # <<>>
    BY <1>1, <1>4, EmptySeq DEF Slots
  <2>2. h # Depth(t)
    BY <1>1, <1>4, <2>1, LowTail DEF TypeInv, Stacks, Slot, Depth, Top
  <2>3. h < Depth(t) /\ h \in 1..(Depth(t) - 1) /\ h \in Slots(t)'
    BY <1>1, <1>2, <1>4, <2>2 DEF Slots, Depth, Lower
  <2>4. Alike(Slot(t, h)', Slot(t, h))
    BY <2>3 DEF Lower, Slot
  <2> QED
    BY <1>1, <1>4, <2>3, <2>4 DEF Stages, Alike
<1> QED
  BY <1>3, <1>4

(* One the step puts on the stack. *)
LEMMA StagesNew ==
    ASSUME NEW t \in Thread, NEW h \in Upper(t), NEW c, NEW S,
           Low((stack')[t], h).at \in S, Low((stack')[t], h).node = c
    PROVE  Stages(c, S)'
<1>1. h \in Slots(t)' /\ Slot(t, h)' = Low((stack')[t], h)
  BY DEF Upper, Slots, Slot
<1> QED
  BY <1>1 DEF Stages

(* The frame on top, by the invariant. *)
LEMMA TopAlone ==
    ASSUME TypeInv, AloneInv, NEW t \in Thread, stack[t] # <<>>
    PROVE  /\ Depth(t) \in Slots(t) /\ Depth(t) \in Nat \ {0}
           /\ Slot(t, Depth(t)) = Top(t)
           /\ Attaches(Top(t)) => Alone(t)
           /\ Mounts(Top(t)) => Covered(t)
           /\ Top(t).at = "unmount" => ~Mounted(Top(t).node)
<1>1. Slot(t, Depth(t)) = Top(t) /\ Depth(t) \in Nat \ {0}
  BY LowTail DEF TypeInv, Stacks, Slot, Depth, Top
<1>2. Depth(t) \in Slots(t)
  BY <1>1 DEF Slots, Depth
<1> QED
  BY <1>1, <1>2 DEF AloneInv, OneAttacher, FromWatch, UnmountsLast, Covered

(* Steps of the calls that neither attach nor detach *)
LEMMA QuietAlone ==
    ASSUME TypeInv, AloneInv, NEW t \in Thread, Others(t), Quiet(t), UNCHANGED tables,
           stack[t] # <<>> => Plain(Top(t))
    PROVE  Attached(t) /\ Subscribed'
<1>1. ASSUME NEW h \in Upper(t) PROVE Plain(Low((stack')[t], h))
  <2>1. CASE h = Depth(t) /\ h \in Slots(t) /\ Alike(Low((stack')[t], h), Slot(t, h))
    <3>1. stack[t] # <<>>
      BY <2>1, EmptySeq DEF Slots
    <3> QED
      BY <2>1, <3>1, TopAlone DEF Plain, Alike
  <2> QED
    BY <2>1 DEF Quiet
<1>2. Attached(t)
  BY <1>1 DEF Attached, Plain, Attaches, Mounts
<1>3. \A c, S : Stages(c, S) /\ S \subseteq {"mount", "listen", "unmount"} => Stages(c, S)'
  BY StagesKept DEF Plain, Quiet
<1> QED
  BY <1>2, <1>3 DEF Subscribed, AloneInv, Mounted, tables

(* Returns from listen and from an unmount, and the start of a mount *)
LEMMA MountAlone ==
    ASSUME TypeInv, MountInv, AloneInv, NEW t \in Thread, Others(t),
           Watching(t) \/ Unsubscribed(t) \/ Mount(t)
    PROVE  Lower(t) /\ Attached(t) /\ Subscribed'
<1>0. PICK c : c = Top(t).node
  OBVIOUS
<1>1. stack[t] # <<>> /\ Stacks /\ UNCHANGED tables
  BY DEF Watching, Unsubscribed, Mount, At, TypeInv
<1>2. CASE Return(t) /\ (Top(t).at = "mount" => dep_subs[c] # <<>>)
  <2>1. Lower(t) /\ Upper(t) = {}
    BY <1>1, <1>2, ReturnUpper
  <2>2. Attached(t)
    BY <2>1 DEF Attached
  <2>3. Top(t).at \in {"watch", "unsubscribe", "discard", "mount"}
    BY DEF Watching, Unsubscribed, Mount, At
  <2>4. Top(t).at = "mount" => Mounted(c)
    BY <1>0, <1>1, TopAlone, SupportedMounted DEF Mounts, MountInv
  <2>5. \A x, S : Stages(x, S) /\ S \subseteq {"mount", "listen", "unmount"} =>
                    Stages(x, S)' \/ (Top(t).at = "mount" /\ x = c)
    BY <1>0, <2>1, <2>3, StagesKept
  <2> QED
    BY <1>1, <1>2, <2>1, <2>2, <2>4, <2>5 DEF Subscribed, AloneInv, Mounted, tables
<1>3. CASE Mount(t) /\ dep_subs[c] = <<>>
  <2> DEFINE f == [Top(t) EXCEPT !.at = "listen"]
  <2>1. Goto(t, f) /\ Top(t).at = "mount" /\ Top(t) \in Frame
    BY <1>0, <1>1, <1>3, TopType DEF Mount, At
  <2>2. f.at = "listen" /\ f.node = c
    BY <1>0, <2>1 DEF Frame
  <2> HIDE DEF f
  <2>3. Lower(t) /\ Upper(t) = {Depth(t)} /\ Low((stack')[t], Depth(t)) = f
    BY <1>1, <2>1, GotoUpper
  <2>4. Attached(t)
    BY <1>1, <2>1, <2>2, <2>3, TopAlone DEF Attached, Attaches, Mounts
  <2>5. Stages(c, {"mount", "listen"})'
    BY <2>2, <2>3, StagesNew
  <2>6. \A x, S : Stages(x, S) /\ S \subseteq {"mount", "listen", "unmount"} =>
                    Stages(x, S)' \/ x = c
    BY <1>0, <2>3, StagesKept
  <2>7. Mounted(c)
    BY <1>0, <1>1, <2>1, TopAlone, SupportedMounted DEF Mounts, MountInv
  <2> QED
    BY <1>1, <2>3, <2>4, <2>5, <2>6, <2>7 DEF Subscribed, AloneInv, Mounted, tables
<1> QED
  BY <1>0, <1>2, <1>3 DEF Watching, Unsubscribed, Mount, At

(* The subscriptions handed to a store, and taken from it *)
LEMMA HandAlone ==
    ASSUME TypeInv, MountInv, AloneInv, NEW t \in Thread, Others(t),
           KeepSubscriptions(t) \/ Unmount(t)
    PROVE  Lower(t) /\ Attached(t) /\ Subscribed'
<1> DEFINE c == Top(t).node
<1>1. stack[t] # <<>> /\ Stacks /\ UNCHANGED listeners /\ Top(t).at \in {"listen", "unmount"}
  BY DEF KeepSubscriptions, Unmount, At, TypeInv
<1>2. Top(t) \in GoodFrame /\ Top(t) \in Frame
  BY <1>1, TopType
<1>3. c \in Derived
  BY <1>1, <1>2 DEF GoodFrame, DerivedStage, Stage
<1>4. \A x, S : Stages(x, S) /\ Lower(t) => Stages(x, S)' \/ x = c
  BY StagesKept
<1>5. dep_subs \in [Derived -> Seq(Nat)]
  BY DEF TypeInv, Subscriptions
<1>6. CASE KeepSubscriptions(t)
  <2>1. /\ dep_subs[c] = <<>> /\ Top(t).at = "listen"
        /\ Mounted(c)
    BY <1>1, <1>6, TopAlone, SupportedMounted
       DEF KeepSubscriptions, At, MountInv, Unsubscribes, Mounts
  <2>2. Goto(t, NewFrame("recompute", c))
    BY <1>6, <2>1 DEF KeepSubscriptions
  <2>3. /\ Lower(t) /\ Upper(t) = {Depth(t)}
        /\ Low((stack')[t], Depth(t)) = NewFrame("recompute", c)
    BY <1>1, <2>2, GotoUpper
  <2>4. Attached(t)
    BY <2>3 DEF Attached, Attaches, Mounts, NewFrame
  <2>5. dep_subs' = [dep_subs EXCEPT ![c] = Top(t).ids] /\ Top(t).ids # <<>>
    <3>1. Deps[c] # <<>> /\ Len(Top(t).ids) = Len(Deps[c]) /\ Deps[c] \in Seq(Node)
      BY <1>3, <1>6, GraphAssumption, Dependencies DEF KeepSubscriptions
    <3> QED
      BY <1>6, <3>1, EmptySeq DEF KeepSubscriptions
  <2>6. \A x \in Derived : (dep_subs')[x] = IF x = c THEN Top(t).ids ELSE dep_subs[x]
    BY <1>5, <2>5
  <2> QED
    BY <1>1, <1>4, <2>1, <2>3, <2>4, <2>5, <2>6 DEF Subscribed, AloneInv, Mounted
<1>7. CASE Unmount(t)
  <2> DEFINE f == [Top(t) EXCEPT !.at = "unsubscribe", !.ids = dep_subs[c]]
  <2>1. Goto(t, f) /\ Top(t).at = "unmount" /\ ~Mounted(c)
    BY <1>1, <1>7, TopAlone DEF Unmount, At
  <2>2. f.at = "unsubscribe"
    BY <1>2 DEF Frame
  <2> HIDE DEF f
  <2>3. Lower(t) /\ Upper(t) = {Depth(t)} /\ Low((stack')[t], Depth(t)) = f
    BY <1>1, <2>1, GotoUpper
  <2>4. Attached(t)
    BY <1>1, <2>1, <2>2, <2>3, TopAlone DEF Attached, Attaches, Mounts
  <2>5. \A x \in Derived : (dep_subs')[x] = IF x = c THEN <<>> ELSE dep_subs[x]
    BY <1>5, <1>7 DEF Unmount
  <2> QED
    BY <1>1, <1>4, <2>1, <2>3, <2>4, <2>5 DEF Subscribed, AloneInv, Mounted
<1> QED
  BY <1>6, <1>7

(* A listener more: a store that had none is about to be mounted. *)
LEMMA AddAlone ==
    ASSUME TypeInv, AloneInv, NEW t \in Thread, Others(t), Lower(t), NEW x, NEW m,
           listeners' = [listeners EXCEPT ![x] = @ \union {m}], UNCHANGED dep_subs,
           x \in Derived /\ ~Mounted(x) => Stages(x, {"mount", "listen"})',
           stack[t] # <<>> => Top(t).at # "unmount",
           \A c : stack[t] # <<>> /\ Mounts(Top(t)) /\ Top(t).node = c
                    => Stages(c, {"mount", "listen"})'
    PROVE  Subscribed'
<1>1. listeners \in [Node -> SUBSET Listener] /\ Derived \subseteq Node
  BY DEF TypeInv, Tables, Node
<1>2. ASSUME NEW c \in Derived, Stages(c, {"mount", "listen"})
      PROVE  Stages(c, {"mount", "listen"})'
  <2>1. CASE stack[t] # <<>> /\ Mounts(Top(t)) /\ Top(t).node = c
    BY <2>1
  <2>2. CASE ~(stack[t] # <<>> /\ Mounts(Top(t)) /\ Top(t).node = c)
    BY <1>2, <2>2, StagesKept DEF Mounts
  <2> QED
    BY <2>1, <2>2
<1>3. ASSUME NEW c \in Derived, Stages(c, {"unmount"}) PROVE Stages(c, {"unmount"})'
  BY <1>3, StagesKept
<1>4. \A c \in Derived : (listeners')[c] = IF c = x THEN listeners[c] \union {m} ELSE listeners[c]
  BY <1>1
<1> QED
  BY <1>2, <1>3, <1>4 DEF Subscribed, AloneInv, Mounted

(* One less: a store that has none left is about to be unmounted. *)
LEMMA RemoveAlone ==
    ASSUME TypeInv, AloneInv, NEW t \in Thread, Others(t), Lower(t), NEW x, NEW id,
           listeners' = [listeners EXCEPT ![x] = {l \in @ : l.id # id}], UNCHANGED dep_subs,
           x \in Derived /\ Mounted(x) /\ (listeners')[x] = {} => Stages(x, {"unmount"})',
           stack[t] # <<>> => ~Mounts(Top(t)) /\ Top(t).at # "unmount"
    PROVE  Subscribed'
<1>1. listeners \in [Node -> SUBSET Listener] /\ Derived \subseteq Node
  BY DEF TypeInv, Tables, Node
<1>2. ASSUME NEW c \in Derived, Stages(c, {"mount", "listen"})
      PROVE  Stages(c, {"mount", "listen"})'
  BY <1>2, StagesKept DEF Mounts
<1>3. ASSUME NEW c \in Derived, Stages(c, {"unmount"}) PROVE Stages(c, {"unmount"})'
  BY <1>3, StagesKept
<1>4. \A c \in Derived :
        (listeners')[c] = IF c = x THEN {l \in listeners[c] : l.id # id} ELSE listeners[c]
  BY <1>1
<1> QED
  BY <1>2, <1>3, <1>4 DEF Subscribed, AloneInv, Mounted

(* The next dependency gets its listener. *)
LEMMA ListenToAlone ==
    ASSUME TypeInv, AloneInv, NEW t \in Thread, Others(t), ListenTo(t)
    PROVE  Lower(t) /\ Attached(t) /\ Subscribed'
<1>1. stack[t] # <<>> /\ Stacks /\ UNCHANGED dep_subs /\ Top(t).at = "listen"
  BY DEF ListenTo, At, TypeInv
<1>2. PICK c, d : c = Top(t).node /\ d = Deps[c][Len(Top(t).ids) + 1]
  OBVIOUS
<1>3. PICK f : f = [Top(t) EXCEPT !.ids = Append(Top(t).ids, next_id[d])]
  OBVIOUS
<1>4. PICK g : g = NewFrame("mount", d)
  OBVIOUS
<1>5. IF d \in Derived /\ ~Mounted(d) THEN GotoCall(t, f, g) ELSE Goto(t, f)
  BY <1>2, <1>3, <1>4, ListenToStack
<1>6. f.at = "listen" /\ f.node = c /\ g.at = "mount" /\ g.node = d
  <2>1. Top(t) \in Frame
    BY <1>1, TopType
  <2> QED
    BY <1>1, <1>2, <1>3, <1>4, <2>1 DEF Frame, NewFrame
<1>7. /\ Lower(t) /\ Depth(t) \in Upper(t) /\ Low((stack')[t], Depth(t)) = f
      /\ \A h \in Upper(t) : Low((stack')[t], h) \in {f, g}
      /\ d \in Derived /\ ~Mounted(d) =>
           Depth(t) + 1 \in Upper(t) /\ Low((stack')[t], Depth(t) + 1) = g
  <2>1. CASE GotoCall(t, f, g)
    BY <1>1, <2>1, GotoCallUpper
  <2>2. CASE Goto(t, f) /\ ~(d \in Derived /\ ~Mounted(d))
    BY <1>1, <2>2, GotoUpper
  <2> QED
    BY <1>5, <2>1, <2>2
<1>8. Attached(t)
  BY <1>1, <1>6, <1>7, TopAlone DEF Attached, Attaches, Mounts
<1>9. Stages(c, {"mount", "listen"})'
  BY <1>6, <1>7, StagesNew
<1>10. d \in Derived /\ ~Mounted(d) => Stages(d, {"mount", "listen"})'
  BY <1>6, <1>7, StagesNew
<1>11. PICK m : listeners' = [listeners EXCEPT ![d] = @ \union {m}]
  BY <1>2 DEF ListenTo, AddListener
<1>12. Subscribed'
  BY <1>1, <1>2, <1>7, <1>9, <1>10, <1>11, AddAlone
<1> QED
  BY <1>7, <1>8, <1>12

(* A dependency loses its listener. *)
LEMMA DropAlone ==
    ASSUME TypeInv, MountInv, AloneInv, NEW t \in Thread, Others(t), DropSubscription(t)
    PROVE  Lower(t) /\ Attached(t) /\ Subscribed'
<1>1. stack[t] # <<>> /\ Stacks /\ UNCHANGED dep_subs /\ Top(t).at = "unsubscribe"
  <2>1. stack[t] # <<>> /\ UNCHANGED dep_subs /\ Top(t).at \in {"unsubscribe", "discard"}
    BY DEF DropSubscription
  <2> QED
    BY <2>1, TopAlone DEF TypeInv, MountInv, Unsubscribes
<1>2. PICK c, d : /\ c = Top(t).node
                  /\ d = Deps[c][Len(Deps[c]) - Len(Top(t).ids) + 1]
  OBVIOUS
<1>3. PICK f : f = [Top(t) EXCEPT !.ids = Tail(Top(t).ids)]
  OBVIOUS
<1>4. PICK g : g = NewFrame("unmount", d)
  OBVIOUS
<1>5. IF d \in Derived /\ Mounted(d) /\ (listeners')[d] = {}
      THEN GotoCall(t, f, g) ELSE Goto(t, f)
  BY <1>1, <1>2, <1>3, <1>4, DropSubscriptionStack
<1>6. f.at = "unsubscribe" /\ g.at = "unmount" /\ g.node = d
  <2>1. Top(t) \in Frame
    BY <1>1, TopType
  <2> QED
    BY <1>1, <1>3, <1>4, <2>1 DEF Frame, NewFrame
<1>7. ASSUME GotoCall(t, f, g), (listeners')[d] = {} PROVE Lower(t) /\ Attached(t)
  <2>1. /\ Lower(t) /\ Upper(t) = {Depth(t), Depth(t) + 1} /\ Depth(t) \in Nat
        /\ Low((stack')[t], Depth(t)) = f /\ Low((stack')[t], Depth(t) + 1) = g
    BY <1>1, <1>7, GotoCallUpper, SlotType
  <2>2. Len((stack')[t]) = Depth(t) + 1
    <3>1. <<g, f>> \in Seq({g, f}) /\ Len(<<g, f>>) = 2
      OBVIOUS
    <3>2. Len((stack')[t]) = Len(<<g, f>>) + Depth(t) - 1
      BY <1>1, <1>7, <3>1, TopBecomes DEF GotoCall
    <3> QED
      BY <2>1, <3>1, <3>2
  <2>3. Attached(t)
    BY <1>1, <1>6, <1>7, <2>1, <2>2, TopAlone DEF Attached, Attaches, Mounts
  <2> QED
    BY <2>1, <2>3
<1>8. ASSUME Goto(t, f) PROVE Lower(t) /\ Attached(t)
  <2>1. Lower(t) /\ Upper(t) = {Depth(t)} /\ Low((stack')[t], Depth(t)) = f
    BY <1>1, <1>8, GotoUpper
  <2>2. Attached(t)
    BY <1>1, <1>6, <2>1, TopAlone DEF Attached, Attaches, Mounts
  <2> QED
    BY <2>1, <2>2
<1>9. Lower(t) /\ Attached(t)
  BY <1>5, <1>7, <1>8
<1>10. d \in Derived /\ Mounted(d) /\ (listeners')[d] = {} => Stages(d, {"unmount"})'
  <2>1. SUFFICES ASSUME GotoCall(t, f, g) PROVE Stages(d, {"unmount"})'
    BY <1>5
  <2>2. Depth(t) + 1 \in Upper(t) /\ Low((stack')[t], Depth(t) + 1) = g
    BY <1>1, <2>1, GotoCallUpper
  <2> QED
    BY <1>6, <2>2, StagesNew
<1>11. PICK id : listeners' = [listeners EXCEPT ![d] = {l \in @ : l.id # id}]
  BY <1>2 DEF DropSubscription, RemoveListener
<1>12. Subscribed'
  BY <1>1, <1>9, <1>10, <1>11, RemoveAlone DEF Mounts
<1> QED
  BY <1>9, <1>12

(* listen keeps the other threads out until it returns. *)
LEMMA WatchAlone ==
    ASSUME AttachesAlone, TypeInv, AloneInv, NEW t \in Thread, Others(t),
           NEW x \in Watched, Watch(t, x)
    PROVE  Lower(t) /\ Attached(t) /\ Subscribed'
<1>1. Stacks /\ MayCall(t) /\ Alone(t) /\ UNCHANGED dep_subs
  BY DEF Watch, MayAttach, AttachesAlone, Alone, TypeInv
<1>2. PICK f : f = [NewFrame("watch", x) EXCEPT !.n = next_id[x]]
  OBVIOUS
<1>3. PICK g : g = NewFrame("mount", x)
  OBVIOUS
<1>4. f.at = "watch" /\ g.at = "mount" /\ g.node = x
  BY <1>2, <1>3 DEF NewFrame
<1>5. stack[t] # <<>> => Plain(Top(t))
  BY <1>1, QuietTops
<1>6. /\ Lower(t) /\ Depth(t) \in Nat
      /\ \A h \in Upper(t) :
           \/ h = Depth(t) /\ h \in Slots(t) /\ Low((stack')[t], h) = Slot(t, h)
           \/ h = Depth(t) + 1 /\ Low((stack')[t], h) = f
           \/ h = Depth(t) + 2 /\ Low((stack')[t], h) = g /\ x \in Derived /\ ~Mounted(x)
      /\ Depth(t) + 1 \in Upper(t)
      /\ x \in Derived /\ ~Mounted(x) => Depth(t) + 2 \in Upper(t)
  BY <1>1, <1>2, <1>3, WatchUpper
<1>7. ASSUME NEW h \in Upper(t), h = Depth(t), h \in Slots(t), Low((stack')[t], h) = Slot(t, h)
      PROVE  Plain(Low((stack')[t], h))
  <2>1. stack[t] # <<>>
    BY <1>7, EmptySeq DEF Slots
  <2> QED
    BY <1>5, <1>7, <2>1, TopAlone
<1>8. Low((stack')[t], Depth(t) + 1) = f
  BY <1>6
<1>9. Attached(t)
  <2>1. ASSUME NEW h \in Upper(t), Low((stack')[t], h) = g, h = Depth(t) + 2
        PROVE  \E k \in Upper(t) : k < h /\ Low((stack')[t], k).at = "watch"
    BY <1>4, <1>6, <1>8, <2>1
  <2> QED
    BY <1>1, <1>4, <1>6, <1>7, <2>1 DEF Attached, Attaches, Mounts, Plain
<1>10. x \in Derived /\ ~Mounted(x) => Stages(x, {"mount", "listen"})'
  <2>1. x \in Derived /\ ~Mounted(x) =>
          Depth(t) + 2 \in Upper(t) /\ Low((stack')[t], Depth(t) + 2) = g
    BY <1>6
  <2> QED
    BY <1>4, <2>1, StagesNew
<1>11. PICK m : listeners' = [listeners EXCEPT ![x] = @ \union {m}]
  BY DEF Watch, AddListener
<1>12. Subscribed'
  BY <1>1, <1>5, <1>6, <1>10, <1>11, AddAlone DEF Plain, Mounts
<1> QED
  BY <1>6, <1>9, <1>12

(* So does the drop of a Subscription by the program. *)
LEMMA UnwatchAlone ==
    ASSUME AttachesAlone, TypeInv, AloneInv, NEW t \in Thread, Others(t),
           NEW x \in Watched, Unwatch(t, x)
    PROVE  Lower(t) /\ Attached(t) /\ Subscribed'
<1>1. Stacks /\ MayCall(t) /\ Alone(t) /\ UNCHANGED dep_subs
  BY DEF Unwatch, MayAttach, AttachesAlone, Alone, TypeInv
<1>2. PICK g : g = NewFrame("unmount", x)
  OBVIOUS
<1>3. g.at = "unmount" /\ g.node = x
  BY <1>2 DEF NewFrame
<1>4. stack[t] # <<>> => Plain(Top(t))
  BY <1>1, QuietTops
<1>5. IF x \in Derived /\ Mounted(x) /\ (listeners')[x] = {}
      THEN Call(t, g) ELSE UNCHANGED stack
  BY <1>1, <1>2, UnwatchStack
<1>6. Depth(t) \in Slots(t) => Plain(Slot(t, Depth(t)))
  <2>1. Depth(t) \in Slots(t) => stack[t] # <<>>
    BY EmptySeq DEF Slots
  <2> QED
    BY <1>4, <2>1, TopAlone
<1>7. ASSUME Call(t, g), (listeners')[x] = {}
      PROVE  Lower(t) /\ Attached(t) /\ Stages(x, {"unmount"})'
  <2>1. /\ Lower(t)
        /\ \A h \in Upper(t) :
             \/ h = Depth(t) /\ h \in Slots(t) /\ Low((stack')[t], h) = Slot(t, h)
             \/ h = Depth(t) + 1 /\ Low((stack')[t], h) = g
    BY <1>1, <1>7, CallUpper
  <2>2. stack[t] \in Seq(GoodFrame \union {g}) /\ Depth(t) \in Nat
    BY <1>1, SeqMonotonic, SlotType DEF Stacks
  <2>3. Len((stack')[t]) = Depth(t) + 1 /\ Low((stack')[t], Depth(t) + 1) = g
    <3>1. (stack')[t] = <<g>> \o stack[t]
      BY <1>1, <1>7 DEF Call, StackBecomes, Stacks
    <3>2. PICK S : S = GoodFrame \union {g}
      OBVIOUS
    <3>3. g \in S /\ stack[t] \in Seq(S)
      BY <2>2, <3>2
    <3> QED
      BY <3>1, <3>3, LowPush DEF Depth
  <2>4. Attached(t)
    BY <1>1, <1>3, <1>6, <1>7, <2>1, <2>3 DEF Attached, Attaches, Mounts, Plain
  <2>5. Depth(t) + 1 \in Upper(t)
    BY <2>2, <2>3 DEF Upper
  <2>6. Stages(x, {"unmount"})'
    BY <1>3, <2>3, <2>5, StagesNew
  <2> QED
    BY <2>1, <2>4, <2>6
<1>8. ASSUME UNCHANGED stack PROVE Lower(t) /\ Attached(t)
  <2>1. Depth(t) \in Nat /\ \A h \in Upper(t) : h = Depth(t) /\ h \in Slots(t)
    BY <1>1, <1>8, SlotType DEF Upper, Slots, Depth
  <2>2. Lower(t)
    BY <1>8, <2>1 DEF Lower, Slot, Depth, Alike
  <2>3. \A h \in Upper(t) : Plain(Low((stack')[t], h))
    BY <1>6, <1>8, <2>1 DEF Slot
  <2>4. Attached(t)
    BY <2>3 DEF Attached, Attaches, Mounts, Plain
  <2> QED
    BY <1>8, <2>2, <2>4
<1>9. /\ Lower(t) /\ Attached(t)
      /\ x \in Derived /\ Mounted(x) /\ (listeners')[x] = {} => Stages(x, {"unmount"})'
  BY <1>5, <1>7, <1>8
<1>10. PICK id : listeners' = [listeners EXCEPT ![x] = {l \in @ : l.id # id}]
  BY DEF Unwatch, RemoveListener
<1>11. Subscribed'
  BY <1>1, <1>4, <1>9, <1>10, RemoveAlone DEF Plain, Mounts
<1> QED
  BY <1>9, <1>11

-----------------------------------------------------------------------------
(* Every step keeps the invariant. *)
LEMMA AloneStep ==
    ASSUME AttachesAlone
    PROVE  TypeInv /\ MountInv /\ AloneInv /\ [Next]_vars => AloneInv'
<1> SUFFICES ASSUME TypeInv, MountInv, AloneInv, [Next]_vars PROVE AloneInv'
  OBVIOUS
<1>1. ASSUME NEW t \in Thread, Progress(t) \/ Start(t) PROVE AloneInv'
  <2>1. Others(t)
    BY <1>1, OthersKeep DEF Others, TypeInv
  <2>2. Lower(t) /\ Attached(t) /\ Subscribed'
    BY <1>1, <2>1, StepKinds, QuietAlone, MountAlone, HandAlone, ListenToAlone, DropAlone,
       WatchAlone, UnwatchAlone DEF Quiet
  <2> QED
    BY <1>1, <2>1, <2>2, AttachedKept DEF AloneInv
<1>2. CASE UNCHANGED vars
  <2>1. /\ UNCHANGED <<stack, listeners, dep_subs>>
        /\ \A t : Slots(t)' = Slots(t) /\ Depth(t)' = Depth(t) /\ Alone(t)' = Alone(t)
        /\ \A t, h : Slot(t, h)' = Slot(t, h)
        /\ \A c, S : Stages(c, S)' = Stages(c, S)
    BY <1>2 DEF vars, tables, Slots, Depth, Slot, Alone, Stages
  <2>2. OneAttacher' /\ FromWatch' /\ UnmountsLast'
    BY <2>1 DEF AloneInv, OneAttacher, FromWatch, UnmountsLast, Mounted
  <2>3. Subscribed'
    BY <2>1 DEF AloneInv, Subscribed, Mounted
  <2> QED
    BY <2>2, <2>3 DEF AloneInv
<1> QED
  BY <1>1, <1>2 DEF Next, Rest

(* It holds when nothing has been called. *)
LEMMA AloneInit == Init => AloneInv
<1> SUFFICES ASSUME Init PROVE AloneInv
  OBVIOUS
<1>1. \A t \in Thread : Slots(t) = {}
  BY DEF Init, Slots
<1>2. \A c \in Derived : ~Mounted(c) /\ dep_subs[c] = <<>>
  BY DEF Init, Mounted, Node
<1> QED
  BY <1>1, <1>2 DEF AloneInv, OneAttacher, FromWatch, UnmountsLast, Subscribed

(* At rest a store is subscribed to all its dependencies if somebody        *)
(* listens to it and to none otherwise, however it was mounted, unmounted   *)
(* and mounted again, by listeners too.  It takes a program that attaches   *)
(* and detaches listeners from one thread at a time: an unmount that runs   *)
(* in another thread than the next mount leaves the store without           *)
(* subscriptions.                                                           *)
THEOREM SubscribedForEver ==
    ASSUME AttachesAlone
    PROVE  Spec => []SubscribedWhileMounted
<1>1. TypeInv /\ MountInv /\ PlaceInv /\ AloneInv => SubscribedWhileMounted
  <2> SUFFICES ASSUME TypeInv, MountInv, PlaceInv, AloneInv, Quiescent, NEW c \in Derived
               PROVE  /\ Len(dep_subs[c]) = IF Mounted(c) THEN Len(Deps[c]) ELSE 0
                      /\ \A d \in Node : SubscriptionsOf(c, d) = KeptOf(c, d)
    BY DEF SubscribedWhileMounted, AtRest
  <2>1. \A S : ~Stages(c, S)
    BY DEF Stages, Quiescent, Slots
  <2>2. IF Mounted(c) THEN dep_subs[c] # <<>> ELSE dep_subs[c] = <<>>
    BY <2>1 DEF AloneInv, Subscribed
  <2>3. Len(dep_subs[c]) = IF Mounted(c) THEN Len(Deps[c]) ELSE 0
    BY <2>2 DEF MountInv, Unsubscribes
  <2> QED
    BY <2>3, PlacesAtRest DEF SubscriptionsKept
<1>2. Spec => [](TypeInv /\ MountInv /\ PlaceInv /\ AloneInv)
  BY TypeInvInit, TypeInvStep, MountInvInit, MountInvStep, PlaceInvInit, PlaceInvStep,
     AloneInit, AloneStep, PTL DEF Spec
<1> QED
  BY <1>1, <1>2, PTL

-----------------------------------------------------------------------------
(* Programs with one thread: a store somebody listens to is up to date     *)
SingleThread == \A t, u \in Thread : t = u

Gets == {"get", "load", "compute"}
Readers == Gets \union {"recompute"}
Drainers == {"drain", "deliver", "user", "flush"}

(* What a recompute of c has read from its first m dependencies. *)
Prefix(c, m) == [s \in Source |-> UNION {val[Deps[c][i]][s] : i \in 1..m}]

Settled(c) == Mounted(c) /\ dep_subs[c] # <<>>

UpToDate(c) == val[c] = Fresh(c)

(* A frame that brings c a recompute, and all that does.                   *)
Tells(f, c) ==
    \/ f.node = c /\ f.at \in {"job", "look", "recompute"}
    \/ /\ DependsOn(c, f.node)
       /\ \/ f.at \in {"write_back", "enqueue"}
          \/ f.at \in {"deliver", "user"} /\ \E l \in f.todo : l.to = c

Coming(c) ==
    \/ Way(c)
    \/ \E t \in Thread : \E h \in Slots(t) : Tells(Slot(t, h), c)
    \/ \E x \in Node : DependsOn(c, x) /\ queue[x] # <<>>

(* A mounted store with subscriptions is up to date or will be recomputed. *)
Caught == \A c \in Derived : Settled(c) => UpToDate(c) \/ Coming(c)

(* A store that reads its dependencies calls nothing but get, *)
GetsOnly ==
    \A t \in Thread : \A h, g \in Slots(t) :
        g > h /\ Slot(t, h).at \in Readers => Slot(t, g).at \in Gets

(* so what it has read so far are values the dependencies still have.      *)
Current ==
    \A t \in Thread : \A h \in Slots(t) :
        LET f == Slot(t, h)
            c == f.node
        IN  f.at = "recompute" /\ Settled(c) =>
              IF h = Depth(t)
              THEN f.value = Prefix(c, f.n)
              ELSE /\ f.n \in 1..Len(Deps[c]) /\ f.value = Prefix(c, f.n - 1)
                   /\ h = Depth(t) - 1
                   /\ Top(t).at \in {"get", "load"} /\ Top(t).node = Deps[c][f.n]

(* Only a store without listeners is computed by get. *)
Computes ==
    \A t \in Thread : \A h \in Slots(t) :
        Slot(t, h).at = "compute" => ~Mounted(Slot(t, h).node)

(* A recompute starts with nothing read, and the program sets sources.     *)
Starts ==
    \A t \in Thread : \A h \in Slots(t) :
        LET f == Slot(t, h)
        IN  /\ f.at \in {"job", "look"} => h = Depth(t) /\ f.n = 0 /\ f.value = Nothing
            /\ f.at = "write" => h = Depth(t) /\ f.node \in Source

(* What is to be announced is the newest write and what the store holds.   *)
Newest(x, v, n) ==
    /\ val[x] = v /\ n = write_seq[x] /\ delivered_seq[x] < n
    /\ \A i \in DOMAIN queue[x] : queue[x][i] < n

Announces ==
    \A t \in Thread : \A h \in Slots(t) :
        LET f == Slot(t, h)
        IN  f.at \in {"write_back", "enqueue"} =>
              h = Depth(t) /\ Newest(f.node, f.value, f.n)

(* The queue of a store is in order, and somebody drains it.               *)
InOrder(x) ==
    /\ delivered_seq[x] <= write_seq[x]
    /\ \A i \in DOMAIN queue[x] : delivered_seq[x] < queue[x][i] /\ queue[x][i] <= write_seq[x]
    /\ \A i, j \in DOMAIN queue[x] : i < j => queue[x][i] < queue[x][j]

Drained(x) ==
    /\ queue[x] # <<>> => draining[x]
    /\ draining[x] => Stages(x, Drainers)

Queues == \A x \in Node : InOrder(x) /\ Drained(x)

Frames == GetsOnly /\ Current /\ Computes /\ Starts /\ Announces

LiveInv == Caught /\ Frames /\ Queues

-----------------------------------------------------------------------------
(* The frames *)

(* What a step other than a read puts on the stack: frames that go on when *)
(* those above return, and one on the top.                                 *)
Under(f) == f.at \notin Readers \union {"write_back", "enqueue", "job", "look", "write"}

Begun(f) ==
    /\ f.at \notin {"load", "compute"}
    /\ f.at \in {"job", "look", "recompute"} => f.n = 0 /\ f.value = Nothing
    /\ f.at = "write" => f.node \in Source
    /\ f.at \in {"write_back", "enqueue"} =>
         /\ (val')[f.node] = f.value /\ f.n = (write_seq')[f.node]
         /\ (delivered_seq')[f.node] < f.n
         /\ \A i \in DOMAIN (queue')[f.node] : (queue')[f.node][i] < f.n

Calm(t) ==
    LET f(h) == Low((stack')[t], h)
    IN  /\ Lower(t)
        /\ \A h \in Upper(t) :
             \/ Under(f(h))
             \/ Begun(f(h)) /\ \A g \in Upper(t) : g <= h

(* The frame on top; under it nothing waits but calls of get. *)
LEMMA TopFrames ==
    ASSUME TypeInv, Frames, NEW t \in Thread, stack[t] # <<>>
    PROVE  /\ Depth(t) \in Slots(t) /\ Depth(t) \in Nat \ {0}
           /\ Slot(t, Depth(t)) = Top(t)
           /\ \A h \in Slots(t) : h <= Depth(t)
           /\ \A h \in Slots(t) : h < Depth(t) /\ Slot(t, h).at \in Readers => Top(t).at \in Gets
           /\ \A h \in Slots(t) : h < Depth(t) =>
                Slot(t, h).at \notin {"job", "look", "write", "write_back", "enqueue"}
<1>1. Slot(t, Depth(t)) = Top(t) /\ Depth(t) \in Nat \ {0}
  BY LowTail DEF TypeInv, Stacks, Slot, Depth, Top
<1>2. Depth(t) \in Slots(t) /\ \A h \in Slots(t) : h <= Depth(t)
  BY <1>1 DEF Slots, Depth
<1>3. \A h \in Slots(t) : h < Depth(t) /\ Slot(t, h).at \in Readers => Top(t).at \in Gets
  BY <1>1, <1>2 DEF Frames, GetsOnly
<1>4. \A h \in Slots(t) : h < Depth(t) =>
        Slot(t, h).at \notin {"job", "look", "write", "write_back", "enqueue"}
  BY <1>1, <1>2 DEF Frames, Starts, Announces
<1> QED
  BY <1>1, <1>2, <1>3, <1>4

(* The frames below a call that reads nothing. *)
LEMMA CalmKept ==
    ASSUME SingleThread, TypeInv, TypeInv', Frames, NEW t \in Thread, Others(t), Calm(t),
           stack[t] # <<>> => Top(t).at \notin Gets
    PROVE  Frames'
<1>1. Depth(t) \in Nat /\ Depth(t)' \in Nat
  BY SlotType, LenProperties DEF TypeInv, Stacks, Depth
<1>2. ASSUME NEW h \in Slots(t)'
      PROVE  \/ /\ h \in Upper(t) /\ Slot(t, h)' = Low((stack')[t], h)
                /\ (\A g \in Upper(t) : g <= h) => h = Depth(t)'
             \/ /\ h \in Slots(t) /\ h < Depth(t) /\ Alike(Slot(t, h)', Slot(t, h))
                /\ Under(Slot(t, h)) /\ Under(Slot(t, h)')
  <2>1. CASE h \in Upper(t)
    <3>1. Depth(t)' \in Upper(t) /\ h <= Depth(t)'
      BY <1>1, <2>1 DEF Upper, Depth
    <3>2. h \in Nat
      BY <2>1 DEF Upper
    <3> QED
      BY <1>1, <2>1, <3>1, <3>2 DEF Slot
  <2>2. CASE h \notin Upper(t)
    <3>1. h \in Slots(t) /\ h < Depth(t) /\ Alike(Slot(t, h)', Slot(t, h))
      BY <2>2, OldOrUpper DEF Calm
    <3>2. stack[t] # <<>>
      BY <3>1, EmptySeq DEF Slots
    <3>3. Under(Slot(t, h))
      BY <3>1, <3>2, TopFrames DEF Under
    <3> QED
      BY <3>1, <3>3 DEF Under, Alike
  <2> QED
    BY <2>1, <2>2
<1>3. ASSUME NEW h \in Slots(t)', ~Under(Slot(t, h)')
      PROVE  h = Depth(t)' /\ Begun(Slot(t, h)')
  BY <1>2, <1>3 DEF Calm
<1>4. GetsOnly'
  <2>1. ASSUME NEW h \in Slots(t)', NEW g \in Slots(t)', g > h, Slot(t, h)'.at \in Readers
        PROVE  FALSE
    <3>1. h = Depth(t)'
      BY <1>3, <2>1 DEF Under
    <3> QED
      BY <1>1, <2>1, <3>1 DEF Slots, Depth
  <2> QED
    BY <2>1 DEF GetsOnly, SingleThread
<1>5. Current'
  <2>1. ASSUME NEW h \in Slots(t)', Slot(t, h)'.at = "recompute"
        PROVE  h = Depth(t)' /\ Slot(t, h)'.n = 0 /\ Slot(t, h)'.value = Nothing
    BY <1>3, <2>1 DEF Under, Begun, Readers
  <2>2. \A c : Prefix(c, 0)' = Nothing
    BY DEF Prefix, Nothing
  <2> QED
    BY <2>1, <2>2 DEF Current, SingleThread
<1>6. Computes'
  <2>1. ASSUME NEW h \in Slots(t)' PROVE Slot(t, h)'.at # "compute"
    BY <1>3 DEF Under, Begun, Readers, Gets
  <2> QED
    BY <2>1 DEF Computes, SingleThread
<1>7. Starts'
  <2>1. ASSUME NEW h \in Slots(t)', Slot(t, h)'.at \in {"job", "look", "write"}
        PROVE  h = Depth(t)' /\ Begun(Slot(t, h)')
    BY <1>3, <2>1 DEF Under
  <2> QED
    BY <2>1 DEF Starts, SingleThread, Begun
<1>8. Announces'
  <2>1. ASSUME NEW h \in Slots(t)', Slot(t, h)'.at \in {"write_back", "enqueue"}
        PROVE  h = Depth(t)' /\ Begun(Slot(t, h)')
    BY <1>3, <2>1 DEF Under
  <2> QED
    BY <2>1 DEF Announces, Newest, SingleThread, Begun
<1> QED
  BY <1>4, <1>5, <1>6, <1>7, <1>8 DEF Frames

(* What a step hands on: a frame on top goes on with what the last one had  *)
(* to do, or there was nothing.                                            *)
GoesOn(f, g) ==
    /\ \A c \in Derived : Tells(f, c) => Tells(g, c)
    /\ f.at \in Drainers => g.at \in Drainers /\ g.node = f.node

Idle(f) ==
    f.at \notin Drainers \union {"job", "look", "recompute", "write_back", "enqueue"}

Handed(t) ==
    \A c \in Derived :
        Settled(c)' /\ stack[t] # <<>> /\ Tells(Top(t), c) => UpToDate(c)' \/ Coming(c)'

Drains(t) ==
    \A x : stack[t] # <<>> /\ Top(t).at \in Drainers /\ Top(t).node = x => Stages(x, Drainers)'

(* A frame on the stack after the step that tells a store, *)
LEMMA TellsNew ==
    ASSUME NEW t \in Thread, NEW h \in Upper(t), NEW c, Tells(Low((stack')[t], h), c)
    PROVE  Coming(c)'
<1>1. h \in Slots(t)' /\ Slot(t, h)' = Low((stack')[t], h)
  BY DEF Upper, Slots, Slot
<1>2. Tells(Slot(t, h)', c)
  BY <1>1
<1> QED
  BY <1>1, <1>2 DEF Coming

(* one that goes on with what the top had to do, *)
LEMMA GoesOnNew ==
    ASSUME NEW t \in Thread, stack[t] # <<>>, NEW h \in Upper(t),
           GoesOn(Top(t), Low((stack')[t], h))
    PROVE  Handed(t) /\ Drains(t)
<1>1. \A c \in Derived : Tells(Top(t), c) => Coming(c)'
  BY TellsNew DEF GoesOn
<1>2. Drains(t)
  BY StagesNew DEF GoesOn, Drains
<1> QED
  BY <1>1, <1>2 DEF Handed

(* and a top that had nothing to do. *)
LEMMA IdleHands ==
    ASSUME NEW t \in Thread, stack[t] # <<>> => Idle(Top(t))
    PROVE  Handed(t) /\ Drains(t)
<1>1. stack[t] # <<>> => \A c \in Derived : ~Tells(Top(t), c)
  BY DEF Idle, Tells, Drainers
<1> QED
  BY <1>1 DEF Handed, Drains, Idle

Onward(t) == Lower(t) /\ Frames' /\ Handed(t) /\ Drains(t)

(* The changes of a stack. *)
LEMMA OnOps ==
    ASSUME SingleThread, TypeInv, TypeInv', Frames, NEW t \in Thread, Others(t),
           stack[t] # <<>> => Top(t).at \notin Gets
    PROVE  /\ \A f : stack[t] # <<>> /\ Goto(t, f) /\ (Under(f) \/ Begun(f))
                     /\ (Idle(Top(t)) \/ GoesOn(Top(t), f))
                     => Onward(t)
           /\ \A f, g : stack[t] # <<>> /\ GotoCall(t, f, g)
                        /\ Under(f) /\ (Under(g) \/ Begun(g))
                        /\ (Idle(Top(t)) \/ GoesOn(Top(t), f))
                        => Onward(t)
           /\ stack[t] # <<>> /\ Return(t) /\ Idle(Top(t)) => Onward(t)
           /\ \A f : Call(t, f) /\ (Under(f) \/ Begun(f))
                     /\ (stack[t] = <<>> \/ Under(Top(t)))
                     => Onward(t)
           /\ UNCHANGED stack /\ (stack[t] = <<>> \/ Under(Top(t))) => Onward(t)
<1>0. Stacks /\ Depth(t) \in Nat
  BY SlotType DEF TypeInv
<1>1. ASSUME stack[t] # <<>>, NEW f, Goto(t, f), Under(f) \/ Begun(f),
             Idle(Top(t)) \/ GoesOn(Top(t), f)
      PROVE  Onward(t)
  <2>1. Lower(t) /\ Upper(t) = {Depth(t)} /\ Low((stack')[t], Depth(t)) = f
    BY <1>0, <1>1, GotoUpper
  <2>2. Calm(t)
    BY <1>0, <1>1, <2>1 DEF Calm
  <2>3. Handed(t) /\ Drains(t)
    BY <1>1, <2>1, IdleHands, GoesOnNew
  <2> QED
    BY <2>1, <2>2, <2>3, CalmKept DEF Onward
<1>2. ASSUME stack[t] # <<>>, NEW f, NEW g, GotoCall(t, f, g), Under(f), Under(g) \/ Begun(g),
             Idle(Top(t)) \/ GoesOn(Top(t), f)
      PROVE  Onward(t)
  <2>1. /\ Lower(t) /\ Upper(t) = {Depth(t), Depth(t) + 1}
        /\ Low((stack')[t], Depth(t)) = f /\ Low((stack')[t], Depth(t) + 1) = g
    BY <1>0, <1>2, GotoCallUpper
  <2>2. Calm(t)
    BY <1>0, <1>2, <2>1 DEF Calm
  <2>3. Handed(t) /\ Drains(t)
    BY <1>2, <2>1, IdleHands, GoesOnNew
  <2> QED
    BY <2>1, <2>2, <2>3, CalmKept DEF Onward
<1>3. ASSUME stack[t] # <<>>, Return(t), Idle(Top(t)) PROVE Onward(t)
  <2>1. Lower(t) /\ Upper(t) = {}
    BY <1>0, <1>3, ReturnUpper
  <2>2. Calm(t)
    BY <2>1 DEF Calm
  <2>3. Handed(t) /\ Drains(t)
    BY <1>3, IdleHands
  <2> QED
    BY <2>1, <2>2, <2>3, CalmKept DEF Onward
<1>4. stack[t] # <<>> => Slot(t, Depth(t)) = Top(t) /\ Depth(t) \in Slots(t)
  BY TopFrames
<1>5. stack[t] = <<>> => Depth(t) \notin Slots(t)
  BY EmptySeq DEF Depth, Slots
<1>6. ASSUME Low((stack')[t], Depth(t)) = Top(t), Depth(t) \in Upper(t), stack[t] # <<>>
      PROVE  Handed(t) /\ Drains(t)
  BY <1>6, GoesOnNew DEF GoesOn
<1>7. ASSUME NEW f, Call(t, f), Under(f) \/ Begun(f), (stack[t] = <<>> \/ Under(Top(t)))
      PROVE  Onward(t)
  <2>1. /\ Lower(t)
        /\ \A h \in Upper(t) :
             \/ h = Depth(t) /\ h \in Slots(t) /\ Low((stack')[t], h) = Slot(t, h)
             \/ h = Depth(t) + 1 /\ Low((stack')[t], h) = f
    BY <1>0, <1>7, CallUpper
  <2>2. \A h \in Upper(t) : h <= Depth(t) + 1
    BY <1>0, <2>1
  <2>3. Calm(t)
    BY <1>4, <1>5, <1>7, <2>1, <2>2 DEF Calm
  <2>4. stack[t] # <<>> => Depth(t) \in Upper(t)
    <3>1. PICK S : S = GoodFrame \union {f}
      OBVIOUS
    <3>2. f \in S /\ stack[t] \in Seq(S) /\ (stack')[t] = <<f>> \o stack[t]
      BY <1>0, <1>7, <3>1, SeqMonotonic DEF Stacks, Call, StackBecomes
    <3>3. Len((stack')[t]) = Depth(t) + 1
      BY <3>2, LowPush DEF Depth
    <3> QED
      BY <1>0, <1>4, <3>3 DEF Upper, Slots
  <2>5. stack[t] # <<>> => Low((stack')[t], Depth(t)) = Top(t)
    BY <1>0, <1>4, <2>1, <2>4
  <2>6. Handed(t) /\ Drains(t)
    BY <1>6, <2>4, <2>5 DEF Handed, Drains
  <2> QED
    BY <1>7, <2>1, <2>3, <2>6, CalmKept DEF Onward
<1>8. ASSUME UNCHANGED stack, stack[t] = <<>> \/ Under(Top(t)) PROVE Onward(t)
  <2>1. \A h \in Upper(t) : h = Depth(t) /\ h \in Slots(t)
    BY <1>0, <1>8 DEF Upper, Slots, Depth
  <2>2. Lower(t)
    BY <1>0, <1>8 DEF Lower, Slot, Depth, Alike
  <2>3. \A h \in Slots(t) : Low((stack')[t], h) = Slot(t, h)
    BY <1>8 DEF Slot
  <2>4. Calm(t)
    BY <1>4, <1>5, <1>8, <2>1, <2>2, <2>3 DEF Calm
  <2>5. stack[t] # <<>> => Depth(t) \in Upper(t) /\ Low((stack')[t], Depth(t)) = Top(t)
    BY <1>0, <1>4, <1>8, <2>3 DEF Upper, Slots
  <2>6. Handed(t) /\ Drains(t)
    BY <1>6, <2>5 DEF Handed, Drains
  <2> QED
    BY <1>8, <2>2, <2>4, <2>6, CalmKept DEF Onward
<1> QED
  BY <1>1, <1>2, <1>3, <1>7, <1>8

-----------------------------------------------------------------------------
(* What is kept *)

(* A store with subscriptions listens to each of its dependencies. *)
LEMMA DepsListened ==
    ASSUME TypeInv, MountInv, PlaceInv, NEW c \in Derived, dep_subs[c] # <<>>,
           NEW x, DependsOn(c, x)
    PROVE  x \in Node /\ Mounted(x) /\ \E l \in listeners[x] : l.to = c
<1>1. PICK j \in DOMAIN Deps[c] : Deps[c][j] = x
  BY DEF DependsOn
<1>2. /\ Deps[c] \in Seq(Node) /\ dep_subs[c] \in Seq(Nat)
      /\ Len(dep_subs[c]) = Len(Deps[c])
  BY Dependencies DEF MountInv, Unsubscribes, TypeInv, Subscriptions
<1>3. DOMAIN dep_subs[c] = DOMAIN Deps[c] /\ x \in Node /\ dep_subs[c][j] \in Nat
  BY <1>1, <1>2, LenProperties, ElementOfSeq
<1>4. Own(c, 0, j, x, dep_subs[c][j])
  BY <1>1, <1>3 DEF Own, Kept
<1>5. PICK l \in listeners[x] : l.to = Owner(c, 0)
  BY <1>3, <1>4 DEF PlaceInv, Listed
<1> QED
  BY <1>3, <1>5 DEF Owner, Mounted

(* Only a mount that keeps its subscriptions makes a store settled.        *)
LEMMA SettledBefore ==
    ASSUME SingleThread, TypeInv, AloneInv, NEW t \in Thread, Progress(t) \/ Start(t),
           NEW c \in Derived, Settled(c)'
    PROVE  Settled(c) \/ (KeepSubscriptions(t) /\ Top(t).node = c)
<1> SUFFICES ASSUME ~(KeepSubscriptions(t) /\ Top(t).node = c) PROVE Settled(c)
  OBVIOUS
<1>1. (dep_subs')[c] # <<>> /\ (listeners')[c] # {}
  BY DEF Settled, Mounted
<1>2. dep_subs[c] # <<>> /\ ~(Unmount(t) /\ Top(t).node = c)
  BY <1>1, WhoSubscribes DEF KeepSubscriptions, Unmount, TypeInv, Subscriptions
<1>3. ASSUME ~Mounted(c) PROVE FALSE
  <2>1. PICK u \in Thread : \E h \in Slots(u) : Slot(u, h).at = "unmount" /\ Slot(u, h).node = c
    BY <1>2, <1>3 DEF AloneInv, Subscribed, Stages
  <2>2. PICK h \in Slots(u) : Slot(u, h).at = "unmount" /\ Slot(u, h).node = c
    BY <2>1
  <2>3. u = t /\ h = Depth(t) /\ stack[t] # <<>>
    BY <2>1, <2>2, EmptySeq DEF SingleThread, AloneInv, UnmountsLast, Slots
  <2>4. Top(t).at = "unmount" /\ Top(t).node = c
    BY <2>2, <2>3, TopAlone
  <2>5. Unmount(t)
    BY <2>3, <2>4 DEF Progress, Write, Writes, WriteBack, Enqueue, Drain, CallUser,
       UserReturns, DependencyChanged, GuardDropped, FlushDeferred, Schedule, FlushJobs,
       JobDone, Job, Look, ReadDependency, Reads, Get, Load, ReplaceSilently, Watching,
       Mount, ListenTo, KeepSubscriptions, DropSubscription, Unsubscribed, At, Start, Set,
       Watch, Unwatch, GetCall, Flush, MayAttach, MayCall
  <2> QED
    BY <1>2, <2>4, <2>5
<1> QED
  BY <1>2, <1>3 DEF Settled

(* The queues, while nobody writes or drains. *)
LEMMA QueuesKept ==
    ASSUME TypeInv, Queues, NEW t \in Thread, Others(t), Lower(t), Drains(t), UNCHANGED drains
    PROVE  Queues'
<1>1. ASSUME NEW x \in Node, Stages(x, Drainers) PROVE Stages(x, Drainers)'
  <2>1. CASE stack[t] # <<>> /\ Top(t).at \in Drainers /\ Top(t).node = x
    BY <2>1 DEF Drains
  <2>2. CASE ~(stack[t] # <<>> /\ Top(t).at \in Drainers /\ Top(t).node = x)
    BY <1>1, <2>2, StagesKept
  <2> QED
    BY <2>1, <2>2
<1> QED
  BY <1>1 DEF Queues, InOrder, Drained, drains

(* What is coming still is after a step that hands it on.                  *)
LEMMA ComingKept ==
    ASSUME TypeInv, NEW t \in Thread, Progress(t) \/ Start(t), Others(t), Lower(t),
           NEW c \in Derived, Coming(c),
           ~(stack[t] # <<>> /\ Tells(Top(t), c)),
           \A x \in Node : DependsOn(c, x) /\ queue[x] # <<>> => (queue')[x] # <<>>
    PROVE  Coming(c)'
<1>1. CASE Way(c)
  <2>1. ~(Job(t) /\ Top(t).node = c)
    BY DEF Job, At, Tells
  <2> QED
    BY <1>1, <2>1, WayKept DEF Coming
<1>2. CASE \E x \in Node : DependsOn(c, x) /\ queue[x] # <<>>
  <2>1. PICK x \in Node : DependsOn(c, x) /\ (queue')[x] # <<>>
    BY <1>2
  <2> QED
    BY <2>1 DEF Coming
<1>3. ASSUME NEW u \in Thread, NEW h \in Slots(u), Tells(Slot(u, h), c) PROVE Coming(c)'
  <2>1. CASE u # t
    <3>1. h \in Slots(u)' /\ Slot(u, h)' = Slot(u, h)
      BY <2>1 DEF Others, Slots, Slot
    <3> QED
      BY <1>3, <3>1 DEF Coming
  <2>2. CASE u = t
    <3>0. Depth(t) \in Nat /\ stack[t] # <<>>
      BY <1>3, <2>2, EmptySeq, SlotType DEF TypeInv, Slots
    <3>1. h # Depth(t)
      BY <1>3, <2>2, <3>0, LowTail DEF TypeInv, Stacks, Slot, Depth, Top
    <3>2. h < Depth(t) /\ h \in 1..(Depth(t) - 1) /\ h \in Slots(t)'
      BY <1>3, <2>2, <3>0, <3>1 DEF Slots, Depth, Lower
    <3>3. Alike(Slot(t, h)', Slot(t, h))
      BY <3>2 DEF Lower, Slot
    <3>4. Tells(Slot(t, h)', c)
      BY <1>3, <2>2, <3>3 DEF Alike, Tells
    <3> QED
      BY <3>2, <3>4 DEF Coming
  <2> QED
    BY <2>1, <2>2
<1> QED
  BY <1>1, <1>2, <1>3 DEF Coming

(* So a step that writes nothing misses no change of a dependency.          *)
LEMMA CaughtKept ==
    ASSUME SingleThread, TypeInv, AloneInv, Caught, NEW t \in Thread, Progress(t) \/ Start(t),
           Others(t), Lower(t), Handed(t), UNCHANGED <<val, queue>>,
           \A c \in Derived : KeepSubscriptions(t) /\ Top(t).node = c => Coming(c)'
    PROVE  Caught'
<1>1. ASSUME NEW c \in Derived, Settled(c)' PROVE UpToDate(c)' \/ Coming(c)'
  <2>1. Settled(c) \/ Coming(c)'
    BY <1>1, SettledBefore
  <2>2. UpToDate(c) => UpToDate(c)'
    BY DEF UpToDate, Fresh
  <2>3. Coming(c) => UpToDate(c)' \/ Coming(c)'
    BY <1>1, ComingKept DEF Handed
  <2> QED
    BY <2>1, <2>2, <2>3 DEF Caught
<1> QED
  BY <1>1 DEF Caught

(* What is left to show of a step that neither writes nor drains. *)
LEMMA Steady ==
    ASSUME SingleThread, TypeInv, AloneInv, LiveInv, NEW t \in Thread, Progress(t) \/ Start(t),
           Others(t), Onward(t), UNCHANGED <<val, drains>>,
           \A c \in Derived : KeepSubscriptions(t) /\ Top(t).node = c => Coming(c)'
    PROVE  LiveInv'
<1>1. UNCHANGED queue
  BY DEF drains
<1> QED
  BY <1>1, QueuesKept, CaughtKept DEF LiveInv, Onward

-----------------------------------------------------------------------------
(* Steps that write nothing and read nothing *)
LEMMA UnderNew ==
    ASSUME NEW x
    PROVE  /\ \A stage :
                stage \notin Readers \union {"write_back", "enqueue", "job", "look", "write"}
                => Under(NewFrame(stage, x))
           /\ \A stage \in {"get", "job", "look", "recompute"} : Begun(NewFrame(stage, x))
<1>1. \A stage : /\ NewFrame(stage, x).at = stage
                 /\ NewFrame(stage, x).n = 0 /\ NewFrame(stage, x).value = Nothing
  BY DEF NewFrame
<1> QED
  BY <1>1 DEF Under, Begun

(* A frame that goes on at another stage. *)
LEMMA MovedFields ==
    ASSUME TypeInv, NEW t \in Thread, stack[t] # <<>>, NEW stage \in Stage
    PROVE  LET f == [Top(t) EXCEPT !.at = stage]
           IN  /\ f.at = stage /\ f.node = Top(t).node /\ f.todo = Top(t).todo
               /\ f.n = Top(t).n /\ f.value = Top(t).value
<1>1. Top(t) \in Frame
  BY TopType DEF TypeInv
<1> QED
  BY <1>1 DEF Frame

(* What the program calls *)
LEMMA OnStarts ==
    ASSUME SingleThread, TypeInv, TypeInv', Frames, NEW t \in Thread, Others(t), Start(t)
    PROVE  Onward(t) /\ UNCHANGED <<val, drains>>
<1>1. Stacks /\ MayCall(t) /\ UNCHANGED <<val, drains>>
  BY DEF Start, Set, Watch, Unwatch, MayAttach, GetCall, Flush, TypeInv
<1>2. stack[t] # <<>> => Under(Top(t)) /\ Top(t).at = "user" /\ Top(t).at \notin Gets
  BY <1>1 DEF MayCall, At, Under, Readers, Gets
<1>3. CASE \E s \in Source : Set(t, s)
  <2>1. PICK s \in Source, n \in Int :
          Call(t, [NewFrame("write", s) EXCEPT !.value = Version(s, n)])
    BY <1>3 DEF Set, TypeInv, Program
  <2>2. PICK g : g = [NewFrame("write", s) EXCEPT !.value = Version(s, n)]
    OBVIOUS
  <2>3. g.at = "write" /\ g.node = s
    BY <2>2 DEF NewFrame
  <2>4. Begun(g)
    BY <2>3 DEF Begun
  <2> QED
    BY <1>1, <1>2, <2>1, <2>2, <2>4, OnOps
<1>4. CASE Flush(t) \/ \E c \in Derived : GetCall(t, c)
  <2>1. \E x : Call(t, NewFrame("flush_jobs", x)) \/ Call(t, NewFrame("get", x))
    BY <1>4 DEF Flush, GetCall
  <2>2. PICK x : Call(t, NewFrame("flush_jobs", x)) \/ Call(t, NewFrame("get", x))
    BY <2>1
  <2>3. Under(NewFrame("flush_jobs", x)) /\ Begun(NewFrame("get", x))
    BY UnderNew DEF Readers, Gets
  <2> QED
    BY <1>1, <1>2, <2>2, <2>3, OnOps
<1>5. ASSUME NEW x \in Watched, Unwatch(t, x) PROVE Onward(t)
  <2>1. Call(t, NewFrame("unmount", x)) \/ UNCHANGED stack
    BY <1>1, <1>5, UnwatchStack
  <2>2. Under(NewFrame("unmount", x))
    BY UnderNew DEF Readers, Gets
  <2> QED
    BY <1>1, <1>2, <2>1, <2>2, OnOps
<1>6. ASSUME NEW x \in Watched, Watch(t, x) PROVE Onward(t)
  <2>1. PICK f, g : /\ f = [NewFrame("watch", x) EXCEPT !.n = next_id[x]]
                    /\ g = NewFrame("mount", x)
    OBVIOUS
  <2>2. f.at = "watch" /\ g.at = "mount"
    BY <2>1 DEF NewFrame
  <2>3. /\ Lower(t) /\ Depth(t) \in Nat /\ Depth(t) + 1 \in Upper(t)
        /\ \A h \in Upper(t) :
             \/ h = Depth(t) /\ h \in Slots(t) /\ Low((stack')[t], h) = Slot(t, h)
             \/ Low((stack')[t], h) \in {f, g}
        /\ \A h \in Upper(t) :
             h = Depth(t) => h \in Slots(t) /\ Low((stack')[t], h) = Slot(t, h)
    <3>1. /\ Lower(t) /\ Depth(t) \in Nat /\ Depth(t) + 1 \in Upper(t)
          /\ \A h \in Upper(t) :
               \/ h = Depth(t) /\ h \in Slots(t) /\ Low((stack')[t], h) = Slot(t, h)
               \/ h = Depth(t) + 1 /\ Low((stack')[t], h) = f
               \/ h = Depth(t) + 2 /\ Low((stack')[t], h) = g
      BY <1>1, <1>6, <2>1, WatchUpper
    <3> QED
      BY <3>1
  <2>4. Depth(t) \in Slots(t) => stack[t] # <<>>
    BY EmptySeq DEF Slots
  <2>5. stack[t] # <<>> => Slot(t, Depth(t)) = Top(t) /\ Depth(t) \in Nat \ {0}
    BY TopFrames
  <2>6. Under(f) /\ Under(g)
    BY <2>2 DEF Under, Readers, Gets
  <2>7. Calm(t)
    BY <1>2, <2>3, <2>4, <2>5, <2>6 DEF Calm
  <2>8. stack[t] # <<>> => Depth(t) \in Upper(t) /\ Low((stack')[t], Depth(t)) = Top(t)
    BY <2>3, <2>5 DEF Upper
  <2>9. Handed(t) /\ Drains(t)
    <3>1. CASE stack[t] = <<>>
      BY <3>1, IdleHands
    <3>2. CASE stack[t] # <<>>
      BY <2>8, <3>2, GoesOnNew DEF GoesOn
    <3> QED
      BY <3>1, <3>2
  <2> QED
    BY <1>2, <2>3, <2>7, <2>9, CalmKept DEF Onward
<1> QED
  BY <1>1, <1>3, <1>4, <1>5, <1>6 DEF Start

(* The delivery to the program's listeners, and the flush of the deferred  *)
LEMMA OnNotifies ==
    ASSUME SingleThread, TypeInv, TypeInv', Frames, NEW t \in Thread, Others(t),
           CallUser(t) \/ UserReturns(t) \/ GuardDropped(t) \/ FlushDeferred(t)
    PROVE  Onward(t) /\ UNCHANGED <<val, drains>>
<1>1. /\ Stacks /\ stack[t] # <<>> /\ UNCHANGED <<val, drains>>
      /\ Top(t).at \in {"deliver", "user", "flush"} /\ Top(t) \in Frame
  BY TopType DEF CallUser, UserReturns, GuardDropped, FlushDeferred, At, TypeInv
<1>2. Under(Top(t)) /\ Top(t).at \notin Gets
  BY <1>1 DEF Under, Readers, Gets
<1>3. ASSUME NEW f, Goto(t, f), f.node = Top(t).node, f.at \in Drainers,
             \A c \in Derived : Tells(Top(t), c) => Tells(f, c)
      PROVE  Onward(t)
  <2>1. Under(f) /\ GoesOn(Top(t), f)
    BY <1>3 DEF Under, GoesOn, Drainers, Readers, Gets
  <2> QED
    BY <1>1, <1>2, <1>3, <2>1, OnOps
<1>4. CASE CallUser(t)
  <2>1. PICK l \in Top(t).todo : l.to = User /\ Goto(t, [Called(t, l) EXCEPT !.at = "user"])
    BY <1>4 DEF CallUser
  <2>2. PICK f : f = [Called(t, l) EXCEPT !.at = "user"]
    OBVIOUS
  <2>3. f.at = "user" /\ f.node = Top(t).node /\ f.todo = Top(t).todo \ {l}
    BY <1>1, <2>2 DEF Called, Frame
  <2>4. Top(t).at = "deliver"
    BY <1>4 DEF CallUser, At
  <2>5. \A c \in Derived : c # User
    BY GraphAssumption DEF Node
  <2>6. \A c \in Derived : Tells(Top(t), c) => Tells(f, c)
    BY <2>1, <2>3, <2>4, <2>5 DEF Tells
  <2> QED
    BY <1>1, <1>3, <2>1, <2>2, <2>3, <2>6 DEF Drainers
<1>5. CASE UserReturns(t)
  <2>1. PICK f : f = [Top(t) EXCEPT !.at = "deliver"]
    OBVIOUS
  <2>2. f.at = "deliver" /\ f.node = Top(t).node /\ f.todo = Top(t).todo
    BY <1>1, <2>1, MovedFields DEF Stage
  <2>3. Goto(t, f) /\ Top(t).at = "user"
    BY <1>5, <2>1 DEF UserReturns, At
  <2>4. \A c \in Derived : Tells(Top(t), c) => Tells(f, c)
    BY <2>2, <2>3 DEF Tells
  <2> QED
    BY <1>1, <1>3, <2>2, <2>3, <2>4 DEF Drainers
<1>6. CASE GuardDropped(t)
  <2>1. PICK stage \in {"flush", "drain"} : Goto(t, [Top(t) EXCEPT !.at = stage])
    BY <1>6 DEF GuardDropped
  <2>2. PICK f : f = [Top(t) EXCEPT !.at = stage]
    OBVIOUS
  <2>3. f.at = stage /\ f.node = Top(t).node
    BY <1>1, <2>2, MovedFields DEF Stage
  <2>4. \A c \in Derived : ~Tells(Top(t), c)
    BY <1>6 DEF GuardDropped, At, Tells
  <2> QED
    BY <1>1, <1>3, <2>1, <2>2, <2>3, <2>4 DEF Drainers
<1>7. CASE FlushDeferred(t) /\ deferred[t] = <<>>
  <2>1. PICK f : f = [Top(t) EXCEPT !.at = "drain"]
    OBVIOUS
  <2>2. f.at = "drain" /\ f.node = Top(t).node
    BY <1>1, <2>1, MovedFields DEF Stage
  <2>3. Goto(t, f) /\ Top(t).at = "flush"
    BY <1>7, <2>1 DEF FlushDeferred, At
  <2>4. \A c \in Derived : ~Tells(Top(t), c)
    BY <2>3 DEF Tells
  <2> QED
    BY <1>1, <1>3, <2>2, <2>3, <2>4 DEF Drainers
<1>8. CASE FlushDeferred(t) /\ deferred[t] # <<>>
  <2>1. PICK c : c = Head(deferred[t])
    OBVIOUS
  <2>2. Call(t, NewFrame("job", c)) /\ Begun(NewFrame("job", c))
    BY <1>8, <2>1, UnderNew DEF FlushDeferred
  <2> QED
    BY <1>1, <1>2, <2>2, OnOps
<1> QED
  BY <1>4, <1>5, <1>6, <1>7, <1>8

(* A derived store that is told will be recomputed: its pending flag says   *)
(* so.                                                                      *)
LEMMA OnTold ==
    ASSUME SingleThread, TypeInv, TypeInv', Unfrozen', Frames, NEW t \in Thread, Others(t),
           DependencyChanged(t)
    PROVE  Onward(t) /\ UNCHANGED <<val, drains>>
<1>1. /\ Stacks /\ stack[t] # <<>> /\ UNCHANGED <<val, drains>>
      /\ Top(t).at = "deliver" /\ Top(t) \in Frame
  BY TopType DEF DependencyChanged, At, TypeInv
<1>2. PICK l \in Top(t).todo :
        /\ l.to # User
        /\ pending' = [pending EXCEPT ![l.to] = TRUE]
        /\ \/ Goto(t, Called(t, l))
           \/ GotoCall(t, Called(t, l), NewFrame("schedule", l.to))
  BY DEF DependencyChanged
<1>3. PICK f, g : f = Called(t, l) /\ g = NewFrame("schedule", l.to)
  OBVIOUS
<1>4. /\ f.at = "deliver" /\ f.node = Top(t).node /\ f.todo = Top(t).todo \ {l}
      /\ g.at = "schedule" /\ l.to \in Derived
  BY <1>1, <1>2, <1>3 DEF Called, Frame, NewFrame, Listener
<1>5. Under(f) /\ Under(g)
  BY <1>4 DEF Under, Readers, Gets
<1>6. /\ Lower(t) /\ Depth(t) \in Upper(t) /\ Low((stack')[t], Depth(t)) = f
      /\ \A h \in Upper(t) : Low((stack')[t], h) \in {f, g}
  <2>1. CASE Goto(t, f)
    BY <1>1, <2>1, GotoUpper
  <2>2. CASE GotoCall(t, f, g)
    BY <1>1, <2>2, GotoCallUpper
  <2> QED
    BY <1>2, <1>3, <2>1, <2>2
<1>7. Frames'
  <2>1. Calm(t)
    BY <1>5, <1>6 DEF Calm
  <2> QED
    BY <1>1, <2>1, CalmKept DEF Gets
<1>8. Drains(t)
  <2>1. f.at \in Drainers /\ f.node = Top(t).node
    BY <1>4 DEF Drainers
  <2>2. ASSUME NEW x, Top(t).node = x PROVE Stages(x, Drainers)'
    <3>1. Low((stack')[t], Depth(t)).at \in Drainers /\ Low((stack')[t], Depth(t)).node = x
      BY <1>6, <2>1, <2>2
    <3> QED
      BY <1>6, <3>1, StagesNew
  <2> QED
    BY <2>2 DEF Drains
<1>9. ASSUME NEW c \in Derived, Tells(Top(t), c) PROVE Coming(c)'
  <2>1. CASE c = l.to
    <3>1. (pending')[c]
      BY <1>2, <2>1 DEF TypeInv, Jobs
    <3> QED
      BY <3>1 DEF Unfrozen, Coming
  <2>2. CASE c # l.to
    <3>1. Tells(f, c)
      BY <1>1, <1>4, <1>9, <2>2 DEF Tells
    <3> QED
      BY <1>6, <3>1, TellsNew
  <2> QED
    BY <2>1, <2>2
<1> QED
  BY <1>1, <1>6, <1>7, <1>8, <1>9 DEF Onward, Handed
(* The scheduler *)
LEMMA OnSchedules ==
    ASSUME SingleThread, TypeInv, TypeInv', Frames, NEW t \in Thread, Others(t),
           Schedule(t) \/ FlushJobs(t) \/ JobDone(t)
    PROVE  Onward(t) /\ UNCHANGED <<val, drains>>
<1>1. /\ Stacks /\ stack[t] # <<>> /\ UNCHANGED <<val, drains>>
      /\ Top(t).at \in {"schedule", "flush_jobs", "running"}
  BY DEF Schedule, FlushJobs, JobDone, At, TypeInv
<1>2. Idle(Top(t)) /\ Top(t).at \notin Gets
  BY <1>1 DEF Idle, Drainers, Gets
<1>3. PICK a, b, g : /\ a = [Top(t) EXCEPT !.at = "flush_jobs"]
                     /\ b = [Top(t) EXCEPT !.at = "running"]
                     /\ g = NewFrame("job", Head(jobs))
  OBVIOUS
<1>4. Under(a) /\ Under(b) /\ Begun(g)
  <2>1. a.at = "flush_jobs" /\ b.at = "running"
    BY <1>1, <1>3, MovedFields DEF Stage
  <2> QED
    BY <1>3, <2>1, UnderNew DEF Under, Readers, Gets
<1>5. Return(t) \/ Goto(t, a) \/ GotoCall(t, b, g)
  BY <1>3 DEF Schedule, FlushJobs, JobDone
<1> QED
  BY <1>1, <1>2, <1>4, <1>5, OnOps

(* A job comes to a recompute, unless nobody listens to the store. *)
LEMMA OnJobs ==
    ASSUME SingleThread, TypeInv, TypeInv', Frames, NEW t \in Thread, Others(t),
           Job(t) \/ Look(t)
    PROVE  Onward(t) /\ UNCHANGED <<val, drains>>
<1>1. /\ Stacks /\ stack[t] # <<>> /\ UNCHANGED <<val, drains, tables>>
      /\ Top(t).at \in {"job", "look"} /\ Top(t) \in Frame
  BY TopType DEF Job, Look, At, TypeInv
<1>2. Top(t).at \notin Gets /\ Top(t).at \notin Drainers
  BY <1>1 DEF Gets, Drainers
<1>3. Top(t).n = 0 /\ Top(t).value = Nothing
  BY <1>1, TopFrames DEF Frames, Starts
<1>4. ASSUME NEW stage \in {"look", "recompute"}, Goto(t, [Top(t) EXCEPT !.at = stage])
      PROVE  Onward(t)
  <2>1. PICK f : f = [Top(t) EXCEPT !.at = stage]
    OBVIOUS
  <2>2. /\ f.at = stage /\ f.node = Top(t).node
        /\ f.n = Top(t).n /\ f.value = Top(t).value
    BY <1>1, <2>1, MovedFields DEF Stage
  <2>3. Begun(f)
    BY <1>3, <2>2 DEF Begun
  <2>4. GoesOn(Top(t), f)
    BY <1>1, <1>2, <2>2 DEF GoesOn, Tells
  <2> QED
    BY <1>1, <1>2, <1>4, <2>1, <2>3, <2>4, OnOps
<1>5. CASE Look(t) /\ ~Mounted(Top(t).node)
  <2>1. Lower(t) /\ Upper(t) = {}
    BY <1>1, <1>5, ReturnUpper DEF Look
  <2>2. Frames'
    BY <1>2, <2>1, CalmKept DEF Calm
  <2>3. \A c : Settled(c)' => Settled(c)
    BY <1>1 DEF Settled, Mounted, tables
  <2>4. Handed(t)
    BY <1>1, <1>5, <2>3 DEF Handed, Tells, Settled
  <2>5. Drains(t)
    BY <1>2 DEF Drains
  <2> QED
    BY <1>1, <2>1, <2>2, <2>4, <2>5 DEF Onward
<1> QED
  BY <1>1, <1>4, <1>5 DEF Job, Look

(* Mounts and unmounts: a mount recomputes the store it has subscribed.    *)
LEMMA OnMounts ==
    ASSUME SingleThread, TypeInv, TypeInv', MountInv, Frames, NEW t \in Thread, Others(t),
           \/ Watching(t) \/ Mount(t) \/ ListenTo(t) \/ KeepSubscriptions(t)
           \/ Unmount(t) \/ DropSubscription(t) \/ Unsubscribed(t)
    PROVE  /\ Onward(t) /\ UNCHANGED <<val, drains>>
           /\ \A c \in Derived : KeepSubscriptions(t) /\ Top(t).node = c => Coming(c)'
<1>1. /\ Stacks /\ stack[t] # <<>> /\ UNCHANGED <<val, drains>>
      /\ Top(t).at \in {"watch", "mount", "listen", "unmount", "unsubscribe", "discard"}
      /\ Top(t) \in Frame
  BY TopType DEF TypeInv, Watching, Mount, ListenTo, KeepSubscriptions, Unmount,
     DropSubscription, Unsubscribed, At
<1>2. Idle(Top(t)) /\ Top(t).at \notin Gets
  BY <1>1 DEF Idle, Drainers, Gets
<1>3. CASE Watching(t) \/ Mount(t) \/ Unmount(t) \/ Unsubscribed(t)
  <2>1. PICK a, b : /\ a = [Top(t) EXCEPT !.at = "listen"]
                    /\ b = [Top(t) EXCEPT !.at = "unsubscribe", !.ids = dep_subs[Top(t).node]]
    OBVIOUS
  <2>2. Return(t) \/ Goto(t, a) \/ Goto(t, b)
    BY <1>3, <2>1 DEF Watching, Mount, Unmount, Unsubscribed
  <2>3. a.at = "listen" /\ b.at = "unsubscribe"
    BY <1>1, <2>1 DEF Frame
  <2>4. Under(a) /\ Under(b)
    BY <2>3 DEF Under, Readers, Gets
  <2>5. ~KeepSubscriptions(t)
    BY <1>1, <1>3 DEF KeepSubscriptions, Watching, Mount, Unmount, Unsubscribed, At
  <2> QED
    BY <1>1, <1>2, <2>2, <2>4, <2>5, OnOps
<1>4. CASE ~KeepSubscriptions(t) /\ (ListenTo(t) \/ DropSubscription(t))
  <2>1. \E ids : LET e == [Top(t) EXCEPT !.ids = ids]
                 IN  \/ Goto(t, e)
                     \/ \E x : \/ GotoCall(t, e, NewFrame("mount", x))
                               \/ GotoCall(t, e, NewFrame("unmount", x))
    <3>1. CASE ListenTo(t)
      BY <3>1, ListenToStack
    <3>2. CASE DropSubscription(t)
      BY <1>1, <3>2, DropSubscriptionStack
    <3> QED
      BY <1>4, <3>1, <3>2
  <2>2. PICK ids : LET e == [Top(t) EXCEPT !.ids = ids]
                   IN  \/ Goto(t, e)
                       \/ \E x : \/ GotoCall(t, e, NewFrame("mount", x))
                                 \/ GotoCall(t, e, NewFrame("unmount", x))
    BY <2>1
  <2>3. PICK e : e = [Top(t) EXCEPT !.ids = ids]
    OBVIOUS
  <2>4. e.at = Top(t).at
    BY <1>1, <2>3 DEF Frame
  <2>5. Under(e)
    BY <1>1, <2>4 DEF Under, Readers, Gets
  <2>6. \A x : Under(NewFrame("mount", x)) /\ Under(NewFrame("unmount", x))
    BY UnderNew DEF Readers, Gets
  <2>7. Onward(t)
    BY <1>1, <1>2, <2>2, <2>3, <2>5, <2>6, OnOps
  <2> QED
    BY <1>1, <1>4, <2>7
<1>5. CASE KeepSubscriptions(t)
  <2>1. PICK c, f : c = Top(t).node /\ f = NewFrame("recompute", c)
    OBVIOUS
  <2>2. dep_subs[c] = <<>>
    BY <1>5, <2>1, TopFrames, <1>1 DEF KeepSubscriptions, At, MountInv, Unsubscribes
  <2>3. Goto(t, f)
    BY <1>5, <2>1, <2>2 DEF KeepSubscriptions
  <2>4. Begun(f)
    BY <2>1, UnderNew
  <2>5. Onward(t)
    BY <1>1, <1>2, <2>3, <2>4, OnOps
  <2>6. Tells(f, c)
    BY <2>1 DEF Tells, NewFrame
  <2>7. Coming(c)'
    <3>1. Depth(t) \in Upper(t) /\ Low((stack')[t], Depth(t)) = f
      BY <1>1, <2>3, GotoUpper
    <3> QED
      BY <2>6, <3>1, TellsNew
  <2> QED
    BY <1>1, <2>1, <2>5, <2>7
<1> QED
  BY <1>3, <1>4, <1>5

(* The store to announce is written back with the value it has.            *)
LEMMA OnWritesBack ==
    ASSUME SingleThread, TypeInv, TypeInv', Frames, NEW t \in Thread, Others(t), WriteBack(t)
    PROVE  Onward(t) /\ UNCHANGED <<val, drains>>
<1>1. /\ Stacks /\ stack[t] # <<>> /\ UNCHANGED drains
      /\ Top(t).at = "write_back" /\ Top(t) \in Frame
  BY TopType DEF WriteBack, At, TypeInv
<1>2. PICK x, v, n : x = Top(t).node /\ v = Top(t).value /\ n = Top(t).n
  OBVIOUS
<1>3. Newest(x, v, n)
  BY <1>1, <1>2, TopFrames DEF Frames, Announces
<1>4. UNCHANGED val
  BY <1>1, <1>2, <1>3 DEF WriteBack, Newest, TypeInv, Stores, Frame
<1>5. PICK f : f = [Top(t) EXCEPT !.at = "enqueue"]
  OBVIOUS
<1>6. f.at = "enqueue" /\ f.node = x /\ f.n = n /\ f.value = v
  BY <1>1, <1>2, <1>5, MovedFields DEF Stage
<1>7. Begun(f)
  BY <1>1, <1>3, <1>4, <1>6 DEF Begun, Newest, drains
<1>8. GoesOn(Top(t), f)
  BY <1>1, <1>2, <1>6 DEF GoesOn, Tells, Drainers
<1>9. Goto(t, f) /\ Top(t).at \notin Gets
  BY <1>1, <1>5 DEF WriteBack, Gets
<1> QED
  BY <1>1, <1>4, <1>7, <1>8, <1>9, OnOps

-----------------------------------------------------------------------------
(* Steps that write, announce and deliver *)

(* A recompute that has read every dependency has what a fresh one reads.  *)
LEMMA ReadAll ==
    ASSUME TypeInv, Frames, NEW t \in Thread, stack[t] # <<>>, Top(t).at = "recompute",
           NEW c \in Derived, Top(t).node = c, Settled(c), Top(t).n = Len(Deps[c])
    PROVE  Top(t).value = Fresh(c)
<1>1. Top(t).value = Prefix(c, Len(Deps[c]))
  BY TopFrames DEF Frames, Current
<1>2. DOMAIN Deps[c] = 1..Len(Deps[c])
  BY Dependencies, LenProperties
<1> QED
  BY <1>1, <1>2 DEF Prefix, Fresh

(* A write brings a recompute to whoever is computed from it. *)
LEMMA LiveWrite ==
    ASSUME SingleThread, TypeInv, TypeInv', AloneInv, LiveInv, NEW t \in Thread, Others(t),
           Write(t)
    PROVE  LiveInv'
<1>0. Frames /\ Queues /\ Caught
  BY DEF LiveInv
<1>1. /\ Stacks /\ stack[t] # <<>> /\ Top(t).at \in {"write", "recompute"}
      /\ Top(t) \in Frame /\ UNCHANGED <<delivered_seq, queue, draining, tables, recomputes>>
      /\ ~KeepSubscriptions(t)
  BY TopType DEF Write, Writes, At, TypeInv, KeepSubscriptions
<1>2. PICK x, v : x = Top(t).node /\ v = Top(t).value
  OBVIOUS
<1>3. x \in Node /\ v \in Value /\ Top(t).at \notin Gets /\ Top(t).at \notin Drainers
  BY <1>1, <1>2 DEF Frame, Gets, Drainers
<1>4. Drains(t)
  BY <1>3 DEF Drains
<1>5. \A c : Settled(c)' <=> Settled(c)
  BY <1>1 DEF Settled, Mounted, tables
<1>6. ASSUME NEW c \in Derived, Tells(Top(t), c), Settled(c)
      PROVE  c = x /\ v = Fresh(c)
  <2>1. c = x /\ Top(t).at = "recompute"
    BY <1>1, <1>2, <1>6 DEF Tells
  <2>2. Top(t).n = Len(Deps[c])
    BY <1>2, <2>1 DEF Write, Writes, At
  <2> QED
    BY <1>0, <1>1, <1>2, <1>6, <2>1, <2>2, ReadAll
<1>7. CASE val[x] = v
  <2>1. Return(t) /\ UNCHANGED <<val, write_seq>>
    BY <1>2, <1>7 DEF Write
  <2>2. UNCHANGED drains
    BY <1>1, <2>1 DEF drains
  <2>3. Lower(t) /\ Upper(t) = {}
    BY <1>1, <2>1, ReturnUpper
  <2>4. Frames'
    BY <1>0, <1>3, <2>3, CalmKept DEF Calm
  <2>5. \A c : Fresh(c)' = Fresh(c)
    BY <2>1 DEF Fresh
  <2>6. Handed(t)
    BY <1>5, <1>6, <1>7, <2>1, <2>5 DEF Handed, UpToDate
  <2>7. Onward(t)
    BY <1>4, <2>3, <2>4, <2>6 DEF Onward
  <2> QED
    BY <1>1, <2>1, <2>2, <2>7, Steady DEF Progress
<1>8. CASE val[x] # v
  <2>1. PICK stage \in {"enqueue", "write_back"} :
          Goto(t, [Top(t) EXCEPT !.at = stage, !.n = write_seq[x] + 1])
    BY <1>2, <1>8 DEF Write
  <2>2. PICK f : f = [Top(t) EXCEPT !.at = stage, !.n = write_seq[x] + 1]
    OBVIOUS
  <2>3. f.at = stage /\ f.node = x /\ f.n = write_seq[x] + 1 /\ f.value = v
    BY <1>1, <1>2, <2>2 DEF Frame
  <2>4. val' = [val EXCEPT ![x] = v] /\ write_seq' = [write_seq EXCEPT ![x] = write_seq[x] + 1]
    BY <1>2, <1>8 DEF Write
  <2>5. /\ \A y \in Node : (val')[y] = IF y = x THEN v ELSE val[y]
        /\ \A y \in Node : (write_seq')[y] = IF y = x THEN write_seq[x] + 1 ELSE write_seq[y]
        /\ \A y \in Node : write_seq[y] \in Nat /\ delivered_seq[y] \in Nat
                           /\ queue[y] \in Seq(Nat)
    BY <2>4 DEF TypeInv, Stores
  <2>6. \A y \in Node : \A i \in DOMAIN queue[y] : queue[y][i] \in Nat
    BY <2>5, ElementOfSeq, LenProperties
  <2>7. Begun(f)
    <3>1. delivered_seq[x] < f.n /\ \A i \in DOMAIN queue[x] : queue[x][i] < f.n
      BY <1>0, <1>3, <2>3, <2>5, <2>6 DEF Queues, InOrder
    <3> QED
      BY <1>1, <1>3, <2>1, <2>3, <2>5, <3>1 DEF Begun
  <2>8. /\ Lower(t) /\ Upper(t) = {Depth(t)} /\ Low((stack')[t], Depth(t)) = f
    BY <1>1, <2>1, <2>2, GotoUpper
  <2>9. Frames'
    <3>1. Depth(t) \in Nat
      BY <1>1, SlotType
    <3>2. Calm(t)
      BY <2>7, <2>8, <3>1 DEF Calm
    <3> QED
      BY <1>0, <1>3, <3>2, CalmKept
  <2>10. Queues'
    <3>1. \A y \in Node : InOrder(y)'
      BY <1>0, <1>1, <2>5, <2>6 DEF Queues, InOrder
    <3>2. \A y \in Node : Drained(y)'
      <4>1. \A y : Stages(y, Drainers) => Stages(y, Drainers)'
        BY <1>3, <2>8, StagesKept
      <4> QED
        BY <1>0, <1>1, <4>1 DEF Queues, Drained
    <3> QED
      BY <3>1, <3>2 DEF Queues
  <2>11. ASSUME NEW c \in Derived, DependsOn(c, x) PROVE Coming(c)'
    <3>1. Tells(f, c)
      BY <2>1, <2>3, <2>11 DEF Tells
    <3> QED
      BY <2>8, <3>1, TellsNew
  <2>12. ASSUME NEW c \in Derived, ~DependsOn(c, x) PROVE Fresh(c)' = Fresh(c)
    <3>1. \A i \in DOMAIN Deps[c] : Deps[c][i] # x
      BY <2>12 DEF DependsOn
    <3>2. \A i \in DOMAIN Deps[c] : Deps[c][i] \in Node
      BY Dependencies, LenProperties
    <3>3. \A i \in DOMAIN Deps[c] : (val')[Deps[c][i]] = val[Deps[c][i]]
      BY <2>5, <3>1, <3>2
    <3> QED
      BY <3>3 DEF Fresh
  <2>13. ASSUME NEW c \in Derived, Settled(c), ~DependsOn(c, x)
         PROVE  UpToDate(c)' \/ Coming(c)'
    <3>0. c \in Node
      BY DEF Node
    <3>1. CASE c = x
      <4>1. Top(t).at = "recompute"
        BY <1>0, <1>1, <1>2, <3>1, TopFrames, GraphAssumption DEF Frames, Starts
      <4>2. v = Fresh(c)
        BY <1>2, <1>6, <2>13, <3>1, <4>1 DEF Tells
      <4> QED
        BY <2>5, <2>12, <2>13, <3>0, <3>1, <4>2 DEF UpToDate
    <3>2. CASE c # x
      <4>1. UpToDate(c) => UpToDate(c)'
        BY <2>5, <2>12, <2>13, <3>0, <3>2 DEF UpToDate
      <4>2. ~Tells(Top(t), c)
        BY <1>6, <2>13, <3>2
      <4>3. Coming(c) => Coming(c)'
        BY <1>1, <2>8, <4>2, ComingKept DEF Progress
      <4> QED
        BY <1>0, <2>13, <4>1, <4>3 DEF Caught
    <3> QED
      BY <3>1, <3>2
  <2>14. Caught'
    BY <1>5, <2>11, <2>13 DEF Caught
  <2> QED
    BY <2>9, <2>10, <2>14 DEF LiveInv
<1> QED
  BY <1>7, <1>8
(* An announcement joins the end of the queue, which somebody drains.      *)
LEMMA LiveEnqueue ==
    ASSUME SingleThread, TypeInv, TypeInv', AloneInv, LiveInv, NEW t \in Thread, Others(t),
           Enqueue(t)
    PROVE  LiveInv'
<1>0. Frames /\ Queues /\ Caught
  BY DEF LiveInv
<1>1. /\ Stacks /\ stack[t] # <<>> /\ Top(t).at = "enqueue"
      /\ Top(t) \in Frame /\ ~KeepSubscriptions(t)
      /\ UNCHANGED <<val, write_seq, delivered_seq, tables>>
  BY TopType DEF Enqueue, At, TypeInv, KeepSubscriptions
<1>2. PICK x, v, n : x = Top(t).node /\ v = Top(t).value /\ n = Top(t).n
  OBVIOUS
<1>3. x \in Node /\ n \in Nat /\ Top(t).at \notin Gets /\ Top(t).at \notin Drainers
  BY <1>1, <1>2 DEF Frame, Gets, Drainers
<1>4. Newest(x, v, n)
  BY <1>0, <1>1, <1>2, TopFrames DEF Frames, Announces
<1>5. /\ queue' = [queue EXCEPT ![x] = Append(queue[x], n)]
      /\ draining' = [draining EXCEPT ![x] = TRUE]
      /\ draining[x] => Return(t)
      /\ ~draining[x] => Goto(t, NewFrame("drain", x))
  BY <1>2 DEF Enqueue
<1>6. /\ \A y \in Node : (queue')[y] = IF y = x THEN Append(queue[x], n) ELSE queue[y]
      /\ \A y \in Node : (draining')[y] = (IF y = x THEN TRUE ELSE draining[y])
      /\ \A y \in Node : write_seq[y] \in Nat /\ delivered_seq[y] \in Nat
                         /\ queue[y] \in Seq(Nat)
  BY <1>5 DEF TypeInv, Stores
<1>7. /\ (queue')[x] # <<>> /\ Len(queue[x]) \in Nat
      /\ DOMAIN queue[x] = 1..Len(queue[x])
      /\ DOMAIN (queue')[x] = 1..(Len(queue[x]) + 1)
      /\ \A i \in 1..Len(queue[x]) : (queue')[x][i] = queue[x][i] /\ queue[x][i] \in Nat
      /\ (queue')[x][Len(queue[x]) + 1] = n
  <2>1. /\ (queue')[x] = Append(queue[x], n) /\ queue[x] \in Seq(Nat)
    BY <1>3, <1>6
  <2>2. Len(queue[x]) \in Nat /\ DOMAIN queue[x] = 1..Len(queue[x])
    BY <2>1, LenProperties
  <2>3. \A i \in 1..Len(queue[x]) : queue[x][i] \in Nat
    BY <2>1, ElementOfSeq
  <2>4. /\ (queue')[x] \in Seq(Nat) /\ (queue')[x] # <<>>
        /\ Len((queue')[x]) = Len(queue[x]) + 1
        /\ \A i \in 1..Len(queue[x]) : (queue')[x][i] = queue[x][i]
        /\ (queue')[x][Len(queue[x]) + 1] = n
    BY <1>3, <2>1, AppendProperties
  <2>5. DOMAIN (queue')[x] = 1..(Len(queue[x]) + 1)
    BY <2>4, LenProperties
  <2> QED
    BY <2>2, <2>3, <2>4, <2>5
<1>8. Lower(t) /\ (~draining[x] => Depth(t) \in Upper(t))
      /\ \A h \in Upper(t) : ~draining[x] /\ Low((stack')[t], h) = NewFrame("drain", x)
  <2>1. CASE draining[x]
    BY <1>1, <1>5, <2>1, ReturnUpper
  <2>2. CASE ~draining[x]
    BY <1>1, <1>5, <2>2, GotoUpper
  <2> QED
    BY <2>1, <2>2
<1>9. NewFrame("drain", x).at = "drain" /\ NewFrame("drain", x).node = x
  BY DEF NewFrame
<1>10. Frames'
  <2>1. Calm(t)
    BY <1>8, <1>9 DEF Calm, Under, Readers, Gets
  <2> QED
    BY <1>0, <1>3, <2>1, CalmKept
<1>11. Queues'
  <2>1. \A y : Stages(y, Drainers) => Stages(y, Drainers)'
    BY <1>3, <1>8, StagesKept
  <2>2. Stages(x, Drainers)'
    <3>1. CASE draining[x]
      BY <1>0, <1>3, <2>1, <3>1 DEF Queues, Drained
    <3>2. CASE ~draining[x]
      BY <1>8, <1>9, <3>2, StagesNew DEF Drainers
    <3> QED
      BY <3>1, <3>2
  <2>3. \A y \in Node : Drained(y)'
    BY <1>0, <1>6, <2>1, <2>2 DEF Queues, Drained
  <2>4. \A y \in Node : y # x => InOrder(y)'
    BY <1>0, <1>1, <1>6 DEF Queues, InOrder
  <2>5. InOrder(x)'
    <3>1. /\ delivered_seq[x] <= write_seq[x] /\ n = write_seq[x] /\ delivered_seq[x] < n
          /\ \A i \in 1..Len(queue[x]) : delivered_seq[x] < queue[x][i] /\ queue[x][i] < n
          /\ \A i, j \in 1..Len(queue[x]) : i < j => queue[x][i] < queue[x][j]
      BY <1>0, <1>3, <1>4, <1>7 DEF Queues, InOrder, Newest
    <3>2. \A i \in 1..(Len(queue[x]) + 1) : i \in 1..Len(queue[x]) \/ i = Len(queue[x]) + 1
      BY <1>7
    <3>3. ASSUME NEW i \in 1..(Len(queue[x]) + 1)
          PROVE  delivered_seq[x] < (queue')[x][i] /\ (queue')[x][i] <= write_seq[x]
      <4>1. CASE i \in 1..Len(queue[x])
        <5>1. (queue')[x][i] = queue[x][i] /\ queue[x][i] \in Nat
          BY <1>7, <4>1
        <5> QED
          BY <1>3, <3>1, <4>1, <5>1
      <4>2. CASE i = Len(queue[x]) + 1
        BY <1>3, <1>7, <3>1, <4>2
      <4> QED
        BY <3>2, <4>1, <4>2
    <3>4. ASSUME NEW i \in 1..(Len(queue[x]) + 1), NEW j \in 1..(Len(queue[x]) + 1), i < j
          PROVE  (queue')[x][i] < (queue')[x][j]
      <4>1. i \in 1..Len(queue[x])
        BY <1>7, <3>4
      <4>2. (queue')[x][i] = queue[x][i]
        BY <1>7, <4>1
      <4>3. CASE j \in 1..Len(queue[x])
        <5>1. (queue')[x][j] = queue[x][j]
          BY <1>7, <4>3
        <5> QED
          BY <3>1, <3>4, <4>1, <4>2, <4>3, <5>1
      <4>4. CASE j = Len(queue[x]) + 1
        BY <1>7, <3>1, <4>1, <4>2, <4>4
      <4> QED
        BY <3>2, <4>3, <4>4
    <3> QED
      BY <1>1, <1>7, <3>1, <3>3, <3>4 DEF InOrder
  <2> QED
    BY <2>3, <2>4, <2>5 DEF Queues
<1>12. ASSUME NEW c \in Derived, Settled(c)' PROVE UpToDate(c)' \/ Coming(c)'
  <2>1. Settled(c)
    BY <1>1, <1>12 DEF Settled, Mounted, tables
  <2>2. CASE DependsOn(c, x)
    BY <1>3, <1>7, <2>2 DEF Coming
  <2>3. CASE ~DependsOn(c, x)
    <3>1. ~Tells(Top(t), c)
      BY <1>1, <1>2, <2>3 DEF Tells
    <3>2. Coming(c) => Coming(c)'
      BY <1>6, <1>8, <2>3, <3>1, ComingKept DEF Progress
    <3>3. UpToDate(c) => UpToDate(c)'
      BY <1>1 DEF UpToDate, Fresh
    <3> QED
      BY <1>0, <2>1, <3>2, <3>3 DEF Caught
  <2> QED
    BY <2>2, <2>3
<1> QED
  BY <1>10, <1>11, <1>12 DEF LiveInv, Caught
(* A queue that is empty is left; the write at its head is delivered to    *)
(* everybody who listens, the settled stores computed from it among them.  *)
LEMMA LiveDrain ==
    ASSUME SingleThread, TypeInv, TypeInv', MountInv, PlaceInv, LiveInv, NEW t \in Thread,
           Others(t), Drain(t)
    PROVE  LiveInv'
<1>0. Frames /\ Queues /\ Caught
  BY DEF LiveInv
<1>1. /\ Stacks /\ stack[t] # <<>> /\ Top(t).at = "drain" /\ Top(t) \in Frame
      /\ UNCHANGED <<val, write_seq, tables>>
  BY TopType DEF Drain, At, TypeInv
<1>2. PICK x : x = Top(t).node
  OBVIOUS
<1>3. x \in Node /\ Top(t).at \notin Gets /\ \A c : ~Tells(Top(t), c)
  BY <1>1, <1>2 DEF Frame, Gets, Tells
<1>4. \A c : Settled(c)' => Settled(c)
  BY <1>1 DEF Settled, Mounted, tables
<1>5. \A c \in Derived : UpToDate(c) => UpToDate(c)'
  BY <1>1 DEF UpToDate, Fresh
<1>6. \A y \in Node : /\ write_seq[y] \in Nat /\ delivered_seq[y] \in Nat
                      /\ queue[y] \in Seq(Nat)
  BY DEF TypeInv, Stores
<1>7. CASE queue[x] = <<>>
  <2>1. /\ draining' = [draining EXCEPT ![x] = FALSE] /\ Return(t)
        /\ UNCHANGED <<queue, delivered_seq>>
    BY <1>2, <1>7 DEF Drain
  <2>2. \A y \in Node : (draining')[y] = (IF y = x THEN FALSE ELSE draining[y])
    BY <2>1 DEF TypeInv, Stores
  <2>3. Lower(t) /\ Upper(t) = {}
    BY <1>1, <2>1, ReturnUpper
  <2>4. Frames'
    BY <1>0, <1>3, <2>3, CalmKept DEF Calm
  <2>5. Queues'
    <3>1. \A y : y # x /\ Stages(y, Drainers) => Stages(y, Drainers)'
      BY <1>2, <2>3, StagesKept
    <3> QED
      BY <1>0, <1>1, <1>7, <2>1, <2>2, <3>1 DEF Queues, InOrder, Drained
  <2>6. \A c \in Derived : Coming(c) => Coming(c)'
    BY <1>3, <2>1, <2>3, ComingKept DEF Progress
  <2> QED
    BY <1>0, <1>4, <1>5, <2>4, <2>5, <2>6 DEF LiveInv, Caught
<1>8. CASE queue[x] # <<>>
  <2>1. PICK q : q = queue[x]
    OBVIOUS
  <2>2. /\ q \in Seq(Nat) /\ q # <<>> /\ Len(q) \in Nat \ {0} /\ DOMAIN q = 1..Len(q)
        /\ Head(q) = q[1] /\ \A i \in 1..Len(q) : q[i] \in Nat
        /\ DOMAIN Tail(q) = 1..(Len(q) - 1)
        /\ \A i \in 1..(Len(q) - 1) : Tail(q)[i] = q[i + 1]
    BY <1>3, <1>6, <1>8, <2>1, HeadTailProperties, LenProperties, ElementOfSeq, EmptySeq
  <2>3. /\ delivered_seq[x] < q[1] /\ \A i \in 1..Len(q) : q[i] <= write_seq[x]
        /\ \A i, j \in 1..Len(q) : i < j => q[i] < q[j]
    <3>1. InOrder(x)
      BY <1>0, <1>3 DEF Queues
    <3>2. /\ \A i \in 1..Len(q) : delivered_seq[x] < q[i] /\ q[i] <= write_seq[x]
          /\ \A i, j \in 1..Len(q) : i < j => q[i] < q[j]
      BY <2>1, <2>2, <3>1 DEF InOrder
    <3>3. 1 \in 1..Len(q)
      BY <2>2
    <3> QED
      BY <3>2, <3>3
  <2>4. ~(Head(q) <= delivered_seq[x])
    BY <1>3, <1>6, <2>2, <2>3
  <2>5. PICK f : f = [Top(t) EXCEPT !.at = "deliver", !.todo = listeners[x]]
    OBVIOUS
  <2>6. f.at = "deliver" /\ f.node = x /\ f.todo = listeners[x]
    BY <1>1, <1>2, <2>5 DEF Frame
  <2>7. /\ queue' = [queue EXCEPT ![x] = Tail(q)] /\ UNCHANGED draining
        /\ delivered_seq' = [delivered_seq EXCEPT ![x] = Head(q)] /\ Goto(t, f)
    BY <1>2, <1>8, <2>1, <2>4, <2>5 DEF Drain
  <2>8. /\ \A y \in Node : (queue')[y] = IF y = x THEN Tail(q) ELSE queue[y]
        /\ \A y \in Node : (delivered_seq')[y] = IF y = x THEN q[1] ELSE delivered_seq[y]
    BY <2>2, <2>7 DEF TypeInv, Stores
  <2>9. Lower(t) /\ Upper(t) = {Depth(t)} /\ Low((stack')[t], Depth(t)) = f
    BY <1>1, <2>7, GotoUpper
  <2>10. Frames'
    <3>1. Calm(t)
      BY <2>6, <2>9 DEF Calm, Under, Readers, Gets
    <3> QED
      BY <1>0, <1>3, <3>1, CalmKept
  <2>11. InOrder(x)'
    <3>1. ASSUME NEW i \in 1..(Len(q) - 1)
          PROVE  /\ i + 1 \in 1..Len(q) /\ 1 \in 1..Len(q) /\ 1 < i + 1
                 /\ Tail(q)[i] = q[i + 1] /\ q[1] < Tail(q)[i] /\ Tail(q)[i] <= write_seq[x]
      <4>1. i + 1 \in 1..Len(q) /\ 1 \in 1..Len(q) /\ 1 < i + 1
        BY <2>2
      <4> QED
        BY <2>2, <2>3, <4>1
    <3>2. ASSUME NEW i \in 1..(Len(q) - 1), NEW j \in 1..(Len(q) - 1), i < j
          PROVE  Tail(q)[i] < Tail(q)[j]
      <4>1. i + 1 < j + 1
        BY <3>2
      <4> QED
        BY <2>3, <3>1, <4>1
    <3>3. q[1] <= write_seq[x]
      BY <2>2, <2>3
    <3>4. (queue')[x] = Tail(q) /\ (delivered_seq')[x] = q[1] /\ (write_seq')[x] = write_seq[x]
      BY <1>1, <1>3, <2>8
    <3> QED
      BY <2>2, <3>1, <3>2, <3>3, <3>4 DEF InOrder
  <2>12. Queues'
    <3>1. \A y : y # x /\ Stages(y, Drainers) => Stages(y, Drainers)'
      BY <1>2, <2>9, StagesKept
    <3>2. Stages(x, Drainers)'
      BY <2>6, <2>9, StagesNew DEF Drainers
    <3>3. \A y \in Node : Drained(y)'
      <4>1. draining[x]
        BY <1>0, <1>3, <1>8 DEF Queues, Drained
      <4> QED
        BY <1>0, <2>7, <2>8, <3>1, <3>2, <4>1 DEF Queues, Drained
    <3>4. \A y \in Node : y # x => InOrder(y)'
      BY <1>0, <1>1, <2>8 DEF Queues, InOrder
    <3> QED
      BY <2>11, <3>3, <3>4 DEF Queues
  <2>13. ASSUME NEW c \in Derived, Settled(c) PROVE UpToDate(c)' \/ Coming(c)'
    <3>1. CASE DependsOn(c, x)
      <4>1. \E l \in listeners[x] : l.to = c
        BY <2>13, <3>1, DepsListened DEF Settled
      <4>2. Tells(f, c)
        BY <2>6, <3>1, <4>1 DEF Tells
      <4> QED
        BY <2>9, <4>2, TellsNew
    <3>2. CASE ~DependsOn(c, x)
      <4>1. Coming(c) => Coming(c)'
        BY <1>3, <2>8, <2>9, <3>2, ComingKept DEF Progress
      <4> QED
        BY <1>0, <1>5, <2>13, <4>1 DEF Caught
    <3> QED
      BY <3>1, <3>2
  <2> QED
    BY <1>4, <2>10, <2>12, <2>13 DEF LiveInv, Caught
<1> QED
  BY <1>7, <1>8

-----------------------------------------------------------------------------
(* Steps that read *)

(* One more dependency read. *)
LEMMA PrefixNext ==
    ASSUME NEW c, NEW m \in Nat
    PROVE  Prefix(c, m + 1) = Merge(Prefix(c, m), val[Deps[c][m + 1]])
<1> DEFINE U(s, k) == UNION {val[Deps[c][i]][s] : i \in 1..k}
<1>1. ASSUME NEW s \in Source PROVE U(s, m + 1) = U(s, m) \union val[Deps[c][m + 1]][s]
  <2>1. \A i : i \in 1..(m + 1) <=> (i \in 1..m \/ i = m + 1)
    OBVIOUS
  <2>2. \A k, z : z \in U(s, k) <=> \E i \in 1..k : z \in val[Deps[c][i]][s]
    OBVIOUS
  <2> HIDE DEF U
  <2>3. \A z : z \in U(s, m + 1) <=> z \in U(s, m) \/ z \in val[Deps[c][m + 1]][s]
    BY <2>1, <2>2
  <2> QED
    BY <2>3
<1> QED
  BY <1>1 DEF Prefix, Merge

(* The frames under those a step changes are the same, *)
LEMMA Beneath ==
    ASSUME Stacks, NEW t \in Thread, stack[t] # <<>>, NEW S, NEW r \in Seq(S),
           StackBecomes(t, r \o Tail(stack[t]))
    PROVE  \A h \in 1..(Depth(t) - 1) : Low((stack')[t], h) = Slot(t, h)
<1>1. PICK rest, T : rest = Tail(stack[t]) /\ T = GoodFrame \union S
  OBVIOUS
<1>2. /\ Depth(t) \in Nat \ {0} /\ Len(rest) = Depth(t) - 1 /\ rest \in Seq(GoodFrame)
      /\ \A h \in 1..(Depth(t) - 1) : Low(rest, h) = Slot(t, h)
  BY <1>1, LowTail DEF Depth, Slot, Stacks
<1>3. rest \in Seq(T) /\ r \in Seq(T)
  BY <1>1, <1>2, SeqMonotonic
<1>4. (stack')[t] = r \o rest
  BY <1>1 DEF Stacks, StackBecomes
<1>5. \A h \in 1..Len(rest) : Low(r \o rest, h) = Low(rest, h)
  BY <1>3, LowConcat
<1> QED
  BY <1>2, <1>4, <1>5

(* but for the value a call returns. *)
LEMMA BeneathValue ==
    ASSUME Stacks, NEW t \in Thread, stack[t] # <<>>, NEW v, ReturnValue(t, v)
    PROVE  \A h \in 1..(Depth(t) - 1) :
             Low((stack')[t], h) =
               IF h = Depth(t) - 1 /\ Slot(t, h).at \in {"recompute", "compute"}
               THEN [Slot(t, h) EXCEPT !.value = Merge(Slot(t, h).value, v)]
               ELSE Slot(t, h)
<1>1. PICK rest, f : rest = Tail(stack[t]) /\ f = Head(rest)
  OBVIOUS
<1>2. /\ Depth(t) \in Nat \ {0} /\ Len(rest) = Depth(t) - 1 /\ rest \in Seq(GoodFrame)
      /\ \A h \in 1..(Depth(t) - 1) : Low(rest, h) = Slot(t, h)
  BY <1>1, LowTail DEF Stacks, Depth, Slot
<1>3. rest # <<>> => /\ f = Slot(t, Depth(t) - 1) /\ Len(rest) \in Nat \ {0}
                     /\ Depth(t) - 1 \in 1..(Depth(t) - 1)
  <2>1. rest # <<>> => Low(rest, Len(rest)) = f /\ Len(rest) \in Nat \ {0}
    BY <1>1, <1>2, LowTail
  <2> QED
    BY <1>2, <2>1
<1>4. CASE rest # <<>> /\ f.at \in {"recompute", "compute"}
  <2>1. PICK g : g = [f EXCEPT !.value = Merge(f.value, v)]
    OBVIOUS
  <2>2. (stack')[t] = <<g>> \o Tail(rest)
    BY <1>1, <1>4, <2>1 DEF ReturnValue, StackBecomes, Stacks
  <2>3. /\ \A h \in 1..(Depth(t) - 2) : Low((stack')[t], h) = Slot(t, h)
        /\ Low((stack')[t], Depth(t) - 1) = g
    <3>1. /\ stack[t] \in Seq(GoodFrame) /\ Tail(stack[t]) # <<>>
          /\ (stack')[t] = <<g>> \o Tail(Tail(stack[t]))
      BY <1>1, <1>4, <2>2 DEF Stacks
    <3>2. PICK s : s = stack[t]
      OBVIOUS
    <3>3. s \in Seq(GoodFrame) /\ s # <<>> /\ Tail(s) # <<>>
      BY <3>1, <3>2
    <3>4. /\ \A h \in 1..(Len(s) - 2) : Low(<<g>> \o Tail(Tail(s)), h) = Low(s, h)
          /\ Low(<<g>> \o Tail(Tail(s)), Len(s) - 1) = g
      BY <3>3, SecondBecomes
    <3> QED
      BY <3>1, <3>2, <3>4 DEF Depth, Slot
  <2>4. ASSUME NEW h \in 1..(Depth(t) - 1), h # Depth(t) - 1
        PROVE  Low((stack')[t], h) = Slot(t, h)
    <3>1. h \in 1..(Depth(t) - 2)
      BY <1>2, <2>4
    <3> QED
      BY <2>3, <3>1
  <2>5. /\ Low((stack')[t], Depth(t) - 1) =
            [Slot(t, Depth(t) - 1) EXCEPT !.value = Merge(Slot(t, Depth(t) - 1).value, v)]
        /\ Slot(t, Depth(t) - 1).at \in {"recompute", "compute"}
    BY <1>3, <1>4, <2>1, <2>3
  <2> QED
    BY <2>4, <2>5
<1>5. CASE ~(rest # <<>> /\ f.at \in {"recompute", "compute"})
  <2>1. (stack')[t] = rest
    BY <1>1, <1>5 DEF ReturnValue, StackBecomes, Stacks
  <2>2. ASSUME NEW h \in 1..(Depth(t) - 1), h = Depth(t) - 1
        PROVE  Slot(t, h).at \notin {"recompute", "compute"}
    <3>1. rest # <<>>
      BY <1>2, <2>2, EmptySeq
    <3> QED
      BY <1>3, <1>5, <2>2, <3>1
  <2>3. \A h \in 1..(Depth(t) - 1) : Low((stack')[t], h) = Slot(t, h)
    BY <1>2, <2>1
  <2> QED
    BY <2>2, <2>3
<1> QED
  BY <1>4, <1>5

(* The frames below a call that reads. *)
LEMMA ReadsKept ==
    ASSUME SingleThread, TypeInv, TypeInv', Frames, NEW t \in Thread, Others(t), Lower(t),
           stack[t] # <<>>, Top(t).at \in Readers, UNCHANGED listeners,
           \A h \in Upper(t) :
             /\ \/ Low((stack')[t], h).at \in Gets
                \/ /\ Low((stack')[t], h).at = "recompute"
                   /\ h = Depth(t) /\ Top(t).at = "recompute"
             /\ Low((stack')[t], h).at = "compute" => ~Mounted(Low((stack')[t], h).node)
    PROVE  GetsOnly' /\ Computes' /\ Starts' /\ Announces'
<1>1. Depth(t) \in Nat /\ \A h \in Slots(t)' : h \in Nat
  BY SlotType DEF TypeInv, Slots
<1>2. ASSUME NEW h \in Slots(t)'
      PROVE  \/ /\ h \in Upper(t) /\ Slot(t, h)' = Low((stack')[t], h) /\ h >= Depth(t)
             \/ h \in Slots(t) /\ h < Depth(t) /\ Alike(Slot(t, h)', Slot(t, h))
  BY OldOrUpper DEF Upper, Slot
<1>3. GetsOnly'
  <2>1. ASSUME NEW h \in Slots(t)', NEW g \in Slots(t)', g > h, Slot(t, h)'.at \in Readers,
               Slot(t, g)'.at \notin Gets
        PROVE  FALSE
    <3>1. CASE g \in Upper(t) /\ Slot(t, g)' = Low((stack')[t], g)
      <4>1. g = Depth(t) /\ Top(t).at = "recompute"
        BY <2>1, <3>1
      <4>2. h \in Slots(t) /\ h < Depth(t) /\ Slot(t, h).at \in Readers
        BY <1>1, <1>2, <2>1, <4>1 DEF Alike
      <4> QED
        BY <4>1, <4>2, TopFrames DEF Gets
    <3>2. CASE g \in Slots(t) /\ g < Depth(t) /\ Alike(Slot(t, g)', Slot(t, g))
      <4>1. h \in Slots(t) /\ Alike(Slot(t, h)', Slot(t, h))
        BY <1>1, <1>2, <2>1, <3>2
      <4> QED
        BY <2>1, <3>2, <4>1 DEF Alike, Frames, GetsOnly
    <3> QED
      BY <1>2, <3>1, <3>2
  <2> QED
    BY <2>1 DEF GetsOnly, SingleThread
<1>4. Computes'
  <2>1. ASSUME NEW h \in Slots(t)', Slot(t, h)'.at = "compute" PROVE ~Mounted(Slot(t, h)'.node)
    BY <1>2, <2>1 DEF Frames, Computes, Alike
  <2> QED
    BY <2>1 DEF Computes, Mounted, SingleThread
<1>5. ASSUME NEW h \in Slots(t)'
      PROVE  Slot(t, h)'.at \notin {"job", "look", "write", "write_back", "enqueue"}
  <2>1. CASE h \in Upper(t) /\ Slot(t, h)' = Low((stack')[t], h)
    BY <2>1 DEF Gets
  <2>2. CASE h \in Slots(t) /\ h < Depth(t) /\ Alike(Slot(t, h)', Slot(t, h))
    BY <2>2, TopFrames DEF Alike
  <2> QED
    BY <1>2, <2>1, <2>2
<1>6. Starts' /\ Announces'
  BY <1>5 DEF Starts, Announces, SingleThread
<1> QED
  BY <1>3, <1>4, <1>6
(* What a recompute below has read it keeps, *)
LEMMA TopNow ==
    ASSUME TypeInv', NEW t \in Thread, Depth(t)' # 0
    PROVE  Top(t)' = Low((stack')[t], Depth(t)')
<1>1. (stack')[t] \in Seq(GoodFrame) /\ (stack')[t] # <<>>
  BY EmptySeq DEF TypeInv, Stacks, Depth
<1> QED
  BY <1>1, LowTail DEF Depth, Top

(* and reading another dependency adds its value. *)
LEMMA OnReadsDependency ==
    ASSUME SingleThread, TypeInv, TypeInv', Frames, NEW t \in Thread, Others(t),
           ReadDependency(t)
    PROVE  Onward(t) /\ UNCHANGED <<val, drains>>
<1>1. /\ Stacks /\ stack[t] # <<>> /\ UNCHANGED <<val, drains, tables>>
      /\ Top(t).at \in {"recompute", "compute"} /\ Top(t) \in Frame /\ Top(t) \in GoodFrame
  BY TopType DEF ReadDependency, Reads, TypeInv
<1>2. PICK c, n, x : c = Top(t).node /\ n = Top(t).n /\ x = Deps[c][n + 1]
  OBVIOUS
<1>3. /\ c \in Derived /\ n \in Nat /\ n + 1 \in 1..Len(Deps[c])
      /\ Top(t).at \in Readers /\ Top(t).at \notin Drainers
  <2>1. c \in Derived /\ n \in Nat /\ n < Len(Deps[c])
    BY <1>1, <1>2 DEF GoodFrame, DerivedStage, Stage, Frame, ReadDependency
  <2>2. Len(Deps[c]) \in Nat
    BY <2>1, Dependencies
  <2> QED
    BY <1>1, <2>1, <2>2 DEF Readers, Gets, Drainers
<1>4. PICK f, g : f = [Top(t) EXCEPT !.n = n + 1] /\ g = NewFrame("get", x)
  OBVIOUS
<1>5. PICK v : v = Merge(f.value, val[x])
  OBVIOUS
<1>6. PICK e : e = [f EXCEPT !.value = v]
  OBVIOUS
<1>7. /\ f \in Frame /\ f.at = Top(t).at /\ f.node = c /\ f.n = n + 1
      /\ f.value = Top(t).value
  BY <1>1, <1>2, <1>3, <1>4 DEF Frame
<1>8. e.at = Top(t).at /\ e.node = c /\ e.n = n + 1 /\ e.value = v
  BY <1>6, <1>7 DEF Frame
<1>9. g.at = "get" /\ g.node = x
  BY <1>4 DEF NewFrame
<1>10. IF x \in Source THEN Goto(t, e) ELSE GotoCall(t, f, g)
  <2>1. f = [Top(t) EXCEPT !.n = Top(t).n + 1] /\ Deps[f.node][f.n] = x
    BY <1>2, <1>4, <1>7
  <2> QED
    BY <1>4, <1>5, <1>6, <2>1 DEF ReadDependency
<1>11. PICK d : d = IF x \in Source THEN e ELSE f
  OBVIOUS
<1>12. /\ Lower(t) /\ Depth(t) \in Upper(t) /\ Low((stack')[t], Depth(t)) = d
       /\ Depth(t) \in Nat \ {0}
       /\ \A h \in Upper(t) : \/ h = Depth(t)
                              \/ h = Depth(t) + 1 /\ Low((stack')[t], h) = g
       /\ Depth(t)' = IF x \in Source THEN Depth(t) ELSE Depth(t) + 1
  <2>0. Depth(t) \in Nat \ {0}
    BY <1>1, LowTail DEF Stacks, Depth
  <2>1. CASE x \in Source
    <3>1. Lower(t) /\ Upper(t) = {Depth(t)} /\ Low((stack')[t], Depth(t)) = e
      BY <1>1, <1>10, <2>1, GotoUpper
    <3>2. <<e>> \in Seq({e}) /\ Len(<<e>>) = 1
      OBVIOUS
    <3>3. Depth(t)' = 1 + Depth(t) - 1
      BY <1>1, <1>10, <2>1, <3>2, TopBecomes DEF Goto, Depth
    <3> QED
      BY <1>11, <2>0, <2>1, <3>1, <3>3
  <2>2. CASE x \notin Source
    <3>1. /\ Lower(t) /\ Upper(t) = {Depth(t), Depth(t) + 1}
          /\ Low((stack')[t], Depth(t)) = f /\ Low((stack')[t], Depth(t) + 1) = g
      BY <1>1, <1>10, <2>2, GotoCallUpper
    <3>2. <<g, f>> \in Seq({f, g}) /\ Len(<<g, f>>) = 2
      OBVIOUS
    <3>3. Depth(t)' = 2 + Depth(t) - 1
      BY <1>1, <1>10, <2>2, <3>2, TopBecomes DEF GotoCall, Depth
    <3> QED
      BY <1>11, <2>0, <2>2, <3>1, <3>3
  <2> QED
    BY <2>1, <2>2
<1>13. d.at = Top(t).at /\ d.node = c /\ d.n = n + 1
  BY <1>7, <1>8, <1>11
<1>14. GetsOnly' /\ Computes' /\ Starts' /\ Announces'
  <2>1. Top(t).at = "compute" => ~Mounted(c)
    BY <1>1, <1>2, TopFrames DEF Frames, Computes
  <2>2. UNCHANGED listeners
    BY <1>1 DEF tables
  <2>3. ASSUME NEW h \in Upper(t)
        PROVE  /\ \/ Low((stack')[t], h).at \in Gets
                  \/ /\ Low((stack')[t], h).at = "recompute"
                     /\ h = Depth(t) /\ Top(t).at = "recompute"
               /\ Low((stack')[t], h).at = "compute" => ~Mounted(Low((stack')[t], h).node)
    BY <1>1, <1>9, <1>12, <1>13, <2>1 DEF Gets
  <2> QED
    BY <1>1, <1>3, <1>12, <2>2, <2>3, ReadsKept
<1>15. Current'
  <2>1. \A b, m : Prefix(b, m)' = Prefix(b, m) /\ Settled(b)' = Settled(b)
    BY <1>1 DEF Prefix, Settled, Mounted, tables
  <2>2. ASSUME NEW h \in Slots(t)', Slot(t, h)'.at = "recompute", Settled(Slot(t, h)'.node)
        PROVE  h = Depth(t) /\ Slot(t, h)' = d /\ Top(t).at = "recompute"
    <3>1. CASE h \in Upper(t)
      BY <1>9, <1>12, <1>13, <2>2, <3>1 DEF Slot
    <3>2. CASE h \in Slots(t) /\ h < Depth(t) /\ Alike(Slot(t, h)', Slot(t, h))
      <4>1. Slot(t, h).at = "recompute" /\ Settled(Slot(t, h).node) /\ h # Depth(t)
        BY <1>12, <2>2, <3>2 DEF Alike
      <4>2. Top(t).at \in {"get", "load"}
        BY <3>2, <4>1 DEF Frames, Current
      <4> QED
        BY <1>1, <4>2
    <3> QED
      BY <1>12, <3>1, <3>2, OldOrUpper
  <2>3. Top(t).at = "recompute" /\ Settled(c) => Top(t).value = Prefix(c, n)
    BY <1>1, <1>2, TopFrames DEF Frames, Current
  <2>4. Top(t).at = "recompute" /\ Settled(c) /\ x \in Source => e.value = Prefix(c, n + 1)
    <3>1. e.value = Merge(Top(t).value, val[Deps[c][n + 1]])
      BY <1>2, <1>5, <1>7, <1>8
    <3>2. Merge(Prefix(c, n), val[Deps[c][n + 1]]) = Prefix(c, n + 1)
      BY <1>3, PrefixNext
    <3> QED
      BY <2>3, <3>1, <3>2
  <2>5. x \notin Source => Top(t)' = g
    <3> SUFFICES ASSUME x \notin Source PROVE Top(t)' = g
      OBVIOUS
    <3>1. Depth(t)' = Depth(t) + 1 /\ Depth(t)' # 0
      BY <1>12
    <3>2. Low((stack')[t], Depth(t) + 1) = g
      BY <1>1, <1>10, GotoCallUpper
    <3> QED
      BY <3>1, <3>2, TopNow
  <2>6. n + 1 - 1 = n
    BY <1>3
  <2>7. ASSUME NEW h \in Slots(t)', Slot(t, h)'.at = "recompute", Settled(Slot(t, h)'.node)
        PROVE  IF h = Depth(t)'
               THEN Slot(t, h)'.value = Prefix(Slot(t, h)'.node, Slot(t, h)'.n)
               ELSE /\ Slot(t, h)'.n \in 1..Len(Deps[Slot(t, h)'.node])
                    /\ Slot(t, h)'.value = Prefix(Slot(t, h)'.node, Slot(t, h)'.n - 1)
                    /\ h = Depth(t)' - 1
                    /\ Top(t)'.at \in {"get", "load"}
                    /\ Top(t)'.node = Deps[Slot(t, h)'.node][Slot(t, h)'.n]
    <3>1. h = Depth(t) /\ Slot(t, h)' = d /\ Top(t).at = "recompute" /\ Settled(c)
      BY <1>13, <2>2, <2>7
    <3>2. CASE x \in Source
      BY <1>11, <1>12, <1>13, <2>4, <3>1, <3>2
    <3>3. CASE x \notin Source
      <4>1. h # Depth(t)' /\ h = Depth(t)' - 1
        BY <1>12, <3>1, <3>3
      <4>2. d.value = Prefix(c, n)
        BY <1>7, <1>11, <2>3, <3>1, <3>3
      <4> QED
        BY <1>2, <1>3, <1>9, <1>13, <2>5, <2>6, <3>1, <3>3, <4>1, <4>2
    <3> QED
      BY <3>2, <3>3
  <2> QED
    BY <2>1, <2>7 DEF Current, SingleThread
<1>16. Handed(t) /\ Drains(t)
  <2>1. GoesOn(Top(t), d)
    BY <1>1, <1>2, <1>3, <1>13 DEF GoesOn, Tells
  <2> QED
    BY <1>1, <1>12, <2>1, GoesOnNew
<1> QED
  BY <1>1, <1>12, <1>14, <1>15, <1>16 DEF Onward, Frames
(* A get made by the recompute of a store with subscriptions loads the     *)
(* value: what that store listens to is mounted,                           *)
LEMMA OnGets ==
    ASSUME SingleThread, TypeInv, TypeInv', MountInv, PlaceInv, Frames, NEW t \in Thread,
           Others(t), Get(t)
    PROVE  Onward(t) /\ UNCHANGED <<val, drains>>
<1>1. /\ Stacks /\ stack[t] # <<>> /\ UNCHANGED <<val, drains, tables>>
      /\ Top(t).at = "get" /\ Top(t) \in Frame
  BY TopType DEF Get, At, TypeInv
<1>2. PICK x, stage : /\ x = Top(t).node
                      /\ stage = IF Mounted(Top(t).node) THEN "load" ELSE "compute"
  OBVIOUS
<1>3. PICK f : f = [Top(t) EXCEPT !.at = stage]
  OBVIOUS
<1>4. f.at = stage /\ f.node = x
  BY <1>1, <1>2, <1>3 DEF Frame
<1>5. Goto(t, f)
  BY <1>2, <1>3 DEF Get
<1>6. /\ Lower(t) /\ Upper(t) = {Depth(t)} /\ Low((stack')[t], Depth(t)) = f
      /\ Depth(t) \in Nat \ {0} /\ Depth(t)' = Depth(t)
  <2>1. <<f>> \in Seq({f}) /\ Len(<<f>>) = 1
    OBVIOUS
  <2>2. Depth(t) \in Nat \ {0} /\ Depth(t)' = 1 + Depth(t) - 1
    BY <1>1, <1>5, <2>1, TopBecomes DEF Goto, Depth
  <2> QED
    BY <1>1, <1>5, <2>2, GotoUpper
<1>7. GetsOnly' /\ Computes' /\ Starts' /\ Announces'
  <2>1. UNCHANGED listeners
    BY <1>1 DEF tables
  <2>2. Top(t).at \in Readers /\ f.at \in Gets /\ (f.at = "compute" => ~Mounted(f.node))
    BY <1>1, <1>2, <1>4 DEF Readers, Gets
  <2> QED
    BY <1>1, <1>6, <2>1, <2>2, ReadsKept
<1>8. Current'
  <2>1. \A b, m : Prefix(b, m)' = Prefix(b, m) /\ Settled(b)' = Settled(b)
    BY <1>1 DEF Prefix, Settled, Mounted, tables
  <2>2. Top(t)' = f
    BY <1>6, TopNow
  <2>3. \A h \in 1..(Depth(t) - 1) : Slot(t, h)' = Slot(t, h)
    <3>1. <<f>> \in Seq({f})
      OBVIOUS
    <3> QED
      BY <1>1, <1>5, <3>1, Beneath DEF Goto, Slot
  <2>4. ASSUME NEW h \in Slots(t)', Slot(t, h)'.at = "recompute", Settled(Slot(t, h)'.node)
        PROVE  /\ h # Depth(t) /\ Slot(t, h)'.n \in 1..Len(Deps[Slot(t, h)'.node])
               /\ Slot(t, h)'.value = Prefix(Slot(t, h)'.node, Slot(t, h)'.n - 1)
               /\ h = Depth(t) - 1
               /\ f.at = "load" /\ f.node = Deps[Slot(t, h)'.node][Slot(t, h)'.n]
    <3>1. h # Depth(t) /\ h \in 1..(Depth(t) - 1) /\ h \in Slots(t)
      <4>1. h # Depth(t)
        BY <1>2, <1>4, <1>6, <2>4 DEF Slot
      <4>2. h \in 1..Depth(t)
        BY <1>6 DEF Slots, Depth
      <4> QED
        BY <1>6, <4>1, <4>2 DEF Slots, Depth
    <3>2. PICK g : g = Slot(t, h)
      OBVIOUS
    <3>3. Slot(t, h)' = g /\ g.at = "recompute" /\ Settled(g.node)
      BY <2>3, <2>4, <3>1, <3>2
    <3>4. /\ g.n \in 1..Len(Deps[g.node]) /\ g.value = Prefix(g.node, g.n - 1)
          /\ h = Depth(t) - 1 /\ x = Deps[g.node][g.n]
      BY <1>2, <3>1, <3>2, <3>3 DEF Frames, Current
    <3>5. Mounted(x)
      <4>1. g.node \in Derived
        BY <3>1, <3>2, <3>3, <1>1, SlotType DEF GoodFrame, DerivedStage, Stage
      <4>2. DependsOn(g.node, x)
        BY <3>4, <4>1, Dependencies, LenProperties DEF DependsOn
      <4> QED
        BY <3>3, <4>1, <4>2, DepsListened DEF Settled
    <3> QED
      BY <1>2, <1>4, <3>1, <3>3, <3>4, <3>5
  <2> QED
    BY <1>6, <2>1, <2>2, <2>4 DEF Current, SingleThread
<1>9. Handed(t) /\ Drains(t)
  BY <1>1, IdleHands DEF Idle, Drainers
<1> QED
  BY <1>1, <1>6, <1>7, <1>8, <1>9 DEF Onward, Frames

(* and the recompute adds it to what it has read.                          *)
LEMMA OnLoads ==
    ASSUME SingleThread, TypeInv, TypeInv', Frames, NEW t \in Thread, Others(t), Load(t)
    PROVE  Onward(t) /\ UNCHANGED <<val, drains>>
<1>1. /\ Stacks /\ stack[t] # <<>> /\ UNCHANGED <<val, drains, tables>>
      /\ Top(t).at = "load" /\ Top(t) \in Frame
  BY TopType DEF Load, At, TypeInv
<1>2. PICK v : v = val[Top(t).node]
  OBVIOUS
<1>3. ReturnValue(t, v)
  BY <1>2 DEF Load
<1>4. Lower(t) /\ Upper(t) = {}
  BY <1>1, <1>3, ReturnValueUpper
<1>5. GetsOnly' /\ Computes' /\ Starts' /\ Announces'
  <2>1. UNCHANGED listeners
    BY <1>1 DEF tables
  <2>2. Top(t).at \in Readers
    BY <1>1 DEF Readers, Gets
  <2> QED
    BY <1>1, <1>4, <2>1, <2>2, ReadsKept
<1>6. Current'
  <2>1. \A b, m : Prefix(b, m)' = Prefix(b, m) /\ Settled(b)' = Settled(b)
    BY <1>1 DEF Prefix, Settled, Mounted, tables
  <2>2. ASSUME NEW h \in Slots(t)', Slot(t, h)'.at = "recompute", Settled(Slot(t, h)'.node)
        PROVE  /\ h = Depth(t)'
               /\ Slot(t, h)'.value = Prefix(Slot(t, h)'.node, Slot(t, h)'.n)
    <3>1. /\ h \in Slots(t) /\ h < Depth(t) /\ Alike(Slot(t, h)', Slot(t, h))
          /\ h \in 1..(Depth(t) - 1) /\ Depth(t) \in Nat
      <4>1. h \in Slots(t) /\ h < Depth(t) /\ Alike(Slot(t, h)', Slot(t, h))
        BY <1>4, OldOrUpper
      <4> QED
        BY <1>1, <4>1, SlotType DEF Slots
    <3>2. PICK g, c, n : g = Slot(t, h) /\ c = g.node /\ n = g.n
      OBVIOUS
    <3>3. /\ g.at = "recompute" /\ Settled(c) /\ Slot(t, h)'.node = c /\ Slot(t, h)'.n = n
          /\ g \in Frame
      BY <1>1, <2>2, <3>1, <3>2, SlotType DEF Alike, GoodFrame
    <3>4. /\ n \in 1..Len(Deps[c]) /\ g.value = Prefix(c, n - 1)
          /\ h = Depth(t) - 1 /\ v = val[Deps[c][n]]
      BY <1>2, <3>1, <3>2, <3>3 DEF Frames, Current
    <3>5. Slot(t, h)' = [g EXCEPT !.value = Merge(g.value, v)]
      <4>1. Low((stack')[t], h) =
              IF h = Depth(t) - 1 /\ Slot(t, h).at \in {"recompute", "compute"}
              THEN [Slot(t, h) EXCEPT !.value = Merge(Slot(t, h).value, v)]
              ELSE Slot(t, h)
        BY <1>1, <1>3, <3>1, BeneathValue
      <4> QED
        BY <3>2, <3>3, <3>4, <4>1 DEF Slot
    <3>6. Slot(t, h)'.value = Merge(Prefix(c, n - 1), val[Deps[c][n]])
      BY <3>3, <3>4, <3>5 DEF Frame
    <3>7. n - 1 \in Nat /\ n - 1 + 1 = n
      BY <3>4
    <3>8. Merge(Prefix(c, n - 1), val[Deps[c][n]]) = Prefix(c, n)
      BY <3>7, PrefixNext
    <3>9. h = Depth(t)'
      <4>1. h <= Depth(t)' /\ Depth(t)' \in Nat
        BY SlotType DEF Slots, TypeInv, Depth
      <4>2. Depth(t)' < Depth(t)
        <5>1. h \in 1..Len((stack')[t]) /\ Depth(t)' = Len((stack')[t])
          BY DEF Slots, Depth
        <5>2. Depth(t)' \in 1..Depth(t)' /\ Depth(t)' \notin Upper(t)
          BY <1>4, <4>1, <5>1
        <5> QED
          BY <3>1, <4>1, <5>1, <5>2 DEF Upper
      <4> QED
        BY <3>1, <3>4, <4>1, <4>2
    <3> QED
      BY <3>3, <3>6, <3>8, <3>9
  <2> QED
    BY <2>1, <2>2 DEF Current, SingleThread
<1>7. Handed(t) /\ Drains(t)
  BY <1>1, IdleHands DEF Idle, Drainers
<1> QED
  BY <1>1, <1>4, <1>5, <1>6, <1>7 DEF Onward, Frames
(* A get that computes changes a store no settled one is computed from.    *)
LEMMA LiveReplace ==
    ASSUME SingleThread, TypeInv, TypeInv', MountInv, PlaceInv, LiveInv, NEW t \in Thread,
           Others(t), ReplaceSilently(t)
    PROVE  LiveInv'
<1>0. Frames /\ Queues /\ Caught
  BY DEF LiveInv
<1>1. /\ Stacks /\ stack[t] # <<>> /\ UNCHANGED <<drains, tables>> /\ UNCHANGED queue
      /\ Top(t).at = "compute" /\ Top(t) \in Frame
  BY TopType DEF ReplaceSilently, At, TypeInv, drains
<1>2. PICK x, v : x = Top(t).node /\ v = Top(t).value
  OBVIOUS
<1>3. x \in Node /\ ~Mounted(x) /\ \A c : ~Tells(Top(t), c)
  <2>1. ~Mounted(x)
    BY <1>0, <1>1, <1>2, TopFrames DEF Frames, Computes
  <2> QED
    BY <1>1, <1>2, <2>1 DEF Frame, Tells
<1>4. val' = [val EXCEPT ![x] = v] /\ ReturnValue(t, v)
  BY <1>2 DEF ReplaceSilently
<1>5. \A y \in Node : y # x => (val')[y] = val[y]
  BY <1>4 DEF TypeInv, Stores
<1>6. \A c : Settled(c)' <=> Settled(c)
  BY <1>1 DEF Settled, Mounted, tables
<1>7. Lower(t) /\ Upper(t) = {}
  BY <1>1, <1>4, ReturnValueUpper
<1>8. GetsOnly' /\ Computes' /\ Starts' /\ Announces'
  <2>1. UNCHANGED listeners
    BY <1>1 DEF tables
  <2>2. Top(t).at \in Readers
    BY <1>1 DEF Readers, Gets
  <2> QED
    BY <1>0, <1>1, <1>7, <2>1, <2>2, ReadsKept
<1>9. Current'
  <2>1. ASSUME NEW h \in Slots(t)', Slot(t, h)'.at = "recompute", Settled(Slot(t, h)'.node)
        PROVE  FALSE
    <3>1. h \in Slots(t) /\ h < Depth(t) /\ Alike(Slot(t, h)', Slot(t, h)) /\ Depth(t) \in Nat
      BY <1>1, <1>7, OldOrUpper, SlotType
    <3>2. Slot(t, h).at = "recompute" /\ Settled(Slot(t, h).node) /\ h # Depth(t)
      BY <2>1, <3>1 DEF Alike, Slots
    <3>3. Top(t).at \in {"get", "load"}
      BY <1>0, <3>1, <3>2 DEF Frames, Current
    <3> QED
      BY <1>1, <3>3
  <2> QED
    BY <1>6, <2>1 DEF Current, SingleThread
<1>10. Queues'
  <2>1. Drains(t)
    BY <1>1, IdleHands DEF Idle, Drainers
  <2> QED
    BY <1>0, <1>1, <1>7, <2>1, QueuesKept
<1>11. ASSUME NEW c \in Derived, Settled(c) PROVE UpToDate(c)' \/ Coming(c)'
  <2>1. c # x /\ ~DependsOn(c, x)
    BY <1>3, <1>11, DepsListened DEF Settled
  <2>2. \A i \in DOMAIN Deps[c] : Deps[c][i] # x /\ Deps[c][i] \in Node
    BY <2>1, Dependencies, LenProperties DEF DependsOn
  <2>3. Fresh(c)' = Fresh(c)
    BY <1>5, <2>2 DEF Fresh
  <2>4. UpToDate(c) => UpToDate(c)'
    <3>1. c \in Node
      BY DEF Node
    <3> QED
      BY <1>5, <2>1, <2>3, <3>1 DEF UpToDate
  <2>5. Coming(c) => Coming(c)'
    BY <1>1, <1>3, <1>7, ComingKept DEF Progress
  <2> QED
    BY <1>0, <1>11, <2>4, <2>5 DEF Caught
<1> QED
  BY <1>6, <1>8, <1>9, <1>10, <1>11 DEF LiveInv, Caught, Frames

-----------------------------------------------------------------------------
(* Every step keeps the invariant. *)
LEMMA LiveStep ==
    ASSUME SingleThread
    PROVE  /\ TypeInv /\ TypeInv' /\ MountInv /\ PlaceInv /\ AloneInv /\ Unfrozen'
           /\ LiveInv /\ [Next]_vars
           => LiveInv'
<1> SUFFICES ASSUME TypeInv, TypeInv', MountInv, PlaceInv, AloneInv, Unfrozen',
                    LiveInv, [Next]_vars
             PROVE  LiveInv'
  OBVIOUS
<1>0. Frames
  BY DEF LiveInv
<1>1. ASSUME NEW t \in Thread, Progress(t) \/ Start(t) PROVE LiveInv'
  <2>1. Others(t)
    BY <1>1, OthersKeep DEF Others, TypeInv
  <2>2. CASE Write(t) \/ Enqueue(t) \/ Drain(t) \/ ReplaceSilently(t)
    BY <2>1, <2>2, LiveWrite, LiveEnqueue, LiveDrain, LiveReplace
  <2>3. CASE \/ Watching(t) \/ Mount(t) \/ ListenTo(t) \/ KeepSubscriptions(t)
             \/ Unmount(t) \/ DropSubscription(t) \/ Unsubscribed(t)
    BY <1>0, <1>1, <2>1, <2>3, OnMounts, Steady
  <2>4. ASSUME Onward(t), UNCHANGED <<val, drains>>, ~KeepSubscriptions(t) PROVE LiveInv'
    BY <1>1, <2>1, <2>4, Steady
  <2>5. CASE Start(t) /\ ~KeepSubscriptions(t)
    BY <1>0, <2>1, <2>4, <2>5, OnStarts
  <2>6. CASE (CallUser(t) \/ UserReturns(t) \/ GuardDropped(t) \/ FlushDeferred(t))
             /\ ~KeepSubscriptions(t)
    BY <1>0, <2>1, <2>4, <2>6, OnNotifies
  <2>7. CASE DependencyChanged(t) /\ ~KeepSubscriptions(t)
    BY <1>0, <2>1, <2>4, <2>7, OnTold
  <2>8. CASE (Schedule(t) \/ FlushJobs(t) \/ JobDone(t)) /\ ~KeepSubscriptions(t)
    BY <1>0, <2>1, <2>4, <2>8, OnSchedules
  <2>9. CASE (Job(t) \/ Look(t)) /\ ~KeepSubscriptions(t)
    BY <1>0, <2>1, <2>4, <2>9, OnJobs
  <2>10. CASE WriteBack(t) /\ ~KeepSubscriptions(t)
    BY <1>0, <2>1, <2>4, <2>10, OnWritesBack
  <2>11. CASE (ReadDependency(t) \/ Get(t) \/ Load(t)) /\ ~KeepSubscriptions(t)
    BY <1>0, <2>1, <2>4, <2>11, OnReadsDependency, OnGets, OnLoads
  <2> QED
    BY <1>1, <2>2, <2>3, <2>5, <2>6, <2>7, <2>8, <2>9, <2>10, <2>11 DEF Progress
<1>2. CASE UNCHANGED vars
  <2>1. UNCHANGED <<stack, val, listeners, dep_subs, write_seq, delivered_seq, queue,
                    draining, deferred, jobs>>
    BY <1>2 DEF vars, tables, drains, recomputes
  <2>2. /\ \A t : Slots(t)' = Slots(t) /\ Depth(t)' = Depth(t) /\ Top(t)' = Top(t)
        /\ \A t, h : Slot(t, h)' = Slot(t, h)
        /\ \A c, S : Stages(c, S)' = Stages(c, S)
        /\ \A c : Settled(c)' = Settled(c) /\ Mounted(c)' = Mounted(c) /\ Way(c)' = Way(c)
    BY <2>1 DEF Slots, Depth, Slot, Top, Stages, Settled, Mounted, Way
  <2>3. \A c : UpToDate(c)' = UpToDate(c) /\ Coming(c)' = Coming(c)
    BY <2>1, <2>2 DEF UpToDate, Fresh, Coming
  <2>4. Caught'
    BY <2>2, <2>3 DEF LiveInv, Caught
  <2>5. Queues'
    BY <2>1, <2>2 DEF LiveInv, Queues, InOrder, Drained
  <2>6. GetsOnly' /\ Computes' /\ Starts'
    BY <2>2 DEF LiveInv, Frames, GetsOnly, Computes, Starts
  <2>7. Current'
    <3>1. \A c, m : Prefix(c, m)' = Prefix(c, m)
      BY <2>1 DEF Prefix
    <3> QED
      BY <2>2, <3>1 DEF LiveInv, Frames, Current
  <2>8. Announces'
    <3>1. \A x, v, n : Newest(x, v, n)' = Newest(x, v, n)
      BY <2>1 DEF Newest
    <3> QED
      BY <2>2, <3>1 DEF LiveInv, Frames, Announces
  <2> QED
    BY <2>4, <2>5, <2>6, <2>7, <2>8 DEF LiveInv, Frames
<1> QED
  BY <1>1, <1>2 DEF Next, Rest

(* It holds when nothing has been called. *)
LEMMA LiveInit == Init => LiveInv
<1> SUFFICES ASSUME Init PROVE LiveInv
  OBVIOUS
<1>1. \A t \in Thread : Slots(t) = {}
  BY DEF Init, Slots
<1>2. Caught
  BY DEF Init, Caught, Settled
<1>3. Frames
  BY <1>1 DEF Frames, GetsOnly, Current, Computes, Starts, Announces
<1>4. Queues
  BY DEF Init, Queues, InOrder, Drained
<1> QED
  BY <1>2, <1>3, <1>4 DEF LiveInv

(* README.md:102 "eager while mounted": in a program with one thread, as a  *)
(* browser runs it, a store somebody listens to is at rest the function of  *)
(* its dependencies, for every graph (cycles and repeated dependencies      *)
(* included) and however listeners set, get, attach, detach and flush.      *)
(* With several threads it need not be: two that compute a store at once    *)
(* may keep the older result.                                               *)
THEOREM LiveForOne ==
    ASSUME SingleThread
    PROVE  Spec => []LiveWhileMounted
<1>0. AttachesAlone
  BY DEF SingleThread, AttachesAlone
<1>1. TypeInv /\ Flushing /\ AloneInv /\ LiveInv => LiveWhileMounted
  <2> SUFFICES ASSUME TypeInv, Flushing, AloneInv, LiveInv, Quiescent, jobs = <<>>,
                      NEW c \in Derived, Mounted(c)
               PROVE  val[c] = Fresh(c)
    BY DEF LiveWhileMounted, AtRest
  <2>1. \A t \in Thread : stack[t] = <<>> /\ Slots(t) = {}
    BY DEF Quiescent, Slots
  <2>2. \A x, S : ~Stages(x, S)
    BY <2>1 DEF Stages
  <2>3. Settled(c)
    BY <2>2 DEF AloneInv, Subscribed, Settled
  <2>4. ~Way(c)
    <3>1. \A S : ~Has(<<>>, S)
      BY DEF Has
    <3>2. \A t \in Thread : deferred[t] = <<>>
      BY <2>1, <3>1 DEF Flushing
    <3> QED
      BY <2>1, <3>1, <3>2 DEF Way
  <2>5. \A x \in Node : queue[x] = <<>>
    BY <2>2 DEF LiveInv, Queues, Drained
  <2>6. ~Coming(c)
    BY <2>1, <2>4, <2>5 DEF Coming
  <2> QED
    BY <2>3, <2>6 DEF LiveInv, Caught, UpToDate
<1>2. Spec => [](TypeInv /\ Flushing /\ Unfrozen /\ MountInv /\ PlaceInv /\ AloneInv)
  BY <1>0, TypeInvInit, TypeInvStep, FlushingInit, FlushingStep, UnfrozenInit, UnfrozenStep,
     MountInvInit, MountInvStep, PlaceInvInit, PlaceInvStep, AloneInit, AloneStep,
     PTL DEF Spec
<1>3. Spec => []LiveInv
  BY <1>2, LiveInit, LiveStep, PTL DEF Spec
<1> QED
  BY <1>1, <1>2, <1>3, PTL
=============================================================================
