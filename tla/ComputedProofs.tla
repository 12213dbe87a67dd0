--------------------------- MODULE ComputedProofs ---------------------------
(***************************************************************************)
(* Theorems about Computed for every graph of stores, every number of      *)
(* threads and every bound.                                                *)
(***************************************************************************)
EXTENDS Computed, SequenceTheorems, TLAPS

(* Frames of the calls a derived store makes, and the calls that walk the  *)
(* list of its dependencies without leaving it.                            *)
DerivedStage == Stage \ {"write", "write_back", "enqueue", "drain", "deliver",
                         "user", "flush", "flush_jobs", "running", "watch"}

Reading == {"job", "look", "recompute", "get", "compute"}
Subscribing == {"mount", "listen", "unsubscribe", "discard"}

Walking(f) ==
    /\ f.at \in Reading => f.n <= Len(Deps[f.node])
    /\ f.at \in Subscribing => Len(f.ids) <= Len(Deps[f.node])

GoodFrame == {f \in Frame : (f.at \in DerivedStage => f.node \in Derived) /\ Walking(f)}

Stacks == stack \in [Thread -> Seq(GoodFrame)]

Subscriptions ==
    /\ dep_subs \in [Derived -> Seq(Nat)]
    /\ \A c \in Derived : Len(dep_subs[c]) <= Len(Deps[c])

Stores ==
    /\ val \in [Node -> Value]
    /\ write_seq \in [Node -> Nat]
    /\ delivered_seq \in [Node -> Nat]
    /\ queue \in [Node -> Seq(Nat)]
    /\ draining \in [Node -> BOOLEAN]

Tables ==
    /\ listeners \in [Node -> SUBSET Listener]
    /\ next_id \in [Node -> Nat]

Jobs ==
    /\ pending \in [Derived -> BOOLEAN]
    /\ deferred \in [Thread -> Seq(Derived)]
    /\ jobs \in Seq(Derived)
    /\ job_lock \in SUBSET Thread
    /\ \A t, u \in job_lock : t = u

Program ==
    /\ held \subseteq Node \X Nat
    /\ sets \in 0..MaxSets
    /\ watches \in 0..MaxWatches

TypeInv == Stacks /\ Subscriptions /\ Stores /\ Tables /\ Jobs /\ Program

-----------------------------------------------------------------------------
(* Frames and stacks *)

LEMMA Dependencies ==
    ASSUME NEW c \in Derived
    PROVE  /\ Deps[c] \in Seq(Node)
           /\ Len(Deps[c]) \in Nat
           /\ \A i \in 1..Len(Deps[c]) : Deps[c][i] \in Node
BY GraphAssumption, ElementOfSeq, LenProperties

LEMMA NewFrameType ==
    ASSUME NEW stage \in Stage, NEW x \in Node,
           stage \in DerivedStage => x \in Derived
    PROVE  NewFrame(stage, x) \in GoodFrame
<1> DEFINE f == NewFrame(stage, x)
<1>1. f.ids = <<>> /\ f.n = 0 /\ f.at = stage /\ f.node = x
  BY DEF NewFrame
<1>2. Nothing \in Value
  BY DEF Nothing, Value
<1>3. f \in Frame
  BY <1>2, EmptySeq DEF NewFrame, Frame
<1>4. Walking(f)
  <2>1. CASE stage \in Reading \union Subscribing
    <3>1. x \in Derived
      BY <2>1 DEF DerivedStage, Stage, Reading, Subscribing
    <3>2. Len(Deps[x]) \in Nat
      BY <3>1, Dependencies
    <3> QED
      BY <1>1, <3>2, EmptySeq DEF Walking
  <2>2. CASE stage \notin Reading \union Subscribing
    BY <1>1, <2>2 DEF Walking
  <2> QED
    BY <2>1, <2>2
<1> QED
  BY <1>1, <1>3, <1>4 DEF GoodFrame

(* A frame that goes on at another stage. *)
LEMMA MoveType ==
    ASSUME NEW f \in GoodFrame, NEW stage \in Stage,
           stage \in DerivedStage => f.node \in Derived,
           stage \in Reading => f.n <= Len(Deps[f.node]),
           stage \in Subscribing => Len(f.ids) <= Len(Deps[f.node])
    PROVE  [f EXCEPT !.at = stage] \in GoodFrame
<1> DEFINE g == [f EXCEPT !.at = stage]
<1>1. f \in Frame
  BY DEF GoodFrame
<1>2. g \in Frame
  BY <1>1 DEF Frame
<1>3. g.at = stage /\ g.node = f.node /\ g.n = f.n /\ g.ids = f.ids
  BY <1>1 DEF Frame
<1>4. Walking(g)
  BY <1>3 DEF Walking
<1> HIDE DEF g
<1>5. g \in GoodFrame
  BY <1>2, <1>3, <1>4 DEF GoodFrame
<1> QED
  BY <1>5 DEF g

(* A frame at a stage that reads no list of dependencies. *)
LEMMA PlainFrame ==
    ASSUME NEW f \in Frame, f.at \notin DerivedStage
    PROVE  f \in GoodFrame
BY DEF GoodFrame, Walking, DerivedStage, Stage, Frame, Reading, Subscribing

(* What a step does to the stack of one thread. *)
LEMMA StackType ==
    ASSUME Stacks, NEW t \in Thread, NEW s \in Seq(GoodFrame), StackBecomes(t, s)
    PROVE  Stacks'
BY DEF Stacks, StackBecomes

LEMMA TopType ==
    ASSUME Stacks, NEW t \in Thread, stack[t] # <<>>
    PROVE  /\ Top(t) \in GoodFrame
           /\ Top(t) \in Frame
           /\ Tail(stack[t]) \in Seq(GoodFrame)
BY HeadTailProperties DEF Stacks, Top, GoodFrame

LEMMA PushType ==
    ASSUME NEW f \in GoodFrame, NEW s \in Seq(GoodFrame)
    PROVE  <<f>> \o s \in Seq(GoodFrame)
BY ConcatProperties

LEMMA CallType ==
    ASSUME Stacks, NEW t \in Thread, NEW f \in GoodFrame, Call(t, f)
    PROVE  Stacks'
<1>1. <<f>> \o stack[t] \in Seq(GoodFrame)
  BY PushType DEF Stacks
<1> QED
  BY <1>1, StackType DEF Call

LEMMA GotoType ==
    ASSUME Stacks, NEW t \in Thread, stack[t] # <<>>, NEW f \in GoodFrame, Goto(t, f)
    PROVE  Stacks'
<1>1. <<f>> \o Tail(stack[t]) \in Seq(GoodFrame)
  BY PushType, TopType
<1> QED
  BY <1>1, StackType DEF Goto

LEMMA GotoCallType ==
    ASSUME Stacks, NEW t \in Thread, stack[t] # <<>>, NEW f \in GoodFrame,
           NEW g \in GoodFrame, GotoCall(t, f, g)
    PROVE  Stacks'
<1>1. <<g, f>> \in Seq(GoodFrame)
  OBVIOUS
<1>2. <<g, f>> \o Tail(stack[t]) \in Seq(GoodFrame)
  BY <1>1, TopType, ConcatProperties
<1> QED
  BY <1>2, StackType DEF GotoCall

LEMMA ReturnType ==
    ASSUME Stacks, NEW t \in Thread, stack[t] # <<>>, Return(t)
    PROVE  Stacks'
BY TopType, StackType DEF Return

LEMMA MergeType ==
    ASSUME NEW v \in Value, NEW w \in Value
    PROVE  Merge(v, w) \in Value
BY DEF Merge, Value

LEMMA ValueType ==
    ASSUME NEW f \in GoodFrame, NEW v \in Value
    PROVE  [f EXCEPT !.value = v] \in GoodFrame
<1> DEFINE g == [f EXCEPT !.value = v]
<1>1. f \in Frame
  BY DEF GoodFrame
<1>2. g \in Frame
  BY <1>1 DEF Frame
<1>3. g.at = f.at /\ g.node = f.node /\ g.n = f.n /\ g.ids = f.ids
  BY <1>1 DEF Frame
<1>4. (f.at \in DerivedStage => f.node \in Derived) /\ Walking(f)
  BY DEF GoodFrame
<1> HIDE DEF g
<1>5. Walking(g)
  BY <1>3, <1>4 DEF Walking
<1>6. g \in GoodFrame
  BY <1>2, <1>3, <1>4, <1>5 DEF GoodFrame
<1> QED
  BY <1>6 DEF g

LEMMA IdsFrame ==
    ASSUME NEW f \in Frame, NEW ids \in Seq(Nat)
    PROVE  LET g == [f EXCEPT !.ids = ids]
           IN  g \in Frame /\ g.at = f.at /\ g.node = f.node /\ g.ids = ids
BY DEF Frame

LEMMA ReturnValueType ==
    ASSUME Stacks, NEW t \in Thread, stack[t] # <<>>, NEW v \in Value,
           ReturnValue(t, v)
    PROVE  Stacks'
<1> DEFINE rest == Tail(stack[t])
           f == Head(rest)
           g == [f EXCEPT !.value = Merge(f.value, v)]
<1>1. rest \in Seq(GoodFrame)
  BY TopType
<1>2. CASE rest # <<>> /\ f.at \in {"recompute", "compute"}
  <2>1. f \in GoodFrame /\ Tail(rest) \in Seq(GoodFrame)
    BY <1>1, <1>2, HeadTailProperties
  <2>2. f.value \in Value
    BY <2>1 DEF GoodFrame, Frame
  <2>3. g \in GoodFrame
    BY <2>1, <2>2, MergeType, ValueType
  <2>4. <<g>> \o Tail(rest) \in Seq(GoodFrame)
    BY <2>1, <2>3, PushType
  <2>5. StackBecomes(t, <<g>> \o Tail(rest))
    BY <1>2 DEF ReturnValue
  <2> QED
    BY <2>4, <2>5, StackType
<1>3. CASE ~(rest # <<>> /\ f.at \in {"recompute", "compute"})
  <2>1. StackBecomes(t, rest)
    BY <1>3 DEF ReturnValue
  <2> QED
    BY <1>1, <2>1, StackType
<1> QED
  BY <1>2, <1>3

LEMMA AddListenerType ==
    ASSUME Stacks, NEW t \in Thread, NEW x \in Node, NEW owner,
           NEW rest \in Seq(GoodFrame), NEW f \in GoodFrame,
           AddListener(t, x, owner, rest, f)
    PROVE  Stacks'
<1>1. CASE x \in Derived /\ ~Mounted(x)
  <2> DEFINE g == NewFrame("mount", x)
  <2>1. g \in GoodFrame
    BY <1>1, NewFrameType DEF Stage
  <2>2. <<g, f>> \in Seq(GoodFrame)
    BY <2>1
  <2>3. <<g, f>> \o rest \in Seq(GoodFrame)
    BY <2>2, ConcatProperties
  <2>4. StackBecomes(t, <<g, f>> \o rest)
    BY <1>1 DEF AddListener
  <2> QED
    BY <2>3, <2>4, StackType
<1>2. CASE ~(x \in Derived /\ ~Mounted(x))
  <2>1. StackBecomes(t, <<f>> \o rest)
    BY <1>2 DEF AddListener
  <2> QED
    BY <2>1, PushType, StackType
<1> QED
  BY <1>1, <1>2

LEMMA RemoveListenerType ==
    ASSUME Stacks, NEW t \in Thread, NEW x \in Node, NEW id,
           NEW rest \in Seq(GoodFrame), RemoveListener(t, x, id, rest)
    PROVE  Stacks'
<1> DEFINE g == NewFrame("unmount", x)
<1>1. x \in Derived => <<g>> \o rest \in Seq(GoodFrame)
  BY NewFrameType, PushType DEF Stage
<1>2. <<>> \o rest = rest
  BY ConcatEmptySeq
<1>3. \/ x \in Derived /\ StackBecomes(t, <<g>> \o rest)
      \/ StackBecomes(t, <<>> \o rest)
  BY DEF RemoveListener
<1> QED
  BY <1>1, <1>2, <1>3, StackType

-----------------------------------------------------------------------------
(* Every step keeps the stacks well typed. *)

LEMMA StoreFrames ==
    ASSUME TypeInv, NEW t \in Thread,
           \/ \E s \in Source : Set(t, s)
           \/ Write(t) \/ WriteBack(t) \/ Enqueue(t) \/ Drain(t)
    PROVE  Stacks'
<1> USE DEF TypeInv
<1>1. ASSUME NEW s \in Source, Set(t, s) PROVE Stacks'
  <2> DEFINE f == [NewFrame("write", s) EXCEPT !.value = Version(s, sets + 1)]
  <2>1. s \in Node /\ "write" \in Stage /\ "write" \notin DerivedStage
    BY DEF Node, Stage, DerivedStage
  <2>2. NewFrame("write", s) \in Frame
    BY <2>1, NewFrameType DEF GoodFrame
  <2>3. Version(s, sets + 1) \in Value
    BY <1>1, LimitAssumption DEF Program, Set, Version, Nothing, Value
  <2>4. f \in Frame /\ f.at = "write"
    BY <2>2, <2>3 DEF Frame, NewFrame
  <2>5. f \in GoodFrame
    BY <2>1, <2>4, PlainFrame
  <2>6. Call(t, f)
    BY <1>1 DEF Set
  <2> QED
    BY <2>5, <2>6, CallType
<1>2. CASE Write(t)
  <2> DEFINE f == Top(t)
             g == [f EXCEPT !.at = IF f.node \in InPlace THEN "enqueue" ELSE "write_back",
                            !.n = write_seq[f.node] + 1]
  <2>1. stack[t] # <<>>
    BY <1>2 DEF Write, Writes, At
  <2>2. f \in Frame
    BY <2>1, TopType
  <2>3. write_seq[f.node] + 1 \in Nat
    BY <2>2 DEF Stores, Frame
  <2>4. g \in Frame
    BY <2>2, <2>3 DEF Frame, Stage
  <2>5. g.at \in {"enqueue", "write_back"}
    BY <2>2 DEF Frame
  <2>6. g \in GoodFrame
    BY <2>4, <2>5, PlainFrame DEF DerivedStage
  <2>7. Return(t) \/ Goto(t, g)
    BY <1>2 DEF Write
  <2> QED
    BY <2>1, <2>6, <2>7, GotoType, ReturnType
<1>3. CASE WriteBack(t)
  <2>1. stack[t] # <<>>
    BY <1>3 DEF WriteBack, At
  <2>2. [Top(t) EXCEPT !.at = "enqueue"] \in GoodFrame
    BY <2>1, TopType, MoveType DEF Stage, DerivedStage, Reading, Subscribing
  <2> QED
    BY <1>3, <2>1, <2>2, GotoType DEF WriteBack
<1>4. CASE Enqueue(t)
  <2>1. stack[t] # <<>>
    BY <1>4 DEF Enqueue, At
  <2>2. Top(t).node \in Node
    BY <2>1, TopType DEF Frame
  <2>3. NewFrame("drain", Top(t).node) \in GoodFrame
    BY <2>2, NewFrameType DEF Stage, DerivedStage
  <2>4. Return(t) \/ Goto(t, NewFrame("drain", Top(t).node))
    BY <1>4 DEF Enqueue
  <2> QED
    BY <2>1, <2>3, <2>4, GotoType, ReturnType
<1>5. CASE Drain(t)
  <2> DEFINE g == [Top(t) EXCEPT !.at = "deliver", !.todo = listeners[Top(t).node]]
  <2>1. stack[t] # <<>>
    BY <1>5 DEF Drain, At
  <2>2. Top(t) \in Frame
    BY <2>1, TopType
  <2>3. listeners[Top(t).node] \in SUBSET Listener
    BY <2>2 DEF Tables, Frame
  <2>4. g \in Frame /\ g.at = "deliver"
    BY <2>2, <2>3 DEF Frame, Stage
  <2>5. g \in GoodFrame
    BY <2>4, PlainFrame DEF DerivedStage
  <2>6. Return(t) \/ UNCHANGED stack \/ Goto(t, g)
    BY <1>5 DEF Drain
  <2>7. UNCHANGED stack => Stacks'
    BY DEF Stacks
  <2> QED
    BY <2>1, <2>5, <2>6, <2>7, GotoType, ReturnType
<1> QED
  BY <1>1, <1>2, <1>3, <1>4, <1>5

LEMMA NotifyingFrames ==
    ASSUME TypeInv, NEW t \in Thread,
           \/ CallUser(t) \/ UserReturns(t) \/ DependencyChanged(t)
           \/ GuardDropped(t) \/ FlushDeferred(t)
    PROVE  Stacks'
<1> USE DEF TypeInv
<1>0. ASSUME At(t, "deliver"), NEW l \in Top(t).todo
      PROVE  /\ stack[t] # <<>> /\ l \in Listener
             /\ Called(t, l) \in GoodFrame
             /\ [Called(t, l) EXCEPT !.at = "user"] \in GoodFrame
  <2> DEFINE f == Top(t)
             g == [f EXCEPT !.todo = f.todo \ {l}]
             h == [g EXCEPT !.at = "user"]
  <2>1. stack[t] # <<>> /\ f.at = "deliver"
    BY <1>0 DEF At
  <2>2. f \in Frame
    BY <2>1, TopType
  <2>3. l \in Listener
    BY <1>0, <2>2 DEF Frame
  <2>4. g \in Frame /\ g.at = "deliver"
    BY <2>1, <2>2 DEF Frame
  <2>5. h \in Frame /\ h.at = "user"
    BY <2>4 DEF Frame, Stage
  <2>6. g \in GoodFrame /\ h \in GoodFrame
    BY <2>4, <2>5, PlainFrame DEF DerivedStage
  <2> QED
    BY <2>1, <2>3, <2>6 DEF Called
<1>1. CASE CallUser(t)
  <2>1. At(t, "deliver")
    BY <1>1 DEF CallUser
  <2>2. PICK l \in Top(t).todo : Goto(t, [Called(t, l) EXCEPT !.at = "user"])
    BY <1>1 DEF CallUser
  <2> QED
    BY <1>0, <2>1, <2>2, GotoType
<1>2. CASE UserReturns(t)
  <2>1. stack[t] # <<>>
    BY <1>2 DEF UserReturns, At
  <2>2. [Top(t) EXCEPT !.at = "deliver"] \in GoodFrame
    BY <2>1, TopType, MoveType DEF Stage, DerivedStage, Reading, Subscribing
  <2> QED
    BY <1>2, <2>1, <2>2, GotoType DEF UserReturns
<1>3. CASE DependencyChanged(t)
  <2> DEFINE g(l) == NewFrame("schedule", l.to)
  <2>1. At(t, "deliver")
    BY <1>3 DEF DependencyChanged
  <2>2. PICK l \in Top(t).todo :
           l.to # User /\ (Goto(t, Called(t, l)) \/ GotoCall(t, Called(t, l), g(l)))
    BY <1>3 DEF DependencyChanged
  <2>3. l.to \in Derived
    BY <1>0, <2>1, <2>2 DEF Listener
  <2>4. g(l) \in GoodFrame
    BY <2>3, NewFrameType DEF Stage, Node
  <2> QED
    BY <1>0, <2>1, <2>2, <2>4, GotoType, GotoCallType
<1>4. CASE GuardDropped(t)
  <2>1. stack[t] # <<>>
    BY <1>4 DEF GuardDropped, At
  <2>2. PICK stage \in {"flush", "drain"} : Goto(t, [Top(t) EXCEPT !.at = stage])
    BY <1>4 DEF GuardDropped
  <2>3. [Top(t) EXCEPT !.at = stage] \in GoodFrame
    BY <2>1, <2>2, TopType, MoveType DEF Stage, DerivedStage, Reading, Subscribing
  <2> QED
    BY <2>1, <2>2, <2>3, GotoType
<1>5. CASE FlushDeferred(t)
  <2> DEFINE g == NewFrame("job", Head(deferred[t]))
  <2>1. stack[t] # <<>>
    BY <1>5 DEF FlushDeferred, At
  <2>2. [Top(t) EXCEPT !.at = "drain"] \in GoodFrame
    BY <2>1, TopType, MoveType DEF Stage, DerivedStage, Reading, Subscribing
  <2>3. \/ Goto(t, [Top(t) EXCEPT !.at = "drain"])
        \/ deferred[t] # <<>> /\ Call(t, g)
    BY <1>5 DEF FlushDeferred
  <2>4. deferred[t] # <<>> => g \in GoodFrame
    <3> SUFFICES ASSUME deferred[t] # <<>> PROVE g \in GoodFrame
      OBVIOUS
    <3>1. Head(deferred[t]) \in Derived
      BY HeadTailProperties DEF Jobs
    <3> QED
      BY <3>1, NewFrameType DEF Stage, Node
  <2> QED
    BY <2>1, <2>2, <2>3, <2>4, GotoType, CallType
<1> QED
  BY <1>1, <1>2, <1>3, <1>4, <1>5

LEMMA SchedulerFrames ==
    ASSUME TypeInv, NEW t \in Thread,
           Schedule(t) \/ Flush(t) \/ FlushJobs(t) \/ JobDone(t)
    PROVE  Stacks'
<1> USE DEF TypeInv
<1>0. ASSUME stack[t] # <<>>, NEW stage \in {"flush_jobs", "running"}
      PROVE  [Top(t) EXCEPT !.at = stage] \in GoodFrame
  BY <1>0, TopType, MoveType DEF Stage, DerivedStage, Reading, Subscribing
<1>1. CASE Schedule(t)
  <2>1. stack[t] # <<>>
    BY <1>1 DEF Schedule, At
  <2>2. Return(t) \/ Goto(t, [Top(t) EXCEPT !.at = "flush_jobs"])
    BY <1>1 DEF Schedule
  <2> QED
    BY <1>0, <2>1, <2>2, GotoType, ReturnType
<1>2. CASE Flush(t)
  <2> DEFINE x == CHOOSE x \in Node : TRUE
  <2>1. x \in Node
    BY GraphAssumption DEF Node
  <2>2. NewFrame("flush_jobs", x) \in GoodFrame
    BY <2>1, NewFrameType DEF Stage, DerivedStage
  <2> QED
    BY <1>2, <2>2, CallType DEF Flush
<1>3. CASE FlushJobs(t)
  <2> DEFINE g == NewFrame("job", Head(jobs))
  <2>1. stack[t] # <<>>
    BY <1>3 DEF FlushJobs, At
  <2>2. \/ Return(t)
        \/ jobs # <<>> /\ GotoCall(t, [Top(t) EXCEPT !.at = "running"], g)
    BY <1>3 DEF FlushJobs
  <2>3. jobs # <<>> => g \in GoodFrame
    <3> SUFFICES ASSUME jobs # <<>> PROVE g \in GoodFrame
      OBVIOUS
    <3>1. Head(jobs) \in Derived
      BY HeadTailProperties DEF Jobs
    <3> QED
      BY <3>1, NewFrameType DEF Stage, Node
  <2> QED
    BY <1>0, <2>1, <2>2, <2>3, GotoCallType, ReturnType
<1>4. CASE JobDone(t)
  <2>1. stack[t] # <<>>
    BY <1>4 DEF JobDone, At
  <2> QED
    BY <1>0, <1>4, <2>1, GotoType DEF JobDone
<1> QED
  BY <1>1, <1>2, <1>3, <1>4

LEMMA RecomputeFrames ==
    ASSUME TypeInv, NEW t \in Thread,
           \/ Job(t) \/ Look(t) \/ ReadDependency(t) \/ Get(t) \/ Load(t)
           \/ ReplaceSilently(t)
           \/ \E c \in Derived : GetCall(t, c)
    PROVE  Stacks'
<1> USE DEF TypeInv
<1>0. ASSUME stack[t] # <<>>, Top(t).at \in DerivedStage
      PROVE  Top(t).node \in Derived
  BY <1>0, TopType DEF GoodFrame
<1>1. CASE Job(t) \/ Look(t)
  <2>1. /\ stack[t] # <<>> /\ Top(t).at \in {"job", "look"}
        /\ \/ Return(t)
           \/ \E stage \in {"look", "recompute"} : Goto(t, [Top(t) EXCEPT !.at = stage])
    BY <1>1 DEF Job, Look, At
  <2>2. /\ Top(t) \in GoodFrame
        /\ Top(t).node \in Derived
        /\ Top(t).n <= Len(Deps[Top(t).node])
    BY <1>0, <2>1, TopType DEF GoodFrame, Walking, Reading, DerivedStage, Stage
  <2>3. \A stage \in {"look", "recompute"} : [Top(t) EXCEPT !.at = stage] \in GoodFrame
    BY <2>2, MoveType DEF Stage, Subscribing
  <2> QED
    BY <2>1, <2>3, GotoType, ReturnType
<1>2. CASE ReadDependency(t)
  <2> DEFINE f == Top(t)
             g == [f EXCEPT !.n = f.n + 1]
             d == Deps[g.node][g.n]
             h == [g EXCEPT !.value = Merge(g.value, val[d])]
  <2>1. /\ stack[t] # <<>> /\ f.at \in {"recompute", "compute"}
        /\ f.n < Len(Deps[f.node])
    BY <1>2 DEF ReadDependency, Reads
  <2>2. f \in Frame /\ f.node \in Derived /\ f.n \in Nat
    BY <1>0, <2>1, TopType DEF DerivedStage, Stage, Frame
  <2>3. g \in Frame /\ g.at = f.at /\ g.node = f.node /\ g.n = f.n + 1
    BY <2>2 DEF Frame
  <2>4. Len(Deps[f.node]) \in Nat
    BY <2>2, Dependencies
  <2>5. g.n \in 1..Len(Deps[g.node])
    BY <2>1, <2>2, <2>3, <2>4
  <2>6. d \in Node
    BY <2>2, <2>3, <2>5, Dependencies
  <2>7. Walking(g)
    BY <2>1, <2>3, <2>5 DEF Walking, Subscribing
  <2> HIDE DEF g
  <2>8. g \in GoodFrame
    BY <2>2, <2>3, <2>7 DEF GoodFrame
  <2>9. g.value \in Value /\ val[d] \in Value
    BY <2>3, <2>6 DEF Frame, Stores
  <2>10. h \in GoodFrame
    BY <2>8, <2>9, MergeType, ValueType
  <2>11. d \notin Source => NewFrame("get", d) \in GoodFrame
    BY <2>6, NewFrameType DEF Stage, Node
  <2>12. \/ Goto(t, h)
         \/ d \notin Source /\ GotoCall(t, g, NewFrame("get", d))
    BY <1>2 DEF ReadDependency, g
  <2> HIDE DEF h, d
  <2> QED
    BY <2>1, <2>8, <2>10, <2>11, <2>12, GotoType, GotoCallType
<1>3. CASE Get(t)
  <2>1. /\ stack[t] # <<>> /\ Top(t).at = "get"
        /\ \E stage \in {"load", "compute"} : Goto(t, [Top(t) EXCEPT !.at = stage])
    BY <1>3 DEF Get, At
  <2>2. /\ Top(t) \in GoodFrame
        /\ Top(t).node \in Derived
        /\ Top(t).n <= Len(Deps[Top(t).node])
    BY <1>0, <2>1, TopType DEF GoodFrame, Walking, Reading, DerivedStage, Stage
  <2>3. \A stage \in {"load", "compute"} : [Top(t) EXCEPT !.at = stage] \in GoodFrame
    BY <2>2, MoveType DEF Stage, Subscribing
  <2> QED
    BY <2>1, <2>3, GotoType
<1>4. CASE Load(t)
  <2>1. stack[t] # <<>>
    BY <1>4 DEF Load, At
  <2>2. val[Top(t).node] \in Value
    BY <2>1, TopType DEF Stores, Frame
  <2> QED
    BY <1>4, <2>1, <2>2, ReturnValueType DEF Load
<1>5. CASE ReplaceSilently(t)
  <2>1. stack[t] # <<>>
    BY <1>5 DEF ReplaceSilently, At
  <2>2. Top(t).value \in Value
    BY <2>1, TopType DEF Frame
  <2> QED
    BY <1>5, <2>1, <2>2, ReturnValueType DEF ReplaceSilently
<1>6. ASSUME NEW c \in Derived, GetCall(t, c) PROVE Stacks'
  <2>1. NewFrame("get", c) \in GoodFrame
    BY NewFrameType DEF Stage, Node
  <2> QED
    BY <1>6, <2>1, CallType DEF GetCall
<1> QED
  BY <1>1, <1>2, <1>3, <1>4, <1>5, <1>6

LEMMA ListeningFrames ==
    ASSUME TypeInv, NEW t \in Thread,
           \/ \E x \in Watched : Watch(t, x) \/ Unwatch(t, x)
           \/ Watching(t) \/ ListenTo(t) \/ DropSubscription(t)
    PROVE  Stacks'
<1> USE DEF TypeInv
<1>1. ASSUME NEW x \in Watched, Watch(t, x) PROVE Stacks'
  <2> DEFINE f == [NewFrame("watch", x) EXCEPT !.n = next_id[x]]
  <2>1. x \in Node /\ next_id[x] \in Nat
    BY GraphAssumption DEF Tables
  <2>2. NewFrame("watch", x) \in Frame
    BY <2>1, NewFrameType DEF Stage, DerivedStage, GoodFrame
  <2>3. f \in Frame /\ f.at = "watch"
    BY <2>1, <2>2 DEF Frame, NewFrame
  <2>4. f \in GoodFrame
    BY <2>3, PlainFrame DEF DerivedStage
  <2>5. stack[t] \in Seq(GoodFrame)
    BY DEF Stacks
  <2>6. AddListener(t, x, User, stack[t], f)
    BY <1>1 DEF Watch
  <2> HIDE DEF f
  <2> QED
    BY <2>1, <2>4, <2>5, <2>6, AddListenerType
<1>2. ASSUME NEW x \in Watched, Unwatch(t, x) PROVE Stacks'
  <2>1. x \in Node
    BY GraphAssumption
  <2>2. PICK id : RemoveListener(t, x, id, stack[t])
    BY <1>2 DEF Unwatch
  <2>3. stack[t] \in Seq(GoodFrame)
    BY DEF Stacks
  <2> QED
    BY <2>1, <2>2, <2>3, RemoveListenerType
<1>3. CASE Watching(t)
  <2>1. stack[t] # <<>>
    BY <1>3 DEF Watching, At
  <2> QED
    BY <1>3, <2>1, ReturnType DEF Watching
<1>4. CASE ListenTo(t)
  <2> DEFINE f == Top(t)
             c == f.node
             d == Deps[c][Len(f.ids) + 1]
             g == [f EXCEPT !.ids = Append(f.ids, next_id[d])]
  <2>1. stack[t] # <<>> /\ f.at = "listen" /\ Len(f.ids) < Len(Deps[c])
    BY <1>4 DEF ListenTo, At
  <2>2. f \in Frame /\ c \in Derived /\ f.ids \in Seq(Nat)
    BY <2>1, TopType DEF GoodFrame, DerivedStage, Stage, Frame
  <2>3. Len(f.ids) \in Nat /\ Len(Deps[c]) \in Nat
    BY <2>2, Dependencies, LenProperties
  <2>4. d \in Node
    BY <2>1, <2>2, <2>3, Dependencies
  <2>5. /\ Append(f.ids, next_id[d]) \in Seq(Nat)
        /\ Len(Append(f.ids, next_id[d])) = Len(f.ids) + 1
    BY <2>2, <2>4, AppendProperties DEF Tables
  <2> DEFINE ids == Append(f.ids, next_id[d])
  <2> HIDE DEF ids
  <2>6. ids \in Seq(Nat) /\ Len(ids) <= Len(Deps[c])
    BY <2>1, <2>3, <2>5 DEF ids
  <2>7. g = [f EXCEPT !.ids = ids]
    BY DEF ids
  <2>8. /\ g \in Frame /\ g.at = "listen" /\ g.node = c
        /\ Len(g.ids) <= Len(Deps[c])
    BY <2>1, <2>2, <2>6, <2>7, IdsFrame
  <2>9. AddListener(t, d, c, Tail(stack[t]), g)
    BY <1>4 DEF ListenTo
  <2> HIDE DEF g
  <2>10. g \in GoodFrame
    BY <2>2, <2>8 DEF GoodFrame, Walking, Reading
  <2> QED
    BY <2>1, <2>4, <2>9, <2>10, TopType, AddListenerType
<1>5. CASE DropSubscription(t)
  <2> DEFINE f == Top(t)
             g == [f EXCEPT !.ids = Tail(f.ids)]
             d == Deps[f.node][Len(Deps[f.node]) - Len(f.ids) + 1]
  <2>1. /\ stack[t] # <<>> /\ f.at \in {"unsubscribe", "discard"} /\ f.ids # <<>>
    BY <1>5 DEF DropSubscription
  <2>2. /\ f \in Frame /\ f.node \in Derived /\ f.ids \in Seq(Nat)
        /\ Len(f.ids) <= Len(Deps[f.node])
    BY <2>1, TopType DEF GoodFrame, Walking, Subscribing, DerivedStage, Stage, Frame
  <2>3. Len(f.ids) \in Nat \ {0} /\ Len(Deps[f.node]) \in Nat
    BY <2>1, <2>2, Dependencies, LenProperties, EmptySeq
  <2>4. Len(Deps[f.node]) - Len(f.ids) + 1 \in 1..Len(Deps[f.node])
    <3>1. \A k \in Nat \ {0}, m \in Nat : k <= m => m - k + 1 \in 1..m
      OBVIOUS
    <3> QED
      BY <2>2, <2>3, <3>1
  <2>5. d \in Node
    BY <2>2, <2>4, Dependencies
  <2>6. Tail(f.ids) \in Seq(Nat) /\ Len(Tail(f.ids)) = Len(f.ids) - 1
    BY <2>1, <2>2, HeadTailProperties
  <2> DEFINE ids == Tail(f.ids)
  <2> HIDE DEF ids
  <2>7. ids \in Seq(Nat) /\ Len(ids) <= Len(Deps[f.node])
    BY <2>2, <2>3, <2>6 DEF ids
  <2>8. g = [f EXCEPT !.ids = ids]
    BY DEF ids
  <2>9. /\ g \in Frame /\ g.at = f.at /\ g.node = f.node
        /\ Len(g.ids) <= Len(Deps[g.node])
    BY <2>2, <2>7, <2>8, IdsFrame
  <2>10. RemoveListener(t, d, Head(f.ids), <<g>> \o Tail(stack[t]))
    BY <1>5 DEF DropSubscription
  <2> HIDE DEF g
  <2>11. g \in GoodFrame
    BY <2>1, <2>2, <2>9 DEF GoodFrame, Walking, Reading
  <2>12. <<g>> \o Tail(stack[t]) \in Seq(GoodFrame)
    BY <2>1, <2>11, TopType, PushType
  <2> QED
    BY <2>5, <2>10, <2>12, RemoveListenerType
<1> QED
  BY <1>1, <1>2, <1>3, <1>4, <1>5

LEMMA MountFrames ==
    ASSUME TypeInv, NEW t \in Thread,
           Mount(t) \/ KeepSubscriptions(t) \/ Unmount(t) \/ Unsubscribed(t)
    PROVE  Stacks'
<1> USE DEF TypeInv
<1>1. stack[t] # <<>> /\ Top(t).at \in {"mount", "listen", "unmount", "unsubscribe", "discard"}
  BY DEF Mount, KeepSubscriptions, Unmount, Unsubscribed, At
<1>2. Top(t) \in GoodFrame /\ Top(t) \in Frame /\ Top(t).node \in Derived
  BY <1>1, TopType DEF GoodFrame, DerivedStage, Stage
<1>3. dep_subs[Top(t).node] \in Seq(Nat) /\ Len(dep_subs[Top(t).node]) <= Len(Deps[Top(t).node])
  BY <1>2 DEF Subscriptions
<1>4. CASE Mount(t)
  <2>1. Top(t).at = "mount" /\ (Return(t) \/ Goto(t, [Top(t) EXCEPT !.at = "listen"]))
    BY <1>4 DEF Mount, At
  <2>2. Len(Top(t).ids) <= Len(Deps[Top(t).node])
    BY <1>2, <2>1 DEF GoodFrame, Walking, Subscribing
  <2>3. [Top(t) EXCEPT !.at = "listen"] \in GoodFrame
    BY <1>2, <2>2, MoveType DEF Stage, Reading
  <2> QED
    BY <1>1, <2>1, <2>3, GotoType, ReturnType
<1>5. CASE KeepSubscriptions(t)
  <2> DEFINE c == Top(t).node
             f == NewFrame("recompute", c)
             g == [NewFrame("discard", c) EXCEPT !.ids = dep_subs[c]]
  <2>1. c \in Node
    BY <1>2 DEF Node
  <2>2. f \in GoodFrame
    BY <1>2, <2>1, NewFrameType DEF Stage
  <2>3. NewFrame("discard", c) \in Frame
    BY <1>2, <2>1, NewFrameType DEF Stage, GoodFrame
  <2>4. g \in Frame /\ g.at = "discard" /\ g.node = c /\ g.ids = dep_subs[c]
    BY <1>3, <2>3 DEF Frame, NewFrame
  <2>5. Goto(t, f) \/ GotoCall(t, f, g)
    BY <1>5 DEF KeepSubscriptions
  <2> HIDE DEF f, g
  <2>6. g \in GoodFrame
    BY <1>2, <1>3, <2>4 DEF GoodFrame, Walking, Reading
  <2> QED
    BY <1>1, <2>2, <2>5, <2>6, GotoType, GotoCallType
<1>6. CASE Unmount(t)
  <2> DEFINE f == Top(t)
             g == [f EXCEPT !.at = "unsubscribe", !.ids = dep_subs[f.node]]
  <2>1. g \in Frame /\ g.at = "unsubscribe" /\ g.node = f.node /\ g.ids = dep_subs[f.node]
    BY <1>2, <1>3 DEF Frame, Stage
  <2>2. Goto(t, g)
    BY <1>6 DEF Unmount
  <2> HIDE DEF g
  <2>3. g \in GoodFrame
    BY <1>2, <1>3, <2>1 DEF GoodFrame, Walking, Reading
  <2> QED
    BY <1>1, <2>2, <2>3, GotoType
<1>7. CASE Unsubscribed(t)
  BY <1>1, <1>7, ReturnType DEF Unsubscribed
<1> QED
  BY <1>4, <1>5, <1>6, <1>7

LEMMA StacksStep ==
    ASSUME TypeInv, NEW t \in Thread, Progress(t) \/ Start(t)
    PROVE  Stacks'
BY StoreFrames, NotifyingFrames, SchedulerFrames, RecomputeFrames, ListeningFrames,
   MountFrames DEF Progress, Start

-----------------------------------------------------------------------------
(* Which steps change which part of the state. *)

LEMMA WhoSubscribes ==
    ASSUME NEW t \in Thread, Progress(t) \/ Start(t)
    PROVE  KeepSubscriptions(t) \/ Unmount(t) \/ UNCHANGED dep_subs
<1>1. CASE Progress(t)
  BY <1>1 DEF Progress, Write, WriteBack, Enqueue, Drain, CallUser, UserReturns,
     DependencyChanged, GuardDropped, FlushDeferred, Schedule, FlushJobs, JobDone,
     Job, Look, ReadDependency, Get, Load, ReplaceSilently, Watching, Mount,
     ListenTo, DropSubscription, Unsubscribed, tables
<1>2. CASE Start(t)
  BY <1>2 DEF Start, Set, Watch, Unwatch, GetCall, Flush, tables
<1> QED
  BY <1>1, <1>2

LEMMA WhoStores ==
    ASSUME NEW t \in Thread, Progress(t) \/ Start(t)
    PROVE  \/ Write(t) \/ WriteBack(t) \/ Enqueue(t) \/ Drain(t) \/ ReplaceSilently(t)
           \/ UNCHANGED <<val, drains>>
<1>1. CASE Progress(t)
  BY <1>1 DEF Progress, CallUser, UserReturns, DependencyChanged, GuardDropped,
     FlushDeferred, Schedule, FlushJobs, JobDone, Job, Look, ReadDependency, Get,
     Load, Watching, Mount, ListenTo, KeepSubscriptions, Unmount,
     DropSubscription, Unsubscribed
<1>2. CASE Start(t)
  BY <1>2 DEF Start, Set, Watch, Unwatch, GetCall, Flush
<1> QED
  BY <1>1, <1>2

LEMMA WhoListens ==
    ASSUME NEW t \in Thread, Progress(t) \/ Start(t)
    PROVE  \/ \E x \in Watched : Watch(t, x) \/ Unwatch(t, x)
           \/ ListenTo(t) \/ DropSubscription(t)
           \/ UNCHANGED <<listeners, next_id>>
<1>1. CASE Progress(t)
  BY <1>1 DEF Progress, Write, WriteBack, Enqueue, Drain, CallUser, UserReturns,
     DependencyChanged, GuardDropped, FlushDeferred, Schedule, FlushJobs, JobDone,
     Job, Look, ReadDependency, Get, Load, ReplaceSilently, Watching, Mount,
     KeepSubscriptions, Unmount, Unsubscribed, tables
<1>2. CASE Start(t)
  BY <1>2 DEF Start, Set, GetCall, Flush, tables
<1> QED
  BY <1>1, <1>2

LEMMA WhoSchedules ==
    ASSUME NEW t \in Thread, Progress(t) \/ Start(t)
    PROVE  \/ DependencyChanged(t) \/ FlushDeferred(t) \/ Schedule(t) \/ FlushJobs(t)
           \/ JobDone(t) \/ Job(t) \/ Unsubscribed(t)
           \/ UNCHANGED recomputes
<1>1. CASE Progress(t)
  BY <1>1 DEF Progress, Write, WriteBack, Enqueue, Drain, CallUser, UserReturns,
     GuardDropped, Look, ReadDependency, Get, Load, ReplaceSilently, Watching,
     Mount, ListenTo, KeepSubscriptions, Unmount, DropSubscription
<1>2. CASE Start(t)
  BY <1>2 DEF Start, Set, Watch, Unwatch, GetCall, Flush
<1> QED
  BY <1>1, <1>2

LEMMA WhoHolds ==
    ASSUME NEW t \in Thread, Progress(t) \/ Start(t)
    PROVE  \/ \E s \in Source : Set(t, s)
           \/ \E x \in Watched : Watch(t, x) \/ Unwatch(t, x)
           \/ Watching(t)
           \/ UNCHANGED program
<1>1. CASE Progress(t)
  BY <1>1 DEF Progress, Write, WriteBack, Enqueue, Drain, CallUser, UserReturns,
     DependencyChanged, GuardDropped, FlushDeferred, Schedule, FlushJobs, JobDone,
     Job, Look, ReadDependency, Get, Load, ReplaceSilently, Mount, ListenTo,
     KeepSubscriptions, Unmount, DropSubscription, Unsubscribed
<1>2. CASE Start(t)
  BY <1>2 DEF Start, GetCall, Flush
<1> QED
  BY <1>1, <1>2

-----------------------------------------------------------------------------
(* Type correctness *)

LEMMA SubscriptionsStep ==
    ASSUME TypeInv, NEW t \in Thread, Progress(t) \/ Start(t)
    PROVE  Subscriptions'
<1> USE DEF TypeInv
<1>1. CASE KeepSubscriptions(t)
  <2>1. stack[t] # <<>> /\ Top(t).at = "listen" /\ Len(Top(t).ids) = Len(Deps[Top(t).node])
    BY <1>1 DEF KeepSubscriptions, At
  <2>2. Top(t).node \in Derived /\ Top(t).ids \in Seq(Nat) /\ Len(Top(t).ids) \in Nat
    BY <2>1, TopType, LenProperties DEF GoodFrame, Frame, DerivedStage, Stage
  <2>3. dep_subs' = [dep_subs EXCEPT ![Top(t).node] = Top(t).ids]
    BY <1>1 DEF KeepSubscriptions
  <2> QED
    BY <2>1, <2>2, <2>3 DEF Subscriptions
<1>2. CASE Unmount(t)
  <2>1. dep_subs' = [dep_subs EXCEPT ![Top(t).node] = <<>>]
    BY <1>2 DEF Unmount
  <2>2. <<>> \in Seq(Nat) /\ \A c \in Derived : Len(<<>>) <= Len(Deps[c])
    BY EmptySeq, Dependencies
  <2> QED
    BY <2>1, <2>2 DEF Subscriptions
<1>3. CASE UNCHANGED dep_subs
  BY <1>3 DEF Subscriptions
<1> QED
  BY <1>1, <1>2, <1>3, WhoSubscribes

LEMMA StoresStep ==
    ASSUME TypeInv, NEW t \in Thread, Progress(t) \/ Start(t)
    PROVE  Stores'
<1> DEFINE f == Top(t)
           x == f.node
<1> USE DEF TypeInv
<1>0. ASSUME stack[t] # <<>>
      PROVE  f.value \in Value /\ x \in Node /\ f.n \in Nat
  BY <1>0, TopType DEF Frame
<1> HIDE DEF f
<1>1. CASE Write(t)
  <2>1. f.value \in Value /\ x \in Node
    BY <1>0, <1>1 DEF Write, Writes, At
  <2>2. \/ UNCHANGED <<val, write_seq>>
        \/ /\ val' = [val EXCEPT ![x] = f.value]
           /\ write_seq' = [write_seq EXCEPT ![x] = @ + 1]
    BY <1>1 DEF Write, f
  <2>3. UNCHANGED <<delivered_seq, queue, draining>>
    BY <1>1 DEF Write
  <2>4. val' \in [Node -> Value]
    BY <2>1, <2>2 DEF Stores
  <2>5. write_seq' \in [Node -> Nat]
    <3>1. write_seq[x] + 1 \in Nat
      BY <2>1 DEF Stores
    <3>2. write_seq' = write_seq \/ write_seq' = [write_seq EXCEPT ![x] = write_seq[x] + 1]
      BY <2>2
    <3> QED
      BY <3>1, <3>2 DEF Stores
  <2> QED
    BY <2>3, <2>4, <2>5 DEF Stores
<1>2. CASE WriteBack(t) \/ ReplaceSilently(t)
  <2>1. f.value \in Value /\ x \in Node
    BY <1>0, <1>2 DEF WriteBack, ReplaceSilently, At
  <2>2. val' = [val EXCEPT ![x] = f.value] /\ UNCHANGED drains
    BY <1>2 DEF WriteBack, ReplaceSilently, f
  <2> QED
    BY <2>1, <2>2 DEF Stores, drains
<1>3. CASE Enqueue(t)
  <2>1. x \in Node /\ f.n \in Nat
    BY <1>0, <1>3 DEF Enqueue, At
  <2>2. /\ queue' = [queue EXCEPT ![x] = Append(@, f.n)]
        /\ draining' = [draining EXCEPT ![x] = TRUE]
        /\ UNCHANGED <<val, write_seq, delivered_seq>>
    BY <1>3 DEF Enqueue, f
  <2>3. Append(queue[x], f.n) \in Seq(Nat)
    BY <2>1, AppendProperties DEF Stores
  <2>4. queue' \in [Node -> Seq(Nat)]
    BY <2>1, <2>2, <2>3 DEF Stores
  <2>5. draining' \in [Node -> BOOLEAN]
    BY <2>2 DEF Stores
  <2> QED
    BY <2>2, <2>4, <2>5 DEF Stores
<1>4. CASE Drain(t)
  <2>1. x \in Node
    BY <1>0, <1>4 DEF Drain, At
  <2>2. UNCHANGED <<val, write_seq>>
    BY <1>4 DEF Drain
  <2>3. CASE queue[x] = <<>>
    <3>1. draining' = [draining EXCEPT ![x] = FALSE] /\ UNCHANGED <<queue, delivered_seq>>
      BY <1>4, <2>3 DEF Drain, f
    <3> QED
      BY <2>2, <3>1 DEF Stores
  <2>4. CASE queue[x] # <<>>
    <3>1. /\ queue' = [queue EXCEPT ![x] = Tail(@)]
          /\ \/ UNCHANGED delivered_seq
             \/ delivered_seq' = [delivered_seq EXCEPT ![x] = Head(queue[x])]
          /\ UNCHANGED draining
      BY <1>4, <2>4 DEF Drain, f
    <3>2. Head(queue[x]) \in Nat /\ Tail(queue[x]) \in Seq(Nat)
      BY <2>1, <2>4, HeadTailProperties DEF Stores
    <3> QED
      BY <2>1, <2>2, <3>1, <3>2 DEF Stores
  <2> QED
    BY <2>3, <2>4
<1>5. CASE UNCHANGED <<val, drains>>
  BY <1>5 DEF Stores, drains
<1> QED
  BY <1>1, <1>2, <1>3, <1>4, <1>5, WhoStores

LEMMA TablesStep ==
    ASSUME TypeInv, NEW t \in Thread, Progress(t) \/ Start(t)
    PROVE  Tables'
<1> USE DEF TypeInv
<1>1. ASSUME NEW x, NEW owner \in Derived \union {User},
             listeners' = [listeners EXCEPT ![x] = @ \union {[id |-> next_id[x], to |-> owner]}],
             next_id' = [next_id EXCEPT ![x] = @ + 1]
      PROVE  Tables'
  <2> DEFINE l == [id |-> next_id[x], to |-> owner]
  <2>1. x \in Node => l \in Listener
    BY DEF Tables, Listener
  <2> HIDE DEF l
  <2>2. listeners' = [listeners EXCEPT ![x] = @ \union {l}]
    BY <1>1 DEF l
  <2>3. listeners' \in [Node -> SUBSET Listener]
    BY <2>1, <2>2 DEF Tables
  <2>4. next_id' \in [Node -> Nat]
    <3>1. CASE x \in Node
      BY <1>1, <3>1 DEF Tables
    <3>2. CASE x \notin Node
      BY <1>1, <3>2 DEF Tables
    <3> QED
      BY <3>1, <3>2
  <2> QED
    BY <2>3, <2>4 DEF Tables
<1>2. ASSUME NEW x, NEW id,
             listeners' = [listeners EXCEPT ![x] = {l \in @ : l.id # id}],
             UNCHANGED next_id
      PROVE  Tables'
  BY <1>2 DEF Tables
<1>3. ASSUME NEW x \in Watched, Watch(t, x) PROVE Tables'
  <2>1. /\ listeners' = [listeners EXCEPT ![x] = @ \union {[id |-> next_id[x], to |-> User]}]
        /\ next_id' = [next_id EXCEPT ![x] = @ + 1]
    BY <1>3 DEF Watch, AddListener
  <2> QED
    BY <1>1, <2>1
<1>4. ASSUME NEW x \in Watched, Unwatch(t, x) PROVE Tables'
  <2>1. PICK w \in held : /\ listeners' = [listeners EXCEPT ![x] = {l \in @ : l.id # w[2]}]
                          /\ UNCHANGED next_id
    BY <1>4 DEF Unwatch, RemoveListener
  <2> QED
    BY <1>2, <2>1
<1>5. CASE ListenTo(t)
  <2>1. Top(t).node \in Derived
    BY <1>5, TopType DEF ListenTo, At, GoodFrame, DerivedStage, Stage
  <2> DEFINE d == Deps[Top(t).node][Len(Top(t).ids) + 1]
  <2> HIDE DEF d
  <2>2. /\ listeners' = [listeners EXCEPT ![d] = @ \union {[id |-> next_id[d], to |-> Top(t).node]}]
        /\ next_id' = [next_id EXCEPT ![d] = @ + 1]
    BY <1>5 DEF ListenTo, AddListener, d
  <2> QED
    BY <1>1, <2>1, <2>2
<1>6. CASE DropSubscription(t)
  <2>1. PICK x, id : /\ listeners' = [listeners EXCEPT ![x] = {l \in @ : l.id # id}]
                     /\ UNCHANGED next_id
    BY <1>6 DEF DropSubscription, RemoveListener
  <2> QED
    BY <1>2, <2>1
<1>7. CASE UNCHANGED <<listeners, next_id>>
  BY <1>7 DEF Tables
<1> QED
  BY <1>3, <1>4, <1>5, <1>6, <1>7, WhoListens

LEMMA JobsStep ==
    ASSUME TypeInv, NEW t \in Thread, Progress(t) \/ Start(t)
    PROVE  Jobs'
<1> USE DEF TypeInv
<1>1. CASE DependencyChanged(t)
  <2>1. stack[t] # <<>>
    BY <1>1 DEF DependencyChanged, At
  <2>2. PICK l \in Top(t).todo :
          /\ l.to # User
          /\ pending' = [pending EXCEPT ![l.to] = TRUE]
          /\ \/ UNCHANGED deferred
             \/ deferred' = [deferred EXCEPT ![t] = Append(@, l.to)]
    BY <1>1 DEF DependencyChanged
  <2>3. l.to \in Derived
    BY <2>1, <2>2, TopType DEF Frame, Listener
  <2>4. Append(deferred[t], l.to) \in Seq(Derived)
    BY <2>3, AppendProperties DEF Jobs
  <2>5. UNCHANGED <<jobs, job_lock>>
    BY <1>1 DEF DependencyChanged
  <2> QED
    BY <2>2, <2>3, <2>4, <2>5 DEF Jobs
<1>2. CASE FlushDeferred(t)
  <2>1. \/ UNCHANGED deferred
        \/ deferred[t] # <<>> /\ deferred' = [deferred EXCEPT ![t] = Tail(@)]
    BY <1>2 DEF FlushDeferred
  <2>2. deferred[t] # <<>> => Tail(deferred[t]) \in Seq(Derived)
    BY HeadTailProperties DEF Jobs
  <2>3. UNCHANGED <<pending, jobs, job_lock>>
    BY <1>2 DEF FlushDeferred
  <2> QED
    BY <2>1, <2>2, <2>3 DEF Jobs
<1>3. CASE Schedule(t)
  <2>1. stack[t] # <<>> /\ Top(t).at = "schedule"
    BY <1>3 DEF Schedule, At
  <2>2. Top(t).node \in Derived
    BY <2>1, TopType DEF GoodFrame, DerivedStage, Stage
  <2>3. Append(jobs, Top(t).node) \in Seq(Derived)
    BY <2>2, AppendProperties DEF Jobs
  <2>4. jobs' = Append(jobs, Top(t).node) /\ UNCHANGED <<pending, deferred, job_lock>>
    BY <1>3 DEF Schedule
  <2> QED
    BY <2>3, <2>4 DEF Jobs
<1>4. CASE FlushJobs(t)
  <2>1. \/ UNCHANGED <<jobs, job_lock>>
        \/ jobs # <<>> /\ jobs' = Tail(jobs) /\ job_lock' = {t}
    BY <1>4 DEF FlushJobs
  <2>2. jobs # <<>> => Tail(jobs) \in Seq(Derived)
    BY HeadTailProperties DEF Jobs
  <2>3. UNCHANGED <<pending, deferred>>
    BY <1>4 DEF FlushJobs
  <2> QED
    BY <2>1, <2>2, <2>3 DEF Jobs
<1>5. CASE JobDone(t)
  BY <1>5 DEF JobDone, Jobs
<1>6. CASE Job(t) \/ Unsubscribed(t)
  <2>1. \/ UNCHANGED pending
        \/ pending' = [pending EXCEPT ![Top(t).node] = FALSE]
    BY <1>6 DEF Job, Unsubscribed
  <2>2. UNCHANGED <<deferred, jobs, job_lock>>
    BY <1>6 DEF Job, Unsubscribed
  <2> QED
    BY <2>1, <2>2 DEF Jobs
<1>7. CASE UNCHANGED recomputes
  BY <1>7 DEF recomputes, Jobs
<1> QED
  BY <1>1, <1>2, <1>3, <1>4, <1>5, <1>6, <1>7, WhoSchedules

LEMMA ProgramStep ==
    ASSUME TypeInv, NEW t \in Thread, Progress(t) \/ Start(t)
    PROVE  Program'
<1> USE DEF TypeInv
<1>1. ASSUME NEW s \in Source, Set(t, s) PROVE Program'
  BY <1>1, LimitAssumption DEF Set, Program
<1>2. ASSUME NEW x \in Watched, Watch(t, x) PROVE Program'
  BY <1>2, LimitAssumption DEF Watch, Program
<1>3. ASSUME NEW x \in Watched, Unwatch(t, x) PROVE Program'
  BY <1>3 DEF Unwatch, Program
<1>4. CASE Watching(t)
  <2>1. stack[t] # <<>>
    BY <1>4 DEF Watching, At
  <2>2. <<Top(t).node, Top(t).n>> \in Node \X Nat
    BY <2>1, TopType DEF Frame
  <2>3. held' = held \union {<<Top(t).node, Top(t).n>>} /\ UNCHANGED <<sets, watches>>
    BY <1>4 DEF Watching
  <2> QED
    BY <2>2, <2>3 DEF Program
<1>5. CASE UNCHANGED program
  BY <1>5 DEF program, Program
<1> QED
  BY <1>1, <1>2, <1>3, <1>4, <1>5, WhoHolds

LEMMA TypeInvInit == Init => TypeInv
<1> SUFFICES ASSUME Init PROVE TypeInv
  OBVIOUS
<1>1. 0 \in 0..MaxSets /\ 0 \in 0..MaxWatches
  BY LimitAssumption
<1>2. val \in [Node -> Value]
  BY <1>1 DEF Init, Value
<1>3. \A c \in Derived : Len(<<>>) <= Len(Deps[c])
  BY Dependencies, EmptySeq
<1>4. Stacks /\ Subscriptions
  BY <1>3, EmptySeq DEF Init, Stacks, Subscriptions
<1>5. Stores /\ Tables /\ Jobs /\ Program
  BY <1>1, <1>2, EmptySeq DEF Init, Stores, Tables, Jobs, Program
<1> QED
  BY <1>4, <1>5 DEF TypeInv

LEMMA TypeInvStep == TypeInv /\ [Next]_vars => TypeInv'
<1> SUFFICES ASSUME TypeInv, [Next]_vars PROVE TypeInv'
  OBVIOUS
<1>1. ASSUME NEW t \in Thread, Progress(t) \/ Start(t) PROVE TypeInv'
  BY <1>1, StacksStep, SubscriptionsStep, StoresStep, TablesStep, JobsStep,
     ProgramStep DEF TypeInv
<1>2. CASE UNCHANGED vars
  BY <1>2 DEF TypeInv, Stacks, Subscriptions, Stores, Tables, Jobs, Program, vars,
     drains, tables, recomputes, program
<1> QED
  BY <1>1, <1>2 DEF Next, Rest

THEOREM AlwaysTypeInv == Spec => []TypeInv
BY TypeInvInit, TypeInvStep, PTL DEF Spec

(* No frame has read, subscribed or has left to drop more than its store   *)
(* has dependencies.                                                       *)
FramesWalk == \A t \in Thread : \A i \in DOMAIN stack[t] : Walking(stack[t][i])

(* Every store, table, queue and frame is well formed, at most one thread  *)
(* holds the lock of the job queue while a job runs, and no frame walks    *)
(* past the end of its store's dependencies.                               *)
THEOREM TypeCorrect == Spec => [](TypeOK /\ FramesWalk)
<1>1. TypeInv => TypeOK
  <2> SUFFICES ASSUME TypeInv PROVE TypeOK
    OBVIOUS
  <2>1. ASSUME NEW t \in Thread PROVE stack[t] \in Seq(Frame)
    <3>1. stack[t] \in Seq(GoodFrame)
      BY DEF TypeInv, Stacks
    <3> QED
      BY <3>1, SeqMonotonic DEF GoodFrame
  <2>2. stack \in [Thread -> Seq(Frame)]
    BY <2>1 DEF TypeInv, Stacks
  <2> QED
    BY <2>2 DEF TypeInv, TypeOK, Subscriptions, Stores, Tables, Jobs, Program
<1>2. TypeInv => FramesWalk
  <2> SUFFICES ASSUME TypeInv, NEW t \in Thread, NEW i \in DOMAIN stack[t]
               PROVE  Walking(stack[t][i])
    BY DEF FramesWalk
  <2>1. stack[t] \in Seq(GoodFrame)
    BY DEF TypeInv, Stacks
  <2>2. i \in 1..Len(stack[t])
    BY <2>1, LenProperties
  <2>3. stack[t][i] \in GoodFrame
    BY <2>1, <2>2, ElementOfSeq
  <2> QED
    BY <2>3 DEF GoodFrame
<1> QED
  BY <1>1, <1>2, AlwaysTypeInv, PTL

-----------------------------------------------------------------------------
(* What a step leaves on a stack or in a queue *)

(* An element of s is in F. *)
Has(s, F) == \E i \in DOMAIN s : s[i] \in F

LEMMA HasTail ==
    ASSUME NEW S, NEW s \in Seq(S), s # <<>>, NEW F, Has(s, F)
    PROVE  Head(s) \in F \/ Has(Tail(s), F)
<1>1. PICK i \in 1..Len(s) : s[i] \in F
  BY LenProperties DEF Has
<1>2. /\ Tail(s) \in Seq(S) /\ Len(Tail(s)) = Len(s) - 1 /\ Head(s) = s[1]
      /\ \A j \in 1..Len(Tail(s)) : Tail(s)[j] = s[j + 1]
  BY HeadTailProperties
<1>3. CASE i = 1
  BY <1>1, <1>2, <1>3
<1>4. CASE i # 1
  <2>1. i - 1 \in 1..Len(Tail(s)) /\ i - 1 + 1 = i
    BY <1>1, <1>2, <1>4, LenProperties
  <2>2. Tail(s)[i - 1] \in F
    BY <1>1, <1>2, <2>1
  <2>3. i - 1 \in DOMAIN Tail(s)
    BY <1>2, <2>1, LenProperties
  <2> QED
    BY <2>2, <2>3 DEF Has
<1> QED
  BY <1>3, <1>4

LEMMA HasAppend ==
    ASSUME NEW S, NEW s \in Seq(S), NEW e \in S, NEW F, Has(s, F) \/ e \in F
    PROVE  Has(Append(s, e), F)
<1>1. /\ Append(s, e) \in Seq(S) /\ Len(Append(s, e)) = Len(s) + 1
      /\ \A j \in 1..Len(s) : Append(s, e)[j] = s[j]
      /\ Append(s, e)[Len(s) + 1] = e
  BY AppendProperties
<1>2. /\ Len(s) \in Nat /\ DOMAIN s = 1..Len(s)
      /\ DOMAIN Append(s, e) = 1..(Len(s) + 1)
  BY <1>1, LenProperties
<1>3. CASE Has(s, F)
  BY <1>1, <1>2, <1>3 DEF Has
<1>4. CASE e \in F
  <2>1. Len(s) + 1 \in DOMAIN Append(s, e)
    BY <1>2
  <2> QED
    BY <1>1, <1>4, <2>1 DEF Has
<1> QED
  BY <1>3, <1>4

LEMMA HasConcat ==
    ASSUME NEW S, NEW r \in Seq(S), NEW s \in Seq(S), NEW F, Has(r, F) \/ Has(s, F)
    PROVE  Has(r \o s, F)
<1>1. /\ r \o s \in Seq(S) /\ Len(r \o s) = Len(r) + Len(s)
      /\ \A j \in 1..(Len(r) + Len(s)) :
           (r \o s)[j] = IF j <= Len(r) THEN r[j] ELSE s[j - Len(r)]
  BY ConcatProperties
<1>2. /\ Len(r) \in Nat /\ DOMAIN r = 1..Len(r)
      /\ Len(s) \in Nat /\ DOMAIN s = 1..Len(s)
      /\ DOMAIN (r \o s) = 1..(Len(r) + Len(s))
  BY <1>1, LenProperties
<1>3. CASE Has(r, F)
  <2>1. PICK i \in 1..Len(r) : r[i] \in F
    BY <1>2, <1>3 DEF Has
  <2>2. i \in 1..(Len(r) + Len(s)) /\ i <= Len(r)
    BY <1>2
  <2>3. (r \o s)[i] \in F
    BY <1>1, <2>1, <2>2
  <2> QED
    BY <1>2, <2>2, <2>3 DEF Has
<1>4. CASE Has(s, F)
  <2>1. PICK i \in 1..Len(s) : s[i] \in F
    BY <1>2, <1>4 DEF Has
  <2>2. /\ i + Len(r) \in 1..(Len(r) + Len(s)) /\ ~(i + Len(r) <= Len(r))
        /\ i + Len(r) - Len(r) = i
    BY <1>2
  <2>3. (r \o s)[i + Len(r)] \in F
    BY <1>1, <2>1, <2>2
  <2> QED
    BY <1>2, <2>2, <2>3 DEF Has
<1> QED
  BY <1>3, <1>4

LEMMA HasPushed ==
    ASSUME NEW S, NEW s \in Seq(S), NEW f, NEW g, NEW F
    PROVE  /\ f \in F \/ Has(s, F) => Has(<<f>> \o s, F)
           /\ g \in F \/ f \in F \/ Has(s, F) => Has(<<g, f>> \o s, F)
           /\ f \in F \/ Has(s, F) => Has(<<g>> \o (<<f>> \o s), F)
           /\ Has(s, F) => Has(<<>> \o s, F)
           /\ f \in F \/ Has(s, F) => Has(<<>> \o (<<f>> \o s), F)
<1> DEFINE T == S \union {f, g}
<1>1. s \in Seq(T)
  BY SeqMonotonic
<1>2. <<f>> \in Seq(T) /\ <<g>> \in Seq(T) /\ <<g, f>> \in Seq(T)
  OBVIOUS
<1>3. <<>> \in Seq(T)
  BY EmptySeq
<1>4. f \in F => Has(<<f>>, F)
  BY DEF Has
<1>5. g \in F \/ f \in F => Has(<<g, f>>, F)
  BY DEF Has
<1>6. <<f>> \o s \in Seq(T)
  BY <1>1, <1>2, ConcatProperties
<1> HIDE DEF T
<1>7. f \in F \/ Has(s, F) => Has(<<f>> \o s, F)
  BY <1>1, <1>2, <1>4, HasConcat
<1>8. g \in F \/ f \in F \/ Has(s, F) => Has(<<g, f>> \o s, F)
  BY <1>1, <1>2, <1>5, HasConcat
<1>9. f \in F \/ Has(s, F) => Has(<<g>> \o (<<f>> \o s), F)
  BY <1>2, <1>6, <1>7, HasConcat
<1>10. /\ Has(s, F) => Has(<<>> \o s, F)
       /\ f \in F \/ Has(s, F) => Has(<<>> \o (<<f>> \o s), F)
  BY <1>1, <1>3, <1>6, <1>7, HasConcat
<1> QED
  BY <1>7, <1>8, <1>9, <1>10

(* The effect of the stack operators on the frames in F. *)
LEMMA PushKeeps ==
    ASSUME Stacks, NEW t \in Thread, NEW F, NEW s \in Seq(GoodFrame), NEW f, NEW g
    PROVE  /\ StackBecomes(t, s) /\ Has(s, F) => Has((stack')[t], F)
           /\ StackBecomes(t, <<f>> \o s) /\ (f \in F \/ Has(s, F)) => Has((stack')[t], F)
           /\ StackBecomes(t, <<g, f>> \o s) /\ (g \in F \/ f \in F \/ Has(s, F))
                => Has((stack')[t], F)
           /\ StackBecomes(t, <<g>> \o (<<f>> \o s)) /\ (f \in F \/ Has(s, F))
                => Has((stack')[t], F)
           /\ StackBecomes(t, <<>> \o s) /\ Has(s, F) => Has((stack')[t], F)
           /\ StackBecomes(t, <<>> \o (<<f>> \o s)) /\ (f \in F \/ Has(s, F))
                => Has((stack')[t], F)
<1>1. ASSUME NEW new, StackBecomes(t, new) PROVE (stack')[t] = new
  BY <1>1 DEF Stacks, StackBecomes
<1> QED
  BY <1>1, HasPushed

LEMMA OthersKeep ==
    ASSUME Stacks, NEW t \in Thread, NEW u \in Thread, t # u, Progress(t) \/ Start(t)
    PROVE  (stack')[u] = stack[u]
<1>1. ASSUME NEW new, StackBecomes(t, new) PROVE (stack')[u] = stack[u]
  BY <1>1 DEF Stacks, StackBecomes
<1>2. UNCHANGED stack \/ \E new : StackBecomes(t, new)
  <2> USE DEF Call, Goto, Return, GotoCall
  <2>1. ASSUME NEW v, ReturnValue(t, v) PROVE \E new : StackBecomes(t, new)
    BY <2>1 DEF ReturnValue
  <2>2. CASE Write(t) \/ WriteBack(t) \/ Enqueue(t) \/ Drain(t) \/ CallUser(t)
             \/ UserReturns(t) \/ GuardDropped(t) \/ FlushDeferred(t)
    BY <2>2 DEF Write, WriteBack, Enqueue, Drain, CallUser, UserReturns,
       GuardDropped, FlushDeferred
  <2>3. CASE DependencyChanged(t)
    BY <2>3 DEF DependencyChanged
  <2>4. CASE Schedule(t) \/ FlushJobs(t) \/ JobDone(t)
             \/ Job(t) \/ Look(t) \/ ReadDependency(t) \/ Get(t)
    BY <2>4 DEF Schedule, FlushJobs, JobDone, Job, Look, ReadDependency, Get
  <2>5. CASE Load(t) \/ ReplaceSilently(t)
    BY <2>1, <2>5 DEF Load, ReplaceSilently
  <2>6. CASE Watching(t) \/ Mount(t) \/ ListenTo(t) \/ KeepSubscriptions(t)
             \/ Unmount(t) \/ DropSubscription(t) \/ Unsubscribed(t)
    BY <2>6 DEF Watching, Mount, ListenTo, KeepSubscriptions, Unmount,
       DropSubscription, Unsubscribed, AddListener, RemoveListener
  <2>7. CASE Start(t)
    BY <2>7 DEF Start, Set, Watch, Unwatch, GetCall, Flush, AddListener, RemoveListener
  <2> QED
    BY <2>2, <2>3, <2>4, <2>5, <2>6, <2>7 DEF Progress
<1> QED
  BY <1>1, <1>2

(* A call of the program leaves every frame in place. *)
LEMMA StartKeeps ==
    ASSUME TypeInv, NEW t \in Thread, NEW F, Has(stack[t], F), Start(t)
    PROVE  Has((stack')[t], F)
<1>1. Stacks /\ stack[t] \in Seq(GoodFrame)
  BY DEF TypeInv, Stacks
<1>2. ASSUME NEW f, Call(t, f) PROVE Has((stack')[t], F)
  BY <1>1, <1>2, PushKeeps DEF Call
<1>3. ASSUME NEW x, NEW f, AddListener(t, x, User, stack[t], f) PROVE Has((stack')[t], F)
  BY <1>1, <1>3, PushKeeps DEF AddListener
<1>4. ASSUME NEW x, NEW id, RemoveListener(t, x, id, stack[t]) PROVE Has((stack')[t], F)
  BY <1>1, <1>4, PushKeeps DEF RemoveListener
<1> QED
  BY <1>2, <1>3, <1>4 DEF Start, Set, Watch, Unwatch, GetCall, Flush

(* A step changes the top frame only, but for the value it returns. *)
LEMMA StepKeeps ==
    ASSUME TypeInv, NEW t \in Thread, NEW F,
           \A f \in F : f.at \notin {"recompute", "compute"},
           stack[t] # <<>>, Has(stack[t], F), Top(t) \notin F, Progress(t)
    PROVE  Has((stack')[t], F)
<1> DEFINE s == Tail(stack[t])
<1>1. Stacks /\ stack[t] \in Seq(GoodFrame) /\ s \in Seq(GoodFrame)
  BY TopType DEF TypeInv, Stacks
<1>2. Has(s, F)
  BY <1>1, HasTail DEF Top
<1>3. ASSUME NEW f, Goto(t, f) PROVE Has((stack')[t], F)
  BY <1>1, <1>2, <1>3, PushKeeps DEF Goto
<1>4. ASSUME NEW f, Call(t, f) PROVE Has((stack')[t], F)
  BY <1>1, <1>4, PushKeeps DEF Call
<1>5. ASSUME NEW f, NEW g, GotoCall(t, f, g) PROVE Has((stack')[t], F)
  BY <1>1, <1>2, <1>5, PushKeeps DEF GotoCall
<1>6. ASSUME Return(t) PROVE Has((stack')[t], F)
  BY <1>1, <1>2, <1>6, PushKeeps DEF Return
<1>7. ASSUME NEW v, ReturnValue(t, v) PROVE Has((stack')[t], F)
  <2>1. CASE s # <<>> /\ Head(s).at \in {"recompute", "compute"}
    <3>1. Head(s) \notin F
      BY <2>1
    <3>2. Has(Tail(s), F) /\ Tail(s) \in Seq(GoodFrame)
      BY <1>1, <1>2, <2>1, <3>1, HasTail, HeadTailProperties
    <3>3. PICK f : StackBecomes(t, <<f>> \o Tail(s))
      BY <1>7, <2>1 DEF ReturnValue
    <3> QED
      BY <1>1, <3>2, <3>3, PushKeeps
  <2>2. CASE ~(s # <<>> /\ Head(s).at \in {"recompute", "compute"})
    <3>1. StackBecomes(t, s)
      BY <1>7, <2>2 DEF ReturnValue
    <3> QED
      BY <1>1, <1>2, <3>1, PushKeeps
  <2> QED
    BY <2>1, <2>2
<1>8. ASSUME NEW x, NEW owner, NEW f, AddListener(t, x, owner, s, f)
      PROVE  Has((stack')[t], F)
  BY <1>1, <1>2, <1>8, PushKeeps DEF AddListener
<1>9. ASSUME NEW x, NEW id, NEW f, RemoveListener(t, x, id, <<f>> \o s)
      PROVE  Has((stack')[t], F)
  BY <1>1, <1>2, <1>9, PushKeeps DEF RemoveListener
<1> HIDE DEF s
<1>10. CASE Write(t) \/ WriteBack(t) \/ Enqueue(t) \/ Drain(t) \/ CallUser(t)
            \/ UserReturns(t) \/ GuardDropped(t) \/ FlushDeferred(t)
  BY <1>3, <1>4, <1>6, <1>10 DEF Write, WriteBack, Enqueue, Drain, CallUser,
     UserReturns, GuardDropped, FlushDeferred
<1>11. CASE DependencyChanged(t)
  BY <1>3, <1>5, <1>11 DEF DependencyChanged
<1>12. CASE Schedule(t) \/ FlushJobs(t) \/ JobDone(t)
            \/ Job(t) \/ Look(t) \/ ReadDependency(t) \/ Get(t)
  BY <1>3, <1>5, <1>6, <1>12 DEF Schedule, FlushJobs, JobDone, Job, Look,
     ReadDependency, Get
<1>13. CASE Load(t) \/ ReplaceSilently(t)
  BY <1>7, <1>13 DEF Load, ReplaceSilently
<1>14. CASE Watching(t) \/ Mount(t) \/ KeepSubscriptions(t) \/ Unmount(t) \/ Unsubscribed(t)
  BY <1>3, <1>5, <1>6, <1>14 DEF Watching, Mount, KeepSubscriptions, Unmount, Unsubscribed
<1>15. CASE ListenTo(t) \/ DropSubscription(t)
  BY <1>8, <1>9, <1>15 DEF ListenTo, DropSubscription, s
<1> QED
  BY <1>10, <1>11, <1>12, <1>13, <1>14, <1>15 DEF Progress

-----------------------------------------------------------------------------
(* Deferred recomputes run.  While a thread's queue is not empty, one of    *)
(* its frames has still to go through the flush of the outermost            *)
(* notification.                                                            *)
Flushers == {f \in Frame : f.at \in {"deliver", "user", "flush"}}

Flushing == \A t \in Thread : deferred[t] # <<>> => Has(stack[t], Flushers)

(* A call of a listener, or a frame's return from one, still flushes.       *)
LEMMA NotifyingKeeps ==
    ASSUME TypeInv, NEW t \in Thread, stack[t] # <<>>, Top(t) \in Flushers,
           CallUser(t) \/ UserReturns(t) \/ DependencyChanged(t)
    PROVE  Has((stack')[t], Flushers)
<1>1. Stacks /\ Tail(stack[t]) \in Seq(GoodFrame) /\ Top(t) \in Frame
  BY TopType DEF TypeInv
<1>2. ASSUME NEW f \in Flushers, NEW g, Goto(t, f) \/ GotoCall(t, f, g)
      PROVE  Has((stack')[t], Flushers)
  BY <1>1, <1>2, PushKeeps DEF Goto, GotoCall
<1>3. ASSUME NEW l, Top(t).at = "deliver"
      PROVE  Called(t, l) \in Flushers /\ [Called(t, l) EXCEPT !.at = "user"] \in Flushers
  <2> DEFINE f == Top(t)
             g == [f EXCEPT !.todo = f.todo \ {l}]
             h == [g EXCEPT !.at = "user"]
  <2>1. g \in Frame /\ g.at = "deliver"
    BY <1>1, <1>3 DEF Frame
  <2>2. h \in Frame /\ h.at = "user"
    BY <2>1 DEF Frame, Stage
  <2> QED
    BY <2>1, <2>2 DEF Flushers, Called
<1>4. CASE CallUser(t) \/ DependencyChanged(t)
  <2>1. /\ Top(t).at = "deliver"
        /\ \E l : \/ Goto(t, [Called(t, l) EXCEPT !.at = "user"])
                 \/ Goto(t, Called(t, l))
                 \/ \E g : GotoCall(t, Called(t, l), g)
    BY <1>4 DEF CallUser, DependencyChanged, At
  <2> QED
    BY <1>2, <1>3, <2>1
<1>5. CASE UserReturns(t)
  <2> DEFINE f == Top(t)
             g == [f EXCEPT !.at = "deliver"]
  <2>1. g \in Frame /\ g.at = "deliver"
    BY <1>1 DEF Frame, Stage
  <2>2. g \in Flushers /\ Goto(t, g)
    BY <1>5, <2>1 DEF Flushers, UserReturns
  <2> QED
    BY <1>2, <2>2
<1> QED
  BY <1>4, <1>5

LEMMA GuardDroppedKeeps ==
    ASSUME TypeInv, NEW t \in Thread, GuardDropped(t)
    PROVE  Has((stack')[t], Flushers)
<1> DEFINE s == Tail(stack[t])
           f == [Top(t) EXCEPT !.at = "flush"]
           g == [Top(t) EXCEPT !.at = "drain"]
<1>1. /\ stack[t] # <<>> /\ Stacks /\ stack[t] \in Seq(GoodFrame)
      /\ s \in Seq(GoodFrame) /\ Top(t) \in Frame
  BY TopType DEF GuardDropped, At, TypeInv, Stacks
<1>2. CASE Outermost(t)
  <2>1. f \in Frame /\ f.at = "flush"
    BY <1>1 DEF Frame, Stage
  <2>2. f \in Flushers /\ Goto(t, f)
    BY <1>2, <2>1 DEF Flushers, GuardDropped
  <2> QED
    BY <1>1, <2>2, PushKeeps DEF Goto
<1>3. CASE ~Outermost(t)
  <2>1. Goto(t, g)
    BY <1>3 DEF GuardDropped
  <2>2. PICK i \in 2..Len(stack[t]) : stack[t][i].at \in {"deliver", "user"}
    BY <1>3 DEF Outermost, Notifies
  <2>3. /\ Len(stack[t]) \in Nat /\ Len(s) = Len(stack[t]) - 1
        /\ \A j \in 1..Len(s) : s[j] = stack[t][j + 1]
    BY <1>1, HeadTailProperties, LenProperties
  <2>4. i - 1 \in 1..Len(s) /\ i - 1 + 1 = i /\ i \in 1..Len(stack[t])
    BY <2>2, <2>3
  <2>5. stack[t][i] \in Flushers
    BY <1>1, <2>2, <2>4, ElementOfSeq DEF Flushers, GoodFrame
  <2>6. s[i - 1] \in Flushers
    BY <2>3, <2>4, <2>5
  <2>7. i - 1 \in DOMAIN s
    BY <1>1, <2>4, LenProperties
  <2>8. Has(s, Flushers)
    BY <2>6, <2>7 DEF Has
  <2> QED
    BY <1>1, <2>1, <2>8, PushKeeps DEF Goto
<1> QED
  BY <1>2, <1>3

LEMMA FlushingStep == TypeInv /\ Flushing /\ [Next]_vars => Flushing'
<1> SUFFICES ASSUME TypeInv, Flushing, [Next]_vars PROVE Flushing'
  OBVIOUS
<1>1. ASSUME NEW t \in Thread, Progress(t) \/ Start(t),
             NEW u \in Thread, (deferred')[u] # <<>>
      PROVE  Has((stack')[u], Flushers)
  <2>0. Stacks /\ stack[t] \in Seq(GoodFrame)
    BY DEF TypeInv, Stacks
  <2>1. CASE u # t
    <3>1. deferred'[u] = deferred[u]
      BY <1>1, <2>1, WhoSchedules DEF DependencyChanged, FlushDeferred, Schedule,
         FlushJobs, JobDone, Job, Unsubscribed, recomputes, TypeInv, Jobs
    <3>2. (stack')[u] = stack[u]
      BY <1>1, <2>0, <2>1, OthersKeep
    <3> QED
      BY <1>1, <3>1, <3>2 DEF Flushing
  <2>2. CASE u = t /\ deferred[t] # <<>>
    <3>1. Has(stack[t], Flushers)
      BY <2>2 DEF Flushing
    <3>2. CASE Start(t)
      BY <2>2, <3>1, <3>2, StartKeeps
    <3>3. CASE Progress(t)
      <4>1. stack[t] # <<>>
        BY <3>1 DEF Has
      <4>2. \A f \in Flushers : f.at \notin {"recompute", "compute"}
        BY DEF Flushers
      <4>3. CASE Top(t) \notin Flushers
        BY <2>2, <3>1, <3>3, <4>1, <4>2, <4>3, StepKeeps
      <4>4. CASE Top(t) \in Flushers
        <5>1. Top(t).at \in {"deliver", "user", "flush"}
          BY <4>4 DEF Flushers
        <5>2. \/ CallUser(t) \/ UserReturns(t) \/ DependencyChanged(t)
              \/ GuardDropped(t) \/ FlushDeferred(t)
          BY <3>3, <5>1 DEF Progress, Write, Writes, WriteBack, Enqueue, Drain,
             Schedule, FlushJobs, JobDone, Job, Look, ReadDependency, Reads, Get,
             Load, ReplaceSilently, Watching, Mount, ListenTo, KeepSubscriptions,
             Unmount, DropSubscription, Unsubscribed, At
        <5>3. FlushDeferred(t) => Has((stack')[t], Flushers)
          BY <2>0, <2>2, <3>1, PushKeeps DEF FlushDeferred, Call
        <5> QED
          BY <2>2, <4>1, <4>4, <5>2, <5>3, NotifyingKeeps, GuardDroppedKeeps
      <4> QED
        BY <4>3, <4>4
    <3> QED
      BY <1>1, <3>2, <3>3
  <2>3. CASE u = t /\ deferred[t] = <<>>
    <3>1. DependencyChanged(t)
      BY <1>1, <2>3, WhoSchedules DEF FlushDeferred, Schedule, FlushJobs, JobDone,
         Job, Unsubscribed, recomputes
    <3>2. stack[t] # <<>> /\ Top(t).at = "deliver"
      BY <3>1 DEF DependencyChanged, At
    <3>3. Top(t) \in Flushers
      BY <2>0, <3>2, TopType DEF Flushers
    <3> QED
      BY <2>3, <3>1, <3>2, <3>3, NotifyingKeeps
  <2> QED
    BY <2>1, <2>2, <2>3
<1>2. CASE UNCHANGED vars
  BY <1>2 DEF Flushing, vars, recomputes
<1> QED
  BY <1>1, <1>2 DEF Next, Rest, Flushing

LEMMA FlushingInit == Init => Flushing
BY DEF Init, Flushing

(* A thread that has left the stores has left no deferred recompute behind, *)
(* however its listeners nest their own sets, mounts and unmounts.          *)
THEOREM DeferredRun == Spec => []DeferredRuns
<1>1. Flushing => DeferredRuns
  <2>1. ASSUME NEW t \in Thread, stack[t] = <<>> PROVE ~Has(stack[t], Flushers)
    BY <2>1 DEF Has
  <2> QED
    BY <2>1 DEF Flushing, DeferredRuns
<1>2. Spec => []Flushing
  BY FlushingInit, FlushingStep, AlwaysTypeInv, PTL DEF Spec
<1> QED
  BY <1>1, <1>2, PTL

-----------------------------------------------------------------------------
(* A set pending flag has a recompute on its way. *)
Running(c) == {f \in Frame : f.node = c /\ f.at \in {"schedule", "job"}}

Way(c) ==
    \/ Has(jobs, {c})
    \/ \E t \in Thread : Has(deferred[t], {c}) \/ Has(stack[t], Running(c))

Unfrozen == \A c \in Derived : pending[c] => Way(c)

LEMMA NewFrameRuns ==
    ASSUME NEW c \in Derived, NEW stage \in {"schedule", "job"}
    PROVE  NewFrame(stage, c) \in Running(c)
<1>1. NewFrame(stage, c) \in Frame
  BY NewFrameType DEF Stage, Node, GoodFrame
<1>2. NewFrame(stage, c).node = c /\ NewFrame(stage, c).at = stage
  BY DEF NewFrame
<1> QED
  BY <1>1, <1>2 DEF Running

LEMMA DependencyChangedWay ==
    ASSUME TypeInv, NEW t \in Thread, DependencyChanged(t), NEW c \in Derived,
           ~pending[c], (pending')[c]
    PROVE  Has((deferred')[t], {c}) \/ Has((stack')[t], Running(c))
<1>1. stack[t] # <<>>
  BY DEF DependencyChanged, At
<1>2. Stacks /\ Tail(stack[t]) \in Seq(GoodFrame) /\ Top(t) \in Frame
  BY <1>1, TopType DEF TypeInv
<1>3. PICK l \in Top(t).todo :
        /\ pending' = [pending EXCEPT ![l.to] = TRUE]
        /\ \/ pending[l.to]
           \/ deferred' = [deferred EXCEPT ![t] = Append(@, l.to)]
           \/ GotoCall(t, Called(t, l), NewFrame("schedule", l.to))
  BY DEF DependencyChanged
<1>4. l.to = c
  BY <1>3 DEF TypeInv, Jobs
<1>5. CASE deferred' = [deferred EXCEPT ![t] = Append(@, l.to)]
  <2>1. deferred[t] \in Seq(Derived) /\ (deferred')[t] = Append(deferred[t], c)
    BY <1>4, <1>5 DEF TypeInv, Jobs
  <2> QED
    BY <2>1, HasAppend
<1>6. CASE GotoCall(t, Called(t, l), NewFrame("schedule", l.to))
  <2>1. NewFrame("schedule", c) \in Running(c)
    BY NewFrameRuns
  <2> QED
    BY <1>2, <1>4, <1>6, <2>1, PushKeeps DEF GotoCall
<1> QED
  BY <1>3, <1>4, <1>5, <1>6

LEMMA JobsKept ==
    ASSUME TypeInv, NEW t \in Thread, Progress(t) \/ Start(t), NEW c \in Derived,
           Has(jobs, {c})
    PROVE  Has(jobs', {c}) \/ Has((stack')[t], Running(c))
<1>1. jobs \in Seq(Derived) /\ Stacks
  BY DEF TypeInv, Jobs
<1>2. CASE Schedule(t)
  <2>1. stack[t] # <<>> /\ Top(t).at = "schedule"
    BY <1>2 DEF Schedule, At
  <2>2. Top(t).node \in Derived
    BY <1>1, <2>1, TopType DEF GoodFrame, DerivedStage, Stage
  <2> QED
    BY <1>1, <1>2, <2>2, HasAppend DEF Schedule
<1>3. CASE FlushJobs(t)
  <2>1. jobs # <<>>
    BY DEF Has
  <2>2. Head(jobs) = c \/ Has(Tail(jobs), {c})
    BY <1>1, <2>1, HasTail
  <2>3. CASE Head(jobs) = c
    <3>1. stack[t] # <<>>
      BY <1>3 DEF FlushJobs, At
    <3>2. Tail(stack[t]) \in Seq(GoodFrame)
      BY <1>1, <3>1, TopType
    <3>3. PICK f : GotoCall(t, f, NewFrame("job", c))
      BY <1>3, <2>1, <2>3 DEF FlushJobs
    <3>4. NewFrame("job", c) \in Running(c)
      BY NewFrameRuns
    <3> QED
      BY <1>1, <3>2, <3>3, <3>4, PushKeeps DEF GotoCall
  <2>4. CASE Has(Tail(jobs), {c})
    BY <1>3, <2>1, <2>4 DEF FlushJobs
  <2> QED
    BY <2>2, <2>3, <2>4
<1>4. CASE ~Schedule(t) /\ ~FlushJobs(t)
  BY <1>4, WhoSchedules DEF DependencyChanged, FlushDeferred, JobDone, Job,
     Unsubscribed, recomputes
<1> QED
  BY <1>2, <1>3, <1>4

LEMMA DeferredKept ==
    ASSUME TypeInv, NEW t \in Thread, Progress(t) \/ Start(t), NEW c \in Derived,
           NEW u \in Thread, Has(deferred[u], {c})
    PROVE  Has((deferred')[u], {c}) \/ Has((stack')[u], Running(c))
<1>1. Stacks /\ deferred[u] \in Seq(Derived) /\ stack[u] \in Seq(GoodFrame)
  BY DEF TypeInv, Jobs, Stacks
<1>2. CASE DependencyChanged(t)
  <2>1. stack[t] # <<>>
    BY <1>2 DEF DependencyChanged, At
  <2>2. PICK l \in Top(t).todo :
          /\ l.to # User
          /\ \/ UNCHANGED deferred
             \/ deferred' = [deferred EXCEPT ![t] = Append(@, l.to)]
    BY <1>2 DEF DependencyChanged
  <2>3. l.to \in Derived
    BY <1>1, <2>1, <2>2, TopType DEF Frame, Listener
  <2>4. Has(Append(deferred[u], l.to), {c})
    BY <1>1, <2>3, HasAppend
  <2>5. (deferred')[u] \in {deferred[u], Append(deferred[u], l.to)}
    BY <2>2 DEF TypeInv, Jobs
  <2> QED
    BY <2>4, <2>5
<1>3. CASE FlushDeferred(t)
  <2>1. deferred[u] # <<>>
    BY DEF Has
  <2>2. Head(deferred[u]) = c \/ Has(Tail(deferred[u]), {c})
    BY <1>1, <2>1, HasTail
  <2>3. CASE UNCHANGED deferred \/ u # t
    <3>1. (deferred')[u] = deferred[u]
      BY <1>3, <2>3 DEF FlushDeferred, TypeInv, Jobs
    <3> QED
      BY <3>1
  <2>4. CASE u = t /\ deferred' # deferred
    <3>1. /\ deferred' = [deferred EXCEPT ![t] = Tail(@)]
          /\ Call(t, NewFrame("job", Head(deferred[t])))
      BY <1>3, <2>4 DEF FlushDeferred
    <3>2. (deferred')[t] = Tail(deferred[t])
      BY <3>1 DEF TypeInv, Jobs
    <3>3. NewFrame("job", c) \in Running(c)
      BY NewFrameRuns
    <3>4. Head(deferred[t]) = c => Has((stack')[t], Running(c))
      BY <1>1, <2>4, <3>1, <3>3, PushKeeps DEF Call
    <3> QED
      BY <2>2, <2>4, <3>2, <3>4
  <2> QED
    BY <2>3, <2>4
<1>4. CASE ~DependencyChanged(t) /\ ~FlushDeferred(t)
  BY <1>4, WhoSchedules DEF Schedule, FlushJobs, JobDone, Job, Unsubscribed, recomputes
<1> QED
  BY <1>2, <1>3, <1>4

LEMMA RunningKept ==
    ASSUME TypeInv, NEW t \in Thread, Progress(t) \/ Start(t), NEW c \in Derived,
           NEW u \in Thread, Has(stack[u], Running(c))
    PROVE  \/ Has((stack')[u], Running(c)) \/ Has(jobs', {c})
           \/ Job(t) /\ Top(t).node = c
<1>1. Stacks /\ jobs \in Seq(Derived)
  BY DEF TypeInv, Jobs
<1>2. CASE u # t
  BY <1>1, <1>2, OthersKeep
<1>3. CASE u = t /\ Start(t)
  BY <1>3, StartKeeps
<1>4. CASE u = t /\ Progress(t)
  <2>1. stack[t] # <<>>
    BY <1>4 DEF Has
  <2>2. \A f \in Running(c) : f.at \notin {"recompute", "compute"}
    BY DEF Running
  <2>3. CASE Top(t) \notin Running(c)
    BY <1>4, <2>1, <2>2, <2>3, StepKeeps
  <2>4. CASE Top(t) \in Running(c)
    <3>1. Top(t).node = c /\ Top(t).at \in {"schedule", "job"}
      BY <2>4 DEF Running
    <3>2. Schedule(t) \/ Job(t)
      BY <1>4, <3>1 DEF Progress, Write, Writes, WriteBack, Enqueue, Drain,
         CallUser, UserReturns, DependencyChanged, GuardDropped, FlushDeferred,
         FlushJobs, JobDone, Look, ReadDependency, Reads, Get, Load,
         ReplaceSilently, Watching, Mount, ListenTo, KeepSubscriptions, Unmount,
         DropSubscription, Unsubscribed, At
    <3>3. CASE Schedule(t)
      BY <1>1, <3>1, <3>3, HasAppend DEF Schedule
    <3> QED
      BY <3>1, <3>2, <3>3
  <2> QED
    BY <2>3, <2>4
<1> QED
  BY <1>2, <1>3, <1>4

(* A recompute stays on its way until its job begins. *)
LEMMA WayKept ==
    ASSUME TypeInv, NEW t \in Thread, Progress(t) \/ Start(t), NEW c \in Derived, Way(c)
    PROVE  Way(c)' \/ (Job(t) /\ Top(t).node = c)
<1>1. CASE Has(jobs, {c})
  BY <1>1, JobsKept DEF Way
<1>2. ASSUME NEW u \in Thread, Has(deferred[u], {c}) PROVE Way(c)'
  BY <1>2, DeferredKept DEF Way
<1>3. ASSUME NEW u \in Thread, Has(stack[u], Running(c))
      PROVE  Way(c)' \/ (Job(t) /\ Top(t).node = c)
  BY <1>3, RunningKept DEF Way
<1> QED
  BY <1>1, <1>2, <1>3 DEF Way

LEMMA UnfrozenStep == TypeInv /\ Unfrozen /\ [Next]_vars => Unfrozen'
<1> SUFFICES ASSUME TypeInv, Unfrozen, [Next]_vars PROVE Unfrozen'
  OBVIOUS
<1>1. ASSUME NEW t \in Thread, Progress(t) \/ Start(t),
             NEW c \in Derived, (pending')[c]
      PROVE  Way(c)'
  <2>1. CASE pending[c]
    <3>1. Way(c)
      BY <2>1 DEF Unfrozen
    <3>2. ~(Job(t) /\ Top(t).node = c)
      BY <1>1 DEF Job, TypeInv, Jobs
    <3> QED
      BY <1>1, <3>1, <3>2, WayKept
  <2>2. CASE ~pending[c]
    <3>1. DependencyChanged(t)
      BY <1>1, <2>2, WhoSchedules DEF FlushDeferred, Schedule, FlushJobs, JobDone,
         Job, Unsubscribed, recomputes, TypeInv, Jobs
    <3> QED
      BY <1>1, <2>2, <3>1, DependencyChangedWay DEF Way
  <2> QED
    BY <2>1, <2>2
<1>2. CASE UNCHANGED vars
  BY <1>2 DEF Unfrozen, Way, Has, Running, vars, recomputes
<1> QED
  BY <1>1, <1>2 DEF Next, Rest, Unfrozen

LEMMA UnfrozenInit == Init => Unfrozen
BY DEF Init, Unfrozen

(* A derived store is never frozen: whenever its pending flag is set, so    *)
(* that dependency_changed would do nothing, a recompute of it waits in the *)
(* job queue, is deferred, or has been called and not yet cleared the flag. *)
THEOREM NeverFrozen == Spec => []NoFrozenStore
<1>1. Unfrozen => NoFrozenStore
  <2>1. ASSUME NEW c \in Derived, Way(c) PROVE OnItsWay(c)
    BY <2>1 DEF Way, Has, Running, OnItsWay
  <2> QED
    BY <2>1 DEF Unfrozen, NoFrozenStore
<1>2. Spec => []Unfrozen
  BY UnfrozenInit, UnfrozenStep, AlwaysTypeInv, PTL DEF Spec
<1> QED
  BY <1>1, <1>2, PTL
=============================================================================
