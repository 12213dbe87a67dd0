----------------------------- MODULE MountProofs -----------------------------
(***************************************************************************)
(* A store of Computed is mounted by one call at a time, for every graph,  *)
(* every number of threads and every bound.                                *)
(***************************************************************************)
EXTENDS ComputedProofs

(* The frame at height h of a stack, counted from its bottom.              *)
Low(s, h) == s[Len(s) + 1 - h]
Slots(t) == 1..Len(stack[t])
Slot(t, h) == Low(stack[t], h)

(* Frame f has added listener k of store x and has not yet handed its      *)
(* Subscription on: add_listener is still to return, or the mount it is    *)
(* made in is still to keep what it has subscribed to.                     *)
Owns(f, x, k) ==
    \/ f.at = "watch" /\ f.node = x /\ f.n = k
    \/ f.at = "listen" /\ \E j \in DOMAIN f.ids : Deps[f.node][j] = x /\ f.ids[j] = k

(* Frame f has still to drop the Subscription of listener k of store x.    *)
Frees(f, x, k) ==
    /\ f.at = "unsubscribe"
    /\ \E j \in DOMAIN f.ids :
         Deps[f.node][Len(Deps[f.node]) - Len(f.ids) + j] = x /\ f.ids[j] = k

(* It is among the dep_subscriptions of a mounted store.                   *)
Keeps(x, k) ==
    \E c \in Derived : \E j \in DOMAIN dep_subs[c] :
        Deps[c][j] = x /\ dep_subs[c][j] = k

(* It has been handed on: only then may the program, a mounted store or an *)
(* unmount drop it.                                                        *)
Released(x, k) ==
    \/ <<x, k>> \in held
    \/ Keeps(x, k)
    \/ \E t \in Thread : \E h \in Slots(t) : Frees(Slot(t, h), x, k)

(* Every Subscription made so far has an id that was given out.            *)
Numbered ==
    \A x \in Node : \A k \in Nat :
        Released(x, k) \/ (\E t \in Thread : \E h \in Slots(t) : Owns(Slot(t, h), x, k))
            => k < next_id[x]

(* One frame of one stack returns a Subscription.                          *)
OneOwner ==
    \A t, u \in Thread : \A h \in Slots(t), g \in Slots(u) :
        \A x \in Node : \A k \in Nat :
            Owns(Slot(t, h), x, k) /\ Owns(Slot(u, g), x, k) => t = u /\ h = g

(* Nobody else has it meanwhile, so nobody removes its listener.           *)
OwnedNotReleased ==
    \A t \in Thread : \A h \in Slots(t) : \A x \in Node : \A k \in Nat :
        Owns(Slot(t, h), x, k) => ~Released(x, k)

Mounts(f) == f.at \in {"mount", "listen"}

Listens(x, k) == \E l \in listeners[x] : l.id = k

(* A mount is called by the frame that owns a listener of the store, which *)
(* is in the table.                                                        *)
Supported ==
    \A t \in Thread : \A h \in Slots(t) :
        Mounts(Slot(t, h)) =>
            h > 1 /\ \E k \in Nat : /\ Owns(Slot(t, h - 1), Slot(t, h).node, k)
                                    /\ Listens(Slot(t, h).node, k)

(* A store has one mount under way.                                        *)
OneMount ==
    \A t, u \in Thread : \A h \in Slots(t), g \in Slots(u) :
        /\ Mounts(Slot(t, h)) /\ Mounts(Slot(u, g))
        /\ Slot(t, h).node = Slot(u, g).node
        => t = u /\ h = g

(* No subscriptions are there for it to replace, and a store that has some *)
(* has all.                                                                *)
Unsubscribes ==
    /\ \A t \in Thread : \A h \in Slots(t) :
         /\ Slot(t, h).at = "listen" => dep_subs[Slot(t, h).node] = <<>>
         /\ Slot(t, h).at = "mount" => Slot(t, h).ids = <<>>
         /\ Slot(t, h).at # "discard"
    /\ \A c \in Derived : dep_subs[c] = <<>> \/ Len(dep_subs[c]) = Len(Deps[c])

MountInv ==
    Numbered /\ OneOwner /\ OwnedNotReleased /\ Supported /\ OneMount /\ Unsubscribes

(* What another frame of the stack may not tell from it: all but the value. *)
Alike(f, g) ==
    /\ f.at = g.at /\ f.node = g.node /\ f.n = g.n
    /\ f.todo = g.todo /\ f.ids = g.ids

(* A step of t: the frames under its top stay, and those from there up are *)
(* what the step made of it.                                               *)
Depth(t) == Len(stack[t])
Others(t) == \A u \in Thread \ {t} : (stack')[u] = stack[u]
Lower(t) ==
    /\ Depth(t) - 1 <= Len((stack')[t])
    /\ \A h \in 1..(Depth(t) - 1) : Alike(Low((stack')[t], h), Slot(t, h))
Upper(t) == {h \in 1..Len((stack')[t]) : h >= Depth(t)}

-----------------------------------------------------------------------------
(* Stacks from the bottom *)

(* The frames of a stack are those of its lower part, then of its upper. *)
LEMMA LowConcat ==
    ASSUME NEW S, NEW r \in Seq(S), NEW s \in Seq(S)
    PROVE  /\ Len(r \o s) = Len(r) + Len(s) /\ Len(r) \in Nat /\ Len(s) \in Nat
           /\ \A h \in 1..Len(s) : Low(r \o s, h) = Low(s, h)
           /\ \A h \in 1..Len(r) : Low(r \o s, Len(s) + h) = Low(r, h)
<1>1. /\ Len(r) \in Nat /\ Len(s) \in Nat /\ Len(r \o s) = Len(r) + Len(s)
      /\ \A j \in 1..(Len(r) + Len(s)) :
           (r \o s)[j] = IF j <= Len(r) THEN r[j] ELSE s[j - Len(r)]
  BY ConcatProperties, LenProperties
<1>2. ASSUME NEW h \in 1..Len(s) PROVE Low(r \o s, h) = Low(s, h)
  <2>1. /\ Len(r) + Len(s) + 1 - h \in 1..(Len(r) + Len(s))
        /\ ~(Len(r) + Len(s) + 1 - h <= Len(r))
        /\ Len(r) + Len(s) + 1 - h - Len(r) = Len(s) + 1 - h
    BY <1>1
  <2> QED
    BY <1>1, <2>1 DEF Low
<1>3. ASSUME NEW h \in 1..Len(r) PROVE Low(r \o s, Len(s) + h) = Low(r, h)
  <2>1. /\ Len(r) + Len(s) + 1 - (Len(s) + h) = Len(r) + 1 - h
        /\ Len(r) + 1 - h \in 1..(Len(r) + Len(s)) /\ Len(r) + 1 - h <= Len(r)
    BY <1>1
  <2> QED
    BY <1>1, <2>1 DEF Low
<1> QED
  BY <1>1, <1>2, <1>3

(* With another frame on top it keeps them, too. *)
LEMMA LowPush ==
    ASSUME NEW S, NEW g \in S, NEW s \in Seq(S)
    PROVE  /\ Len(<<g>> \o s) = Len(s) + 1
           /\ \A h \in 1..Len(s) : Low(<<g>> \o s, h) = Low(s, h)
           /\ Low(<<g>> \o s, Len(s) + 1) = g
<1> DEFINE r == <<g>>
<1>1. r \in Seq(S) /\ Len(r) = 1 /\ Low(r, 1) = g
  BY DEF Low
<1> HIDE DEF r
<1>2. /\ Len(r \o s) = Len(r) + Len(s) /\ Len(r) \in Nat /\ Len(s) \in Nat
      /\ \A h \in 1..Len(s) : Low(r \o s, h) = Low(s, h)
      /\ \A h \in 1..Len(r) : Low(r \o s, Len(s) + h) = Low(r, h)
  BY <1>1, LowConcat
<1>3. Len(r \o s) = Len(s) + 1 /\ Low(r \o s, Len(s) + 1) = g
  BY <1>1, <1>2
<1> QED
  BY <1>2, <1>3 DEF r

(* Without its top frame a stack keeps the others where they are. *)
LEMMA LowTail ==
    ASSUME NEW S, NEW s \in Seq(S), s # <<>>
    PROVE  /\ Len(s) \in Nat \ {0} /\ Len(Tail(s)) = Len(s) - 1
           /\ Tail(s) \in Seq(S)
           /\ Low(s, Len(s)) = Head(s)
           /\ \A h \in 1..(Len(s) - 1) : Low(Tail(s), h) = Low(s, h)
<1>1. /\ Len(s) \in Nat /\ Len(Tail(s)) = Len(s) - 1 /\ Tail(s) \in Seq(S)
      /\ Len(s) # 0 /\ Head(s) = s[1]
      /\ \A j \in 1..(Len(s) - 1) : Tail(s)[j] = s[j + 1]
  BY HeadTailProperties, LenProperties, EmptySeq
<1>2. ASSUME NEW h \in 1..(Len(s) - 1) PROVE Low(Tail(s), h) = Low(s, h)
  <2>1. Len(s) - 1 + 1 - h \in 1..(Len(s) - 1) /\ Len(s) - 1 + 1 - h + 1 = Len(s) + 1 - h
    BY <1>1
  <2> QED
    BY <1>1, <2>1 DEF Low
<1>3. Low(s, Len(s)) = Head(s)
  BY <1>1 DEF Low
<1> QED
  BY <1>1, <1>2, <1>3

(* A step that puts the frames of r on those under the top. *)
LEMMA TopBecomes ==
    ASSUME Stacks, NEW t \in Thread, stack[t] # <<>>, NEW S, NEW r \in Seq(S),
           StackBecomes(t, r \o Tail(stack[t]))
    PROVE  /\ Depth(t) \in Nat \ {0} /\ Lower(t)
           /\ Len((stack')[t]) = Len(r) + Depth(t) - 1
           /\ \A h \in 1..Len(r) : Low((stack')[t], Depth(t) - 1 + h) = Low(r, h)
<1> DEFINE rest == Tail(stack[t])
           T == GoodFrame \union S
<1>1. stack[t] \in Seq(GoodFrame)
  BY DEF Stacks
<1>2. /\ Depth(t) \in Nat \ {0} /\ Len(rest) = Depth(t) - 1 /\ rest \in Seq(GoodFrame)
      /\ \A h \in 1..(Depth(t) - 1) : Low(rest, h) = Slot(t, h)
  BY <1>1, LowTail DEF Depth, Slot
<1>3. rest \in Seq(T) /\ r \in Seq(T)
  BY <1>2, SeqMonotonic
<1>4. (stack')[t] = r \o rest
  BY DEF Stacks, StackBecomes
<1> HIDE DEF rest, T
<1>5. /\ Len(r \o rest) = Len(r) + Len(rest) /\ Len(r) \in Nat
      /\ \A h \in 1..Len(rest) : Low(r \o rest, h) = Low(rest, h)
      /\ \A h \in 1..Len(r) : Low(r \o rest, Len(rest) + h) = Low(r, h)
  BY <1>3, LowConcat
<1>6. ASSUME NEW h \in 1..(Depth(t) - 1)
      PROVE  Alike(Low((stack')[t], h), Slot(t, h))
  BY <1>2, <1>4, <1>5 DEF Alike
<1>7. \A h \in 1..Len(r) : Low((stack')[t], Depth(t) - 1 + h) = Low(r, h)
  BY <1>2, <1>4, <1>5
<1>8. /\ Len((stack')[t]) = Len(r) + Depth(t) - 1
      /\ Depth(t) - 1 <= Len((stack')[t])
  BY <1>2, <1>4, <1>5
<1> QED
  BY <1>2, <1>6, <1>7, <1>8 DEF Lower

(* A step that puts them on the whole stack. *)
LEMMA StackGrows ==
    ASSUME Stacks, NEW t \in Thread, NEW S, NEW r \in Seq(S),
           StackBecomes(t, r \o stack[t])
    PROVE  /\ Depth(t) \in Nat /\ Lower(t)
           /\ Len((stack')[t]) = Len(r) + Depth(t)
           /\ \A h \in 1..Depth(t) : Low((stack')[t], h) = Slot(t, h)
           /\ \A h \in 1..Len(r) : Low((stack')[t], Depth(t) + h) = Low(r, h)
<1> DEFINE s == stack[t]
           T == GoodFrame \union S
<1>1. s \in Seq(GoodFrame)
  BY DEF Stacks
<1>2. s \in Seq(T) /\ r \in Seq(T)
  BY <1>1, SeqMonotonic
<1>3. (stack')[t] = r \o s
  BY DEF Stacks, StackBecomes
<1> HIDE DEF s, T
<1>4. /\ Len(r \o s) = Len(r) + Len(s) /\ Len(r) \in Nat /\ Len(s) \in Nat
      /\ \A h \in 1..Len(s) : Low(r \o s, h) = Low(s, h)
      /\ \A h \in 1..Len(r) : Low(r \o s, Len(s) + h) = Low(r, h)
  BY <1>2, LowConcat
<1>5. /\ Len((stack')[t]) = Len(r) + Len(s) /\ Len(s) - 1 <= Len((stack')[t])
      /\ \A h \in 1..Len(s) : Low((stack')[t], h) = Low(s, h)
      /\ \A h \in 1..Len(r) : Low((stack')[t], Len(s) + h) = Low(r, h)
  BY <1>3, <1>4
<1>6. 1..(Len(s) - 1) \subseteq 1..Len(s)
  BY <1>4
<1> QED
  BY <1>4, <1>5, <1>6 DEF Depth, Lower, Slot, Alike, s

-----------------------------------------------------------------------------
(* What a step has to show for the invariant to be kept. *)

(* Only the frame at height g takes a new listener's id; all others that   *)
(* own one owned it before.                                                *)
Owners(t, g) ==
    /\ \A x \in Node : next_id[x] <= (next_id')[x]
    /\ \A h \in Upper(t) : \A x \in Node : \A k \in Nat :
         Owns(Low((stack')[t], h), x, k) =>
             \/ h = Depth(t) /\ Owns(Slot(t, h), x, k)
             \/ h = g /\ k = next_id[x] /\ k < (next_id')[x]

(* What is released had been so, or the top frame has handed it on.        *)
HandedOn(t, x, k) ==
    /\ Depth(t) \in Slots(t) /\ Owns(Slot(t, Depth(t)), x, k)
    /\ Depth(t) \in Upper(t) => ~Owns(Low((stack')[t], Depth(t)), x, k)

Releases(t) ==
    \A x \in Node : \A k \in Nat : Released(x, k)' => Released(x, k) \/ HandedOn(t, x, k)

(* Only released listeners are removed. *)
ListensThen(x, k) == \E l \in (listeners')[x] : l.id = k

Removes ==
    \A x \in Node : \A k \in Nat : Listens(x, k) /\ ~Released(x, k) => ListensThen(x, k)

(* A new mount, at height g, is called for the first listener by the frame *)
(* that owns it.                                                           *)
Begins(t, g) ==
    LET f(h) == Low((stack')[t], h)
    IN  \A h \in Upper(t) :
          Mounts(f(h)) =>
            \/ h = Depth(t) /\ Mounts(Slot(t, h)) /\ f(h).node = Slot(t, h).node
            \/ /\ h = g /\ h > 1 /\ ~Mounted(f(h).node)
               /\ \E k \in Nat : Owns(f(h - 1), f(h).node, k) /\ ListensThen(f(h).node, k)

(* Subscriptions are kept by the mount that made them.                     *)
Resubscribes(t) ==
    LET f(h) == Low((stack')[t], h)
    IN  /\ \A h \in Upper(t) :
             /\ f(h).at = "listen" => (dep_subs')[f(h).node] = <<>>
             /\ f(h).at = "mount" => f(h).ids = <<>>
             /\ f(h).at # "discard"
        /\ \A c \in Derived :
             \/ (dep_subs')[c] \in {dep_subs[c], <<>>}
             \/ /\ Depth(t) \in Slots(t)
                /\ Slot(t, Depth(t)).at = "listen" /\ Slot(t, Depth(t)).node = c
                /\ Len((dep_subs')[c]) = Len(Deps[c])
                /\ \A h \in Upper(t) : ~Mounts(f(h))

(* The frames, counted from the bottom, are frames. *)
LEMMA SlotType ==
    ASSUME Stacks, NEW t \in Thread
    PROVE  /\ Depth(t) \in Nat
           /\ \A h \in Slots(t) : Slot(t, h) \in GoodFrame /\ Slot(t, h).node \in Node
<1>1. stack[t] \in Seq(GoodFrame) /\ Len(stack[t]) \in Nat
  BY LenProperties DEF Stacks
<1>2. ASSUME NEW h \in Slots(t) PROVE Slot(t, h) \in GoodFrame
  <2>1. Len(stack[t]) + 1 - h \in 1..Len(stack[t])
    BY <1>1 DEF Slots
  <2> QED
    BY <1>1, <2>1, ElementOfSeq DEF Slot, Low
<1> QED
  BY <1>1, <1>2 DEF Depth, GoodFrame, Frame

(* A frame after the step is one of those before it or one of the upper.   *)
LEMMA OldOrUpper ==
    ASSUME TypeInv, NEW t \in Thread, Others(t), Lower(t),
           NEW u \in Thread, NEW h \in Slots(u)'
    PROVE  \/ h \in Slots(u) /\ Alike(Slot(u, h)', Slot(u, h)) /\ (u = t => h < Depth(t))
           \/ u = t /\ h \in Upper(t)
<1>1. Slot(u, h)' = Low((stack')[u], h) /\ h \in 1..Len((stack')[u])
  BY DEF Slot, Slots
<1>2. CASE u # t
  BY <1>1, <1>2 DEF Others, Slots, Slot, Alike
<1>3. CASE u = t
  <2>1. Depth(t) \in Nat
    BY SlotType DEF TypeInv
  <2>2. CASE h >= Depth(t)
    BY <1>1, <1>3, <2>2 DEF Upper
  <2>3. CASE ~(h >= Depth(t))
    <3>1. h \in 1..(Depth(t) - 1) /\ h \in 1..Depth(t) /\ h < Depth(t)
      BY <1>1, <2>1, <2>3
    <3> QED
      BY <1>1, <1>3, <3>1 DEF Lower, Slots, Depth
  <2> QED
    BY <2>2, <2>3
<1> QED
  BY <1>2, <1>3

(* What a frame owns, drops or mounts does not depend on its value. *)
LEMMA AlikeOwns ==
    ASSUME NEW f, NEW g, Alike(f, g), NEW x, NEW k
    PROVE  /\ Owns(f, x, k) <=> Owns(g, x, k)
           /\ Frees(f, x, k) <=> Frees(g, x, k)
           /\ Mounts(f) <=> Mounts(g)
BY DEF Alike, Owns, Frees, Mounts

(* A frame owned its listener before the step, or the step added it. *)
LEMMA OwnedBefore ==
    ASSUME TypeInv, NEW t \in Thread, Others(t), Lower(t), NEW g, Owners(t, g),
           NEW u \in Thread, NEW h \in Slots(u)', NEW x \in Node, NEW k \in Nat,
           Owns(Slot(u, h)', x, k)
    PROVE  \/ h \in Slots(u) /\ Owns(Slot(u, h), x, k)
           \/ u = t /\ h = g /\ k = next_id[x] /\ k < (next_id')[x]
<1>1. CASE h \in Slots(u) /\ Alike(Slot(u, h)', Slot(u, h))
  BY <1>1, AlikeOwns
<1>2. CASE u = t /\ h \in Upper(t)
  <2>1. Owns(Low((stack')[t], h), x, k)
    BY <1>2 DEF Slot
  <2>2. Depth(t) \in Nat /\ h \in Nat \ {0}
    BY <1>2, SlotType DEF TypeInv, Upper
  <2>3. h = Depth(t) => h \in Slots(t)
    BY <2>2 DEF Slots, Depth
  <2> QED
    BY <1>2, <2>1, <2>3 DEF Owners
<1> QED
  BY <1>1, <1>2, OldOrUpper

(* Ids stay apart, owners single, and what they own unreleased. *)
LEMMA OwnersKept ==
    ASSUME TypeInv, TypeInv', MountInv, NEW t \in Thread, Others(t), Lower(t),
           NEW g, Owners(t, g), Releases(t)
    PROVE  Numbered' /\ OneOwner' /\ OwnedNotReleased'
<1>1. next_id \in [Node -> Nat] /\ next_id' \in [Node -> Nat]
  BY DEF TypeInv, Tables
<1>2. ASSUME NEW u \in Thread, NEW h \in Slots(u), NEW x \in Node, NEW k \in Nat,
             Owns(Slot(u, h), x, k)
      PROVE  k < next_id[x] /\ ~Released(x, k)
  BY <1>2 DEF MountInv, Numbered, OwnedNotReleased
<1>3. ASSUME NEW x \in Node, NEW k \in Nat, Released(x, k)
      PROVE  k < next_id[x]
  BY <1>3 DEF MountInv, Numbered
<1>4. Numbered'
  <2>1. ASSUME NEW x \in Node, NEW k \in Nat, Released(x, k)'
        PROVE  k < (next_id')[x]
    <3>1. k < next_id[x]
      BY <1>2, <1>3, <2>1 DEF Releases, HandedOn
    <3> QED
      BY <1>1, <3>1 DEF Owners
  <2>2. ASSUME NEW x \in Node, NEW k \in Nat, NEW u \in Thread, NEW h \in Slots(u)',
               Owns(Slot(u, h)', x, k)
        PROVE  k < (next_id')[x]
    <3>1. k < next_id[x] \/ k < (next_id')[x]
      BY <1>2, <2>2, OwnedBefore
    <3> QED
      BY <1>1, <3>1 DEF Owners
  <2> QED
    BY <2>1, <2>2 DEF Numbered
<1>5. OneOwner'
  <2>1. ASSUME NEW u \in Thread, NEW v \in Thread, NEW h \in Slots(u)', NEW i \in Slots(v)',
               NEW x \in Node, NEW k \in Nat,
               Owns(Slot(u, h)', x, k), Owns(Slot(v, i)', x, k)
        PROVE  u = v /\ h = i
    <3>1. \/ h \in Slots(u) /\ Owns(Slot(u, h), x, k)
          \/ u = t /\ h = g /\ k = next_id[x]
      BY <2>1, OwnedBefore
    <3>2. \/ i \in Slots(v) /\ Owns(Slot(v, i), x, k)
          \/ v = t /\ i = g /\ k = next_id[x]
      BY <2>1, OwnedBefore
    <3>3. next_id[x] \in Nat
      BY <1>1
    <3> QED
      BY <1>2, <3>1, <3>2, <3>3 DEF MountInv, OneOwner
  <2> QED
    BY <2>1 DEF OneOwner
<1>6. OwnedNotReleased'
  <2>1. ASSUME NEW u \in Thread, NEW h \in Slots(u)', NEW x \in Node, NEW k \in Nat,
               Owns(Slot(u, h)', x, k), Released(x, k)'
        PROVE  FALSE
    <3>1. \/ h \in Slots(u) /\ Owns(Slot(u, h), x, k)
          \/ u = t /\ h = g /\ k = next_id[x]
      BY <2>1, OwnedBefore
    <3>2. next_id[x] \in Nat
      BY <1>1
    <3>3. CASE Released(x, k)
      BY <1>2, <1>3, <3>1, <3>2, <3>3
    <3>4. CASE HandedOn(t, x, k)
      <4>1. Depth(t) \in Slots(t) /\ Owns(Slot(t, Depth(t)), x, k)
        BY <3>4 DEF HandedOn
      <4>2. u = t /\ h = Depth(t)
        BY <1>2, <3>1, <3>2, <4>1 DEF MountInv, OneOwner
      <4>3. h \in Upper(t)
        BY <2>1, <4>2, SlotType DEF Upper, Slots, TypeInv
      <4>4. Owns(Low((stack')[t], Depth(t)), x, k)
        BY <2>1, <4>2 DEF Slot
      <4> QED
        BY <3>4, <4>2, <4>3, <4>4 DEF HandedOn
    <3> QED
      BY <2>1, <3>3, <3>4 DEF Releases
  <2> QED
    BY <2>1 DEF OwnedNotReleased
<1> QED
  BY <1>4, <1>5, <1>6

(* A mount is that of a mounted store. *)
LEMMA SupportedMounted ==
    ASSUME Stacks, Supported, NEW t \in Thread, NEW h \in Slots(t), Mounts(Slot(t, h))
    PROVE  Mounted(Slot(t, h).node)
BY DEF Supported, Listens, Mounted

(* A frame that mounted before the step. *)
LEMMA MountedBefore ==
    ASSUME TypeInv, NEW t \in Thread, Others(t), Lower(t), NEW g, Begins(t, g),
           NEW u \in Thread, NEW h \in Slots(u)', Mounts(Slot(u, h)')
    PROVE  \/ /\ h \in Slots(u) /\ Mounts(Slot(u, h))
              /\ Slot(u, h)'.node = Slot(u, h).node
           \/ u = t /\ h = g /\ ~Mounted(Slot(u, h)'.node)
<1>1. CASE h \in Slots(u) /\ Alike(Slot(u, h)', Slot(u, h))
  BY <1>1, AlikeOwns DEF Alike
<1>2. CASE u = t /\ h \in Upper(t)
  <2>1. Slot(u, h)' = Low((stack')[t], h)
    BY <1>2 DEF Slot
  <2>2. Depth(t) \in Nat /\ h \in Nat \ {0}
    BY <1>2, SlotType DEF TypeInv, Upper
  <2>3. h = Depth(t) => h \in Slots(t)
    BY <2>2 DEF Slots, Depth
  <2> QED
    BY <1>2, <2>1, <2>3 DEF Begins
<1> QED
  BY <1>1, <1>2, OldOrUpper

(* The one mount of a store stays the only one: it finds the store mounted *)
(* as long as it lasts, and a new one finds it not mounted.               *)
LEMMA MountsKept ==
    ASSUME TypeInv, TypeInv', MountInv, NEW t \in Thread, Others(t), Lower(t),
           NEW g, Begins(t, g), Removes
    PROVE  Supported' /\ OneMount'
<1>1. ASSUME NEW u \in Thread, NEW h \in Slots(u), Mounts(Slot(u, h))
      PROVE  Mounted(Slot(u, h).node)
  BY <1>1, SupportedMounted DEF TypeInv, MountInv
<1>2. OneMount'
  <2>1. ASSUME NEW u \in Thread, NEW v \in Thread, NEW h \in Slots(u)', NEW i \in Slots(v)',
               Mounts(Slot(u, h)'), Mounts(Slot(v, i)'),
               Slot(u, h)'.node = Slot(v, i)'.node
        PROVE  u = v /\ h = i
    <3>1. \/ /\ h \in Slots(u) /\ Mounts(Slot(u, h))
             /\ Slot(u, h)'.node = Slot(u, h).node
          \/ u = t /\ h = g /\ ~Mounted(Slot(u, h)'.node)
      BY <2>1, MountedBefore
    <3>2. \/ /\ i \in Slots(v) /\ Mounts(Slot(v, i))
             /\ Slot(v, i)'.node = Slot(v, i).node
          \/ v = t /\ i = g /\ ~Mounted(Slot(v, i)'.node)
      BY <2>1, MountedBefore
    <3> QED
      BY <1>1, <2>1, <3>1, <3>2 DEF MountInv, OneMount
  <2> QED
    BY <2>1 DEF OneMount
<1>3. Supported'
  <2>1. ASSUME NEW u \in Thread, NEW h \in Slots(u)', Mounts(Slot(u, h)')
        PROVE  h > 1 /\ \E k \in Nat : /\ Owns(Slot(u, h - 1)', Slot(u, h)'.node, k)
                                       /\ ListensThen(Slot(u, h)'.node, k)
    <3>1. Depth(u) \in Nat /\ Depth(t) \in Nat /\ Len((stack')[u]) \in Nat
      BY SlotType DEF TypeInv, Depth
    <3>2. ASSUME h \in Slots(u), Mounts(Slot(u, h)),
                 Slot(u, h)'.node = Slot(u, h).node, u = t => h <= Depth(t)
          PROVE  h > 1 /\ \E k \in Nat : /\ Owns(Slot(u, h - 1)', Slot(u, h)'.node, k)
                                         /\ ListensThen(Slot(u, h)'.node, k)
      <4>1. PICK k \in Nat : /\ h > 1
                             /\ Owns(Slot(u, h - 1), Slot(u, h).node, k)
                             /\ Listens(Slot(u, h).node, k)
        BY <3>2 DEF MountInv, Supported
      <4>2. h - 1 \in Slots(u) /\ h - 1 \in Slots(u)' /\ Slot(u, h).node \in Node
        BY <3>1, <3>2, <4>1, SlotType DEF Slots, Depth, TypeInv
      <4>3. Alike(Slot(u, h - 1)', Slot(u, h - 1))
        <5>1. u = t => ~(h - 1 \in Upper(t))
          BY <3>1, <3>2 DEF Upper, Slots
        <5> QED
          BY <4>2, <5>1, OldOrUpper
      <4>4. Owns(Slot(u, h - 1)', Slot(u, h).node, k)
        BY <4>1, <4>3, AlikeOwns
      <4>5. ListensThen(Slot(u, h).node, k)
        BY <4>1, <4>2 DEF MountInv, OwnedNotReleased, Removes
      <4> QED
        BY <3>2, <4>1, <4>4, <4>5
    <3>3. CASE h \in Slots(u) /\ Alike(Slot(u, h)', Slot(u, h)) /\ (u = t => h < Depth(t))
      <4>1. Mounts(Slot(u, h)) /\ Slot(u, h)'.node = Slot(u, h).node
        BY <2>1, <3>3, AlikeOwns DEF Alike
      <4>2. u = t => h <= Depth(t)
        BY <3>1, <3>3 DEF Slots
      <4> QED
        BY <3>2, <3>3, <4>1, <4>2
    <3>4. CASE u = t /\ h \in Upper(t)
      <4>1. Slot(u, h)' = Low((stack')[t], h) /\ h \in Nat \ {0}
        BY <3>1, <3>4 DEF Slot, Upper
      <4>2. CASE h = Depth(t) /\ Mounts(Slot(t, h)) /\ Slot(u, h)'.node = Slot(t, h).node
        <5>1. h \in Slots(u) /\ h <= Depth(t)
          BY <3>1, <3>4, <4>1, <4>2 DEF Slots, Depth
        <5> QED
          BY <3>2, <3>4, <4>2, <5>1
      <4>3. CASE /\ h > 1
                 /\ \E k \in Nat : /\ Owns(Low((stack')[t], h - 1), Slot(u, h)'.node, k)
                                   /\ ListensThen(Slot(u, h)'.node, k)
        <5>1. Slot(u, h - 1)' = Low((stack')[t], h - 1)
          BY <3>4 DEF Slot
        <5> QED
          BY <4>3, <5>1
      <4> QED
        BY <2>1, <3>4, <4>1, <4>2, <4>3 DEF Begins
    <3> QED
      BY <3>3, <3>4, OldOrUpper
  <2> QED
    BY <2>1 DEF Supported, Listens, ListensThen
<1> QED
  BY <1>2, <1>3

(* What a mount finds empty stays empty until it is done. *)
LEMMA UnsubscribesKept ==
    ASSUME TypeInv, TypeInv', MountInv, NEW t \in Thread, Others(t), Lower(t), Resubscribes(t)
    PROVE  Unsubscribes'
<1>1. ASSUME NEW c \in Derived
      PROVE  (dep_subs')[c] = <<>> \/ Len((dep_subs')[c]) = Len(Deps[c])
  BY DEF Resubscribes, MountInv, Unsubscribes
<1>2. ASSUME NEW u \in Thread, NEW h \in Slots(u)'
      PROVE  /\ Slot(u, h)'.at = "listen" => (dep_subs')[Slot(u, h)'.node] = <<>>
             /\ Slot(u, h)'.at = "mount" => Slot(u, h)'.ids = <<>>
             /\ Slot(u, h)'.at # "discard"
  <2>1. CASE u = t /\ h \in Upper(t)
    <3>1. Slot(u, h)' = Low((stack')[t], h)
      BY <2>1 DEF Slot
    <3> QED
      BY <2>1, <3>1 DEF Resubscribes
  <2>2. CASE h \in Slots(u) /\ Alike(Slot(u, h)', Slot(u, h)) /\ (u = t => h < Depth(t))
    <3>1. /\ Slot(u, h).at = "listen" => dep_subs[Slot(u, h).node] = <<>>
          /\ Slot(u, h).at = "mount" => Slot(u, h).ids = <<>>
          /\ Slot(u, h).at # "discard"
      BY <2>2 DEF MountInv, Unsubscribes
    <3>2. ASSUME Slot(u, h).at = "listen" PROVE (dep_subs')[Slot(u, h).node] = <<>>
      <4> DEFINE c == Slot(u, h).node
      <4>1. c \in Derived
        BY <2>2, <3>2, SlotType DEF TypeInv, GoodFrame, DerivedStage, Stage
      <4>2. CASE (dep_subs')[c] \in {dep_subs[c], <<>>}
        BY <3>1, <3>2, <4>2
      <4>3. CASE /\ Depth(t) \in Slots(t)
                 /\ Slot(t, Depth(t)).at = "listen" /\ Slot(t, Depth(t)).node = c
        <5>1. u = t /\ h = Depth(t)
          BY <2>2, <3>2, <4>3 DEF MountInv, OneMount, Mounts
        <5>2. Depth(t) \in Nat
          BY SlotType DEF TypeInv
        <5> QED
          BY <2>2, <5>1, <5>2
      <4> QED
        BY <4>1, <4>2, <4>3 DEF Resubscribes
    <3> QED
      BY <2>2, <3>1, <3>2 DEF Alike
  <2> QED
    BY <2>1, <2>2, OldOrUpper
<1> QED
  BY <1>1, <1>2 DEF Unsubscribes

(* The parts together. *)
LEMMA InvKept ==
    ASSUME TypeInv, TypeInv', MountInv, NEW t \in Thread, Others(t), Lower(t),
           NEW g, Owners(t, g), NEW b, Begins(t, b), Releases(t), Removes, Resubscribes(t)
    PROVE  MountInv'
BY OwnersKept, MountsKept, UnsubscribesKept DEF MountInv

-----------------------------------------------------------------------------
(* What the calls and returns of a step put on the stack *)

(* A call leaves the frames that were there and adds one. *)
LEMMA CallUpper ==
    ASSUME Stacks, NEW t \in Thread, NEW f, Call(t, f)
    PROVE  /\ Lower(t)
           /\ \A h \in Upper(t) :
                \/ h = Depth(t) /\ h \in Slots(t) /\ Low((stack')[t], h) = Slot(t, h)
                \/ h = Depth(t) + 1 /\ Low((stack')[t], h) = f
<1>1. <<f>> \in Seq({f}) /\ Len(<<f>>) = 1 /\ Low(<<f>>, 1) = f
  BY DEF Low
<1>2. /\ Depth(t) \in Nat /\ Lower(t) /\ Len((stack')[t]) = 1 + Depth(t)
      /\ \A h \in 1..Depth(t) : Low((stack')[t], h) = Slot(t, h)
      /\ \A h \in 1..1 : Low((stack')[t], Depth(t) + h) = Low(<<f>>, h)
  BY <1>1, StackGrows DEF Call
<1>3. Low((stack')[t], Depth(t) + 1) = f
  BY <1>1, <1>2
<1> QED
  BY <1>2, <1>3 DEF Upper, Slots, Depth

(* A step within a function changes the top frame. *)
LEMMA GotoUpper ==
    ASSUME Stacks, NEW t \in Thread, stack[t] # <<>>, NEW f, Goto(t, f)
    PROVE  /\ Lower(t) /\ Depth(t) \in Slots(t) /\ Slot(t, Depth(t)) = Top(t)
           /\ Upper(t) = {Depth(t)} /\ Low((stack')[t], Depth(t)) = f
<1>1. <<f>> \in Seq({f}) /\ Len(<<f>>) = 1 /\ Low(<<f>>, 1) = f
  BY DEF Low
<1>2. /\ Depth(t) \in Nat \ {0} /\ Lower(t) /\ Len((stack')[t]) = 1 + Depth(t) - 1
      /\ \A h \in 1..1 : Low((stack')[t], Depth(t) - 1 + h) = Low(<<f>>, h)
  BY <1>1, TopBecomes DEF Goto
<1>3. Low((stack')[t], Depth(t) - 1 + 1) = f /\ Depth(t) - 1 + 1 = Depth(t)
  BY <1>1, <1>2
<1>4. Slot(t, Depth(t)) = Top(t)
  BY LowTail DEF Stacks, Slot, Depth, Top
<1>5. Upper(t) = {Depth(t)} /\ Depth(t) \in Slots(t)
  BY <1>2 DEF Upper, Slots, Depth
<1> QED
  BY <1>2, <1>3, <1>4, <1>5

(* A step that calls changes the top frame and adds one. *)
LEMMA GotoCallUpper ==
    ASSUME Stacks, NEW t \in Thread, stack[t] # <<>>, NEW f, NEW g, GotoCall(t, f, g)
    PROVE  /\ Lower(t) /\ Depth(t) \in Slots(t) /\ Slot(t, Depth(t)) = Top(t)
           /\ Upper(t) = {Depth(t), Depth(t) + 1}
           /\ Low((stack')[t], Depth(t)) = f /\ Low((stack')[t], Depth(t) + 1) = g
<1>1. /\ <<g, f>> \in Seq({f, g}) /\ Len(<<g, f>>) = 2
      /\ Low(<<g, f>>, 1) = f /\ Low(<<g, f>>, 2) = g
  BY DEF Low
<1>2. /\ Depth(t) \in Nat \ {0} /\ Lower(t) /\ Len((stack')[t]) = 2 + Depth(t) - 1
      /\ \A h \in 1..2 : Low((stack')[t], Depth(t) - 1 + h) = Low(<<g, f>>, h)
  BY <1>1, TopBecomes DEF GotoCall
<1>3. /\ Low((stack')[t], Depth(t) - 1 + 1) = f /\ Depth(t) - 1 + 1 = Depth(t)
      /\ Low((stack')[t], Depth(t) - 1 + 2) = g /\ Depth(t) - 1 + 2 = Depth(t) + 1
  BY <1>1, <1>2
<1>4. Slot(t, Depth(t)) = Top(t)
  BY LowTail DEF Stacks, Slot, Depth, Top
<1>5. Upper(t) = {Depth(t), Depth(t) + 1} /\ Depth(t) \in Slots(t)
  BY <1>2 DEF Upper, Slots, Depth
<1> QED
  BY <1>2, <1>3, <1>4, <1>5

(* A return leaves the frames below and adds none. *)
LEMMA ReturnUpper ==
    ASSUME Stacks, NEW t \in Thread, stack[t] # <<>>, Return(t)
    PROVE  /\ Lower(t) /\ Depth(t) \in Slots(t) /\ Slot(t, Depth(t)) = Top(t)
           /\ Upper(t) = {}
<1>1. <<>> \in Seq({}) /\ Len(<<>>) = 0 /\ Tail(stack[t]) = <<>> \o Tail(stack[t])
  BY TopType, ConcatEmptySeq
<1>2. /\ Depth(t) \in Nat \ {0} /\ Lower(t) /\ Len((stack')[t]) = 0 + Depth(t) - 1
  BY <1>1, TopBecomes DEF Return
<1>3. Slot(t, Depth(t)) = Top(t)
  BY LowTail DEF Stacks, Slot, Depth, Top
<1>4. Upper(t) = {} /\ Depth(t) \in Slots(t)
  BY <1>2 DEF Upper, Slots, Depth
<1> QED
  BY <1>2, <1>3, <1>4

(* A step that changes the frame under the one that returns. *)
LEMMA SecondBecomes ==
    ASSUME NEW S, NEW s \in Seq(S), s # <<>>, Tail(s) # <<>>, NEW g
    PROVE  LET new == <<g>> \o Tail(Tail(s))
           IN  /\ Len(new) = Len(s) - 1 /\ Len(s) - 1 \in Nat \ {0}
               /\ \A h \in 1..(Len(s) - 2) : Low(new, h) = Low(s, h)
               /\ Low(new, Len(s) - 1) = g
<1> DEFINE r == Tail(s)
           q == Tail(r)
           T == S \union {g}
<1>1. /\ Len(s) \in Nat \ {0} /\ Len(r) = Len(s) - 1 /\ r \in Seq(S) /\ r # <<>>
      /\ \A h \in 1..(Len(s) - 1) : Low(r, h) = Low(s, h)
  BY LowTail
<1> HIDE DEF r
<1>2. /\ Len(r) \in Nat \ {0} /\ Len(q) = Len(r) - 1 /\ q \in Seq(S)
      /\ \A h \in 1..(Len(r) - 1) : Low(q, h) = Low(r, h)
  BY <1>1, LowTail
<1>3. q \in Seq(T)
  BY <1>2, SeqMonotonic
<1> HIDE DEF q
<1>4. g \in T
  BY DEF T
<1> HIDE DEF T
<1> DEFINE new == <<g>> \o q
<1>5. /\ Len(new) = Len(q) + 1
      /\ \A h \in 1..Len(q) : Low(new, h) = Low(q, h)
      /\ Low(new, Len(q) + 1) = g
  BY <1>3, <1>4, LowPush
<1> HIDE DEF new
<1>6. Len(q) + 1 = Len(s) - 1 /\ Len(q) = Len(s) - 2 /\ Len(s) - 1 \in Nat \ {0}
  BY <1>1, <1>2
<1>7. ASSUME NEW h \in 1..(Len(s) - 2) PROVE Low(new, h) = Low(s, h)
  BY <1>1, <1>2, <1>5, <1>6
<1>8. Len(new) = Len(s) - 1 /\ Low(new, Len(s) - 1) = g
  BY <1>1, <1>2, <1>5, <1>6
<1> QED
  BY <1>6, <1>7, <1>8 DEF new, q, r

(* The frame that gets the value differs in the value only. *)
LEMMA ReturnValueUpper ==
    ASSUME Stacks, NEW t \in Thread, stack[t] # <<>>, NEW v, ReturnValue(t, v)
    PROVE  Lower(t) /\ Upper(t) = {}
<1> DEFINE rest == Tail(stack[t])
           f == Head(rest)
           g == [f EXCEPT !.value = Merge(f.value, v)]
<1>1. CASE rest # <<>> /\ f.at \in {"recompute", "compute"}
  <2>1. /\ Depth(t) \in Nat \ {0} /\ Len(rest) = Depth(t) - 1 /\ rest \in Seq(GoodFrame)
        /\ \A h \in 1..(Depth(t) - 1) : Low(rest, h) = Slot(t, h)
    BY LowTail DEF Stacks, Depth, Slot
  <2>2. f \in Frame /\ Low(rest, Len(rest)) = f /\ Len(rest) \in Nat \ {0}
    BY <1>1, <2>1, HeadTailProperties, LowTail DEF GoodFrame
  <2>3. Alike(g, f)
    BY <2>2 DEF Alike, Frame
  <2>4. (stack')[t] = <<g>> \o Tail(rest)
    BY <1>1 DEF ReturnValue, StackBecomes, Stacks
  <2> HIDE DEF g, f
  <2>5. /\ Len((stack')[t]) = Depth(t) - 1
        /\ \A h \in 1..(Depth(t) - 2) : Low((stack')[t], h) = Slot(t, h)
        /\ Low((stack')[t], Depth(t) - 1) = g
    BY <1>1, <2>4, SecondBecomes DEF Stacks, Depth, Slot
  <2>6. ASSUME NEW h \in 1..(Depth(t) - 1)
        PROVE  Alike(Low((stack')[t], h), Slot(t, h))
    <3>1. CASE h = Depth(t) - 1
      BY <2>1, <2>2, <2>3, <2>5, <3>1
    <3>2. CASE h # Depth(t) - 1
      <4>1. h \in 1..(Depth(t) - 2)
        BY <2>1, <3>2
      <4> QED
        BY <2>5, <4>1 DEF Alike
    <3> QED
      BY <3>1, <3>2
  <2> QED
    BY <2>1, <2>5, <2>6 DEF Lower, Upper
<1>2. CASE ~(rest # <<>> /\ f.at \in {"recompute", "compute"})
  <2>1. Return(t)
    BY <1>2 DEF ReturnValue, Return
  <2> QED
    BY <2>1, ReturnUpper
<1> QED
  BY <1>1, <1>2

-----------------------------------------------------------------------------
(* Steps that neither mount nor touch a subscription *)
Plain(f) == f.at \notin {"watch", "mount", "listen", "unmount", "unsubscribe", "discard"}

(* An unmount that has not begun has none to drop yet.                     *)
Loose(f) == Plain(f) \/ f.at = "unmount"

Quiet(t) ==
    /\ Lower(t)
    /\ \A h \in Upper(t) :
         \/ Plain(Low((stack')[t], h))
         \/ h = Depth(t) /\ h \in Slots(t) /\ Alike(Low((stack')[t], h), Slot(t, h))

(* A plain frame has nothing to do with subscriptions. *)
LEMMA PlainOwns ==
    ASSUME NEW f, Plain(f) \/ f.at = "unmount", NEW x, NEW k
    PROVE  ~Owns(f, x, k) /\ ~Frees(f, x, k) /\ ~Mounts(f)
BY DEF Plain, Owns, Frees, Mounts

(* The three ways to be released. *)
LEMMA ReleasesFrom ==
    ASSUME TypeInv, NEW t \in Thread, Others(t), Lower(t),
           \A x \in Node : \A k \in Nat :
               <<x, k>> \in held' => Released(x, k) \/ HandedOn(t, x, k),
           \A x \in Node : \A k \in Nat :
               Keeps(x, k)' => Released(x, k) \/ HandedOn(t, x, k),
           \A h \in Upper(t) : \A x \in Node : \A k \in Nat :
               Frees(Low((stack')[t], h), x, k) => Released(x, k) \/ HandedOn(t, x, k)
    PROVE  Releases(t)
<1>1. ASSUME NEW x \in Node, NEW k \in Nat, NEW u \in Thread, NEW h \in Slots(u)',
             Frees(Slot(u, h)', x, k)
      PROVE  Released(x, k) \/ HandedOn(t, x, k)
  <2>1. CASE h \in Slots(u) /\ Alike(Slot(u, h)', Slot(u, h))
    BY <1>1, <2>1, AlikeOwns DEF Released
  <2>2. CASE u = t /\ h \in Upper(t)
    BY <1>1, <2>2 DEF Slot
  <2> QED
    BY <2>1, <2>2, OldOrUpper
<1> QED
  BY <1>1 DEF Released, Releases

(* A quiet step puts no drop on the stack that was not there, *)
LEMMA QuietFrees ==
    ASSUME NEW t \in Thread, Quiet(t), NEW h \in Upper(t), NEW x \in Node, NEW k \in Nat,
           Frees(Low((stack')[t], h), x, k)
    PROVE  Released(x, k)
BY PlainOwns, AlikeOwns DEF Quiet, Released

(* releases nothing, *)
LEMMA QuietReleases ==
    ASSUME TypeInv, NEW t \in Thread, Others(t), Quiet(t), UNCHANGED <<dep_subs, held>>
    PROVE  Releases(t)
<1>1. Lower(t)
  BY DEF Quiet
<1>2. \A x \in Node : \A k \in Nat : Keeps(x, k)' => Released(x, k)
  BY DEF Keeps, Released
<1>3. \A x \in Node : \A k \in Nat : <<x, k>> \in held' => Released(x, k)
  BY DEF Released
<1> QED
  BY <1>1, <1>2, <1>3, QuietFrees, ReleasesFrom

(* adds no owner, *)
LEMMA QuietOwners ==
    ASSUME TypeInv, NEW t \in Thread, Quiet(t), UNCHANGED next_id
    PROVE  Owners(t, 0)
<1>1. \A x \in Node : next_id[x] <= (next_id')[x]
  BY DEF TypeInv, Tables
<1> QED
  BY <1>1, PlainOwns, AlikeOwns DEF Quiet, Owners

(* begins no mount, *)
LEMMA QuietBegins ==
    ASSUME NEW t \in Thread, Quiet(t)
    PROVE  Begins(t, 0)
BY PlainOwns, AlikeOwns DEF Quiet, Begins, Alike

(* keeps no subscriptions, *)
LEMMA QuietResubscribes ==
    ASSUME MountInv, NEW t \in Thread, Quiet(t), UNCHANGED dep_subs
    PROVE  Resubscribes(t)
<1>1. ASSUME NEW h \in Upper(t)
      PROVE  LET f == Low((stack')[t], h)
             IN  /\ f.at = "listen" => (dep_subs')[f.node] = <<>>
                 /\ f.at = "mount" => f.ids = <<>>
                 /\ f.at # "discard"
  BY DEF Quiet, Plain, Alike, MountInv, Unsubscribes
<1> QED
  BY <1>1 DEF Resubscribes

(* and removes no listener: *)
LEMMA QuietRemoves ==
    ASSUME UNCHANGED listeners
    PROVE  Removes
BY DEF Removes, Listens, ListensThen

(* it keeps the invariant. *)
LEMMA QuietKept ==
    ASSUME TypeInv, TypeInv', MountInv, NEW t \in Thread, Others(t), Quiet(t),
           UNCHANGED <<tables, held>>
    PROVE  MountInv'
<1>1. Lower(t) /\ UNCHANGED <<listeners, next_id, dep_subs, held>>
  BY DEF Quiet, tables
<1> QED
  BY <1>1, QuietReleases, QuietOwners, QuietBegins, QuietResubscribes, QuietRemoves, InvKept

(* The calls and returns that put plain frames on the stack are quiet. *)
LEMMA QuietOps ==
    ASSUME Stacks, NEW t \in Thread
    PROVE  /\ \A f : Call(t, f) /\ Plain(f) => Quiet(t)
           /\ \A f : stack[t] # <<>> /\ Goto(t, f) /\ Plain(f) => Quiet(t)
           /\ \A f, g :
                stack[t] # <<>> /\ GotoCall(t, f, g) /\ Plain(f) /\ Plain(g) => Quiet(t)
           /\ stack[t] # <<>> /\ Return(t) => Quiet(t)
           /\ \A v : stack[t] # <<>> /\ ReturnValue(t, v) => Quiet(t)
           /\ UNCHANGED stack => Quiet(t)
<1>1. ASSUME NEW f, Call(t, f), Plain(f) PROVE Quiet(t)
  BY <1>1, CallUpper DEF Quiet, Alike
<1>2. ASSUME stack[t] # <<>>, NEW f, Goto(t, f), Plain(f) PROVE Quiet(t)
  BY <1>2, GotoUpper DEF Quiet
<1>3. ASSUME stack[t] # <<>>, NEW f, NEW g, GotoCall(t, f, g), Plain(f), Plain(g)
      PROVE  Quiet(t)
  BY <1>3, GotoCallUpper DEF Quiet
<1>4. ASSUME stack[t] # <<>>, Return(t) PROVE Quiet(t)
  BY <1>4, ReturnUpper DEF Quiet
<1>5. ASSUME stack[t] # <<>>, NEW v, ReturnValue(t, v) PROVE Quiet(t)
  BY <1>5, ReturnValueUpper DEF Quiet
<1>6. ASSUME UNCHANGED stack PROVE Quiet(t)
  <2>1. Depth(t) \in Nat
    BY SlotType
  <2> QED
    BY <1>6, <2>1 DEF Quiet, Lower, Upper, Alike, Depth, Slots, Slot
<1> QED
  BY <1>1, <1>2, <1>3, <1>4, <1>5, <1>6

(* A call of anything else than these stages is plain. *)
LEMMA NewFramePlain ==
    ASSUME NEW stage, NEW x,
           stage \notin {"watch", "mount", "listen", "unmount", "unsubscribe", "discard"}
    PROVE  Plain(NewFrame(stage, x))
BY DEF Plain, NewFrame

(* set, write, enqueue and drain *)
LEMMA StoreQuiet ==
    ASSUME TypeInv, NEW t \in Thread,
           Write(t) \/ WriteBack(t) \/ Enqueue(t) \/ Drain(t) \/ \E s \in Source : Set(t, s)
    PROVE  Quiet(t) /\ UNCHANGED <<tables, held>>
<1> DEFINE f == Top(t)
<1>1. Stacks
  BY DEF TypeInv
<1>2. stack[t] # <<>> => f \in Frame
  BY <1>1, TopType
<1>3. CASE \E s \in Source : Set(t, s)
  <2>1. PICK s \in Source, n \in Int :
          Call(t, [NewFrame("write", s) EXCEPT !.value = Version(s, n)])
    BY <1>3 DEF Set, TypeInv, Program
  <2>2. Plain([NewFrame("write", s) EXCEPT !.value = Version(s, n)])
    BY DEF Plain, NewFrame
  <2> QED
    BY <1>1, <1>3, <2>1, <2>2, QuietOps DEF Set
<1>4. CASE Write(t)
  <2> DEFINE g(stage) == [f EXCEPT !.at = stage, !.n = write_seq[f.node] + 1]
  <2>1. stack[t] # <<>>
    BY <1>4 DEF Write, Writes, At
  <2>2. Return(t) \/ Goto(t, g("enqueue")) \/ Goto(t, g("write_back"))
    BY <1>4 DEF Write
  <2>3. Plain(g("enqueue")) /\ Plain(g("write_back"))
    BY <1>2, <2>1 DEF Plain, Frame
  <2> HIDE DEF g
  <2> QED
    BY <1>1, <1>4, <2>1, <2>2, <2>3, QuietOps DEF Write, program
<1>5. CASE WriteBack(t)
  <2>1. stack[t] # <<>> /\ Goto(t, [f EXCEPT !.at = "enqueue"])
    BY <1>5 DEF WriteBack, At
  <2>2. Plain([f EXCEPT !.at = "enqueue"])
    BY <1>2, <2>1 DEF Plain, Frame
  <2> QED
    BY <1>1, <1>5, <2>1, <2>2, QuietOps DEF WriteBack, program
<1>6. CASE Enqueue(t)
  <2>1. stack[t] # <<>> /\ (Return(t) \/ Goto(t, NewFrame("drain", f.node)))
    BY <1>6 DEF Enqueue, At
  <2> QED
    BY <1>1, <1>6, <2>1, NewFramePlain, QuietOps DEF Enqueue, program
<1>7. CASE Drain(t)
  <2> DEFINE g == [f EXCEPT !.at = "deliver", !.todo = listeners[f.node]]
  <2>1. stack[t] # <<>> /\ (Return(t) \/ UNCHANGED stack \/ Goto(t, g))
    BY <1>7 DEF Drain, At
  <2>2. Plain(g)
    BY <1>2, <2>1 DEF Plain, Frame
  <2> HIDE DEF g
  <2> QED
    BY <1>1, <1>7, <2>1, <2>2, QuietOps DEF Drain, program
<1> QED
  BY <1>3, <1>4, <1>5, <1>6, <1>7

(* The delivery to listeners, and the flush of deferred recomputes *)
LEMMA NotifyingQuiet ==
    ASSUME TypeInv, NEW t \in Thread,
           \/ CallUser(t) \/ UserReturns(t) \/ DependencyChanged(t)
           \/ GuardDropped(t) \/ FlushDeferred(t)
    PROVE  Quiet(t) /\ UNCHANGED <<tables, held>>
<1> DEFINE f == Top(t)
<1>1. Stacks /\ stack[t] # <<>>
  BY DEF TypeInv, CallUser, UserReturns, DependencyChanged, GuardDropped, FlushDeferred, At
<1>2. f \in Frame
  BY <1>1, TopType
<1>3. ASSUME NEW stage \in {"user", "deliver", "flush", "drain"}
      PROVE  Plain([f EXCEPT !.at = stage])
  BY <1>2, <1>3 DEF Plain, Frame
<1>4. ASSUME NEW l, f.at = "deliver"
      PROVE  Plain(Called(t, l)) /\ Plain([Called(t, l) EXCEPT !.at = "user"])
  <2> DEFINE g == [f EXCEPT !.todo = f.todo \ {l}]
  <2>1. g \in Frame /\ g.at = "deliver"
    BY <1>2, <1>4 DEF Frame
  <2>2. Called(t, l) = g
    BY DEF Called
  <2> HIDE DEF g
  <2>3. Plain(g) /\ Plain([g EXCEPT !.at = "user"])
    BY <2>1 DEF Plain, Frame
  <2> QED
    BY <2>2, <2>3
<1>5. CASE CallUser(t) \/ DependencyChanged(t)
  <2>1. /\ f.at = "deliver"
        /\ \E l : \/ Goto(t, [Called(t, l) EXCEPT !.at = "user"])
                  \/ Goto(t, Called(t, l))
                  \/ GotoCall(t, Called(t, l), NewFrame("schedule", l.to))
    BY <1>5 DEF CallUser, DependencyChanged, At
  <2> QED
    BY <1>1, <1>4, <1>5, <2>1, NewFramePlain, QuietOps DEF CallUser, DependencyChanged, program
<1>6. CASE UserReturns(t)
  BY <1>1, <1>3, <1>6, QuietOps DEF UserReturns, program
<1>7. CASE GuardDropped(t)
  <2>1. Goto(t, [f EXCEPT !.at = "flush"]) \/ Goto(t, [f EXCEPT !.at = "drain"])
    BY <1>7 DEF GuardDropped
  <2> QED
    BY <1>1, <1>3, <1>7, <2>1, QuietOps DEF GuardDropped, program
<1>8. CASE FlushDeferred(t)
  <2>1. Goto(t, [f EXCEPT !.at = "drain"]) \/ Call(t, NewFrame("job", Head(deferred[t])))
    BY <1>8 DEF FlushDeferred
  <2> QED
    BY <1>1, <1>3, <1>8, <2>1, NewFramePlain, QuietOps DEF FlushDeferred, program
<1> QED
  BY <1>5, <1>6, <1>7, <1>8

(* The scheduler's jobs, recompute and get *)
LEMMA RecomputeQuiet ==
    ASSUME TypeInv, NEW t \in Thread,
           \/ Schedule(t) \/ FlushJobs(t) \/ JobDone(t) \/ Job(t) \/ Look(t)
           \/ ReadDependency(t) \/ Get(t) \/ Load(t) \/ ReplaceSilently(t)
           \/ Flush(t) \/ \E c \in Derived : GetCall(t, c)
    PROVE  Quiet(t) /\ UNCHANGED <<tables, held>>
<1> DEFINE f == Top(t)
<1>1. Stacks
  BY DEF TypeInv
<1>2. CASE Flush(t) \/ \E c \in Derived : GetCall(t, c)
  <2>1. \E x : Call(t, NewFrame("flush_jobs", x)) \/ Call(t, NewFrame("get", x))
    BY <1>2 DEF Flush, GetCall
  <2> QED
    BY <1>1, <1>2, <2>1, NewFramePlain, QuietOps DEF Flush, GetCall, program
<1>3. ASSUME stack[t] # <<>>,
             NEW stage \in {"flush_jobs", "running", "look", "recompute", "load", "compute"}
      PROVE  Plain([f EXCEPT !.at = stage])
  BY <1>1, <1>3, TopType DEF Plain, Frame
<1>4. CASE Schedule(t) \/ FlushJobs(t) \/ JobDone(t)
  <2>1. /\ stack[t] # <<>>
        /\ \/ Return(t) \/ Goto(t, [f EXCEPT !.at = "flush_jobs"])
           \/ GotoCall(t, [f EXCEPT !.at = "running"], NewFrame("job", Head(jobs)))
    BY <1>4 DEF Schedule, FlushJobs, JobDone, At
  <2> QED
    BY <1>1, <1>3, <1>4, <2>1, NewFramePlain, QuietOps
       DEF Schedule, FlushJobs, JobDone, program
<1>5. CASE Job(t) \/ Look(t) \/ Get(t)
  <2>1. /\ stack[t] # <<>>
        /\ \/ Return(t)
           \/ \E stage \in {"look", "recompute", "load", "compute"} :
                Goto(t, [f EXCEPT !.at = stage])
    BY <1>5 DEF Job, Look, Get, At
  <2> QED
    BY <1>1, <1>3, <1>5, <2>1, QuietOps DEF Job, Look, Get, program
<1>6. CASE ReadDependency(t)
  <2> DEFINE g == [f EXCEPT !.n = f.n + 1]
             d == Deps[g.node][g.n]
             e == [g EXCEPT !.value = Merge(g.value, val[d])]
  <2>1. stack[t] # <<>> /\ f.at \in {"recompute", "compute"}
    BY <1>6 DEF ReadDependency, Reads
  <2>2. f \in Frame
    BY <1>1, <2>1, TopType
  <2>3. g.at = f.at /\ e.at = f.at
    BY <2>2 DEF Frame
  <2>4. Goto(t, e) \/ GotoCall(t, g, NewFrame("get", d))
    BY <1>6 DEF ReadDependency
  <2> HIDE DEF g, e, d
  <2>5. Plain(g) /\ Plain(e)
    BY <2>1, <2>3 DEF Plain
  <2> QED
    BY <1>1, <1>6, <2>1, <2>4, <2>5, NewFramePlain, QuietOps DEF ReadDependency, program
<1>7. CASE Load(t) \/ ReplaceSilently(t)
  <2>1. stack[t] # <<>> /\ \E v : ReturnValue(t, v)
    BY <1>7 DEF Load, ReplaceSilently, At
  <2> QED
    BY <1>1, <1>7, <2>1, QuietOps DEF Load, ReplaceSilently, program
<1> QED
  BY <1>2, <1>4, <1>5, <1>6, <1>7

-----------------------------------------------------------------------------
(* Steps that add or remove a listener *)

(* add_listener: the frame at height b owns the new listener, and the      *)
(* mount above it, if there is one, is called for the first listener.      *)
LEMMA AddKept ==
    ASSUME TypeInv, TypeInv', MountInv, NEW t \in Thread, Others(t), Lower(t),
           NEW x \in Node, NEW owner, NEW b \in Nat \ {0}, NEW f,
           listeners' = [listeners EXCEPT ![x] = @ \union {[id |-> next_id[x], to |-> owner]}],
           next_id' = [next_id EXCEPT ![x] = @ + 1],
           UNCHANGED <<dep_subs, held>>,
           Low((stack')[t], b) = f, b \in {Depth(t), Depth(t) + 1},
           \A h \in Upper(t) :
               \/ h = Depth(t) /\ h # b /\ h \in Slots(t) /\ Low((stack')[t], h) = Slot(t, h)
               \/ h = b
               \/ h = b + 1 /\ Low((stack')[t], h) = NewFrame("mount", x) /\ ~Mounted(x),
           f.at = "watch" \/ (f.at = "listen" /\ b \in Slots(t) /\ b = Depth(t)
                              /\ Slot(t, b).at = "listen" /\ f.node = Slot(t, b).node),
           Owns(f, x, next_id[x]),
           \A y \in Node : \A k \in Nat :
               Owns(f, y, k) => \/ y = x /\ k = next_id[x]
                                \/ b = Depth(t) /\ Owns(Slot(t, b), y, k)
    PROVE  MountInv'
<1> DEFINE g == NewFrame("mount", x)
           new(h) == Low((stack')[t], h)
<1>1. next_id \in [Node -> Nat] /\ (next_id')[x] = next_id[x] + 1 /\ next_id[x] \in Nat
  BY DEF TypeInv, Tables
<1>2. Depth(t) \in Nat
  BY SlotType DEF TypeInv
<1>3. \A y, k : ~Owns(g, y, k) /\ ~Frees(g, y, k) /\ ~Frees(f, y, k)
  BY DEF NewFrame, Owns, Frees
<1>4. Owners(t, b)
  <2>1. \A y \in Node : next_id[y] <= (next_id')[y]
    BY <1>1
  <2>2. ASSUME NEW h \in Upper(t), NEW y \in Node, NEW k \in Nat, Owns(new(h), y, k)
        PROVE  \/ h = Depth(t) /\ Owns(Slot(t, h), y, k)
               \/ h = b /\ k = next_id[y] /\ k < (next_id')[y]
    BY <1>1, <1>3, <2>2
  <2> QED
    BY <2>1, <2>2 DEF Owners
<1>5. ListensThen(x, next_id[x])
  <2>1. [id |-> next_id[x], to |-> owner] \in (listeners')[x]
    BY DEF TypeInv, Tables
  <2> QED
    BY <2>1 DEF ListensThen
<1>6. Begins(t, b + 1)
  <2>1. ASSUME NEW h \in Upper(t), Mounts(new(h))
        PROVE  \/ h = Depth(t) /\ Mounts(Slot(t, h)) /\ new(h).node = Slot(t, h).node
               \/ /\ h = b + 1 /\ h > 1 /\ ~Mounted(new(h).node)
                  /\ \E k \in Nat : /\ Owns(new(h - 1), new(h).node, k)
                                    /\ ListensThen(new(h).node, k)
    <3>1. CASE h = b
      BY <2>1, <3>1 DEF Mounts
    <3>2. CASE h = b + 1 /\ new(h) = g /\ ~Mounted(x)
      <4>1. h > 1 /\ h - 1 = b /\ g.node = x
        BY <3>2 DEF NewFrame
      <4>2. new(h).node = x /\ new(h - 1) = f
        BY <3>2, <4>1
      <4> QED
        BY <1>1, <1>5, <3>2, <4>1, <4>2
    <3> QED
      BY <2>1, <3>1, <3>2
  <2> QED
    BY <2>1 DEF Begins
<1>7. Releases(t)
  <2>1. \A y \in Node : \A k \in Nat : Keeps(y, k)' => Released(y, k)
    BY DEF Keeps, Released
  <2>2. \A y \in Node : \A k \in Nat : <<y, k>> \in held' => Released(y, k)
    BY DEF Released
  <2>3. ASSUME NEW h \in Upper(t), NEW y \in Node, NEW k \in Nat, Frees(new(h), y, k)
        PROVE  Released(y, k)
    BY <1>3, <2>3 DEF Released
  <2> QED
    BY <2>1, <2>2, <2>3, ReleasesFrom
<1>8. Removes
  BY DEF Removes, Listens, ListensThen, TypeInv, Tables
<1>9. Resubscribes(t)
  <2>1. ASSUME NEW h \in Upper(t)
        PROVE  /\ new(h).at = "listen" => dep_subs[new(h).node] = <<>>
               /\ new(h).at = "mount" => new(h).ids = <<>>
               /\ new(h).at # "discard"
    <3>1. CASE h = b
      BY <3>1 DEF MountInv, Unsubscribes
    <3>2. CASE new(h) = g
      BY <3>2 DEF NewFrame
    <3>3. CASE h \in Slots(t) /\ new(h) = Slot(t, h)
      BY <3>3 DEF MountInv, Unsubscribes
    <3> QED
      BY <3>1, <3>2, <3>3
  <2> QED
    BY <2>1 DEF Resubscribes
<1> HIDE DEF g, new
<1> QED
  BY <1>4, <1>6, <1>7, <1>8, <1>9, InvKept

(* remove_listener: the listener's subscription was released, and what is  *)
(* left of a frame that drops subscriptions drops no others.               *)
LEMMA RemoveKept ==
    ASSUME TypeInv, TypeInv', MountInv, NEW t \in Thread, Others(t), Lower(t),
           NEW x \in Node, NEW id \in Nat, Released(x, id),
           listeners' = [listeners EXCEPT ![x] = {l \in @ : l.id # id}],
           UNCHANGED <<next_id, dep_subs>>, held' \subseteq held,
           \A h \in Upper(t) :
               \/ Loose(Low((stack')[t], h))
               \/ /\ h = Depth(t) /\ h \in Slots(t)
                  /\ \/ Low((stack')[t], h) = Slot(t, h)
                     \/ /\ Low((stack')[t], h).at = "unsubscribe"
                        /\ \A y \in Node : \A k \in Nat :
                             Frees(Low((stack')[t], h), y, k) => Frees(Slot(t, h), y, k)
    PROVE  MountInv'
<1> DEFINE new(h) == Low((stack')[t], h)
<1>1. \A h \in Upper(t) : \A y, k :
        new(h).at = "unsubscribe" => ~Owns(new(h), y, k) /\ ~Mounts(new(h))
  BY DEF Owns, Mounts
<1>2. \A h \in Upper(t) : \A y, k :
        Loose(new(h)) => ~Owns(new(h), y, k) /\ ~Mounts(new(h)) /\ ~Frees(new(h), y, k)
  BY PlainOwns DEF Loose
<1>3. Owners(t, 0)
  <2>1. \A y \in Node : next_id[y] <= (next_id')[y]
    BY DEF TypeInv, Tables
  <2>2. ASSUME NEW h \in Upper(t), NEW y \in Node, NEW k \in Nat, Owns(new(h), y, k)
        PROVE  h = Depth(t) /\ Owns(Slot(t, h), y, k)
    BY <1>1, <1>2, <2>2
  <2> QED
    BY <2>1, <2>2 DEF Owners
<1>4. Begins(t, 0)
  <2>1. ASSUME NEW h \in Upper(t), Mounts(new(h))
        PROVE  h = Depth(t) /\ Mounts(Slot(t, h)) /\ new(h).node = Slot(t, h).node
    BY <1>1, <1>2, <2>1
  <2> QED
    BY <2>1 DEF Begins
<1>5. Releases(t)
  <2>1. \A y \in Node : \A k \in Nat : Keeps(y, k)' => Released(y, k)
    BY DEF Keeps, Released
  <2>2. \A y \in Node : \A k \in Nat : <<y, k>> \in held' => Released(y, k)
    BY DEF Released
  <2>3. ASSUME NEW h \in Upper(t), NEW y \in Node, NEW k \in Nat, Frees(new(h), y, k)
        PROVE  Released(y, k)
    <3>1. h \in Slots(t) /\ Frees(Slot(t, h), y, k)
      BY <1>2, <2>3
    <3> QED
      BY <3>1 DEF Released
  <2> QED
    BY <2>1, <2>2, <2>3, ReleasesFrom
<1>6. Removes
  <2>1. ASSUME NEW y \in Node, NEW k \in Nat, Listens(y, k), ~Released(y, k)
        PROVE  ListensThen(y, k)
    <3>1. PICK l \in listeners[y] : l.id = k
      BY <2>1 DEF Listens
    <3>2. l \in (listeners')[y]
      BY <2>1, <3>1 DEF TypeInv, Tables
    <3> QED
      BY <3>1, <3>2 DEF ListensThen
  <2> QED
    BY <2>1 DEF Removes
<1>7. Resubscribes(t)
  <2>1. ASSUME NEW h \in Upper(t)
        PROVE  /\ new(h).at = "listen" => dep_subs[new(h).node] = <<>>
               /\ new(h).at = "mount" => new(h).ids = <<>>
               /\ new(h).at # "discard"
    <3>1. CASE Loose(new(h))
      BY <3>1 DEF Loose, Plain
    <3>2. CASE h \in Slots(t) /\ new(h) = Slot(t, h)
      BY <3>2 DEF MountInv, Unsubscribes
    <3> QED
      BY <3>1, <3>2
  <2> QED
    BY <2>1 DEF Resubscribes
<1> HIDE DEF new
<1> QED
  BY <1>3, <1>4, <1>5, <1>6, <1>7, InvKept

(* Two frames on a stack, put there together or one after the other. *)
LEMMA TwoFrames ==
    ASSUME NEW S, NEW f \in S, NEW g \in S, NEW s \in Seq(S)
    PROVE  /\ <<g>> \o (<<f>> \o s) = <<g, f>> \o s
           /\ <<>> \o (<<f>> \o s) = <<f>> \o s
<1>1. <<f>> \in Seq(S) /\ <<g>> \in Seq(S) /\ <<g, f>> \in Seq(S)
  OBVIOUS
<1>2. <<g>> \o <<f>> = <<g, f>>
  <2> DEFINE p == <<g>> \o <<f>>
             q == <<g, f>>
  <2>1. /\ p \in Seq(S) /\ Len(p) = 2
        /\ \A i \in 1..2 : p[i] = IF i <= 1 THEN <<g>>[i] ELSE <<f>>[i - 1]
    BY <1>1, ConcatProperties
  <2>2. q \in Seq(S) /\ Len(q) = 2 /\ p[1] = q[1] /\ p[2] = q[2]
    BY <1>1, <2>1
  <2> HIDE DEF p, q
  <2>3. p = q
    BY <2>1, <2>2, SeqEqual
  <2> QED
    BY <2>3 DEF p, q
<1>3. <<f>> \o s \in Seq(S)
  BY <1>1, ConcatProperties
<1>4. (<<g>> \o <<f>>) \o s = <<g>> \o (<<f>> \o s)
  BY <1>1, ConcatAssociative
<1> QED
  BY <1>2, <1>3, <1>4, ConcatEmptySeq

-----------------------------------------------------------------------------
(* The actions that are left *)

(* listen owns its listener until it returns, and mounts above it. *)
LEMMA WatchKept ==
    ASSUME TypeInv, TypeInv', MountInv, NEW t \in Thread, Others(t),
           NEW x \in Watched, Watch(t, x)
    PROVE  MountInv'
<1> DEFINE f == [NewFrame("watch", x) EXCEPT !.n = next_id[x]]
           g == NewFrame("mount", x)
           b == Depth(t) + 1
<1>1. Stacks /\ x \in Node /\ stack[t] \in Seq(GoodFrame)
  BY GraphAssumption DEF TypeInv, Stacks
<1>2. AddListener(t, x, User, stack[t], f) /\ UNCHANGED <<dep_subs, held>>
  BY DEF Watch
<1>3. f.at = "watch" /\ f.node = x /\ f.n = next_id[x]
  BY DEF NewFrame
<1>4. /\ Owns(f, x, next_id[x])
      /\ \A y, k : Owns(f, y, k) => y = x /\ k = next_id[x]
  BY <1>3 DEF Owns
<1>5. /\ <<f>> \in Seq({f}) /\ Len(<<f>>) = 1 /\ Low(<<f>>, 1) = f
      /\ <<g, f>> \in Seq({f, g}) /\ Len(<<g, f>>) = 2
      /\ Low(<<g, f>>, 1) = f /\ Low(<<g, f>>, 2) = g
  BY DEF Low
<1> HIDE DEF f, g
<1>6. \/ StackBecomes(t, <<f>> \o stack[t])
      \/ ~Mounted(x) /\ StackBecomes(t, <<g, f>> \o stack[t])
  BY <1>2 DEF AddListener, g
<1>7. /\ Depth(t) \in Nat /\ Lower(t) /\ Low((stack')[t], b) = f
      /\ \A h \in Upper(t) :
           \/ h = Depth(t) /\ h # b /\ h \in Slots(t) /\ Low((stack')[t], h) = Slot(t, h)
           \/ h = b
           \/ h = b + 1 /\ Low((stack')[t], h) = g /\ ~Mounted(x)
  <2>1. CASE StackBecomes(t, <<f>> \o stack[t])
    <3>1. /\ Depth(t) \in Nat /\ Lower(t) /\ Len((stack')[t]) = 1 + Depth(t)
          /\ \A h \in 1..Depth(t) : Low((stack')[t], h) = Slot(t, h)
          /\ \A h \in 1..1 : Low((stack')[t], Depth(t) + h) = Low(<<f>>, h)
      BY <1>1, <1>5, <2>1, StackGrows
    <3>2. Low((stack')[t], b) = f
      BY <1>5, <3>1
    <3>3. \A h \in Upper(t) : h = b \/ (h = Depth(t) /\ h # b /\ h \in Slots(t))
      BY <3>1 DEF Upper, Slots, Depth
    <3>4. \A h \in Slots(t) : Low((stack')[t], h) = Slot(t, h)
      BY <3>1 DEF Slots, Depth
    <3> QED
      BY <3>1, <3>2, <3>3, <3>4
  <2>2. CASE ~Mounted(x) /\ StackBecomes(t, <<g, f>> \o stack[t])
    <3>1. /\ Depth(t) \in Nat /\ Lower(t) /\ Len((stack')[t]) = 2 + Depth(t)
          /\ \A h \in 1..Depth(t) : Low((stack')[t], h) = Slot(t, h)
          /\ \A h \in 1..2 : Low((stack')[t], Depth(t) + h) = Low(<<g, f>>, h)
      BY <1>1, <1>5, <2>2, StackGrows
    <3>2. Low((stack')[t], b) = f /\ Low((stack')[t], Depth(t) + 2) = g
      BY <1>5, <3>1
    <3>3. \A h \in Upper(t) : \/ h = b \/ h = Depth(t) + 2
                              \/ h = Depth(t) /\ h # b /\ h \in Slots(t)
      BY <3>1 DEF Upper, Slots, Depth
    <3>4. \A h \in Slots(t) : Low((stack')[t], h) = Slot(t, h)
      BY <3>1 DEF Slots, Depth
    <3>5. Depth(t) + 2 = b + 1
      BY <3>1
    <3> QED
      BY <2>2, <3>1, <3>2, <3>3, <3>4, <3>5
  <2> QED
    BY <1>6, <2>1, <2>2
<1>8. b \in Nat \ {0}
  BY <1>7
<1>9. /\ listeners' = [listeners EXCEPT ![x] = @ \union {[id |-> next_id[x], to |-> User]}]
      /\ next_id' = [next_id EXCEPT ![x] = @ + 1]
  BY <1>2 DEF AddListener
<1> HIDE DEF b
<1>10. b \in {Depth(t), Depth(t) + 1}
  BY DEF b
<1>11. \A h \in Upper(t) :
         \/ h = Depth(t) /\ h # b /\ h \in Slots(t) /\ Low((stack')[t], h) = Slot(t, h)
         \/ h = b
         \/ h = b + 1 /\ Low((stack')[t], h) = NewFrame("mount", x) /\ ~Mounted(x)
  BY <1>7 DEF g
<1>12. /\ Lower(t) /\ Low((stack')[t], b) = f /\ x \in Node
       /\ UNCHANGED <<dep_subs, held>> /\ f.at = "watch"
  BY <1>1, <1>2, <1>3, <1>7
<1> QED
  BY <1>4, <1>8, <1>9, <1>10, <1>11, <1>12, AddKept

(* The mount adds a listener of the next dependency, which may be mounted  *)
(* in turn.                                                                *)
LEMMA ListenToKept ==
    ASSUME TypeInv, TypeInv', MountInv, NEW t \in Thread, Others(t), ListenTo(t)
    PROVE  MountInv'
<1> DEFINE e == Top(t)
           c == e.node
           n == Len(e.ids) + 1
           d == Deps[c][n]
           f == [e EXCEPT !.ids = Append(e.ids, next_id[d])]
           g == NewFrame("mount", d)
           b == Depth(t)
<1>1. Stacks /\ stack[t] # <<>> /\ e.at = "listen" /\ Len(e.ids) < Len(Deps[c])
  BY DEF ListenTo, At, TypeInv
<1>2. e \in GoodFrame /\ e \in Frame /\ Tail(stack[t]) \in Seq(GoodFrame)
  BY <1>1, TopType
<1>3. c \in Derived /\ e.ids \in Seq(Nat) /\ Len(e.ids) \in Nat
  BY <1>1, <1>2, LenProperties DEF GoodFrame, DerivedStage, Stage, Frame
<1>4. n \in 1..Len(Deps[c]) /\ d \in Node
  BY <1>1, <1>3, Dependencies
<1>5. next_id[d] \in Nat
  BY <1>4 DEF TypeInv, Tables
<1>6. AddListener(t, d, c, Tail(stack[t]), f) /\ UNCHANGED <<dep_subs, held>>
  BY DEF ListenTo, program
<1>7. /\ Append(e.ids, next_id[d]) \in Seq(Nat) /\ Len(Append(e.ids, next_id[d])) = n
      /\ \A j \in 1..Len(e.ids) : Append(e.ids, next_id[d])[j] = e.ids[j]
      /\ Append(e.ids, next_id[d])[n] = next_id[d]
  BY <1>3, <1>5, AppendProperties
<1>8. f.at = "listen" /\ f.node = c /\ f.ids = Append(e.ids, next_id[d])
  BY <1>1, <1>2 DEF Frame
<1> HIDE DEF d, f, g
<1>9. DOMAIN e.ids = 1..Len(e.ids) /\ DOMAIN f.ids = 1..n
  BY <1>3, <1>7, <1>8, LenProperties
<1>10. Owns(f, d, next_id[d])
  <2>1. n \in DOMAIN f.ids
    BY <1>3, <1>9
  <2>2. Deps[f.node][n] = d
    BY <1>8 DEF d
  <2>3. f.ids[n] = next_id[d]
    BY <1>7, <1>8
  <2> QED
    BY <1>8, <2>1, <2>2, <2>3 DEF Owns
<1>11. ASSUME NEW y, NEW k, Owns(f, y, k)
       PROVE  (y = d /\ k = next_id[d]) \/ Owns(e, y, k)
  <2>1. PICK j \in 1..n : Deps[c][j] = y /\ f.ids[j] = k
    BY <1>8, <1>9, <1>11 DEF Owns
  <2>2. CASE j = n
    BY <1>7, <1>8, <2>1, <2>2 DEF d
  <2>3. CASE j # n
    <3>1. j \in 1..Len(e.ids)
      BY <1>3, <2>3
    <3> QED
      BY <1>1, <1>7, <1>8, <1>9, <2>1, <3>1 DEF Owns
  <2> QED
    BY <2>2, <2>3
<1>12. \/ Goto(t, f)
       \/ ~Mounted(d) /\ GotoCall(t, f, g)
  BY <1>6 DEF AddListener, Goto, GotoCall, g
<1>13. /\ Lower(t) /\ b \in Slots(t) /\ Slot(t, b) = e /\ Low((stack')[t], b) = f
       /\ \A h \in Upper(t) : h = b \/ (h = b + 1 /\ Low((stack')[t], h) = g /\ ~Mounted(d))
  BY <1>1, <1>12, GotoUpper, GotoCallUpper
<1>14. b \in Nat \ {0}
  BY <1>13 DEF Slots
<1>15. /\ listeners' = [listeners EXCEPT ![d] = @ \union {[id |-> next_id[d], to |-> c]}]
       /\ next_id' = [next_id EXCEPT ![d] = @ + 1]
  BY <1>6 DEF AddListener
<1> HIDE DEF b, c, e
<1>16. b \in {Depth(t), Depth(t) + 1} /\ b = Depth(t)
  BY DEF b
<1>17. /\ f.at = "listen" /\ Slot(t, b).at = "listen" /\ f.node = Slot(t, b).node
       /\ \A y, k : Owns(f, y, k) => (y = d /\ k = next_id[d]) \/ Owns(Slot(t, b), y, k)
  BY <1>1, <1>8, <1>11, <1>13 DEF c
<1> QED
  BY <1>4, <1>6, <1>10, <1>13, <1>14, <1>15, <1>16, <1>17, AddKept DEF g

(* The program drops a Subscription it holds. *)
LEMMA UnwatchKept ==
    ASSUME TypeInv, TypeInv', MountInv, NEW t \in Thread, Others(t),
           NEW x \in Watched, Unwatch(t, x)
    PROVE  MountInv'
<1> DEFINE g == NewFrame("unmount", x)
<1>1. Stacks /\ x \in Node /\ stack[t] \in Seq(GoodFrame) /\ held \subseteq Node \X Nat
  BY GraphAssumption DEF TypeInv, Stacks, Program
<1>2. PICK w \in held : w[1] = x /\ held' = held \ {w} /\ RemoveListener(t, x, w[2], stack[t])
  BY DEF Unwatch
<1>3. w[2] \in Nat /\ w = <<x, w[2]>>
  BY <1>1, <1>2
<1>4. Released(x, w[2])
  BY <1>2, <1>3 DEF Released
<1>5. StackBecomes(t, stack[t]) \/ Call(t, g)
  BY <1>1, <1>2, ConcatEmptySeq DEF RemoveListener, Call
<1>6. Loose(g)
  BY DEF Loose, NewFrame
<1> HIDE DEF g
<1>7. /\ Lower(t)
      /\ \A h \in Upper(t) :
           \/ Loose(Low((stack')[t], h))
           \/ h = Depth(t) /\ h \in Slots(t) /\ Low((stack')[t], h) = Slot(t, h)
  <2>1. CASE StackBecomes(t, stack[t])
    <3>1. (stack')[t] = stack[t] /\ Depth(t) \in Nat
      BY <1>1, <2>1, SlotType DEF StackBecomes, Stacks
    <3> QED
      BY <3>1 DEF Lower, Upper, Slots, Slot, Depth, Alike
  <2>2. CASE Call(t, g)
    BY <1>1, <1>6, <2>2, CallUpper
  <2> QED
    BY <1>5, <2>1, <2>2
<1>8. /\ listeners' = [listeners EXCEPT ![x] = {l \in @ : l.id # w[2]}]
      /\ UNCHANGED <<next_id, dep_subs>> /\ held' \subseteq held
  BY <1>2 DEF RemoveListener, Unwatch
<1> QED
  BY <1>1, <1>3, <1>4, <1>7, <1>8, RemoveKept

(* An unmount drops the next Subscription of those it took. *)
LEMMA DropSubscriptionKept ==
    ASSUME TypeInv, TypeInv', MountInv, NEW t \in Thread, Others(t), DropSubscription(t)
    PROVE  MountInv'
<1> DEFINE e == Top(t)
           c == e.node
           m == Len(Deps[c]) - Len(e.ids)
           d == Deps[c][m + 1]
           id == Head(e.ids)
           rest == Tail(e.ids)
           f == [e EXCEPT !.ids = rest]
           g == NewFrame("unmount", d)
<1>1. Stacks /\ stack[t] # <<>> /\ e.at \in {"unsubscribe", "discard"} /\ e.ids # <<>>
  BY DEF DropSubscription, TypeInv
<1>2. /\ e \in GoodFrame /\ e \in Frame /\ Tail(stack[t]) \in Seq(GoodFrame)
      /\ Depth(t) \in Slots(t) /\ Slot(t, Depth(t)) = e
  <2>1. Slot(t, Depth(t)) = e /\ Depth(t) \in Nat \ {0}
    BY <1>1, LowTail DEF Stacks, Slot, Depth, Top
  <2> QED
    BY <1>1, <2>1, TopType DEF Slots, Depth
<1>3. e.at = "unsubscribe"
  BY <1>1, <1>2 DEF MountInv, Unsubscribes
<1>4. /\ c \in Derived /\ e.ids \in Seq(Nat) /\ Len(e.ids) <= Len(Deps[c])
      /\ Len(Deps[c]) \in Nat
  BY <1>2, <1>3, Dependencies DEF GoodFrame, Walking, Subscribing, DerivedStage, Stage, Frame
<1>5. /\ Len(e.ids) \in Nat \ {0} /\ DOMAIN e.ids = 1..Len(e.ids)
      /\ rest \in Seq(Nat) /\ Len(rest) = Len(e.ids) - 1
      /\ DOMAIN rest = 1..(Len(e.ids) - 1)
      /\ \A j \in 1..(Len(e.ids) - 1) : rest[j] = e.ids[j + 1]
      /\ id = e.ids[1] /\ id \in Nat
  <2>1. Len(e.ids) \in Nat \ {0}
    BY <1>1, <1>4, LenProperties, EmptySeq
  <2>2. rest \in Seq(Nat) /\ Len(rest) = Len(e.ids) - 1
    BY <1>1, <1>4, HeadTailProperties
  <2> QED
    BY <1>1, <1>4, <2>1, <2>2, HeadTailProperties, LenProperties
<1> HIDE DEF rest
<1>6. d \in Node
  <2>1. ASSUME NEW p \in Nat, NEW q \in Nat \ {0}, q <= p PROVE p - q + 1 \in 1..p
    BY <2>1
  <2>2. m + 1 \in 1..Len(Deps[c])
    BY <1>4, <1>5, <2>1
  <2> QED
    BY <1>4, <2>2, Dependencies
<1>7. f.at = "unsubscribe" /\ f.node = c /\ f.ids = rest
  BY <1>2, <1>3 DEF Frame
<1>8. RemoveListener(t, d, id, <<f>> \o Tail(stack[t]))
  <2>1. m + 1 = Len(Deps[c]) - Len(e.ids) + 1
    OBVIOUS
  <2> QED
    BY <2>1 DEF DropSubscription, rest
<1>9. UNCHANGED <<next_id, dep_subs>> /\ held' \subseteq held
  BY DEF DropSubscription, program
<1> HIDE DEF d, id, f, g
<1>10. Released(d, id)
  <2>1. /\ 1 \in DOMAIN e.ids /\ e.ids[1] = id
        /\ Deps[e.node][Len(Deps[e.node]) - Len(e.ids) + 1] = d
    BY <1>5 DEF d
  <2>2. Frees(e, d, id)
    BY <1>3, <2>1 DEF Frees
  <2> QED
    BY <1>2, <2>2 DEF Released
<1>11. ASSUME NEW y, NEW k, Frees(f, y, k) PROVE Frees(e, y, k)
  <2>1. PICK j \in 1..(Len(e.ids) - 1) :
          Deps[c][Len(Deps[c]) - Len(rest) + j] = y /\ rest[j] = k
    BY <1>5, <1>7, <1>11 DEF Frees
  <2>2. /\ j + 1 \in 1..Len(e.ids)
        /\ Len(Deps[c]) - Len(rest) + j = Len(Deps[c]) - Len(e.ids) + (j + 1)
    <3> DEFINE p == Len(Deps[c])
               q == Len(e.ids)
               r == Len(rest)
    <3>1. p \in Nat /\ q \in Nat \ {0} /\ r = q - 1 /\ j \in 1..(q - 1)
      BY <1>4, <1>5
    <3> HIDE DEF p, q, r
    <3>2. j + 1 \in 1..q /\ p - r + j = p - q + (j + 1)
      BY <3>1
    <3> QED
      BY <3>2 DEF p, q, r
  <2>3. Deps[e.node][Len(Deps[e.node]) - Len(e.ids) + (j + 1)] = y /\ e.ids[j + 1] = k
    BY <1>5, <2>1, <2>2
  <2> QED
    BY <1>3, <1>5, <2>2, <2>3 DEF Frees
<1>12. Goto(t, f) \/ GotoCall(t, f, g)
  <2>1. \/ StackBecomes(t, <<g>> \o (<<f>> \o Tail(stack[t])))
        \/ StackBecomes(t, <<>> \o (<<f>> \o Tail(stack[t])))
    BY <1>8 DEF RemoveListener, g
  <2> DEFINE under == Tail(stack[t])
             T == GoodFrame \union {f, g}
  <2>2. under \in Seq(T) /\ f \in T /\ g \in T
    BY <1>2, SeqMonotonic
  <2> HIDE DEF g, under, T
  <2>3. /\ <<g>> \o (<<f>> \o under) = <<g, f>> \o under
        /\ <<>> \o (<<f>> \o under) = <<f>> \o under
    BY <2>2, TwoFrames
  <2> QED
    BY <2>1, <2>3 DEF Goto, GotoCall, under
<1>13. Loose(g)
  BY DEF Loose, NewFrame, g
<1>14. /\ Lower(t)
       /\ \A h \in Upper(t) : \/ Loose(Low((stack')[t], h))
                              \/ h = Depth(t) /\ Low((stack')[t], h) = f
  BY <1>1, <1>12, <1>13, GotoUpper, GotoCallUpper
<1>15. listeners' = [listeners EXCEPT ![d] = {l \in @ : l.id # id}]
  BY <1>8 DEF RemoveListener
<1> HIDE DEF e
<1> QED
  BY <1>2, <1>5, <1>6, <1>7, <1>9, <1>10, <1>11, <1>14, <1>15, RemoveKept

(* listen returns the Subscription to the program. *)
LEMMA WatchingKept ==
    ASSUME TypeInv, TypeInv', MountInv, NEW t \in Thread, Others(t), Watching(t)
    PROVE  MountInv'
<1> DEFINE e == Top(t)
<1>1. Stacks /\ stack[t] # <<>> /\ e.at = "watch" /\ Return(t)
  BY DEF Watching, At, TypeInv
<1>2. /\ Lower(t) /\ Depth(t) \in Slots(t) /\ Slot(t, Depth(t)) = e /\ Upper(t) = {}
  BY <1>1, ReturnUpper
<1>3. held' = held \union {<<e.node, e.n>>} /\ UNCHANGED <<listeners, next_id, dep_subs>>
  BY DEF Watching, tables
<1> HIDE DEF e
<1>4. Quiet(t)
  BY <1>2 DEF Quiet
<1>5. Releases(t)
  <2>1. ASSUME NEW x \in Node, NEW k \in Nat, <<x, k>> \in held'
        PROVE  Released(x, k) \/ HandedOn(t, x, k)
    <3>1. CASE <<x, k>> \in held
      BY <3>1 DEF Released
    <3>2. CASE <<x, k>> = <<e.node, e.n>>
      <4>1. Owns(e, x, k)
        BY <1>1, <3>2 DEF Owns
      <4> QED
        BY <1>2, <4>1 DEF HandedOn
    <3> QED
      BY <1>3, <2>1, <3>1, <3>2
  <2>2. \A x \in Node : \A k \in Nat : Keeps(x, k)' => Released(x, k)
    BY <1>3 DEF Keeps, Released
  <2>3. \A h \in Upper(t) : FALSE
    BY <1>2
  <2> QED
    BY <1>2, <2>1, <2>2, <2>3, ReleasesFrom
<1> QED
  BY <1>2, <1>3, <1>4, <1>5, QuietOwners, QuietBegins, QuietResubscribes, QuietRemoves, InvKept

(* mount finds no subscriptions and starts to listen. *)
LEMMA MountKept ==
    ASSUME TypeInv, TypeInv', MountInv, NEW t \in Thread, Others(t), Mount(t)
    PROVE  MountInv'
<1> DEFINE e == Top(t)
           f == [e EXCEPT !.at = "listen"]
           b == Depth(t)
<1>1. Stacks /\ stack[t] # <<>> /\ e.at = "mount" /\ UNCHANGED <<tables, held>>
  BY DEF Mount, At, TypeInv, program
<1>2. CASE Return(t)
  BY <1>1, <1>2, QuietOps, QuietKept
<1>3. CASE dep_subs[e.node] = <<>> /\ Goto(t, f)
  <2>1. UNCHANGED <<listeners, next_id, dep_subs, held>>
    BY <1>1 DEF tables
  <2>2. /\ Lower(t) /\ b \in Slots(t) /\ Slot(t, b) = e /\ Upper(t) = {b}
        /\ Low((stack')[t], b) = f
    BY <1>1, <1>3, GotoUpper
  <2>3. e \in Frame /\ e.ids = <<>>
    BY <1>1, <2>2, TopType DEF MountInv, Unsubscribes
  <2>4. f.at = "listen" /\ f.node = e.node /\ f.ids = <<>>
    BY <2>3 DEF Frame
  <2>5. \A x, k : ~Owns(f, x, k) /\ ~Frees(f, x, k)
    BY <2>4 DEF Owns, Frees
  <2> HIDE DEF f, e
  <2>6. Owners(t, 0)
    BY <2>1, <2>2, <2>5 DEF Owners, TypeInv, Tables
  <2>7. Begins(t, 0)
    BY <1>1, <2>2, <2>4 DEF Begins, Mounts
  <2>8. Releases(t)
    <3>1. \A x \in Node : \A k \in Nat : Keeps(x, k)' => Released(x, k)
      BY <2>1 DEF Keeps, Released
    <3>2. \A x \in Node : \A k \in Nat : <<x, k>> \in held' => Released(x, k)
      BY <2>1 DEF Released
    <3> QED
      BY <2>2, <2>5, <3>1, <3>2, ReleasesFrom
  <2>9. Resubscribes(t)
    BY <1>3, <2>1, <2>2, <2>4 DEF Resubscribes
  <2> QED
    BY <2>1, <2>2, <2>6, <2>7, <2>8, <2>9, QuietRemoves, InvKept
<1> QED
  BY <1>2, <1>3 DEF Mount

(* The mount hands its subscriptions to the store. *)
LEMMA KeepSubscriptionsKept ==
    ASSUME TypeInv, TypeInv', MountInv, NEW t \in Thread, Others(t), KeepSubscriptions(t)
    PROVE  MountInv'
<1> DEFINE e == Top(t)
           c == e.node
           f == NewFrame("recompute", c)
           b == Depth(t)
<1>1. /\ Stacks /\ stack[t] # <<>> /\ e.at = "listen" /\ Len(e.ids) = Len(Deps[c])
      /\ dep_subs' = [dep_subs EXCEPT ![c] = e.ids]
      /\ UNCHANGED <<listeners, next_id, held>>
  BY DEF KeepSubscriptions, At, TypeInv, program
<1>2. e \in GoodFrame /\ b \in Slots(t) /\ Slot(t, b) = e
  <2>1. Slot(t, b) = e /\ b \in Nat \ {0}
    BY <1>1, LowTail DEF Stacks, Slot, Depth, Top
  <2> QED
    BY <1>1, <2>1, TopType DEF Slots, Depth
<1>3. c \in Derived /\ dep_subs[c] = <<>>
  BY <1>1, <1>2 DEF GoodFrame, DerivedStage, Stage, MountInv, Unsubscribes
<1>4. Goto(t, f)
  BY <1>3 DEF KeepSubscriptions
<1>5. Lower(t) /\ Upper(t) = {b} /\ Low((stack')[t], b) = f
  BY <1>1, <1>4, GotoUpper
<1>6. Plain(f)
  BY NewFramePlain
<1>7. /\ (dep_subs')[c] = e.ids
      /\ \A d \in Derived : d # c => (dep_subs')[d] = dep_subs[d]
  BY <1>1, <1>3 DEF TypeInv, Subscriptions
<1> HIDE DEF f
<1>8. Quiet(t)
  BY <1>5, <1>6 DEF Quiet
<1>9. Releases(t)
  <2>1. ASSUME NEW x \in Node, NEW k \in Nat, Keeps(x, k)'
        PROVE  Released(x, k) \/ HandedOn(t, x, k)
    <3>1. PICK d \in Derived : \E j \in DOMAIN (dep_subs')[d] :
            Deps[d][j] = x /\ (dep_subs')[d][j] = k
      BY <2>1 DEF Keeps
    <3>2. CASE d = c
      <4>1. Owns(e, x, k)
        BY <1>1, <1>7, <3>1, <3>2 DEF Owns
      <4>2. ~Owns(Low((stack')[t], b), x, k)
        BY <1>5, <1>6, PlainOwns
      <4> QED
        BY <1>2, <4>1, <4>2 DEF HandedOn
    <3>3. CASE d # c
      BY <1>7, <3>1, <3>3 DEF Released, Keeps
    <3> QED
      BY <3>2, <3>3
  <2>2. \A x \in Node : \A k \in Nat : <<x, k>> \in held' => Released(x, k)
    BY <1>1 DEF Released
  <2> QED
    BY <1>5, <1>8, <2>1, <2>2, QuietFrees, ReleasesFrom
<1>10. Resubscribes(t)
  <2>1. \A h \in Upper(t) : Low((stack')[t], h) = f
    BY <1>5
  <2>2. f.at = "recompute"
    BY DEF f, NewFrame
  <2>3. \A h \in Upper(t) : ~Mounts(Low((stack')[t], h))
    BY <2>1, <2>2 DEF Mounts
  <2>4. ASSUME NEW d \in Derived
        PROVE  (dep_subs')[d] = dep_subs[d] \/ (d = c /\ Len((dep_subs')[d]) = Len(Deps[d]))
    BY <1>1, <1>7
  <2> HIDE DEF e
  <2> QED
    BY <1>1, <1>2, <2>1, <2>2, <2>3, <2>4 DEF Resubscribes
<1> QED
  BY <1>1, <1>5, <1>8, <1>9, <1>10, QuietOwners, QuietBegins, QuietRemoves, InvKept

(* The stop hook takes the subscriptions from the store. *)
LEMMA UnmountKept ==
    ASSUME TypeInv, TypeInv', MountInv, NEW t \in Thread, Others(t), Unmount(t)
    PROVE  MountInv'
<1> DEFINE e == Top(t)
           c == e.node
           g == [e EXCEPT !.at = "unsubscribe"]
           f == [g EXCEPT !.ids = dep_subs[c]]
           b == Depth(t)
<1>1. /\ Stacks /\ stack[t] # <<>> /\ e.at = "unmount"
      /\ dep_subs' = [dep_subs EXCEPT ![c] = <<>>]
      /\ UNCHANGED <<listeners, next_id, held>> /\ Goto(t, f)
  BY DEF Unmount, At, TypeInv, program
<1>2. e \in GoodFrame /\ e \in Frame /\ c \in Derived
  BY <1>1, TopType DEF GoodFrame, DerivedStage, Stage
<1>3. /\ Lower(t) /\ Upper(t) = {b} /\ Low((stack')[t], b) = f
      /\ b \in Slots(t) /\ Slot(t, b) = e
  BY <1>1, GotoUpper
<1>4. f.at = "unsubscribe" /\ f.node = c /\ f.ids = dep_subs[c]
  BY <1>2 DEF Frame
<1>5. /\ (dep_subs')[c] = <<>>
      /\ \A d \in Derived : d # c => (dep_subs')[d] = dep_subs[d]
  BY <1>1, <1>2 DEF TypeInv, Subscriptions
<1> HIDE DEF f, e
<1>6. \A x, k : ~Owns(f, x, k) /\ ~Mounts(f)
  BY <1>4 DEF Owns, Mounts
<1>7. Owners(t, 0) /\ Begins(t, 0)
  BY <1>1, <1>3, <1>6 DEF Owners, Begins, TypeInv, Tables
<1>8. ASSUME NEW x \in Node, NEW k \in Nat, Frees(f, x, k) PROVE Keeps(x, k)
  <2>1. PICK j \in DOMAIN dep_subs[c] :
          Deps[c][Len(Deps[c]) - Len(dep_subs[c]) + j] = x /\ dep_subs[c][j] = k
    BY <1>4, <1>8 DEF Frees
  <2>2. /\ dep_subs[c] \in Seq(Nat) /\ DOMAIN dep_subs[c] = 1..Len(dep_subs[c])
        /\ Len(dep_subs[c]) \in Nat /\ Len(Deps[c]) \in Nat
    BY <1>2, Dependencies, LenProperties DEF TypeInv, Subscriptions
  <2>3. dep_subs[c] # <<>>
    BY <2>1
  <2>4. Len(dep_subs[c]) = Len(Deps[c])
    BY <1>2, <2>3 DEF MountInv, Unsubscribes
  <2>5. Len(Deps[c]) - Len(dep_subs[c]) + j = j
    BY <2>2, <2>4
  <2> QED
    BY <1>2, <2>1, <2>5 DEF Keeps
<1>9. Releases(t)
  <2>1. \A x \in Node : \A k \in Nat : Keeps(x, k)' => Released(x, k)
    BY <1>5 DEF Keeps, Released
  <2>2. \A x \in Node : \A k \in Nat : <<x, k>> \in held' => Released(x, k)
    BY <1>1 DEF Released
  <2>3. \A h \in Upper(t) : \A x \in Node : \A k \in Nat :
          Frees(Low((stack')[t], h), x, k) => Released(x, k)
    BY <1>3, <1>8 DEF Released
  <2> QED
    BY <1>3, <2>1, <2>2, <2>3, ReleasesFrom
<1>10. Resubscribes(t)
  <2>1. \A d \in Derived : (dep_subs')[d] \in {dep_subs[d], <<>>}
    BY <1>5
  <2> QED
    BY <1>3, <1>4, <2>1 DEF Resubscribes
<1> QED
  BY <1>1, <1>3, <1>7, <1>9, <1>10, QuietRemoves, InvKept

(* Every step keeps the invariant. *)
LEMMA MountInvStep == TypeInv /\ TypeInv' /\ MountInv /\ [Next]_vars => MountInv'
<1> SUFFICES ASSUME TypeInv, TypeInv', MountInv, [Next]_vars PROVE MountInv'
  OBVIOUS
<1>1. ASSUME NEW t \in Thread, Progress(t) \/ Start(t) PROVE MountInv'
  <2>1. Others(t)
    BY <1>1, OthersKeep DEF Others, TypeInv
  <2>2. CASE \/ Write(t) \/ WriteBack(t) \/ Enqueue(t) \/ Drain(t)
             \/ \E s \in Source : Set(t, s)
    BY <2>1, <2>2, StoreQuiet, QuietKept
  <2>3. CASE \/ CallUser(t) \/ UserReturns(t) \/ DependencyChanged(t)
             \/ GuardDropped(t) \/ FlushDeferred(t)
    BY <2>1, <2>3, NotifyingQuiet, QuietKept
  <2>4. CASE \/ Schedule(t) \/ FlushJobs(t) \/ JobDone(t) \/ Job(t) \/ Look(t)
             \/ ReadDependency(t) \/ Get(t) \/ Load(t) \/ ReplaceSilently(t)
             \/ Flush(t) \/ \E c \in Derived : GetCall(t, c)
    BY <2>1, <2>4, RecomputeQuiet, QuietKept
  <2>5. CASE Unsubscribed(t)
    <3>1. Return(t) /\ stack[t] # <<>> /\ Stacks /\ UNCHANGED <<tables, held>>
      BY <2>5 DEF Unsubscribed, TypeInv, program
    <3>2. Quiet(t)
      BY <3>1, QuietOps
    <3> QED
      BY <2>1, <3>1, <3>2, QuietKept
  <2>6. CASE Watching(t) \/ Mount(t) \/ KeepSubscriptions(t) \/ Unmount(t)
    BY <2>1, <2>6, WatchingKept, MountKept, KeepSubscriptionsKept, UnmountKept
  <2>7. CASE ListenTo(t) \/ DropSubscription(t)
    BY <2>1, <2>7, ListenToKept, DropSubscriptionKept
  <2>8. ASSUME NEW x \in Watched, Watch(t, x) \/ Unwatch(t, x) PROVE MountInv'
    BY <2>1, <2>8, WatchKept, UnwatchKept
  <2> QED
    BY <1>1, <2>2, <2>3, <2>4, <2>5, <2>6, <2>7, <2>8 DEF Progress, Start
<1>2. CASE UNCHANGED vars
  BY <1>2 DEF vars, tables, program, MountInv, Numbered, OneOwner, OwnedNotReleased,
     Supported, OneMount, Unsubscribes, Released, Keeps, Listens, Slots, Slot
<1> QED
  BY <1>1, <1>2 DEF Next, Rest

(* No call is under way at the start. *)
LEMMA MountInvInit == Init => MountInv
<1> SUFFICES ASSUME Init PROVE MountInv
  OBVIOUS
<1>1. \A t \in Thread : Slots(t) = {}
  BY DEF Init, Slots
<1>2. \A x, k : ~Released(x, k)
  BY <1>1 DEF Init, Released, Keeps
<1>3. \A c \in Derived : dep_subs[c] = <<>>
  BY DEF Init
<1> QED
  BY <1>1, <1>2, <1>3 DEF MountInv, Numbered, OneOwner, OwnedNotReleased, Supported,
     OneMount, Unsubscribes

(* mount tests dep_subscriptions and fills them in two critical sections.   *)
(* Still a store is subscribed to its dependencies by one mount at a time,  *)
(* which replaces no subscriptions: while it runs the first listener stays, *)
(* because its Subscription has not yet been returned to anybody.           *)
THEOREM MountedAlone == Spec => []MountsAlone
<1>1. TypeInv /\ MountInv => MountsAlone
  <2> SUFFICES ASSUME TypeInv, MountInv,
                      NEW t \in Thread, NEW u \in Thread,
                      NEW i \in DOMAIN stack[t], NEW j \in DOMAIN stack[u],
                      Subscribes(t, i)
               PROVE  /\ dep_subs[stack[t][i].node] = <<>>
                      /\ Subscribes(u, j) /\ stack[t][i].node = stack[u][j].node
                           => t = u /\ i = j
    BY DEF MountsAlone
  <2>1. ASSUME NEW v \in Thread, NEW k \in DOMAIN stack[v]
        PROVE  LET h == Len(stack[v]) + 1 - k
               IN  h \in Slots(v) /\ Slot(v, h) = stack[v][k] /\ k \in Nat
    <3>1. DOMAIN stack[v] = 1..Len(stack[v]) /\ Len(stack[v]) \in Nat
      BY LenProperties DEF TypeInv, Stacks
    <3>2. /\ Len(stack[v]) + 1 - k \in 1..Len(stack[v]) /\ k \in Nat
          /\ Len(stack[v]) + 1 - (Len(stack[v]) + 1 - k) = k
      BY <3>1
    <3> QED
      BY <3>2 DEF Slots, Slot, Low
  <2> DEFINE h == Len(stack[t]) + 1 - i
             g == Len(stack[u]) + 1 - j
  <2>2. /\ h \in Slots(t) /\ Slot(t, h) = stack[t][i] /\ i \in Nat
        /\ g \in Slots(u) /\ Slot(u, g) = stack[u][j] /\ j \in Nat
    BY <2>1
  <2>3. /\ Slot(t, h).at = "listen" /\ Mounts(Slot(t, h))
        /\ Subscribes(u, j) => Mounts(Slot(u, g))
    BY <2>2 DEF Subscribes, Mounts
  <2>4. t = u /\ h = g => i = j
    BY <2>2, SlotType DEF TypeInv, Depth
  <2> HIDE DEF h, g
  <2> QED
    BY <2>2, <2>3, <2>4 DEF MountInv, Unsubscribes, OneMount
<1>2. Spec => [](TypeInv /\ MountInv)
  BY TypeInvInit, TypeInvStep, MountInvInit, MountInvStep, PTL DEF Spec
<1> QED
  BY <1>1, <1>2, PTL

-----------------------------------------------------------------------------
(* Where the Subscriptions are *)

(* Frame f has the Subscription of listener k of store x: that to          *)
(* dependency j of its store, or, at 0, one that listen is to return.      *)
Holds(f, j, x, k) ==
    \/ f.at = "watch" /\ j = 0 /\ f.node = x /\ f.n = k
    \/ f.at = "listen" /\ j \in DOMAIN f.ids /\ Deps[f.node][j] = x /\ f.ids[j] = k
    \/ /\ f.at = "unsubscribe"
       /\ \E i \in DOMAIN f.ids :
            j = Len(Deps[f.node]) - Len(f.ids) + i /\ Deps[f.node][j] = x /\ f.ids[i] = k

(* Frame h of thread a has it, or store a in its dep_subscriptions, or the *)
(* program.                                                                *)
InFrame(a, h, j, x, k) == a \in Thread /\ h \in Slots(a) /\ Holds(Slot(a, h), j, x, k)
Kept(a, h, j, x, k) ==
    a \in Derived /\ h = 0 /\ j \in DOMAIN dep_subs[a] /\ Deps[a][j] = x /\ dep_subs[a][j] = k
Given(a, h, j, x, k) == a = User /\ h = 0 /\ j = 0 /\ <<x, k>> \in held

Own(a, h, j, x, k) == InFrame(a, h, j, x, k) \/ Kept(a, h, j, x, k) \/ Given(a, h, j, x, k)

(* Whose listener it is. *)
OwnerOf(f) == IF f.at = "watch" THEN User ELSE f.node
Owner(a, h) == IF h = 0 THEN a ELSE OwnerOf(Slot(a, h))

(* Every Subscription is in one place, *)
OnePlace ==
    \A x \in Node : \A k \in Nat : \A a, h, j, b, g, i :
        Own(a, h, j, x, k) /\ Own(b, g, i, x, k) => a = b /\ h = g /\ j = i

(* its listener is in the table, *)
Listed ==
    \A x \in Node : \A k \in Nat : \A a, h, j :
        Own(a, h, j, x, k) => \E l \in listeners[x] : l.id = k /\ l.to = Owner(a, h)

(* and no listener is there whose Subscription is lost. *)
Placed ==
    \A x \in Node : \A l \in listeners[x] :
        \E a, h, j : Own(a, h, j, x, l.id) /\ Owner(a, h) = l.to

(* Ids were given out. *)
Counted == \A x \in Node : \A l \in listeners[x] : l.id < next_id[x]

PlaceInv == OnePlace /\ Listed /\ Placed /\ Counted

(* What a step does to the places. *)
SameOwner(a, h) == Owner(a, h)' = Owner(a, h)

(* They stay, but for those of one holder, which go to another one. *)
LEMMA MovedPlaces ==
    ASSUME TypeInv, PlaceInv, UNCHANGED <<listeners, next_id>>, NEW a0, NEW h0, NEW a1, NEW h1,
           \A x \in Node : \A k \in Nat : \A a, h, j :
               Own(a, h, j, x, k)' <=> \/ Own(a, h, j, x, k) /\ ~(a = a0 /\ h = h0)
                                       \/ a = a1 /\ h = h1 /\ Own(a0, h0, j, x, k),
           \A x \in Node : \A k \in Nat : \A a, h, j :
               /\ Own(a, h, j, x, k) /\ ~(a = a0 /\ h = h0) => SameOwner(a, h)
               /\ Own(a0, h0, j, x, k) => Owner(a1, h1)' = Owner(a0, h0)
    PROVE  PlaceInv'
<1>1. OnePlace'
  BY DEF PlaceInv, OnePlace
<1>2. Listed'
  <2> SUFFICES ASSUME NEW x \in Node, NEW k \in Nat, NEW a, NEW h, NEW j, Own(a, h, j, x, k)'
               PROVE  \E l \in listeners[x] : l.id = k /\ l.to = Owner(a, h)'
    BY DEF Listed
  <2>1. PICK b, g : Own(b, g, j, x, k) /\ Owner(a, h)' = Owner(b, g)
    BY DEF SameOwner
  <2> QED
    BY <2>1 DEF PlaceInv, Listed
<1>3. Placed'
  <2> SUFFICES ASSUME NEW x \in Node, NEW l \in listeners[x]
               PROVE  \E a, h, j : Own(a, h, j, x, l.id)' /\ Owner(a, h)' = l.to
    BY DEF Placed
  <2>1. l.id \in Nat
    BY DEF TypeInv, Tables, Listener
  <2>2. PICK a, h, j : Own(a, h, j, x, l.id) /\ Owner(a, h) = l.to
    BY DEF PlaceInv, Placed
  <2> QED
    BY <2>1, <2>2 DEF SameOwner
<1>4. Counted'
  BY DEF PlaceInv, Counted
<1> QED
  BY <1>1, <1>2, <1>3, <1>4 DEF PlaceInv

(* One more is there, of a new listener. *)
Adds(y, m, a0, h0, j0) ==
    /\ m.id = next_id[y] /\ Owner(a0, h0)' = m.to
    /\ \A x \in Node : (next_id')[x] = IF x = y THEN next_id[y] + 1 ELSE next_id[x]
    /\ \A x \in Node :
         (listeners')[x] = IF x = y THEN listeners[y] \union {m} ELSE listeners[x]
    /\ \A x \in Node : \A k \in Nat : \A a, h, j :
         /\ Own(a, h, j, x, k)' <=>
              \/ Own(a, h, j, x, k)
              \/ a = a0 /\ h = h0 /\ j = j0 /\ x = y /\ k = m.id
         /\ Own(a, h, j, x, k) => SameOwner(a, h)

LEMMA AddedPlace ==
    ASSUME TypeInv, PlaceInv, NEW y \in Node, NEW m, NEW a0, NEW h0, NEW j0,
           Adds(y, m, a0, h0, j0)
    PROVE  PlaceInv'
<1>0. /\ m.id = next_id[y] /\ Owner(a0, h0)' = m.to
      /\ \A x \in Node : \A k \in Nat : \A a, h, j :
           /\ Own(a, h, j, x, k)' <=>
                  \/ Own(a, h, j, x, k)
                  \/ a = a0 /\ h = h0 /\ j = j0 /\ x = y /\ k = next_id[y]
           /\ Own(a, h, j, x, k) => SameOwner(a, h)
  BY DEF Adds
<1>1. /\ next_id \in [Node -> Nat] /\ listeners \in [Node -> SUBSET Listener]
      /\ next_id[y] \in Nat
      /\ \A x \in Node : (next_id')[x] = IF x = y THEN next_id[y] + 1 ELSE next_id[x]
      /\ \A x \in Node : (listeners')[x] = IF x = y THEN listeners[y] \union {m}
                                                    ELSE listeners[x]
  BY DEF TypeInv, Tables, Adds
<1>2. m.id = next_id[y] /\ m.to = Owner(a0, h0)'
  BY <1>0
<1>3. \A x \in Node : \A l \in listeners[x] : l.id \in Nat
  BY <1>1 DEF Listener
<1>4. \A k \in Nat : \A a, h, j : Own(a, h, j, y, k) => k # next_id[y]
  BY <1>1 DEF PlaceInv, Listed, Counted
<1>5. OnePlace'
  BY <1>0, <1>4 DEF PlaceInv, OnePlace
<1>6. Listed'
  <2> SUFFICES ASSUME NEW x \in Node, NEW k \in Nat, NEW a, NEW h, NEW j, Own(a, h, j, x, k)'
               PROVE  \E l \in (listeners')[x] : l.id = k /\ l.to = Owner(a, h)'
    BY DEF Listed
  <2>1. CASE Own(a, h, j, x, k)
    <3>1. PICK l \in listeners[x] : l.id = k /\ l.to = Owner(a, h)
      BY <2>1 DEF PlaceInv, Listed
    <3> QED
      BY <1>0, <1>1, <2>1, <3>1 DEF SameOwner
  <2>2. CASE a = a0 /\ h = h0 /\ x = y /\ k = next_id[y]
    BY <1>0, <1>1, <1>2, <2>2
  <2> QED
    BY <1>0, <2>1, <2>2
<1>7. Placed'
  <2> SUFFICES ASSUME NEW x \in Node, NEW l \in (listeners')[x]
               PROVE  \E a, h, j : Own(a, h, j, x, l.id)' /\ Owner(a, h)' = l.to
    BY DEF Placed
  <2>1. CASE l \in listeners[x]
    <3>1. PICK a, h, j : Own(a, h, j, x, l.id) /\ Owner(a, h) = l.to
      BY <2>1 DEF PlaceInv, Placed
    <3> QED
      BY <1>0, <1>3, <2>1, <3>1 DEF SameOwner
  <2>2. CASE x = y /\ l = m
    BY <1>0, <1>1, <1>2, <2>2
  <2> QED
    BY <1>1, <2>1, <2>2
<1>8. Counted'
  <2> SUFFICES ASSUME NEW x \in Node, NEW l \in (listeners')[x]
               PROVE  l.id < (next_id')[x]
    BY DEF Counted
  <2>1. CASE l \in listeners[x]
    <3>1. l.id < next_id[x] /\ l.id \in Nat /\ next_id[x] \in Nat
      BY <1>1, <1>3, <2>1 DEF PlaceInv, Counted
    <3> QED
      BY <1>1, <3>1
  <2>2. CASE x = y /\ l = m
    BY <1>0, <1>1, <1>2, <2>2
  <2> QED
    BY <1>1, <2>1, <2>2
<1> QED
  BY <1>5, <1>6, <1>7, <1>8 DEF PlaceInv

(* One is gone, with its listener. *)
Takes(y, id, a0, h0, j0) ==
    /\ Own(a0, h0, j0, y, id)
    /\ listeners' = [listeners EXCEPT ![y] = {l \in @ : l.id # id}]
    /\ UNCHANGED next_id
    /\ \A x \in Node : \A k \in Nat : \A a, h, j :
         /\ Own(a, h, j, x, k)' <=>
              /\ Own(a, h, j, x, k)
              /\ ~(a = a0 /\ h = h0 /\ j = j0 /\ x = y /\ k = id)
         /\ Own(a, h, j, x, k)' => SameOwner(a, h)

LEMMA RemovedPlace ==
    ASSUME TypeInv, PlaceInv, NEW y \in Node, NEW id \in Nat, NEW a0, NEW h0, NEW j0,
           Takes(y, id, a0, h0, j0)
    PROVE  PlaceInv'
<1>0. /\ Own(a0, h0, j0, y, id)
      /\ listeners' = [listeners EXCEPT ![y] = {l \in @ : l.id # id}]
      /\ UNCHANGED next_id
      /\ \A x \in Node : \A k \in Nat : \A a, h, j :
           /\ Own(a, h, j, x, k)' =>
                /\ Own(a, h, j, x, k)
                /\ ~(a = a0 /\ h = h0 /\ j = j0 /\ x = y /\ k = id)
           /\ Own(a, h, j, x, k)' => SameOwner(a, h)
      /\ \A x \in Node : \A k \in Nat : \A a, h, j :
           Own(a, h, j, x, k) /\ ~(a = a0 /\ h = h0 /\ j = j0 /\ x = y /\ k = id) =>
               Own(a, h, j, x, k)'
  BY DEF Takes
<1>1. /\ listeners \in [Node -> SUBSET Listener]
      /\ \A x \in Node : \A l : l \in (listeners')[x] <=>
                                    l \in listeners[x] /\ ~(x = y /\ l.id = id)
  BY <1>0 DEF TypeInv, Tables
<1>2. \A x \in Node : \A l \in listeners[x] : l.id \in Nat
  BY <1>1 DEF Listener
<1>3. OnePlace'
  BY <1>0 DEF PlaceInv, OnePlace
<1>4. Listed'
  <2> SUFFICES ASSUME NEW x \in Node, NEW k \in Nat, NEW a, NEW h, NEW j, Own(a, h, j, x, k)'
               PROVE  \E l \in (listeners')[x] : l.id = k /\ l.to = Owner(a, h)'
    BY DEF Listed
  <2>1. Own(a, h, j, x, k) /\ SameOwner(a, h)
    BY <1>0
  <2>2. PICK l \in listeners[x] : l.id = k /\ l.to = Owner(a, h)
    BY <2>1 DEF PlaceInv, Listed
  <2>3. ~(x = y /\ k = id)
    BY <1>0, <2>1 DEF PlaceInv, OnePlace
  <2> QED
    BY <1>1, <2>1, <2>2, <2>3 DEF SameOwner
<1>5. Placed'
  <2> SUFFICES ASSUME NEW x \in Node, NEW l \in (listeners')[x]
               PROVE  \E a, h, j : Own(a, h, j, x, l.id)' /\ Owner(a, h)' = l.to
    BY DEF Placed
  <2>1. l \in listeners[x] /\ ~(x = y /\ l.id = id)
    BY <1>1
  <2>2. PICK a, h, j : Own(a, h, j, x, l.id) /\ Owner(a, h) = l.to
    BY <2>1 DEF PlaceInv, Placed
  <2> QED
    BY <1>0, <1>2, <2>1, <2>2 DEF SameOwner
<1>6. Counted'
  BY <1>0, <1>1 DEF PlaceInv, Counted
<1> QED
  BY <1>3, <1>4, <1>5, <1>6 DEF PlaceInv

(* The frames that a step of t leaves alone, and the one on its top. *)
Below(t, a, h, j, x, k) == InFrame(a, h, j, x, k) /\ (a = t => h < Depth(t))
OnTop(t, a, h, j, x, k) ==
    a = t /\ h = Depth(t) /\ stack[t] # <<>> /\ Holds(Top(t), j, x, k)
OnTopThen(t, a, h, j, x, k) ==
    a = t /\ h \in Upper(t) /\ Holds(Low((stack')[t], h), j, x, k)

(* Every frame that has a Subscription is below the top, or the top.       *)
LEMMA HasNow ==
    ASSUME TypeInv, NEW t \in Thread
    PROVE  \A a, h, j, x, k :
               InFrame(a, h, j, x, k) <=> Below(t, a, h, j, x, k) \/ OnTop(t, a, h, j, x, k)
<1>1. Depth(t) \in Nat /\ (stack[t] # <<>> => Slot(t, Depth(t)) = Top(t) /\ Depth(t) # 0)
  BY LowTail, SlotType DEF TypeInv, Stacks, Slot, Depth, Top
<1>2. Slots(t) # {} => stack[t] # <<>>
  BY DEF Slots
<1>3. \A h \in Slots(t) : h < Depth(t) \/ h = Depth(t)
  BY <1>1 DEF Slots, Depth
<1>4. stack[t] # <<>> => Depth(t) \in Slots(t)
  BY <1>1 DEF Slots, Depth
<1> QED
  BY <1>1, <1>2, <1>3, <1>4 DEF InFrame, Below, OnTop

(* After the step it is still below, or one the step put there.            *)
LEMMA HasThen ==
    ASSUME TypeInv, NEW t \in Thread, Others(t), Lower(t)
    PROVE  \A a, h, j, x, k :
             /\ InFrame(a, h, j, x, k)' <=>
                    Below(t, a, h, j, x, k) \/ OnTopThen(t, a, h, j, x, k)
             /\ Below(t, a, h, j, x, k) => SameOwner(a, h)
<1> SUFFICES ASSUME NEW a, NEW h, NEW j, NEW x, NEW k
             PROVE  /\ InFrame(a, h, j, x, k)' <=>
                         Below(t, a, h, j, x, k) \/ OnTopThen(t, a, h, j, x, k)
                    /\ Below(t, a, h, j, x, k) => SameOwner(a, h)
  OBVIOUS
<1>1. Depth(t) \in Nat
  BY SlotType DEF TypeInv
<1>2. ASSUME NEW f, NEW g, Alike(f, g)
      PROVE  (Holds(f, j, x, k) <=> Holds(g, j, x, k)) /\ OwnerOf(f) = OwnerOf(g)
  BY <1>2 DEF Alike, Holds, OwnerOf
<1>3. ASSUME a \in Thread, h \in Slots(a), a = t => h < Depth(t)
      PROVE  h \in Slots(a)' /\ Alike(Slot(a, h)', Slot(a, h)) /\ h # 0
             /\ ~(a = t /\ h \in Upper(t))
  <2>1. CASE a = t
    <3>1. h \in 1..(Depth(t) - 1) /\ h \in 1..Len((stack')[t])
      BY <1>1, <1>3, <2>1 DEF Slots, Lower, Depth
    <3> QED
      BY <1>1, <1>3, <2>1, <3>1 DEF Lower, Slots, Slot, Upper
  <2>2. CASE a # t
    BY <1>3, <2>2 DEF Others, Slots, Slot, Alike
  <2> QED
    BY <2>1, <2>2
<1>4. Below(t, a, h, j, x, k) => InFrame(a, h, j, x, k)' /\ SameOwner(a, h)
  BY <1>2, <1>3 DEF Below, InFrame, SameOwner, Owner
<1>5. OnTopThen(t, a, h, j, x, k) => InFrame(a, h, j, x, k)'
  BY DEF OnTopThen, InFrame, Upper, Slots, Slot
<1>6. InFrame(a, h, j, x, k)' =>
          Below(t, a, h, j, x, k) \/ OnTopThen(t, a, h, j, x, k)
  <2> SUFFICES ASSUME a \in Thread, h \in Slots(a)', Holds(Slot(a, h)', j, x, k)
               PROVE  Below(t, a, h, j, x, k) \/ OnTopThen(t, a, h, j, x, k)
    BY DEF InFrame
  <2>1. CASE h \in Slots(a) /\ Alike(Slot(a, h)', Slot(a, h)) /\ (a = t => h < Depth(t))
    BY <1>2, <2>1 DEF Below, InFrame
  <2>2. CASE a = t /\ h \in Upper(t)
    BY <2>2 DEF OnTopThen, Slot
  <2> QED
    BY <2>1, <2>2, OldOrUpper
<1> QED
  BY <1>4, <1>5, <1>6

(* Steps of frames that hold nothing *)
Bare(f) == \A j, x, k : ~Holds(f, j, x, k)

(* Only the calls that subscribe and unsubscribe hold Subscriptions.       *)
LEMMA PlainBare ==
    ASSUME NEW f, Plain(f) \/ f.at \in {"mount", "unmount"} \/ (f.ids = <<>> /\ f.at # "watch")
    PROVE  Bare(f)
<1>1. DOMAIN <<>> = {}
  OBVIOUS
<1> QED
  BY <1>1 DEF Plain, Bare, Holds

(* A step between such frames leaves every place as it was.                *)
LEMMA StillPlaces ==
    ASSUME TypeInv, PlaceInv, NEW t \in Thread, Others(t), Lower(t), UNCHANGED <<tables, held>>,
           stack[t] # <<>> => Bare(Top(t)),
           \A h \in Upper(t) : Bare(Low((stack')[t], h))
    PROVE  PlaceInv'
<1>1. \A a, h, j, x, k : ~OnTop(t, a, h, j, x, k) /\ ~OnTopThen(t, a, h, j, x, k)
  BY DEF OnTop, OnTopThen, Bare
<1>2. \A a, h, j, x, k :
        /\ InFrame(a, h, j, x, k)' <=> InFrame(a, h, j, x, k)
        /\ InFrame(a, h, j, x, k) => SameOwner(a, h)
  BY <1>1, HasNow, HasThen
<1>3. \A a, h, j, x, k :
        /\ Kept(a, h, j, x, k)' <=> Kept(a, h, j, x, k)
        /\ Given(a, h, j, x, k)' <=> Given(a, h, j, x, k)
        /\ Kept(a, h, j, x, k) \/ Given(a, h, j, x, k) => SameOwner(a, h)
  BY DEF Kept, Given, tables, SameOwner, Owner
<1>4. \A a, h, j, x, k :
        /\ Own(a, h, j, x, k)' <=> Own(a, h, j, x, k)
        /\ Own(a, h, j, x, k) => SameOwner(a, h)
  BY <1>2, <1>3 DEF Own
<1>5. UNCHANGED <<listeners, next_id>>
  BY DEF tables
<1>6. \A x \in Node : \A k \in Nat : \A a, h, j :
        Own(a, h, j, x, k)' <=> \/ Own(a, h, j, x, k) /\ ~(a = User /\ h = 0)
                                \/ a = User /\ h = 0 /\ Own(User, 0, j, x, k)
  BY <1>4
<1>7. \A x \in Node : \A k \in Nat : \A a, h, j :
        /\ Own(a, h, j, x, k) /\ ~(a = User /\ h = 0) => SameOwner(a, h)
        /\ Own(User, 0, j, x, k) => Owner(User, 0)' = Owner(User, 0)
  BY <1>4 DEF SameOwner
<1> QED
  BY <1>5, <1>6, <1>7, MovedPlaces

(* Quiet steps put no other frames there. *)
LEMMA QuietBare ==
    ASSUME TypeInv, NEW t \in Thread, Quiet(t), stack[t] # <<>> => Bare(Top(t))
    PROVE  Lower(t) /\ \A h \in Upper(t) : Bare(Low((stack')[t], h))
<1>1. Lower(t)
  BY DEF Quiet
<1>2. ASSUME NEW h \in Upper(t) PROVE Bare(Low((stack')[t], h))
  <2>1. PICK f, g : f = Low((stack')[t], h) /\ g = Slot(t, h)
    OBVIOUS
  <2>2. Plain(f) \/ (h = Depth(t) /\ h \in Slots(t) /\ Alike(f, g))
    BY <2>1 DEF Quiet
  <2>3. ASSUME h = Depth(t), h \in Slots(t) PROVE stack[t] # <<>> /\ g = Top(t)
    <3>1. stack[t] # <<>>
      BY <2>3 DEF Slots
    <3> QED
      BY <2>1, <2>3, <3>1, LowTail DEF TypeInv, Stacks, Slot, Depth, Top
  <2>4. CASE Plain(f)
    BY <2>1, <2>4, PlainBare
  <2>5. CASE Alike(f, g) /\ Bare(g)
    <3>1. \A j, x, k : Holds(f, j, x, k) <=> Holds(g, j, x, k)
      BY <2>5 DEF Holds, Alike
    <3>2. Bare(f)
      BY <2>5, <3>1 DEF Bare
    <3> QED
      BY <2>1, <3>2
  <2> QED
    BY <2>2, <2>3, <2>4, <2>5
<1> QED
  BY <1>1, <1>2

(* So does every step of a notification, a recompute or a get,             *)
LEMMA QuietPlaces ==
    ASSUME TypeInv, PlaceInv, NEW t \in Thread, Others(t), Quiet(t), UNCHANGED <<tables, held>>,
           stack[t] # <<>> => Bare(Top(t))
    PROVE  PlaceInv'
BY QuietBare, StillPlaces

(* whose frame is none of those that subscribe.                            *)
LEMMA QuietTops ==
    ASSUME NEW t \in Thread, stack[t] # <<>>,
           \/ Write(t) \/ WriteBack(t) \/ Enqueue(t) \/ Drain(t) \/ CallUser(t) \/ UserReturns(t)
           \/ DependencyChanged(t) \/ GuardDropped(t) \/ FlushDeferred(t)
           \/ Schedule(t) \/ FlushJobs(t) \/ JobDone(t) \/ Job(t) \/ Look(t)
           \/ ReadDependency(t) \/ Get(t) \/ Load(t) \/ ReplaceSilently(t) \/ MayCall(t)
    PROVE  Plain(Top(t))
BY DEF Write, Writes, WriteBack, Enqueue, Drain, CallUser, UserReturns, DependencyChanged,
   GuardDropped, FlushDeferred, Schedule, FlushJobs, JobDone, Job, Look, ReadDependency, Reads,
   Get, Load, ReplaceSilently, MayCall, At, Plain

(* The steps that have to do with subscriptions, and all the others.       *)
LEMMA StepKinds ==
    ASSUME TypeInv, NEW t \in Thread, Progress(t) \/ Start(t)
    PROVE  \/ /\ Quiet(t) /\ UNCHANGED <<tables, held>>
              /\ stack[t] # <<>> => Plain(Top(t))
           \/ Watching(t) \/ Unsubscribed(t) \/ Mount(t) \/ KeepSubscriptions(t) \/ Unmount(t)
           \/ ListenTo(t) \/ DropSubscription(t)
           \/ \E x \in Watched : Watch(t, x) \/ Unwatch(t, x)
<1>1. CASE \/ Write(t) \/ WriteBack(t) \/ Enqueue(t) \/ Drain(t)
           \/ \E s \in Source : Set(t, s)
  <2>1. stack[t] # <<>> => Plain(Top(t))
    BY <1>1, QuietTops DEF Set
  <2> QED
    BY <1>1, <2>1, StoreQuiet
<1>2. CASE \/ CallUser(t) \/ UserReturns(t) \/ DependencyChanged(t)
           \/ GuardDropped(t) \/ FlushDeferred(t)
  BY <1>2, QuietTops, NotifyingQuiet
<1>3. CASE \/ Schedule(t) \/ FlushJobs(t) \/ JobDone(t) \/ Job(t) \/ Look(t)
           \/ ReadDependency(t) \/ Get(t) \/ Load(t) \/ ReplaceSilently(t)
           \/ Flush(t) \/ \E c \in Derived : GetCall(t, c)
  <2>1. stack[t] # <<>> => Plain(Top(t))
    BY <1>3, QuietTops DEF Flush, GetCall
  <2> QED
    BY <1>3, <2>1, RecomputeQuiet
<1> QED
  BY <1>1, <1>2, <1>3 DEF Progress, Start

(* A mount that begins holds nothing yet.                                  *)
LEMMA MountPlaces ==
    ASSUME TypeInv, MountInv, PlaceInv, NEW t \in Thread, Others(t), Mount(t)
    PROVE  PlaceInv'
<1> DEFINE e == Top(t)
           f == [e EXCEPT !.at = "listen"]
<1>1. Stacks /\ stack[t] # <<>> /\ e.at = "mount" /\ UNCHANGED <<tables, held>>
  BY DEF Mount, At, TypeInv, program
<1>2. CASE Return(t)
  <2>1. Quiet(t)
    BY <1>1, <1>2, QuietOps
  <2> QED
    BY <1>1, <2>1, PlainBare, QuietPlaces
<1>3. CASE Goto(t, f)
  <2>1. /\ Lower(t) /\ Depth(t) \in Slots(t) /\ Slot(t, Depth(t)) = e
        /\ Upper(t) = {Depth(t)} /\ Low((stack')[t], Depth(t)) = f
    BY <1>1, <1>3, GotoUpper
  <2>2. e \in Frame /\ e.ids = <<>>
    BY <1>1, <2>1, TopType DEF MountInv, Unsubscribes
  <2>3. f.at = "listen" /\ f.ids = <<>>
    BY <2>2 DEF Frame
  <2> HIDE DEF e, f
  <2>4. Bare(f)
    BY <2>3, PlainBare
  <2>5. Bare(e)
    BY <1>1, PlainBare
  <2> QED
    BY <1>1, <2>1, <2>4, <2>5, StillPlaces DEF e
<1> QED
  BY <1>2, <1>3 DEF Mount

-----------------------------------------------------------------------------
(* How the steps that add or remove a listener change the stack *)

(* listen and remove_listener of the program *)
LEMMA WatchUpper ==
    ASSUME Stacks, NEW t \in Thread, NEW x \in Watched, Watch(t, x)
    PROVE  LET f == [NewFrame("watch", x) EXCEPT !.n = next_id[x]]
           IN  /\ Lower(t) /\ Depth(t) \in Nat
               /\ \A h \in Upper(t) :
                    \/ h = Depth(t) /\ h \in Slots(t) /\ Low((stack')[t], h) = Slot(t, h)
                    \/ h = Depth(t) + 1 /\ Low((stack')[t], h) = f
                    \/ /\ h = Depth(t) + 2 /\ Low((stack')[t], h) = NewFrame("mount", x)
                       /\ x \in Derived /\ ~Mounted(x)
               /\ Depth(t) + 1 \in Upper(t)
               /\ x \in Derived /\ ~Mounted(x) => Depth(t) + 2 \in Upper(t)
<1> DEFINE f == [NewFrame("watch", x) EXCEPT !.n = next_id[x]]
           g == NewFrame("mount", x)
<1>1. AddListener(t, x, User, stack[t], f)
  BY DEF Watch
<1>2. /\ <<f>> \in Seq({f}) /\ Len(<<f>>) = 1 /\ Low(<<f>>, 1) = f
      /\ <<g, f>> \in Seq({f, g}) /\ Len(<<g, f>>) = 2
      /\ Low(<<g, f>>, 1) = f /\ Low(<<g, f>>, 2) = g
  BY DEF Low
<1> HIDE DEF f
<1>3. CASE x \in Derived /\ ~Mounted(x)
  <2>1. StackBecomes(t, <<g, f>> \o stack[t])
    BY <1>1, <1>3 DEF AddListener
  <2> HIDE DEF g
  <2>2. /\ Depth(t) \in Nat /\ Lower(t) /\ Len((stack')[t]) = 2 + Depth(t)
        /\ \A h \in 1..Depth(t) : Low((stack')[t], h) = Slot(t, h)
        /\ \A h \in 1..2 : Low((stack')[t], Depth(t) + h) = Low(<<g, f>>, h)
    BY <1>2, <2>1, StackGrows
  <2>3. Low((stack')[t], Depth(t) + 1) = f /\ Low((stack')[t], Depth(t) + 2) = g
    BY <1>2, <2>2
  <2>4. /\ \A h \in Upper(t) : \/ h = Depth(t) /\ h \in Slots(t)
                               \/ h = Depth(t) + 1 \/ h = Depth(t) + 2
        /\ Depth(t) + 1 \in Upper(t) /\ Depth(t) + 2 \in Upper(t)
    BY <2>2 DEF Upper, Slots, Depth
  <2>5. \A h \in Slots(t) : Low((stack')[t], h) = Slot(t, h)
    BY <2>2 DEF Slots, Depth
  <2> QED
    BY <1>3, <2>2, <2>3, <2>4, <2>5 DEF f, g
<1>4. CASE ~(x \in Derived /\ ~Mounted(x))
  <2>1. StackBecomes(t, <<f>> \o stack[t])
    BY <1>1, <1>4 DEF AddListener
  <2> HIDE DEF g
  <2>2. /\ Depth(t) \in Nat /\ Lower(t) /\ Len((stack')[t]) = 1 + Depth(t)
        /\ \A h \in 1..Depth(t) : Low((stack')[t], h) = Slot(t, h)
        /\ \A h \in 1..1 : Low((stack')[t], Depth(t) + h) = Low(<<f>>, h)
    BY <1>2, <2>1, StackGrows
  <2>3. Low((stack')[t], Depth(t) + 1) = f
    BY <1>2, <2>2
  <2>4. /\ \A h \in Upper(t) : (h = Depth(t) /\ h \in Slots(t)) \/ h = Depth(t) + 1
        /\ Depth(t) + 1 \in Upper(t)
    BY <2>2 DEF Upper, Slots, Depth
  <2>5. \A h \in Slots(t) : Low((stack')[t], h) = Slot(t, h)
    BY <2>2 DEF Slots, Depth
  <2> QED
    BY <1>4, <2>2, <2>3, <2>4, <2>5 DEF f
<1> QED
  BY <1>3, <1>4

(* remove_listener leaves the stack, or calls the unmount. *)
LEMMA UnwatchStack ==
    ASSUME Stacks, NEW t \in Thread, NEW x \in Watched, Unwatch(t, x)
    PROVE  IF x \in Derived /\ Mounted(x) /\ (listeners')[x] = {}
           THEN Call(t, NewFrame("unmount", x))
           ELSE UNCHANGED stack
<1>1. PICK w \in held : RemoveListener(t, x, w[2], stack[t])
  BY DEF Unwatch
<1>2. stack[t] \in Seq(GoodFrame) /\ <<>> \o stack[t] = stack[t]
  BY ConcatEmptySeq DEF Stacks
<1>3. CASE ~(x \in Derived /\ Mounted(x) /\ (listeners')[x] = {})
  <2>1. StackBecomes(t, <<>> \o stack[t])
    BY <1>1, <1>3 DEF RemoveListener
  <2> QED
    BY <1>2, <1>3, <2>1 DEF StackBecomes, Stacks
<1>4. CASE x \in Derived /\ Mounted(x) /\ (listeners')[x] = {}
  BY <1>1, <1>4 DEF RemoveListener, Call
<1> QED
  BY <1>3, <1>4

(* The same calls of a mount and of an unmount *)
LEMMA ListenToStack ==
    ASSUME NEW t \in Thread, ListenTo(t)
    PROVE  LET e == Top(t)
               d == Deps[e.node][Len(e.ids) + 1]
               f == [e EXCEPT !.ids = Append(e.ids, next_id[d])]
           IN  IF d \in Derived /\ ~Mounted(d)
               THEN GotoCall(t, f, NewFrame("mount", d))
               ELSE Goto(t, f)
BY DEF ListenTo, AddListener, Goto, GotoCall

(* Dropping a subscription: the frame goes on, below an unmount maybe.     *)
LEMMA DropSubscriptionStack ==
    ASSUME Stacks, NEW t \in Thread, DropSubscription(t)
    PROVE  LET e == Top(t)
               d == Deps[e.node][Len(Deps[e.node]) - Len(e.ids) + 1]
               f == [e EXCEPT !.ids = Tail(e.ids)]
           IN  IF d \in Derived /\ Mounted(d) /\ (listeners')[d] = {}
               THEN GotoCall(t, f, NewFrame("unmount", d))
               ELSE Goto(t, f)
<1> DEFINE e == Top(t)
           d == Deps[e.node][Len(Deps[e.node]) - Len(e.ids) + 1]
           f == [e EXCEPT !.ids = Tail(e.ids)]
           g == NewFrame("unmount", d)
           rest == Tail(stack[t])
           S == GoodFrame \union {f, g}
<1>1. stack[t] # <<>> /\ rest \in Seq(GoodFrame)
  BY TopType DEF DropSubscription
<1>2. rest \in Seq(S) /\ f \in S /\ g \in S
  BY <1>1, SeqMonotonic
<1>3. RemoveListener(t, d, Head(e.ids), <<f>> \o rest)
  BY DEF DropSubscription
<1> HIDE DEF S, f, g, rest
<1>4. <<g>> \o (<<f>> \o rest) = <<g, f>> \o rest /\ <<>> \o (<<f>> \o rest) = <<f>> \o rest
  BY <1>2, TwoFrames
<1>5. CASE d \in Derived /\ Mounted(d) /\ (listeners')[d] = {}
  <2>1. StackBecomes(t, <<g>> \o (<<f>> \o rest))
    BY <1>3, <1>5 DEF RemoveListener, g
  <2>2. StackBecomes(t, <<g, f>> \o rest)
    BY <1>4, <2>1
  <2> QED
    BY <1>5, <2>2 DEF GotoCall, rest, g, f
<1>6. CASE ~(d \in Derived /\ Mounted(d) /\ (listeners')[d] = {})
  <2>1. StackBecomes(t, <<>> \o (<<f>> \o rest))
    BY <1>3, <1>6 DEF RemoveListener
  <2>2. StackBecomes(t, <<f>> \o rest)
    BY <1>4, <2>1
  <2> QED
    BY <1>6, <2>2 DEF Goto, rest, f
<1> QED
  BY <1>5, <1>6 DEF f, g

-----------------------------------------------------------------------------
(* Steps that hand a Subscription on *)

(* All places before and after a step of t. *)
LEMMA Places ==
    ASSUME TypeInv, NEW t \in Thread, Others(t), Lower(t)
    PROVE  \A a, h, j, x, k :
             /\ Own(a, h, j, x, k) <=>
                  \/ Below(t, a, h, j, x, k) \/ OnTop(t, a, h, j, x, k)
                  \/ Kept(a, h, j, x, k) \/ Given(a, h, j, x, k)
             /\ Own(a, h, j, x, k)' <=>
                  \/ Below(t, a, h, j, x, k) \/ OnTopThen(t, a, h, j, x, k)
                  \/ Kept(a, h, j, x, k)' \/ Given(a, h, j, x, k)'
             /\ Below(t, a, h, j, x, k) =>
                  SameOwner(a, h) /\ h # 0 /\ ~(a = t /\ h = Depth(t))
             /\ h = 0 => SameOwner(a, h) /\ Owner(a, h) = a
<1>1. \A a, h, j, x, k :
        Below(t, a, h, j, x, k) => SameOwner(a, h) /\ h # 0 /\ ~(a = t /\ h = Depth(t))
  BY HasThen, SlotType DEF Below, InFrame, Slots, Depth, TypeInv
<1>2. \A a, h : h = 0 => SameOwner(a, h) /\ Owner(a, h) = a
  BY DEF SameOwner, Owner
<1> QED
  BY <1>1, <1>2, HasNow, HasThen DEF Own

(* listen returns its Subscription to the program. *)
LEMMA WatchingPlaces ==
    ASSUME TypeInv, PlaceInv, NEW t \in Thread, Others(t), Watching(t)
    PROVE  PlaceInv'
<1>1. /\ Stacks /\ stack[t] # <<>> /\ Top(t).at = "watch" /\ Return(t)
      /\ held' = held \union {<<Top(t).node, Top(t).n>>}
      /\ UNCHANGED <<listeners, next_id, dep_subs>>
  BY DEF Watching, At, TypeInv, tables
<1>2. PICK e, d : e = Top(t) /\ d = Depth(t)
  OBVIOUS
<1>3. /\ Lower(t) /\ d \in Slots(t) /\ Slot(t, d) = e /\ Upper(t) = {} /\ d # 0
  BY <1>1, <1>2, ReturnUpper DEF Slots
<1>4. \A a, h, j, x, k :
        /\ OnTop(t, a, h, j, x, k) <=> a = t /\ h = d /\ j = 0 /\ x = e.node /\ k = e.n
        /\ ~OnTopThen(t, a, h, j, x, k)
        /\ Kept(a, h, j, x, k)' <=> Kept(a, h, j, x, k)
        /\ Given(a, h, j, x, k)' <=>
             \/ Given(a, h, j, x, k)
             \/ a = User /\ h = 0 /\ j = 0 /\ x = e.node /\ k = e.n
        /\ Kept(a, h, j, x, k) \/ Given(a, h, j, x, k) => h = 0
  BY <1>1, <1>2, <1>3 DEF OnTop, OnTopThen, Holds, Kept, Given
<1>5. Owner(User, 0)' = User /\ Owner(t, d) = User
  BY <1>1, <1>2, <1>3 DEF Owner, OwnerOf
<1>6. \A j, x, k : Own(t, d, j, x, k) <=> j = 0 /\ x = e.node /\ k = e.n
  BY <1>2, <1>3, <1>4, Places
<1>7. \A x \in Node : \A k \in Nat : \A a, h, j :
        Own(a, h, j, x, k)' <=> \/ Own(a, h, j, x, k) /\ ~(a = t /\ h = d)
                                \/ a = User /\ h = 0 /\ Own(t, d, j, x, k)
  BY <1>2, <1>3, <1>4, <1>6, Places
<1>8. \A x \in Node : \A k \in Nat : \A a, h, j :
        /\ Own(a, h, j, x, k) /\ ~(a = t /\ h = d) => SameOwner(a, h)
        /\ Own(t, d, j, x, k) => Owner(User, 0)' = Owner(t, d)
  BY <1>2, <1>3, <1>4, <1>5, Places
<1> QED
  BY <1>1, <1>7, <1>8, MovedPlaces

(* A mount hands its Subscriptions to the store. *)
LEMMA KeepSubscriptionsPlaces ==
    ASSUME TypeInv, MountInv, PlaceInv, NEW t \in Thread, Others(t), KeepSubscriptions(t)
    PROVE  PlaceInv'
<1>1. /\ Stacks /\ stack[t] # <<>> /\ Top(t).at = "listen"
      /\ dep_subs' = [dep_subs EXCEPT ![Top(t).node] = Top(t).ids]
      /\ UNCHANGED <<listeners, next_id, held>>
  BY DEF KeepSubscriptions, At, TypeInv, program
<1>2. PICK e, c, d, f : /\ e = Top(t) /\ c = e.node /\ d = Depth(t)
                        /\ f = NewFrame("recompute", c)
  OBVIOUS
<1>3. e \in GoodFrame /\ d \in Slots(t) /\ Slot(t, d) = e /\ d # 0
  <2>1. Slot(t, d) = e /\ d \in Nat \ {0}
    BY <1>1, <1>2, LowTail DEF Stacks, Slot, Depth, Top
  <2> QED
    BY <1>1, <1>2, <2>1, TopType DEF Slots, Depth
<1>4. c \in Derived /\ dep_subs[c] = <<>>
  BY <1>1, <1>2, <1>3 DEF GoodFrame, DerivedStage, Stage, MountInv, Unsubscribes
<1>5. Goto(t, f)
  BY <1>2, <1>4 DEF KeepSubscriptions
<1>6. Lower(t) /\ Upper(t) = {d} /\ Low((stack')[t], d) = f
  BY <1>1, <1>2, <1>5, GotoUpper
<1>7. Bare(f)
  BY <1>2, NewFramePlain, PlainBare
<1>8. /\ (dep_subs')[c] = e.ids
      /\ \A b \in Derived : b # c => (dep_subs')[b] = dep_subs[b]
  BY <1>1, <1>2, <1>4 DEF TypeInv, Subscriptions
<1>9. DOMAIN dep_subs[c] = {}
  BY <1>4
<1>10. \A a, h, j, x, k :
        /\ OnTop(t, a, h, j, x, k) <=>
             a = t /\ h = d /\ j \in DOMAIN e.ids /\ Deps[c][j] = x /\ e.ids[j] = k
        /\ ~OnTopThen(t, a, h, j, x, k)
        /\ Kept(a, h, j, x, k)' <=>
             \/ Kept(a, h, j, x, k)
             \/ a = c /\ h = 0 /\ j \in DOMAIN e.ids /\ Deps[c][j] = x /\ e.ids[j] = k
        /\ Given(a, h, j, x, k)' <=> Given(a, h, j, x, k)
        /\ Kept(a, h, j, x, k) \/ Given(a, h, j, x, k) => h = 0
  <2>1. \A a, h, j, x, k : OnTop(t, a, h, j, x, k) <=>
          a = t /\ h = d /\ j \in DOMAIN e.ids /\ Deps[c][j] = x /\ e.ids[j] = k
    BY <1>1, <1>2 DEF OnTop, Holds
  <2>2. \A a, h, j, x, k : ~OnTopThen(t, a, h, j, x, k)
    BY <1>6, <1>7 DEF OnTopThen, Bare
  <2>3. \A a, h, j, x, k : Kept(a, h, j, x, k)' <=>
             \/ Kept(a, h, j, x, k)
             \/ a = c /\ h = 0 /\ j \in DOMAIN e.ids /\ Deps[c][j] = x /\ e.ids[j] = k
    BY <1>4, <1>8, <1>9 DEF Kept
  <2>4. \A a, h, j, x, k :
          /\ Given(a, h, j, x, k)' <=> Given(a, h, j, x, k)
          /\ Kept(a, h, j, x, k) \/ Given(a, h, j, x, k) => h = 0
    BY <1>1 DEF Given, Kept
  <2> QED
    BY <2>1, <2>2, <2>3, <2>4
<1>11. Owner(c, 0)' = c /\ Owner(t, d) = c
  BY <1>1, <1>2, <1>3 DEF Owner, OwnerOf
<1>12. \A j, x, k : Own(t, d, j, x, k) <=>
         j \in DOMAIN e.ids /\ Deps[c][j] = x /\ e.ids[j] = k
  BY <1>2, <1>3, <1>6, <1>10, Places
<1>13. \A x \in Node : \A k \in Nat : \A a, h, j :
         Own(a, h, j, x, k)' <=> \/ Own(a, h, j, x, k) /\ ~(a = t /\ h = d)
                                 \/ a = c /\ h = 0 /\ Own(t, d, j, x, k)
  BY <1>2, <1>3, <1>6, <1>10, <1>12, Places
<1>14. \A x \in Node : \A k \in Nat : \A a, h, j :
         /\ Own(a, h, j, x, k) /\ ~(a = t /\ h = d) => SameOwner(a, h)
         /\ Own(t, d, j, x, k) => Owner(c, 0)' = Owner(t, d)
  BY <1>2, <1>3, <1>6, <1>10, <1>11, Places
<1> QED
  BY <1>1, <1>13, <1>14, MovedPlaces

(* The stop hook takes them from the store. *)
LEMMA UnmountPlaces ==
    ASSUME TypeInv, MountInv, PlaceInv, NEW t \in Thread, Others(t), Unmount(t)
    PROVE  PlaceInv'
<1>1. /\ Stacks /\ stack[t] # <<>> /\ Top(t).at = "unmount"
      /\ dep_subs' = [dep_subs EXCEPT ![Top(t).node] = <<>>]
      /\ UNCHANGED <<listeners, next_id, held>>
      /\ Goto(t, [Top(t) EXCEPT !.at = "unsubscribe", !.ids = dep_subs[Top(t).node]])
  BY DEF Unmount, At, TypeInv, program
<1>2. PICK e, c, d, s, f : /\ e = Top(t) /\ c = e.node /\ d = Depth(t) /\ s = dep_subs[c]
                           /\ f = [e EXCEPT !.at = "unsubscribe", !.ids = s]
  OBVIOUS
<1>3. e \in GoodFrame /\ e \in Frame /\ c \in Derived
  BY <1>1, <1>2, TopType DEF GoodFrame, DerivedStage, Stage
<1>4. Goto(t, f)
  BY <1>1, <1>2
<1>5. f.at = "unsubscribe" /\ f.node = c /\ f.ids = s
  BY <1>2, <1>3 DEF Frame
<1>6. /\ Lower(t) /\ Upper(t) = {d} /\ Low((stack')[t], d) = f
      /\ d \in Slots(t) /\ Slot(t, d) = e /\ d # 0
  BY <1>1, <1>2, <1>4, GotoUpper DEF Slots
<1>7. Bare(e)
  BY <1>1, <1>2, PlainBare
<1>8. /\ (dep_subs')[c] = <<>>
      /\ \A b \in Derived : b # c => (dep_subs')[b] = dep_subs[b]
  BY <1>1, <1>2, <1>3 DEF TypeInv, Subscriptions
<1>9. DOMAIN <<>> = {}
  OBVIOUS
<1>10. \A j, x, k : Holds(f, j, x, k) <=> j \in DOMAIN s /\ Deps[c][j] = x /\ s[j] = k
  <2>1. /\ s \in Seq(Nat) /\ DOMAIN s = 1..Len(s) /\ Len(s) \in Nat /\ Len(Deps[c]) \in Nat
        /\ s = <<>> \/ Len(s) = Len(Deps[c])
    BY <1>2, <1>3, Dependencies, LenProperties DEF TypeInv, Subscriptions, MountInv, Unsubscribes
  <2>2. \A i \in DOMAIN s : Len(Deps[c]) - Len(s) + i = i
    BY <2>1
  <2> QED
    BY <1>5, <2>2 DEF Holds
<1>11. \A a, h, j, x, k : ~OnTop(t, a, h, j, x, k)
  BY <1>2, <1>7 DEF OnTop, Bare
<1>12. \A a, h, j, x, k : OnTopThen(t, a, h, j, x, k) <=>
         a = t /\ h = d /\ j \in DOMAIN s /\ Deps[c][j] = x /\ s[j] = k
  BY <1>6, <1>10 DEF OnTopThen
<1>13. \A a, h, j, x, k :
         /\ Kept(a, h, j, x, k)' <=> Kept(a, h, j, x, k) /\ a # c
         /\ Kept(c, 0, j, x, k) <=> j \in DOMAIN s /\ Deps[c][j] = x /\ s[j] = k
         /\ Given(a, h, j, x, k)' <=> Given(a, h, j, x, k)
         /\ Kept(a, h, j, x, k) \/ Given(a, h, j, x, k) => h = 0
         /\ Given(a, h, j, x, k) => a # c
  BY <1>1, <1>2, <1>3, <1>8, <1>9, GraphAssumption DEF Kept, Given, Node
<1>14. Owner(t, d)' = c /\ Owner(c, 0) = c
  BY <1>5, <1>6 DEF Owner, OwnerOf, Slot
<1>15. \A j, x, k : Own(c, 0, j, x, k) <=> j \in DOMAIN s /\ Deps[c][j] = x /\ s[j] = k
  BY <1>2, <1>3, <1>6, <1>11, <1>13, Places
<1>16. \A x \in Node : \A k \in Nat : \A a, h, j :
         Own(a, h, j, x, k)' <=> \/ Own(a, h, j, x, k) /\ ~(a = c /\ h = 0)
                                 \/ a = t /\ h = d /\ Own(c, 0, j, x, k)
  BY <1>2, <1>3, <1>6, <1>11, <1>12, <1>13, <1>15, Places
<1>17. \A x \in Node : \A k \in Nat : \A a, h, j :
         /\ Own(a, h, j, x, k) /\ ~(a = c /\ h = 0) => SameOwner(a, h)
         /\ Own(c, 0, j, x, k) => Owner(t, d)' = Owner(c, 0)
  BY <1>2, <1>3, <1>6, <1>11, <1>13, <1>14, Places
<1> QED
  BY <1>1, <1>16, <1>17, MovedPlaces

-----------------------------------------------------------------------------
(* Steps that add or remove a listener *)

(* listen has its Subscription before it returns it. *)
LEMMA WatchPlaces ==
    ASSUME TypeInv, TypeInv', PlaceInv, NEW t \in Thread, Others(t),
           NEW x \in Watched, Watch(t, x)
    PROVE  PlaceInv'
<1>1. Stacks /\ x \in Node /\ MayCall(t) /\ UNCHANGED <<dep_subs, held>>
  BY GraphAssumption DEF TypeInv, Watch, MayAttach
<1>2. PICK d, n, f : /\ d = Depth(t) /\ n = next_id[x]
                     /\ f = [NewFrame("watch", x) EXCEPT !.n = n]
  OBVIOUS
<1>3. f.at = "watch" /\ f.node = x /\ f.n = n
  BY <1>2 DEF NewFrame
<1>4. /\ Lower(t) /\ d \in Nat /\ d + 1 \in Upper(t) /\ Low((stack')[t], d + 1) = f
      /\ \A h \in Upper(t) :
           \/ h = d /\ h \in Slots(t) /\ Low((stack')[t], h) = Slot(t, h)
           \/ h = d + 1
           \/ h = d + 2 /\ Low((stack')[t], h) = NewFrame("mount", x)
  BY <1>1, <1>2, WatchUpper
<1>5. stack[t] # <<>> => Bare(Top(t))
  BY <1>1, QuietTops, PlainBare
<1>6. d \in Slots(t) => Bare(Slot(t, d))
  <2>1. ASSUME d \in Slots(t) PROVE stack[t] # <<>>
    BY <2>1 DEF Slots
  <2> QED
    BY <1>1, <1>2, <1>5, <2>1, LowTail DEF Stacks, Slot, Depth, Top
<1>7. Bare(NewFrame("mount", x))
  BY PlainBare DEF NewFrame
<1>8. \A j, y, k : Holds(f, j, y, k) <=> j = 0 /\ y = x /\ k = n
  BY <1>3 DEF Holds
<1>9. \A a, h, j, y, k :
        /\ ~OnTop(t, a, h, j, y, k)
        /\ OnTopThen(t, a, h, j, y, k) <=> a = t /\ h = d + 1 /\ j = 0 /\ y = x /\ k = n
        /\ Kept(a, h, j, y, k)' <=> Kept(a, h, j, y, k)
        /\ Given(a, h, j, y, k)' <=> Given(a, h, j, y, k)
        /\ Kept(a, h, j, y, k) \/ Given(a, h, j, y, k) => h = 0
  <2>1. \A a, h, j, y, k : ~OnTop(t, a, h, j, y, k)
    BY <1>5 DEF OnTop, Bare
  <2>2. \A a, h, j, y, k :
          OnTopThen(t, a, h, j, y, k) <=> a = t /\ h = d + 1 /\ j = 0 /\ y = x /\ k = n
    BY <1>4, <1>6, <1>7, <1>8 DEF OnTopThen, Bare
  <2>3. \A a, h, j, y, k :
          /\ Kept(a, h, j, y, k)' <=> Kept(a, h, j, y, k)
          /\ Given(a, h, j, y, k)' <=> Given(a, h, j, y, k)
          /\ Kept(a, h, j, y, k) \/ Given(a, h, j, y, k) => h = 0
    BY <1>1 DEF Kept, Given
  <2> QED
    BY <2>1, <2>2, <2>3
<1>10. Owner(t, d + 1)' = User
  BY <1>3, <1>4 DEF Owner, OwnerOf, Slot
<1>11. \A y \in Node : \A k \in Nat : \A a, h, j :
         /\ Own(a, h, j, y, k)' <=> \/ Own(a, h, j, y, k)
                                    \/ a = t /\ h = d + 1 /\ j = 0 /\ y = x /\ k = next_id[x]
         /\ Own(a, h, j, y, k) => SameOwner(a, h)
  BY <1>2, <1>4, <1>9, Places
<1>12. PICK m : /\ m = [id |-> next_id[x], to |-> User]
                /\ listeners' = [listeners EXCEPT ![x] = @ \union {m}]
                /\ next_id' = [next_id EXCEPT ![x] = @ + 1]
  BY DEF Watch, AddListener
<1>13. PICK h0 : h0 = d + 1
  OBVIOUS
<1>14. /\ m.id = next_id[x] /\ Owner(t, h0)' = m.to
       /\ \A y \in Node : (next_id')[y] = IF y = x THEN next_id[x] + 1 ELSE next_id[y]
       /\ \A y \in Node :
            (listeners')[y] = IF y = x THEN listeners[x] \union {m} ELSE listeners[y]
  BY <1>1, <1>10, <1>12, <1>13 DEF TypeInv, Tables
<1>15. \A y \in Node : \A k \in Nat : \A a, h, j :
         /\ Own(a, h, j, y, k)' <=>
              \/ Own(a, h, j, y, k)
              \/ a = t /\ h = h0 /\ j = 0 /\ y = x /\ k = m.id
         /\ Own(a, h, j, y, k) => SameOwner(a, h)
  BY <1>11, <1>13, <1>14
<1>16. Adds(x, m, t, h0, 0)
  BY <1>14, <1>15 DEF Adds
<1> QED
  BY <1>1, <1>16, AddedPlace

(* The mount has the Subscriptions it has made so far. *)
LEMMA ListenToPlaces ==
    ASSUME TypeInv, TypeInv', PlaceInv, NEW t \in Thread, Others(t), ListenTo(t)
    PROVE  PlaceInv'
<1>1. /\ Stacks /\ stack[t] # <<>> /\ Top(t).at = "listen" /\ UNCHANGED <<dep_subs, held>>
      /\ Len(Top(t).ids) < Len(Deps[Top(t).node])
  BY DEF ListenTo, At, TypeInv, program
<1>2. PICK e, c, d, m : /\ e = Top(t) /\ c = e.node /\ d = Depth(t) /\ m = Len(e.ids) + 1
  OBVIOUS
<1>3. e \in GoodFrame /\ e \in Frame
  BY <1>1, <1>2, TopType
<1>4. c \in Derived /\ e.ids \in Seq(Nat) /\ Len(e.ids) \in Nat /\ DOMAIN e.ids = 1..Len(e.ids)
  BY <1>1, <1>2, <1>3, LenProperties DEF GoodFrame, DerivedStage, Stage, Frame
<1>5. PICK x : x = Deps[c][m]
  OBVIOUS
<1>6. x \in Node /\ m \in Nat /\ m \notin DOMAIN e.ids
  BY <1>1, <1>2, <1>4, <1>5, Dependencies
<1>7. PICK n : n = next_id[x]
  OBVIOUS
<1>8. n \in Nat
  BY <1>6, <1>7 DEF TypeInv, Tables
<1>9. PICK s, f, g : /\ s = Append(e.ids, n) /\ f = [e EXCEPT !.ids = s]
                     /\ g = NewFrame("mount", x)
  OBVIOUS
<1>10. f.at = "listen" /\ f.node = c /\ f.ids = s
  BY <1>1, <1>2, <1>3, <1>9 DEF Frame
<1>11. /\ DOMAIN s = 1..m /\ s[m] = n
       /\ \A j \in DOMAIN e.ids : s[j] = e.ids[j] /\ j \in DOMAIN s
       /\ \A j \in DOMAIN s : j = m \/ j \in DOMAIN e.ids
  <2>1. /\ s \in Seq(Nat) /\ Len(s) = m /\ \A j \in 1..Len(e.ids) : s[j] = e.ids[j]
        /\ s[m] = n
    BY <1>2, <1>4, <1>8, <1>9, AppendProperties
  <2>2. DOMAIN s = 1..m
    BY <2>1, LenProperties
  <2>3. \A j : j \in 1..m <=> j \in DOMAIN e.ids \/ j = m
    BY <1>2, <1>4
  <2> QED
    BY <1>4, <2>1, <2>2, <2>3
<1>12. \A j, y, k : Holds(f, j, y, k) <=>
         Holds(e, j, y, k) \/ (j = m /\ y = x /\ k = n)
  <2>1. \A j, y, k : Holds(f, j, y, k) <=> j \in DOMAIN s /\ Deps[c][j] = y /\ s[j] = k
    BY <1>10 DEF Holds
  <2>2. \A j, y, k : Holds(e, j, y, k) <=>
          j \in DOMAIN e.ids /\ Deps[c][j] = y /\ e.ids[j] = k
    BY <1>1, <1>2 DEF Holds
  <2>3. m \in DOMAIN s
    BY <1>2, <1>4, <1>11
  <2> QED
    BY <1>5, <1>11, <2>1, <2>2, <2>3
<1>13. Goto(t, f) \/ GotoCall(t, f, g)
  BY <1>2, <1>5, <1>7, <1>9, ListenToStack
<1>14. /\ Lower(t) /\ d \in Upper(t) /\ Low((stack')[t], d) = f /\ d # 0
       /\ d \in Slots(t) /\ Slot(t, d) = e
       /\ \A h \in Upper(t) : h = d \/ Low((stack')[t], h) = g
  BY <1>1, <1>2, <1>13, GotoUpper, GotoCallUpper DEF Slots
<1>15. Bare(g)
  BY <1>9, PlainBare DEF NewFrame
<1>16. \A a, h, j, y, k :
         /\ OnTop(t, a, h, j, y, k) <=> a = t /\ h = d /\ Holds(e, j, y, k)
         /\ OnTopThen(t, a, h, j, y, k) <=> a = t /\ h = d /\ Holds(f, j, y, k)
         /\ Kept(a, h, j, y, k)' <=> Kept(a, h, j, y, k)
         /\ Given(a, h, j, y, k)' <=> Given(a, h, j, y, k)
         /\ Kept(a, h, j, y, k) \/ Given(a, h, j, y, k) => h = 0
  BY <1>1, <1>2, <1>14, <1>15 DEF OnTop, OnTopThen, Kept, Given, Bare
<1>17. Owner(t, d)' = c /\ SameOwner(t, d)
  BY <1>1, <1>2, <1>10, <1>14 DEF Owner, OwnerOf, Slot, SameOwner
<1>18. \A y \in Node : \A k \in Nat : \A a, h, j :
         /\ Own(a, h, j, y, k)' <=> \/ Own(a, h, j, y, k)
                                    \/ a = t /\ h = d /\ j = m /\ y = x /\ k = next_id[x]
         /\ Own(a, h, j, y, k) => SameOwner(a, h)
  BY <1>7, <1>12, <1>14, <1>16, <1>17, Places
<1>19. PICK w : /\ w = [id |-> next_id[x], to |-> c]
                /\ listeners' = [listeners EXCEPT ![x] = @ \union {w}]
                /\ next_id' = [next_id EXCEPT ![x] = @ + 1]
  BY <1>2, <1>5 DEF ListenTo, AddListener
<1>20. /\ w.id = next_id[x] /\ Owner(t, d)' = w.to
       /\ \A y \in Node : (next_id')[y] = IF y = x THEN next_id[x] + 1 ELSE next_id[y]
       /\ \A y \in Node :
            (listeners')[y] = IF y = x THEN listeners[x] \union {w} ELSE listeners[y]
  BY <1>6, <1>17, <1>19 DEF TypeInv, Tables
<1>21. Adds(x, w, t, d, m)
  BY <1>18, <1>20 DEF Adds
<1> QED
  BY <1>6, <1>21, AddedPlace

(* The program drops one it has been given. *)
LEMMA UnwatchPlaces ==
    ASSUME TypeInv, PlaceInv, NEW t \in Thread, Others(t), NEW x \in Watched, Unwatch(t, x)
    PROVE  PlaceInv'
<1>1. /\ Stacks /\ x \in Node /\ MayCall(t) /\ UNCHANGED <<dep_subs, next_id>>
      /\ held \subseteq Node \X Nat
  BY GraphAssumption DEF TypeInv, Unwatch, MayAttach, Program
<1>2. PICK w \in held : /\ w[1] = x /\ held' = held \ {w}
                        /\ RemoveListener(t, x, w[2], stack[t])
  BY DEF Unwatch
<1>3. PICK id \in Nat : id = w[2]
  BY <1>1, <1>2
<1>4. w = <<x, id>>
  BY <1>1, <1>2, <1>3
<1>5. PICK g : g = NewFrame("unmount", x)
  OBVIOUS
<1>6. UNCHANGED stack \/ Call(t, g)
  BY <1>1, <1>5, UnwatchStack
<1>7. Bare(g)
  BY <1>5, PlainBare DEF NewFrame
<1>8. stack[t] # <<>> => Bare(Top(t))
  BY <1>1, QuietTops, PlainBare
<1>9. Lower(t) /\ \A h \in Upper(t) : Bare(Low((stack')[t], h))
  <2>1. CASE UNCHANGED stack
    <3>1. Quiet(t)
      BY <1>1, <2>1, QuietOps
    <3> QED
      BY <1>8, <3>1, QuietBare
  <2>2. CASE Call(t, g)
    <3>1. Depth(t) \in Slots(t) => Bare(Slot(t, Depth(t)))
      <4>1. Depth(t) \in Slots(t) => stack[t] # <<>>
        BY DEF Slots
      <4> QED
        BY <1>1, <1>8, <4>1, LowTail DEF Stacks, Slot, Depth, Top
    <3> QED
      BY <1>1, <1>7, <2>2, <3>1, CallUpper
  <2> QED
    BY <1>6, <2>1, <2>2
<1>10. \A a, h, j, y, k :
        /\ ~OnTop(t, a, h, j, y, k) /\ ~OnTopThen(t, a, h, j, y, k)
        /\ Kept(a, h, j, y, k)' <=> Kept(a, h, j, y, k)
        /\ Given(a, h, j, y, k)' <=>
             Given(a, h, j, y, k) /\ ~(a = User /\ h = 0 /\ j = 0 /\ y = x /\ k = id)
        /\ Kept(a, h, j, y, k) => h = 0 /\ a # User
        /\ Given(a, h, j, y, k) => h = 0
  <2>1. \A a, h, j, y, k : ~OnTop(t, a, h, j, y, k) /\ ~OnTopThen(t, a, h, j, y, k)
    BY <1>8, <1>9 DEF OnTop, OnTopThen, Bare
  <2>2. \A a, h, j, y, k :
          /\ Kept(a, h, j, y, k)' <=> Kept(a, h, j, y, k)
          /\ Kept(a, h, j, y, k) => h = 0 /\ a # User
    BY <1>1, GraphAssumption DEF Kept, Node
  <2>3. \A a, h, j, y, k :
          /\ Given(a, h, j, y, k)' <=>
               Given(a, h, j, y, k) /\ ~(a = User /\ h = 0 /\ j = 0 /\ y = x /\ k = id)
          /\ Given(a, h, j, y, k) => h = 0
    BY <1>2, <1>4 DEF Given
  <2> QED
    BY <2>1, <2>2, <2>3
<1>11. Own(User, 0, 0, x, id)
  BY <1>2, <1>4 DEF Own, Given
<1>12. \A y \in Node : \A k \in Nat : \A a, h, j :
         /\ Own(a, h, j, y, k)' <=>
              /\ Own(a, h, j, y, k)
              /\ ~(a = User /\ h = 0 /\ j = 0 /\ y = x /\ k = id)
         /\ Own(a, h, j, y, k)' => SameOwner(a, h)
  BY <1>9, <1>10, Places
<1>13. listeners' = [listeners EXCEPT ![x] = {l \in @ : l.id # id}]
  BY <1>2, <1>3 DEF RemoveListener
<1>14. Takes(x, id, User, 0, 0)
  BY <1>1, <1>11, <1>12, <1>13 DEF Takes
<1> QED
  BY <1>1, <1>14, RemovedPlace

(* An unmount drops the next of those it took. *)
LEMMA DropSubscriptionPlaces ==
    ASSUME TypeInv, MountInv, PlaceInv, NEW t \in Thread, Others(t), DropSubscription(t)
    PROVE  PlaceInv'
<1>1. /\ Stacks /\ stack[t] # <<>> /\ Top(t).at \in {"unsubscribe", "discard"}
      /\ Top(t).ids # <<>> /\ UNCHANGED <<next_id, dep_subs, held>>
  BY DEF DropSubscription, TypeInv, program
<1>2. PICK e, c, d, r, p, q : /\ e = Top(t) /\ c = e.node /\ d = Depth(t) /\ r = Tail(e.ids)
                              /\ p = Len(Deps[c]) /\ q = Len(e.ids)
  OBVIOUS
<1>3. e \in GoodFrame /\ e \in Frame /\ d \in Slots(t) /\ Slot(t, d) = e /\ d # 0
  <2>1. Slot(t, d) = e /\ d \in Nat \ {0}
    BY <1>1, <1>2, LowTail DEF Stacks, Slot, Depth, Top
  <2> QED
    BY <1>1, <1>2, <2>1, TopType DEF Slots, Depth
<1>4. e.at = "unsubscribe"
  BY <1>1, <1>2, <1>3 DEF MountInv, Unsubscribes
<1>5. c \in Derived /\ e.ids \in Seq(Nat) /\ q <= p /\ p \in Nat
  BY <1>2, <1>3, <1>4, Dependencies
     DEF GoodFrame, Walking, Subscribing, DerivedStage, Stage, Frame
<1>6. /\ q \in Nat \ {0} /\ DOMAIN e.ids = 1..q /\ r \in Seq(Nat)
      /\ DOMAIN r = 1..(q - 1) /\ Len(r) = q - 1
      /\ \A i \in 1..(q - 1) : r[i] = e.ids[i + 1]
      /\ Head(e.ids) = e.ids[1] /\ e.ids[1] \in Nat
  <2>1. q \in Nat \ {0}
    BY <1>1, <1>2, <1>5, LenProperties, EmptySeq
  <2>2. r \in Seq(Nat) /\ Len(r) = q - 1
    BY <1>1, <1>2, <1>5, HeadTailProperties
  <2> QED
    BY <1>1, <1>2, <1>5, <2>1, <2>2, HeadTailProperties, LenProperties
<1>7. PICK m, x, id : m = p - q + 1 /\ x = Deps[c][m] /\ id = e.ids[1]
  OBVIOUS
<1>8. m \in 1..p
  BY <1>5, <1>6, <1>7
<1>9. x \in Node /\ id \in Nat
  BY <1>2, <1>5, <1>6, <1>7, <1>8, Dependencies
<1>10. PICK f, g : f = [e EXCEPT !.ids = r] /\ g = NewFrame("unmount", x)
  OBVIOUS
<1>11. f.at = "unsubscribe" /\ f.node = c /\ f.ids = r
  BY <1>2, <1>3, <1>4, <1>10 DEF Frame
<1>12. \A j, y, k : Holds(f, j, y, k) <=>
         Holds(e, j, y, k) /\ ~(j = m /\ y = x /\ k = id)
  <2>1. \A j, y, k : Holds(e, j, y, k) <=>
          \E i \in 1..q : j = p - q + i /\ Deps[c][j] = y /\ e.ids[i] = k
    BY <1>2, <1>4, <1>6 DEF Holds
  <2>2. \A j, y, k : Holds(f, j, y, k) <=>
          \E i \in 1..(q - 1) : j = p - (q - 1) + i /\ Deps[c][j] = y /\ r[i] = k
    <3>1. \A j, y, k : Holds(f, j, y, k) <=>
            \E i \in DOMAIN r : j = Len(Deps[c]) - Len(r) + i /\ Deps[c][j] = y /\ r[i] = k
      BY <1>11 DEF Holds
    <3>2. DOMAIN r = 1..(q - 1) /\ Len(r) = q - 1 /\ Len(Deps[c]) = p
      BY <1>2, <1>6
    <3> QED
      BY <3>1, <3>2
  <2>3. ASSUME NEW j, NEW y, NEW k, NEW i \in 1..(q - 1),
               j = p - (q - 1) + i, Deps[c][j] = y, r[i] = k
        PROVE  Holds(e, j, y, k) /\ j # m
    <3>1. p \in Nat /\ q \in Nat /\ i \in Nat /\ i # 0 /\ i <= q - 1
      BY <1>5, <1>6, <2>3
    <3>2. i + 1 \in 1..q /\ p - (q - 1) + i = p - q + (i + 1) /\ p - q + (i + 1) # p - q + 1
      BY <3>1
    <3>3. e.ids[i + 1] = k
      BY <1>6, <2>3
    <3> QED
      BY <1>7, <2>1, <2>3, <3>2, <3>3
  <2>4. ASSUME NEW j, NEW y, NEW k, NEW i \in 1..q,
               j = p - q + i, Deps[c][j] = y, e.ids[i] = k, ~(j = m /\ y = x /\ k = id)
        PROVE  Holds(f, j, y, k)
    <3>1. i # 1
      BY <1>5, <1>6, <1>7, <2>4
    <3>2. p \in Nat /\ q \in Nat /\ i \in Nat /\ i # 0 /\ i <= q
      BY <1>5, <1>6, <2>4
    <3>3. PICK v : v = i - 1
      OBVIOUS
    <3>4. v \in 1..(q - 1) /\ p - q + i = p - (q - 1) + v /\ v + 1 = i
      BY <3>1, <3>2, <3>3
    <3>5. r[v] = k
      BY <1>6, <2>4, <3>4
    <3> QED
      BY <2>2, <2>4, <3>4, <3>5
  <2> QED
    BY <2>1, <2>2, <2>3, <2>4
<1>13. Holds(e, m, x, id)
  <2>1. /\ 1 \in DOMAIN e.ids /\ m = Len(Deps[e.node]) - Len(e.ids) + 1
        /\ Deps[e.node][m] = x /\ e.ids[1] = id
    <3>1. 1 \in 1..q /\ m = p - q + 1 /\ Deps[c][m] = x /\ e.ids[1] = id
      BY <1>6, <1>7
    <3> QED
      BY <1>2, <1>6, <3>1
  <2> QED
    BY <1>4, <2>1 DEF Holds
<1>14. Goto(t, f) \/ GotoCall(t, f, g)
  <2>1. x = Deps[e.node][Len(Deps[e.node]) - Len(e.ids) + 1]
    BY <1>2, <1>7
  <2> QED
    BY <1>1, <1>2, <1>10, <2>1, DropSubscriptionStack
<1>15. /\ Lower(t) /\ d \in Upper(t) /\ Low((stack')[t], d) = f
       /\ \A h \in Upper(t) : h = d \/ Low((stack')[t], h) = g
  BY <1>1, <1>2, <1>14, GotoUpper, GotoCallUpper
<1>16. Bare(g)
  BY <1>10, PlainBare DEF NewFrame
<1>17. \A a, h, j, y, k :
         /\ OnTop(t, a, h, j, y, k) <=> a = t /\ h = d /\ Holds(e, j, y, k)
         /\ OnTopThen(t, a, h, j, y, k) <=> a = t /\ h = d /\ Holds(f, j, y, k)
         /\ Kept(a, h, j, y, k)' <=> Kept(a, h, j, y, k)
         /\ Given(a, h, j, y, k)' <=> Given(a, h, j, y, k)
         /\ Kept(a, h, j, y, k) \/ Given(a, h, j, y, k) => h = 0
  BY <1>1, <1>2, <1>15, <1>16 DEF OnTop, OnTopThen, Kept, Given, Bare
<1>18. SameOwner(t, d)
  BY <1>2, <1>3, <1>4, <1>11, <1>15 DEF Owner, OwnerOf, Slot, SameOwner
<1>19. Own(t, d, m, x, id)
  BY <1>13, <1>15, <1>17, Places
<1>20. \A y \in Node : \A k \in Nat : \A a, h, j :
         /\ Own(a, h, j, y, k)' <=>
              Own(a, h, j, y, k) /\ ~(a = t /\ h = d /\ j = m /\ y = x /\ k = id)
         /\ Own(a, h, j, y, k)' => SameOwner(a, h)
  <2>1. \A a, h, j, y, k :
          /\ Own(a, h, j, y, k) <=>
               \/ Below(t, a, h, j, y, k) \/ (a = t /\ h = d /\ Holds(e, j, y, k))
               \/ Kept(a, h, j, y, k) \/ Given(a, h, j, y, k)
          /\ Own(a, h, j, y, k)' <=>
               \/ Below(t, a, h, j, y, k) \/ (a = t /\ h = d /\ Holds(f, j, y, k))
               \/ Kept(a, h, j, y, k) \/ Given(a, h, j, y, k)
    BY <1>15, <1>17, Places
  <2>2. \A a, h, j, y, k :
          Below(t, a, h, j, y, k) => SameOwner(a, h) /\ ~(a = t /\ h = d)
    BY <1>2, <1>15, Places
  <2>3. \A a, h, j, y, k :
          Kept(a, h, j, y, k) \/ Given(a, h, j, y, k) => SameOwner(a, h) /\ h # d
    <3>1. \A a, h : h = 0 => SameOwner(a, h)
      BY DEF SameOwner, Owner
    <3> QED
      BY <1>3, <1>17, <3>1
  <2>4. ASSUME NEW y \in Node, NEW k \in Nat, NEW a, NEW h, NEW j
        PROVE  /\ Own(a, h, j, y, k)' <=>
                    Own(a, h, j, y, k) /\ ~(a = t /\ h = d /\ j = m /\ y = x /\ k = id)
               /\ Own(a, h, j, y, k)' => SameOwner(a, h)
    <3>1. Holds(f, j, y, k) <=> Holds(e, j, y, k) /\ ~(j = m /\ y = x /\ k = id)
      BY <1>12
    <3> QED
      BY <1>18, <2>1, <2>2, <2>3, <3>1
  <2> QED
    BY <2>4
<1>21. listeners' = [listeners EXCEPT ![x] = {l \in @ : l.id # id}]
  <2>1. Deps[Top(t).node][Len(Deps[Top(t).node]) - Len(Top(t).ids) + 1] = x
    BY <1>2, <1>7
  <2>2. Head(Top(t).ids) = id
    BY <1>2, <1>6, <1>7
  <2>3. \E rest : RemoveListener(t, x, id, rest)
    BY <2>1, <2>2 DEF DropSubscription
  <2> QED
    BY <2>3 DEF RemoveListener
<1>22. Takes(x, id, t, d, m)
  BY <1>1, <1>19, <1>20, <1>21 DEF Takes
<1> QED
  BY <1>9, <1>22, RemovedPlace

-----------------------------------------------------------------------------
(* A step of Computed keeps the Subscriptions in their places. *)
LEMMA PlaceInvStep ==
    TypeInv /\ TypeInv' /\ MountInv /\ PlaceInv /\ [Next]_vars => PlaceInv'
<1> SUFFICES ASSUME TypeInv, TypeInv', MountInv, PlaceInv, [Next]_vars PROVE PlaceInv'
  OBVIOUS
<1>1. ASSUME NEW t \in Thread, Progress(t) \/ Start(t) PROVE PlaceInv'
  <2>1. Others(t)
    BY <1>1, OthersKeep DEF Others, TypeInv
  <2>2. ASSUME Quiet(t), UNCHANGED <<tables, held>>, stack[t] # <<>> => Plain(Top(t))
        PROVE  PlaceInv'
    BY <2>1, <2>2, PlainBare, QuietPlaces
  <2>3. CASE Unsubscribed(t)
    <3>1. /\ Return(t) /\ stack[t] # <<>> /\ Stacks /\ UNCHANGED <<tables, held>>
          /\ Top(t).ids = <<>> /\ Top(t).at # "watch"
      BY <2>3 DEF Unsubscribed, TypeInv, program
    <3>2. Quiet(t) /\ Bare(Top(t))
      BY <3>1, QuietOps, PlainBare
    <3> QED
      BY <2>1, <3>1, <3>2, QuietPlaces
  <2>4. CASE Watching(t) \/ Mount(t) \/ KeepSubscriptions(t) \/ Unmount(t)
    BY <2>1, <2>4, WatchingPlaces, MountPlaces, KeepSubscriptionsPlaces, UnmountPlaces
  <2>5. CASE ListenTo(t) \/ DropSubscription(t)
    BY <2>1, <2>5, ListenToPlaces, DropSubscriptionPlaces
  <2>6. ASSUME NEW x \in Watched, Watch(t, x) \/ Unwatch(t, x) PROVE PlaceInv'
    BY <2>1, <2>6, WatchPlaces, UnwatchPlaces
  <2> QED
    BY <1>1, <2>2, <2>3, <2>4, <2>5, <2>6, StepKinds
<1>2. CASE UNCHANGED vars
  <2>1. UNCHANGED <<stack, listeners, next_id, dep_subs, held>>
    BY <1>2 DEF vars, tables, program
  <2>2. \A a, h, j, x, k :
          /\ Own(a, h, j, x, k)' <=> Own(a, h, j, x, k)
          /\ Owner(a, h)' = Owner(a, h)
    BY <2>1 DEF Own, InFrame, Kept, Given, Slots, Slot, Owner
  <2> QED
    BY <2>1, <2>2 DEF PlaceInv, OnePlace, Listed, Placed, Counted
<1> QED
  BY <1>1, <1>2 DEF Next, Rest

(* No store listens at the start. *)
LEMMA PlaceInvInit == Init => PlaceInv
<1> SUFFICES ASSUME Init PROVE PlaceInv
  OBVIOUS
<1>1. \A t \in Thread : Slots(t) = {}
  BY DEF Init, Slots
<1>2. \A c \in Derived : DOMAIN dep_subs[c] = {}
  BY DEF Init
<1>3. \A a, h, j, x, k : ~Own(a, h, j, x, k)
  BY <1>1, <1>2 DEF Init, Own, InFrame, Kept, Given
<1>4. \A x \in Node : listeners[x] = {}
  BY DEF Init
<1> QED
  BY <1>3, <1>4 DEF PlaceInv, OnePlace, Listed, Placed, Counted

(* Between the calls only stores and the program have Subscriptions. *)
LEMMA PlacesAtRest ==
    ASSUME TypeInv, PlaceInv, Quiescent
    PROVE  SubscriptionsKept
<1>1. \A a, h, j, x, k : ~InFrame(a, h, j, x, k)
  BY DEF Quiescent, InFrame, Slots
<1>2. \A a, h, j, x, k :
        Own(a, h, j, x, k) => (Kept(a, h, j, x, k) \/ Given(a, h, j, x, k)) /\ Owner(a, h) = a
  BY <1>1 DEF Own, Kept, Given, Owner
<1>3. ASSUME NEW d \in Node, NEW c \in Derived PROVE SubscriptionsOf(c, d) = KeptOf(c, d)
  <2>1. c # User
    BY GraphAssumption DEF Node
  <2>2. ASSUME NEW l \in listeners[d], l.to = c PROVE l.id \in KeptOf(c, d)
    <3>1. PICK a, h, j : Own(a, h, j, d, l.id) /\ Owner(a, h) = c
      BY <2>2 DEF PlaceInv, Placed
    <3>2. Kept(c, h, j, d, l.id)
      BY <1>2, <2>1, <3>1 DEF Given
    <3> QED
      BY <3>2 DEF Kept, KeptOf
  <2>3. ASSUME NEW j \in DOMAIN dep_subs[c], Deps[c][j] = d
        PROVE  dep_subs[c][j] \in SubscriptionsOf(c, d)
    <3>1. dep_subs[c][j] \in Nat
      BY ElementOfSeq, LenProperties DEF TypeInv, Subscriptions
    <3>2. Own(c, 0, j, d, dep_subs[c][j])
      BY <2>3 DEF Own, Kept
    <3>3. PICK l \in listeners[d] : l.id = dep_subs[c][j] /\ l.to = c
      BY <1>2, <3>1, <3>2 DEF PlaceInv, Listed
    <3> QED
      BY <3>3 DEF SubscriptionsOf
  <2> QED
    BY <2>2, <2>3 DEF SubscriptionsOf, KeptOf
<1>4. ASSUME NEW d \in Node
      PROVE  SubscriptionsOf(User, d) = {w[2] : w \in {v \in held : v[1] = d}}
  <2>1. held \subseteq Node \X Nat
    BY DEF TypeInv, Program
  <2>2. ASSUME NEW l \in listeners[d], l.to = User PROVE <<d, l.id>> \in held
    <3>1. PICK a, h, j : Own(a, h, j, d, l.id) /\ Owner(a, h) = User
      BY <2>2 DEF PlaceInv, Placed
    <3>2. Given(User, h, j, d, l.id)
      BY <1>2, <3>1, GraphAssumption DEF Kept, Node
    <3> QED
      BY <3>2 DEF Given
  <2>3. ASSUME NEW w \in held, w[1] = d PROVE w[2] \in SubscriptionsOf(User, d)
    <3>1. w = <<d, w[2]>> /\ w[2] \in Nat
      BY <2>1, <2>3
    <3>2. Own(User, 0, 0, d, w[2])
      BY <3>1 DEF Own, Given
    <3>3. PICK l \in listeners[d] : l.id = w[2] /\ l.to = User
      BY <1>2, <3>1, <3>2 DEF PlaceInv, Listed
    <3> QED
      BY <3>3 DEF SubscriptionsOf
  <2> QED
    BY <2>2, <2>3 DEF SubscriptionsOf
<1> QED
  BY <1>3, <1>4 DEF SubscriptionsKept

(* A Subscription moves from listen to a mount or to the program, from a    *)
(* mount to the store and from there to an unmount, and each of the steps   *)
(* that take it or hand it on does so under a lock of its own. No           *)
(* interleaving of them loses one or uses one twice: between the calls the  *)
(* listeners are those of the Subscriptions kept.                           *)
THEOREM KeptForEver == Spec => []SubscriptionsKept
<1>1. TypeInv /\ PlaceInv => SubscriptionsKept
  BY PlacesAtRest DEF SubscriptionsKept
<1>2. Spec => [](TypeInv /\ MountInv /\ PlaceInv)
  BY TypeInvInit, TypeInvStep, MountInvInit, MountInvStep, PlaceInvInit, PlaceInvStep, PTL
     DEF Spec
<1> QED
  BY <1>1, <1>2, PTL
=============================================================================
