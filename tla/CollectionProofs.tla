-------------------------- MODULE CollectionProofs --------------------------
(***************************************************************************)
(* Theorems about Collection, for every set of threads, keys, items and    *)
(* whole values and every bound on the writes.                             *)
(*                                                                         *)
(* What a write makes of a value is Applied, and the lemmas of the first   *)
(* part say what that keeps: the types, the fields of a map, the agreement *)
(* of rows and order, every row but its own.  The invariants then relate   *)
(* the value to the copies the threads hold of it.                         *)
(***************************************************************************)
EXTENDS Collection, FiniteSetTheorems, SequenceTheorems, TLAPS

(* The program sets whole collections whose order is that of their rows.   *)
FiledContents == \A v \in Contents : Filed(v)

(* No two threads insert or remove the same row.                           *)
OwnRows == \A t, u \in Thread : t # u => Owner[t] \cap Owner[u] = {}

RowWrites == {"set_item", "update_item", "remove_item"}
InPlaceWrites == RowWrites \union {"set_order"}

-----------------------------------------------------------------------------
(* The invariants.                                                         *)

(* Which writes are made where, and that set_item comes with an item.      *)
Worded ==
    \A t \in Thread :
        /\ call[t].at \in {"choose", "mutate"} => call[t].write.op \in InPlaceWrites
        /\ call[t].at = "copy" => call[t].write.op \in InPlaceWrites \union {"set_key", "update"}
        /\ call[t].at # "idle" => call[t].write.op # "none"
        /\ call[t].write.op = "set_item" => call[t].write.item # {}

(* A map keeps its fields, in the copies too.                              *)
FieldsKept ==
    kind = "map" =>
        \A t \in Thread :
            /\ call[t].at # "idle" => call[t].write.op \in {"set_key", "update", "set"}
            /\ call[t].at \in {"write", "write_back"} => Rows(call[t].copy) = Key

TypeInv == TypeOK /\ Worded /\ FieldsKept

(* The copies of a collection are filed like its value, those that carry a *)
(* new order aside.                                                        *)
CopiesFiled ==
    \A t \in Thread :
        call[t].at \in {"write", "write_back"} /\ call[t].write.op # "set_order"
            => Filed(call[t].copy)

FiledInv == kind = "collection" /\ ~misfiled => Filed(value) /\ CopiesFiled

(* A write is announced under what it may change: a row that is written as *)
(* one that was there is there still.                                      *)
ScopeFits(t) ==
    LET w == call[t].write
        scope == call[t].scope
    IN  /\ w.op \in {"set_item", "update_item", "set_key"} => w.key \in scope
        /\ w.op = "remove_item" => {w.key, ORDER} \subseteq scope
        /\ w.op = "set_order" => ORDER \in scope
        /\ w.op \in {"set_item", "remove_item"} => w.key \in Owner[t]
        /\ w.op = "set_item" /\ ORDER \notin scope => value.items[w.key] # Missing

ScopesFit == \A t \in Thread : call[t].at # "idle" => ScopeFits(t)

InPlaceInv == hook = "new" /\ \A t \in Thread : call[t].at \in {"idle", "choose", "mutate"}

ScopeInv == tidy => InPlaceInv /\ ScopesFit

-----------------------------------------------------------------------------
(* What a write makes of a value.                                          *)

(* Every place of a key that stays has its rank among those, and every     *)
(* rank is taken: taking a key out neither adds, drops nor repeats another *)
(* one.                                                                    *)
LEMMA WithoutKeeps ==
    ASSUME NEW S, NEW s \in Seq(S), NEW k
    PROVE  /\ Without(s, k) \in Seq(S)
           /\ Range(Without(s, k)) = Range(s) \ {k}
           /\ IsInjective(s) => IsInjective(Without(s, k))
<1> DEFINE stay == {i \in DOMAIN s : s[i] # k}
           upto(i) == {j \in stay : j <= i}
           rank == [i \in stay |-> Cardinality(upto(i))]
           Nth(n) == CHOOSE i \in stay : Cardinality(upto(i)) = n
           r == Without(s, k)
<1>1. IsFiniteSet(stay) /\ stay \subseteq Nat /\ Cardinality(stay) \in Nat
    <2>1. DOMAIN s = 1..Len(s) /\ Len(s) \in Nat
        BY LenProperties
    <2>2. IsFiniteSet(1..Len(s))
        BY <2>1, FS_Interval
    <2>3. stay \in SUBSET (1..Len(s))
        BY <2>1
    <2> QED BY <2>1, <2>2, <2>3, FS_Subset, FS_CardinalityType
<1>2. ASSUME NEW i \in stay
      PROVE  /\ IsFiniteSet(upto(i))
             /\ Cardinality(upto(i)) \in 1..Cardinality(stay)
    <2>1. upto(i) \in SUBSET stay /\ i \in upto(i)
        BY <1>1
    <2>2. IsFiniteSet(upto(i)) /\ Cardinality(upto(i)) <= Cardinality(stay)
        BY <1>1, <2>1, FS_Subset
    <2>3. Cardinality(upto(i)) \in Nat /\ Cardinality(upto(i)) # 0
        BY <2>1, <2>2, FS_CardinalityType, FS_EmptySet
    <2> QED BY <1>1, <2>2, <2>3
<1>3. ASSUME NEW i \in stay, NEW j \in stay, Cardinality(upto(i)) = Cardinality(upto(j))
      PROVE  i = j
    <2>1. ASSUME NEW x \in stay, NEW y \in stay, x < y
          PROVE  Cardinality(upto(x)) # Cardinality(upto(y))
        <3>1. upto(x) \in SUBSET upto(y) /\ y \in upto(y) /\ y \notin upto(x)
            BY <1>1, <2>1
        <3>2. IsFiniteSet(upto(y))
            BY <1>2
        <3>3. Cardinality(upto(y)) = Cardinality(upto(x)) => upto(y) = upto(x)
            BY <3>1, <3>2, FS_Subset
        <3> QED BY <3>1, <3>3
    <2>2. i < j \/ j < i \/ i = j
        BY <1>1
    <2> QED BY <1>3, <2>1, <2>2
<1>4. ASSUME NEW n \in 1..Cardinality(stay)
      PROVE  Nth(n) \in stay /\ Cardinality(upto(Nth(n))) = n
    <2>1. rank \in [stay -> 1..Cardinality(stay)]
        BY <1>2
    <2>2. \A x, y \in stay : rank[x] = rank[y] => x = y
        BY <1>3
    <2>3. rank \in Injection(stay, 1..Cardinality(stay))
        BY <2>1, <2>2 DEF Injection, IsInjective
    <2>4. IsFiniteSet(1..Cardinality(stay)) /\ Cardinality(1..Cardinality(stay)) = Cardinality(stay)
        BY <1>1, FS_Interval
    <2>5. rank \in Surjection(stay, 1..Cardinality(stay))
        BY <2>3, <2>4, FS_Injection
    <2>6. PICK i \in stay : rank[i] = n
        BY <2>5 DEF Surjection
    <2> QED BY <2>6
<1>5. /\ DOMAIN r = 1..Cardinality(stay)
      /\ \A n \in 1..Cardinality(stay) : r[n] = s[Nth(n)]
    BY DEF Without
<1>6. \A i \in stay : s[i] \in S /\ s[i] # k
    BY ElementOfSeq, LenProperties
<1>7. r \in Seq(S)
    <2>1. \A n \in 1..Cardinality(stay) : s[Nth(n)] \in S
        BY <1>4, <1>6
    <2>2. r \in [1..Cardinality(stay) -> S]
        BY <2>1 DEF Without
    <2> QED BY <1>1, <2>2, SeqDef
<1>8. Range(r) = Range(s) \ {k}
    <2>1. ASSUME NEW x \in Range(r)
          PROVE  x \in Range(s) \ {k}
        <3>1. PICK n \in DOMAIN r : x = r[n]
            BY <2>1 DEF Range
        <3>2. n \in 1..Cardinality(stay) /\ x = s[Nth(n)]
            BY <1>5, <3>1
        <3> QED BY <1>4, <1>6, <3>2 DEF Range
    <2>2. ASSUME NEW x \in Range(s) \ {k}
          PROVE  x \in Range(r)
        <3>1. PICK i \in stay : x = s[i]
            BY <2>2 DEF Range
        <3> DEFINE n == Cardinality(upto(i))
        <3>2. n \in 1..Cardinality(stay)
            BY <1>2
        <3>3. Nth(n) = i
            BY <1>3, <1>4, <3>2
        <3> QED BY <1>5, <3>1, <3>2, <3>3 DEF Range
    <2> QED BY <2>1, <2>2
<1>9. ASSUME IsInjective(s)
      PROVE  IsInjective(r)
    <2> SUFFICES ASSUME NEW m \in 1..Cardinality(stay), NEW n \in 1..Cardinality(stay), r[m] = r[n]
                 PROVE  m = n
        BY <1>5 DEF IsInjective
    <2>1. s[Nth(m)] = s[Nth(n)] /\ Nth(m) \in DOMAIN s /\ Nth(n) \in DOMAIN s
        BY <1>4, <1>5
    <2>2. Nth(m) = Nth(n)
        BY <1>9, <2>1 DEF IsInjective
    <2> QED BY <1>4, <2>2
<1> QED BY <1>7, <1>8, <1>9

(* Filed says that the order names every row, and none twice.              *)
LEMMA FiledDistinct ==
    ASSUME NEW v \in Content
    PROVE  Filed(v) <=> Range(v.order) = Rows(v) /\ IsInjective(v.order)
<1> DEFINE s == v.order
<1>1. s \in Seq(Key) /\ DOMAIN s = 1..Len(s) /\ Len(s) \in Nat
    BY LenProperties DEF Content
<1>2. IsFiniteSet(1..Len(s)) /\ Cardinality(1..Len(s)) = Len(s)
    BY <1>1, FS_Interval
<1>3. s \in Surjection(1..Len(s), Range(s))
    BY <1>1 DEF Surjection, Range
<1>4. Cardinality(Range(s)) = Len(s) <=> s \in Injection(1..Len(s), Range(s))
    BY <1>2, <1>3, FS_Surjection
<1>5. s \in Injection(1..Len(s), Range(s)) <=> IsInjective(s)
    BY <1>1, <1>3 DEF Injection, IsInjective, Surjection
<1> QED BY <1>4, <1>5 DEF Filed

(* The parts of a value.                                                   *)
LEMMA ContentParts ==
    ASSUME NEW v \in Content
    PROVE  /\ v.items \in [Key -> Item \union {Missing}]
           /\ v.order \in Seq(Key)
           /\ v = [items |-> v.items, order |-> v.order]
BY DEF Content

LEMMA EmptyContent == Empty \in Content
BY DEF Empty, Content

(* set_item: one row more in both containers, or the same rows.            *)
LEMMA PutKeeps ==
    ASSUME NEW v \in Content, NEW k \in Key, NEW x \in Item
    PROVE  /\ Put(v, k, x) \in Content
           /\ Filed(v) => Filed(Put(v, k, x))
           /\ \A j \in Key \ {k} : Put(v, k, x).items[j] = v.items[j]
           /\ Put(v, k, x).items[k] # Missing
           /\ v.items[k] # Missing => Put(v, k, x).order = v.order
<1> DEFINE p == Put(v, k, x)
<1>1. /\ v.items \in [Key -> Item \union {Missing}]
      /\ v.order \in Seq(Key)
    BY ContentParts
<1>2. /\ p.items = [v.items EXCEPT ![k] = x]
      /\ p.order = IF v.items[k] = Missing THEN Append(v.order, k) ELSE v.order
    BY DEF Put
<1>3. p \in Content
    <2>1. p.order \in Seq(Key)
        BY <1>1, <1>2, AppendProperties
    <2>2. p.items \in [Key -> Item \union {Missing}]
        BY <1>1, <1>2
    <2> QED BY <2>1, <2>2 DEF Put, Content
<1>4. p.items[k] # Missing /\ \A j \in Key \ {k} : p.items[j] = v.items[j]
    BY <1>1, <1>2, KeyAssumption
<1>5. Rows(p) = Rows(v) \union {k}
    BY <1>4 DEF Rows
<1>6. ASSUME Filed(v)
      PROVE  Filed(p)
    <2>1. Range(v.order) = Rows(v) /\ IsInjective(v.order)
        BY <1>6, FiledDistinct
    <2>2. CASE v.items[k] # Missing
        <3>1. Rows(p) = Rows(v) /\ p.order = v.order
            BY <1>2, <1>5, <2>2 DEF Rows
        <3> QED BY <1>3, <2>1, <3>1, FiledDistinct
    <2>3. CASE v.items[k] = Missing
        <3> DEFINE s == v.order
                   q == Append(v.order, k)
        <3>1. /\ DOMAIN s = 1..Len(s) /\ Len(s) \in Nat
              /\ DOMAIN q = 1..(Len(s) + 1)
              /\ \A i \in DOMAIN s : q[i] = s[i]
              /\ q[Len(s) + 1] = k
            BY <1>1, LenProperties, AppendProperties
        <3>2. k \notin Range(s)
            BY <2>1, <2>3 DEF Rows
        <3>3. Range(q) = Range(s) \union {k}
            <4>1. \A x1 \in Range(q) : x1 \in Range(s) \union {k}
                BY <3>1 DEF Range
            <4>2. Range(s) \subseteq Range(q)
                BY <3>1 DEF Range
            <4>3. k \in Range(q)
                BY <3>1 DEF Range
            <4> QED BY <4>1, <4>2, <4>3
        <3>4. \A i \in DOMAIN s : s[i] # k
            BY <3>2 DEF Range
        <3>5. IsInjective(q)
            BY <2>1, <3>1, <3>4 DEF IsInjective
        <3> QED BY <1>2, <1>3, <1>5, <2>1, <2>3, <3>3, <3>5, FiledDistinct
    <2> QED BY <2>2, <2>3
<1> QED BY <1>2, <1>3, <1>4, <1>6

(* remove_item: the row and its place go, and nothing else.                *)
LEMMA DropKeeps ==
    ASSUME NEW v \in Content, NEW k \in Key
    PROVE  /\ Drop(v, k) \in Content
           /\ Filed(v) => Filed(Drop(v, k))
           /\ \A j \in Key \ {k} : Drop(v, k).items[j] = v.items[j]
<1> DEFINE d == Drop(v, k)
<1>1. /\ v.items \in [Key -> Item \union {Missing}]
      /\ v.order \in Seq(Key)
    BY ContentParts
<1>2. /\ d.items = [v.items EXCEPT ![k] = Missing]
      /\ d.order = Without(v.order, k)
    BY DEF Drop
<1>3. d \in Content
    BY <1>1, WithoutKeeps DEF Drop, Content
<1>4. d.items[k] = Missing /\ \A j \in Key \ {k} : d.items[j] = v.items[j]
    BY <1>1, <1>2
<1>5. Rows(d) = Rows(v) \ {k}
    BY <1>4 DEF Rows
<1>6. Filed(v) => Filed(d)
    <2>1. Filed(v) => Range(v.order) = Rows(v) /\ IsInjective(v.order)
        BY FiledDistinct
    <2>2. /\ Range(d.order) = Range(v.order) \ {k}
          /\ IsInjective(v.order) => IsInjective(d.order)
        BY <1>1, <1>2, WithoutKeeps
    <2> QED BY <1>3, <1>5, <2>1, <2>2, FiledDistinct
<1> QED BY <1>3, <1>4, <1>6

(* update_item, set_key: one row, and only if it is there.                 *)
LEMMA SetKeeps ==
    ASSUME NEW v \in Content, NEW k \in Key, NEW item \in SUBSET Item
    PROVE  /\ Set(v, k, item) \in Content
           /\ Rows(Set(v, k, item)) = Rows(v)
           /\ Set(v, k, item).order = v.order
           /\ \A j \in Key \ {k} : Set(v, k, item).items[j] = v.items[j]
<1> DEFINE y == IF v.items[k] = Missing \/ item = {} THEN v.items[k] ELSE CHOOSE x \in item : TRUE
           s == Set(v, k, item)
<1>1. /\ v.items \in [Key -> Item \union {Missing}]
      /\ v.order \in Seq(Key)
      /\ v = [items |-> v.items, order |-> v.order]
    BY ContentParts
<1>2. s = [items |-> [v.items EXCEPT ![k] = y], order |-> v.order]
    <2>1. s = [v EXCEPT !.items = [v.items EXCEPT ![k] = y]]
        BY DEF Set
    <2> HIDE DEF y
    <2>2. PICK f : f = [v.items EXCEPT ![k] = y]
        OBVIOUS
    <2>3. s = [items |-> f, order |-> v.order]
        BY <1>1, <2>1, <2>2
    <2> QED BY <2>2, <2>3
<1>3. item # {} => (CHOOSE x \in item : TRUE) \in Item
    OBVIOUS
<1>4. y \in Item \union {Missing} /\ (y = Missing <=> v.items[k] = Missing)
    BY <1>1, <1>3, KeyAssumption
<1>5. /\ s.items \in [Key -> Item \union {Missing}]
      /\ s.items[k] = y
      /\ \A j \in Key \ {k} : s.items[j] = v.items[j]
    BY <1>1, <1>2, <1>4
<1>6. Rows(s) = Rows(v)
    BY <1>4, <1>5 DEF Rows
<1>7. s \in Content /\ s.order = v.order
    BY <1>1, <1>2, <1>5 DEF Content
<1> QED BY <1>5, <1>6, <1>7

(* A filed value stays so while its rows and its order stay.               *)
LEMMA FiledSame ==
    ASSUME NEW v \in Content, NEW u \in Content, Rows(u) = Rows(v), u.order = v.order, Filed(v)
    PROVE  Filed(u)
BY DEF Filed

(* A write makes a value of a value.                                       *)
LEMMA AppliedContent ==
    ASSUME NEW v \in Content, NEW w \in Write, w.op = "set_item" => w.item # {}
    PROVE  Applied(w, v) \in Content
<1>1. w.key \in Key /\ w.item \in SUBSET Item /\ w.whole \in Content
    BY DEF Write
<1>2. CASE w.op = "set_item"
    <2>1. (CHOOSE x \in w.item : TRUE) \in Item
        BY <1>1, <1>2
    <2>2. Applied(w, v) = Put(v, w.key, CHOOSE x \in w.item : TRUE)
        BY <1>2 DEF Applied
    <2> QED BY <1>1, <2>1, <2>2, PutKeeps
<1>3. CASE w.op = "remove_item"
    BY <1>1, <1>3, DropKeeps DEF Applied
<1>4. CASE w.op = "set_order"
    <2>1. Applied(w, v) = [v EXCEPT !.order = w.whole.order]
        BY <1>4 DEF Applied
    <2> QED BY <1>1, <2>1, ContentParts DEF Content
<1>5. CASE w.op = "set"
    BY <1>1, <1>5 DEF Applied
<1>6. CASE w.op \notin {"set_item", "remove_item", "set_order", "set"}
    <2>1. Applied(w, v) = Set(v, w.key, w.item)
        BY <1>6 DEF Applied
    <2> QED BY <1>1, <2>1, SetKeeps
<1> QED BY <1>2, <1>3, <1>4, <1>5, <1>6

(* A write of a row keeps rows and order in step.                          *)
LEMMA AppliedFiled ==
    ASSUME NEW v \in Content, NEW w \in Write, w.op = "set_item" => w.item # {},
           w.op \notin {"set_order", "set"}, Filed(v)
    PROVE  Filed(Applied(w, v))
<1>1. w.key \in Key /\ w.item \in SUBSET Item
    BY DEF Write
<1>2. CASE w.op = "set_item"
    <2>1. (CHOOSE x \in w.item : TRUE) \in Item
        BY <1>1, <1>2
    <2>2. Applied(w, v) = Put(v, w.key, CHOOSE x \in w.item : TRUE)
        BY <1>2 DEF Applied
    <2> QED BY <1>1, <2>1, <2>2, PutKeeps
<1>3. CASE w.op = "remove_item"
    BY <1>1, <1>3, DropKeeps DEF Applied
<1>4. CASE w.op \notin {"set_item", "remove_item"}
    <2>1. Applied(w, v) = Set(v, w.key, w.item)
        BY <1>4 DEF Applied
    <2>2. Set(v, w.key, w.item) \in Content
        BY <1>1, SetKeeps
    <2>3. Rows(Set(v, w.key, w.item)) = Rows(v) /\ Set(v, w.key, w.item).order = v.order
        BY <1>1, SetKeeps
    <2> QED BY <2>1, <2>2, <2>3, FiledSame
<1> QED BY <1>2, <1>3, <1>4

(* What a write leaves alone: every row but its own, all of them when it   *)
(* sets the order; the order, unless rows come or go.                      *)
LEMMA AppliedElsewhere ==
    ASSUME NEW v \in Content, NEW w \in Write, w.op = "set_item" => w.item # {},
           w.op \in InPlaceWrites \union {"set_key"}
    PROVE  /\ \A k \in Key : k # w.key \/ w.op = "set_order" => Applied(w, v).items[k] = v.items[k]
           /\ w.op \in {"update_item", "set_key"} => Rows(Applied(w, v)) = Rows(v)
           /\ w.op \in {"update_item", "set_key"} => Applied(w, v).order = v.order
           /\ w.op = "set_item" => Applied(w, v).items[w.key] # Missing
           /\ w.op = "set_item" /\ v.items[w.key] # Missing => Applied(w, v).order = v.order
<1>1. w.key \in Key /\ w.item \in SUBSET Item /\ w.whole \in Content
    BY DEF Write
<1>2. CASE w.op = "set_item"
    <2>1. (CHOOSE x \in w.item : TRUE) \in Item
        BY <1>1, <1>2
    <2>2. Applied(w, v) = Put(v, w.key, CHOOSE x \in w.item : TRUE)
        BY <1>2 DEF Applied
    <2> QED BY <1>1, <1>2, <2>1, <2>2, PutKeeps
<1>3. CASE w.op = "remove_item"
    <2>1. Applied(w, v) = Drop(v, w.key)
        BY <1>3 DEF Applied
    <2> QED BY <1>1, <1>3, <2>1, DropKeeps
<1>4. CASE w.op = "set_order"
    <2>1. Applied(w, v) = [v EXCEPT !.order = w.whole.order]
        BY <1>4 DEF Applied
    <2>2. Applied(w, v).items = v.items
        BY <2>1, ContentParts
    <2> QED BY <1>4, <2>2
<1>5. CASE w.op \in {"update_item", "set_key"}
    <2>1. Applied(w, v) = Set(v, w.key, w.item)
        BY <1>5 DEF Applied
    <2> QED BY <1>1, <1>5, <2>1, SetKeeps
<1> QED BY <1>2, <1>3, <1>4, <1>5 DEF InPlaceWrites, RowWrites

-----------------------------------------------------------------------------
(* The types.                                                              *)

LEMMA NoCallTyped == NoWrite \in Write /\ NoCall \in Call
<1>1. NoWrite \in Write
    <2>1. (CHOOSE k \in Key : TRUE) \in Key
        BY KeyAssumption
    <2> QED BY <2>1, EmptyContent DEF NoWrite, Write
<1> QED BY <1>1, EmptyContent DEF NoCall, Call

(* The writes a program makes are writes, worded as its store is.          *)
LEMMA CallsTyped ==
    ASSUME NEW w \in Calls, TypeOK
    PROVE  /\ w \in Write
           /\ w.op = "set_item" => w.item # {}
           /\ w.op = "set" => w.whole \in Contents
           /\ kind = "map" /\ w.op = "set" => Rows(w.whole) = Key
           /\ kind = "map" => w.op \in {"set_key", "update", "set"}
           /\ kind # "map" => w.op \in InPlaceWrites \union {"set"}
<1>1. Contents \subseteq Content /\ NoWrite.key \in Key
    BY ContentsAssumption, NoCallTyped DEF Write
<1>2. Empty \in Content
    BY EmptyContent
<1>3. CASE kind = "map"
    <2>1. w \in [op : {"set_key", "update"}, key : Key, item : {{x} : x \in Item} \union {{}},
                 whole : {Empty}]
          \/ w \in [op : {"set"}, key : {NoWrite.key}, item : {{}},
                    whole : {v \in Contents : Rows(v) = Key}]
        BY <1>3 DEF Calls
    <2>2. CASE w \in [op : {"set_key", "update"}, key : Key, item : {{x} : x \in Item} \union {{}},
                      whole : {Empty}]
        BY <1>1, <1>2, <1>3, <2>2 DEF Write, RowWrites
    <2>3. CASE w \in [op : {"set"}, key : {NoWrite.key}, item : {{}},
                      whole : {v \in Contents : Rows(v) = Key}]
        BY <1>1, <1>3, <2>3 DEF Write, RowWrites
    <2> QED BY <2>1, <2>2, <2>3
<1>4. CASE kind # "map"
    <2>1. \/ w \in [op : {"set_item"}, key : Key, item : {{x} : x \in Item}, whole : {Empty}]
          \/ w \in [op : {"remove_item"}, key : Key, item : {{}}, whole : {Empty}]
          \/ w \in [op : {"update_item"}, key : Key, item : {{x} : x \in Item} \union {{}},
                    whole : {Empty}]
          \/ w \in [op : {"set"}, key : {NoWrite.key}, item : {{}}, whole : Contents]
          \/ w \in [op : {"set_order"}, key : {NoWrite.key}, item : {{}},
                    whole : {[Empty EXCEPT !.order = Reverse(value.order)]}]
        BY <1>4 DEF Calls
    <2>2. CASE w \in [op : {"set_item"}, key : Key, item : {{x} : x \in Item}, whole : {Empty}]
        BY <1>1, <1>2, <1>4, <2>2 DEF Write, RowWrites, InPlaceWrites
    <2>3. CASE w \in [op : {"remove_item"}, key : Key, item : {{}}, whole : {Empty}]
        BY <1>1, <1>2, <1>4, <2>3 DEF Write, RowWrites, InPlaceWrites
    <2>6. CASE w \in [op : {"update_item"}, key : Key, item : {{x} : x \in Item} \union {{}},
                      whole : {Empty}]
        BY <1>2, <1>4, <2>6 DEF Write, RowWrites, InPlaceWrites
    <2>4. CASE w \in [op : {"set"}, key : {NoWrite.key}, item : {{}}, whole : Contents]
        BY <1>1, <1>4, <2>4 DEF Write, RowWrites, InPlaceWrites
    <2>5. CASE w \in [op : {"set_order"}, key : {NoWrite.key}, item : {{}},
                      whole : {[Empty EXCEPT !.order = Reverse(value.order)]}]
        <3>1. value.order \in Seq(Key) /\ Len(value.order) \in Nat
            BY ContentParts, LenProperties DEF TypeOK
        <3>2. Reverse(value.order) \in Seq(Key)
            <4>1. \A i \in 1..Len(value.order) :
                     value.order[(Len(value.order) - i) + 1] \in Key
                BY <3>1, ElementOfSeq
            <4>2. Reverse(value.order) \in [1..Len(value.order) -> Key]
                BY <4>1 DEF Reverse
            <4> QED BY <3>1, <4>2, SeqDef
        <3>3. [Empty EXCEPT !.order = Reverse(value.order)] \in Content
            BY <1>2, <3>2 DEF Content
        <3> QED BY <1>1, <1>4, <2>5, <3>3 DEF Write, RowWrites, InPlaceWrites
    <2> QED BY <2>1, <2>2, <2>3, <2>4, <2>5, <2>6
<1> QED BY <1>3, <1>4

LEMMA StoresTyped ==
    ASSUME TypeOK, NEW t \in Thread, NEW v \in Content, Stores(t, v)
    PROVE  value' = v /\ misfiled' \in BOOLEAN
BY DEF TypeOK, Stores

LEMMA TypeInit == Init => TypeInv
<1> SUFFICES ASSUME Init PROVE TypeInv
    OBVIOUS
<1>1. value \in Content /\ (kind = "map" => Rows(value) = Key)
    BY EmptyContent, ContentsAssumption DEF Init
<1>2. call \in [Thread -> Call] /\ \A t \in Thread : call[t] = NoCall
    BY NoCallTyped DEF Init
<1>3. TypeOK
    <2>1. kind \in Kinds /\ hook = "new" /\ writes = 0 /\ misfiled = FALSE /\ tidy = TRUE
        BY DEF Init
    <2>2. hook \in {"new", "on", "off"} /\ writes \in 0..MaxWrites
        BY <2>1, BoundAssumption
    <2> QED BY <1>1, <1>2, <2>1, <2>2 DEF TypeOK
<1>4. \A t \in Thread : call[t].at = "idle" /\ call[t].write.op = "none"
    BY <1>2 DEF NoCall, NoWrite
<1>5. Worded /\ FieldsKept
    BY <1>4 DEF Worded, FieldsKept
<1> QED BY <1>3, <1>5 DEF TypeInv

Moves == (\E t \in Thread : Begin(t) \/ Progress(t)) \/ ToggleHook

(* A step changes one call, and writes what a call of its kind may.        *)
Typed(c) ==
    /\ c \in Call
    /\ c.at \in {"choose", "mutate"} => c.write.op \in InPlaceWrites
    /\ c.at = "copy" => c.write.op \in InPlaceWrites \union {"set_key", "update"}
    /\ c.at # "idle" => c.write.op # "none"
    /\ c.write.op = "set_item" => c.write.item # {}
    /\ kind = "map" /\ c.at # "idle" => c.write.op \in {"set_key", "update", "set"}
    /\ kind = "map" /\ c.at \in {"write", "write_back"} => Rows(c.copy) = Key

LEMMA CallsAreTyped ==
    ASSUME TypeInv, NEW t \in Thread
    PROVE  Typed(call[t])
BY DEF TypeInv, TypeOK, Worded, FieldsKept, Typed

LEMMA CallBecomesTyped ==
    ASSUME TypeInv, NEW t \in Thread, NEW c, Typed(c), CallBecomes(t, c), kind' = kind
    PROVE  call' \in [Thread -> Call] /\ Worded' /\ FieldsKept'
<1>1. call \in [Thread -> Call] /\ c \in Call
    BY DEF TypeInv, TypeOK, Typed
<1>2. /\ call' \in [Thread -> Call]
      /\ \A u \in Thread : call'[u] = IF u = t THEN c ELSE call[u]
    BY <1>1 DEF CallBecomes
<1>3. \A u \in Thread : Typed(call'[u])
    BY <1>2, CallsAreTyped
<1>4. Worded'
    BY <1>3 DEF Worded, Typed
<1>5. FieldsKept'
    <2>1. kind = "map" => \A u \in Thread :
              /\ call'[u].at # "idle" => call'[u].write.op \in {"set_key", "update", "set"}
              /\ call'[u].at \in {"write", "write_back"} => Rows(call'[u].copy) = Key
        BY <1>3 DEF Typed
    <2> QED BY <2>1 DEF FieldsKept, Rows
<1> QED BY <1>2, <1>4, <1>5

LEMMA NoCallIsTyped == Typed(NoCall)
BY NoCallTyped DEF Typed, NoCall, NoWrite

LEMMA TypeStep == TypeInv /\ [Next]_vars => TypeInv'
<1> SUFFICES ASSUME TypeInv, [Next]_vars PROVE TypeInv'
    OBVIOUS
<1>1. CASE UNCHANGED vars
    BY <1>1 DEF vars, program, TypeInv, TypeOK, Worded, FieldsKept, Rows
<1>2. ASSUME Moves PROVE TypeInv'
    <2>1. tidy' \in BOOLEAN
        BY <1>2 DEF Moves, Begin, Progress, Choose, Mutate, Copy, StoreCopy, WriteBack, ToggleHook,
                    program, TypeInv, TypeOK
    <2>2. kind' = kind
        BY <1>2 DEF Moves, Begin, Progress, Choose, Mutate, Copy, StoreCopy, WriteBack, ToggleHook,
                    program
    <2>3. ASSUME Unwritten, call' \in [Thread -> Call], Worded', FieldsKept',
                 hook' \in {"new", "on", "off"}, writes' \in 0..MaxWrites
          PROVE  TypeInv'
        BY <2>1, <2>2, <2>3 DEF Unwritten, TypeInv, TypeOK, Rows
    <2>4. ASSUME NEW t \in Thread, Begin(t) PROVE TypeInv'
        <3>1. PICK w \in Calls :
                 CallBecomes(t, [at |-> CASE w.op = "set" -> "write"
                                          [] w.op \in {"set_key", "update"} -> "copy"
                                          [] OTHER -> "choose",
                                 write |-> w, scope |-> Scope(w),
                                 copy |-> IF w.op = "set" THEN w.whole ELSE Empty])
            BY <2>4 DEF Begin
        <3> DEFINE c == [at |-> CASE w.op = "set" -> "write"
                                  [] w.op \in {"set_key", "update"} -> "copy"
                                  [] OTHER -> "choose",
                         write |-> w, scope |-> Scope(w),
                         copy |-> IF w.op = "set" THEN w.whole ELSE Empty]
        <3>2. /\ w \in Write
              /\ w.op = "set_item" => w.item # {}
              /\ kind = "map" /\ w.op = "set" => Rows(w.whole) = Key
              /\ kind = "map" => w.op \in {"set_key", "update", "set"}
              /\ kind # "map" => w.op \in InPlaceWrites \union {"set"}
            BY CallsTyped DEF TypeInv
        <3>3. Scope(w) \in SUBSET Everyone /\ w.whole \in Content
            BY <3>2 DEF Scope, Everyone, Write
        <3>4. c \in Call
            BY <3>2, <3>3, EmptyContent DEF Call
        <3>5. Typed(c)
            BY <3>2, <3>4 DEF Typed, InPlaceWrites, RowWrites
        <3>6. call' \in [Thread -> Call] /\ Worded' /\ FieldsKept'
            <4> HIDE DEF c
            <4> QED BY <2>2, <3>1, <3>5, CallBecomesTyped DEF c
        <3>7. Unwritten /\ hook' = hook /\ writes' \in 0..MaxWrites
            BY <2>4, BoundAssumption DEF Begin, TypeInv, TypeOK
        <3> QED BY <2>3, <3>6, <3>7 DEF TypeInv, TypeOK
    <2>5. ASSUME NEW t \in Thread, Progress(t) PROVE TypeInv'
        <3> DEFINE w == call[t].write
        <3>1. Typed(call[t]) /\ call[t] \in Call /\ w \in Write
            BY CallsAreTyped DEF Typed, Call
        <3>2. hook' = hook /\ writes' = writes
            BY <2>5 DEF Progress, Choose, Mutate, Copy, StoreCopy, WriteBack, program
        <3>3. CASE Choose(t)
            <4>1. PICK stage \in {"copy", "mutate"} : Goto(t, stage)
                BY <3>3 DEF Choose
            <4>2. Typed([call[t] EXCEPT !.at = stage])
                BY <3>1, <3>3 DEF Typed, Call, Choose, InPlaceWrites, RowWrites
            <4>3. call' \in [Thread -> Call] /\ Worded' /\ FieldsKept'
                BY <2>2, <4>1, <4>2, CallBecomesTyped DEF Goto
            <4> QED BY <2>3, <3>2, <3>3, <4>3 DEF Choose, TypeInv, TypeOK
        <3>4. CASE Copy(t)
            <4>1. Applied(w, value) \in Content
                BY <3>1, AppliedContent DEF TypeInv, TypeOK, Typed
            <4>2. CASE Refuses(w, value)
                <5>1. call' \in [Thread -> Call] /\ Worded' /\ FieldsKept'
                    BY <2>2, <3>4, <4>2, NoCallIsTyped, CallBecomesTyped DEF Copy, Return
                <5> QED BY <2>3, <3>2, <3>4, <5>1 DEF Copy, TypeInv, TypeOK
            <4>3. CASE ~Refuses(w, value)
                <5> DEFINE c == [call[t] EXCEPT !.at = "write", !.copy = Applied(w, value)]
                <5>1. CallBecomes(t, c)
                    BY <3>4, <4>3 DEF Copy
                <5>2. kind = "map" => Rows(Applied(w, value)) = Key
                    <6> SUFFICES ASSUME kind = "map" PROVE Rows(Applied(w, value)) = Key
                        OBVIOUS
                    <6>1. w.op \in {"set_key", "update"}
                        BY <3>1, <3>4 DEF Typed, Copy, InPlaceWrites, RowWrites
                    <6>2. Applied(w, value) = Set(value, w.key, w.item)
                        BY <6>1 DEF Applied
                    <6>3. Rows(Set(value, w.key, w.item)) = Rows(value)
                        BY <3>1, SetKeeps DEF Write, TypeInv, TypeOK
                    <6> QED BY <6>2, <6>3 DEF TypeInv, TypeOK
                <5>3. c \in Call /\ c.at = "write" /\ c.write = w /\ c.copy = Applied(w, value)
                    BY <3>1, <4>1 DEF Call
                <5>4. Typed(c)
                    <6> HIDE DEF c
                    <6> QED BY <3>1, <3>4, <5>2, <5>3 DEF Typed, Copy
                <5>5. call' \in [Thread -> Call] /\ Worded' /\ FieldsKept'
                    <6> HIDE DEF c
                    <6> QED BY <2>2, <5>1, <5>4, CallBecomesTyped
                <5> QED BY <2>3, <3>2, <3>4, <5>5 DEF Copy, TypeInv, TypeOK
            <4> QED BY <4>2, <4>3
        <3>5. CASE Mutate(t) \/ StoreCopy(t) \/ WriteBack(t)
            <4>1. PICK c \in {NoCall, [call[t] EXCEPT !.at = "write_back"]} :
                     CallBecomes(t, c) /\ (c = NoCall \/ StoreCopy(t))
                BY <3>5 DEF Mutate, StoreCopy, WriteBack, Return, Goto
            <4>2. Typed(c)
                BY <3>1, <4>1, NoCallIsTyped DEF Typed, Call, StoreCopy
            <4>3. call' \in [Thread -> Call] /\ Worded' /\ FieldsKept'
                BY <2>2, <4>1, <4>2, CallBecomesTyped
            <4>4. CASE Unwritten
                BY <2>3, <3>2, <4>3, <4>4 DEF TypeInv, TypeOK
            <4>5. ASSUME NEW v \in Content, Stores(t, v), kind = "map" => Rows(v) = Key
                  PROVE  TypeInv'
                <5>1. value' = v /\ misfiled' \in BOOLEAN
                    BY <4>5, StoresTyped DEF TypeInv
                <5>2. kind' = "map" => Rows(value)' = Key
                    BY <2>2, <4>5, <5>1 DEF Rows
                <5> QED BY <2>1, <2>2, <3>2, <4>3, <5>1, <5>2 DEF TypeInv, TypeOK
            <4>6. CASE Mutate(t)
                <5>1. kind # "map"
                    BY <3>1, <4>6 DEF Mutate, Typed, InPlaceWrites, RowWrites
                <5>2. Applied(w, value) \in Content
                    BY <3>1, AppliedContent DEF TypeInv, TypeOK, Typed
                <5>3. Unwritten \/ Stores(t, Applied(w, value))
                    BY <4>6 DEF Mutate
                <5> QED BY <4>4, <4>5, <5>1, <5>2, <5>3
            <4>7. CASE StoreCopy(t) \/ WriteBack(t)
                <5>1. call[t].copy \in Content /\ (kind = "map" => Rows(call[t].copy) = Key)
                    BY <3>1, <4>7 DEF StoreCopy, WriteBack, Typed, Call
                <5>2. Unwritten \/ Stores(t, call[t].copy)
                    BY <4>7 DEF StoreCopy, WriteBack
                <5> QED BY <4>4, <4>5, <5>1, <5>2
            <4> QED BY <3>5, <4>6, <4>7
        <3> QED BY <2>5, <3>3, <3>4, <3>5 DEF Progress
    <2>6. CASE ToggleHook
        <3>1. call' = call /\ hook' \in {"new", "on", "off"} /\ writes' = writes /\ Unwritten
            BY <2>6 DEF ToggleHook
        <3>2. Worded' /\ FieldsKept'
            BY <2>2, <3>1 DEF TypeInv, Worded, FieldsKept, Rows
        <3> QED BY <2>3, <3>1, <3>2 DEF TypeInv, TypeOK
    <2> QED BY <1>2, <2>4, <2>5, <2>6 DEF Moves
<1> QED BY <1>1, <1>2 DEF Next, Rest, Moves

(* The model's variables have their types, and a map has all its fields    *)
(* (collection.rs, map.rs).                                                *)
THEOREM TypeCorrect == Spec => []TypeOK
<1>1. TypeInv => TypeOK
    BY DEF TypeInv
<1> QED BY <1>1, TypeInit, TypeStep, PTL DEF Spec

-----------------------------------------------------------------------------
(* What the steps do to the value and to the copies.                       *)

(* A step stores a value, or it keeps the one there is.  It changes the    *)
(* call of one thread: begins it, moves it on, copies the value, ends it.  *)
LEMMA StepCases ==
    ASSUME TypeInv, Moves
    PROVE  \/ ToggleHook
           \/ \E t \in Thread :
                 \/ Begin(t)
                 \/ Choose(t)
                 \/ Copy(t)
                 \/ (Mutate(t) \/ StoreCopy(t) \/ WriteBack(t)) /\ Return(t) /\ Unwritten
                 \/ Mutate(t) /\ Return(t) /\ Stores(t, Applied(call[t].write, value))
                 \/ StoreCopy(t) /\ Goto(t, "write_back") /\ Stores(t, call[t].copy)
                 \/ WriteBack(t) /\ Return(t) /\ Stores(t, call[t].copy)
BY DEF Moves, Progress, Mutate, StoreCopy, WriteBack

LEMMA CallOfStep ==
    ASSUME TypeInv, NEW t \in Thread, NEW c, CallBecomes(t, c)
    PROVE  call'[t] = c /\ \A u \in Thread \ {t} : call'[u] = call[u]
BY DEF TypeInv, TypeOK, CallBecomes

(* A thread that begins has a copy only if it sets the whole.              *)
LEMMA BeginCall ==
    ASSUME TypeInv, NEW t \in Thread, Begin(t)
    PROVE  \E w \in Calls :
              /\ call'[t].write = w /\ call'[t].scope = Scope(w) /\ call'[t].at # "idle"
              /\ call'[t].at \in {"write", "write_back"} => w.op = "set" /\ call'[t].copy = w.whole
              /\ call'[t].at \in {"choose", "copy", "write"}
              /\ \A u \in Thread \ {t} : call'[u] = call[u]
<1>1. PICK w \in Calls :
         CallBecomes(t, [at |-> CASE w.op = "set" -> "write"
                                  [] w.op \in {"set_key", "update"} -> "copy"
                                  [] OTHER -> "choose",
                         write |-> w, scope |-> Scope(w),
                         copy |-> IF w.op = "set" THEN w.whole ELSE Empty])
    BY DEF Begin
<1> DEFINE c == [at |-> CASE w.op = "set" -> "write"
                          [] w.op \in {"set_key", "update"} -> "copy"
                          [] OTHER -> "choose",
                 write |-> w, scope |-> Scope(w),
                 copy |-> IF w.op = "set" THEN w.whole ELSE Empty]
<1>2. /\ c.write = w /\ c.scope = Scope(w) /\ c.at # "idle"
      /\ c.at \in {"write", "write_back"} => w.op = "set" /\ c.copy = w.whole
      /\ c.at \in {"choose", "copy", "write"}
    OBVIOUS
<1>3. CallBecomes(t, c)
    BY <1>1
<1> HIDE DEF c
<1>4. call'[t] = c /\ \A u \in Thread \ {t} : call'[u] = call[u]
    BY <1>3, CallOfStep
<1> QED BY <1>2, <1>4

LEMMA IdleCall == NoCall.at = "idle"
BY DEF NoCall

-----------------------------------------------------------------------------
(* Rows and order.                                                         *)

LEMMA FiledStep ==
    ASSUME FiledContents, TypeInv, FiledInv, [Next]_vars
    PROVE  FiledInv'
<1>1. CASE UNCHANGED vars
    BY <1>1 DEF vars, program, FiledInv, CopiesFiled, Filed, Rows
<1>2. ASSUME Moves, kind' = "collection", misfiled' = FALSE
      PROVE  Filed(value)' /\ CopiesFiled'
    <2>1. kind = "collection" /\ misfiled = FALSE
        BY <1>2 DEF Moves, Begin, Progress, Choose, Mutate, Copy, StoreCopy, WriteBack, ToggleHook,
                    Unwritten, Stores, TypeInv, TypeOK, program
    <2>2. Filed(value) /\ CopiesFiled
        BY <2>1 DEF FiledInv
    <2>3. ASSUME Unwritten PROVE Filed(value)'
        BY <2>2, <2>3 DEF Unwritten, Filed, Rows
    <2>4. ASSUME NEW t \in Thread, NEW v, Filed(v) \/ call[t].write.op = "set_order", Stores(t, v)
          PROVE  Filed(value)'
        <3>1. value' = v /\ (call[t].write.op = "set_order" => Filed(v))
            BY <1>2, <2>4 DEF Stores
        <3>2. Filed(v)
            BY <2>4, <3>1
        <3> QED BY <3>1, <3>2 DEF Filed, Rows
    <2>5. ASSUME NEW t \in Thread, \A u \in Thread \ {t} : call'[u] = call[u],
                 call'[t].at \in {"write", "write_back"} /\ call'[t].write.op # "set_order"
                     => Filed(call'[t].copy)
          PROVE  CopiesFiled'
        <3>1. \A u \in Thread :
                  call'[u].at \in {"write", "write_back"} /\ call'[u].write.op # "set_order"
                      => Filed(call'[u].copy)
            BY <2>2, <2>5 DEF CopiesFiled
        <3> QED BY <3>1 DEF CopiesFiled, Filed, Rows
    <2>6. ASSUME NEW t \in Thread, Begin(t) PROVE Filed(value)' /\ CopiesFiled'
        <3>1. PICK w \in Calls :
                 /\ call'[t].write = w
                 /\ call'[t].at \in {"write", "write_back"}
                        => w.op = "set" /\ call'[t].copy = w.whole
                 /\ \A u \in Thread \ {t} : call'[u] = call[u]
            BY <2>6, BeginCall
        <3>2. w.op = "set" => Filed(w.whole)
            BY CallsTyped, FiledContents DEF FiledContents, TypeInv
        <3> QED BY <2>3, <2>5, <2>6, <3>1, <3>2 DEF Begin
    <2>7. ASSUME NEW t \in Thread, Choose(t) PROVE Filed(value)' /\ CopiesFiled'
        <3>1. PICK stage \in {"copy", "mutate"} : CallBecomes(t, [call[t] EXCEPT !.at = stage])
            BY <2>7 DEF Choose, Goto
        <3>2. [call[t] EXCEPT !.at = stage].at \notin {"write", "write_back"}
            BY DEF TypeInv, TypeOK, Call
        <3>3. /\ call'[t].at \notin {"write", "write_back"}
              /\ \A u \in Thread \ {t} : call'[u] = call[u]
            BY <3>1, <3>2, CallOfStep
        <3> QED BY <2>3, <2>5, <2>7, <3>3 DEF Choose
    <2>8. ASSUME NEW t \in Thread, Copy(t) PROVE Filed(value)' /\ CopiesFiled'
        <3> DEFINE w == call[t].write
        <3>1. CASE Return(t)
            <4>1. call'[t] = NoCall /\ \A u \in Thread \ {t} : call'[u] = call[u]
                BY <3>1, CallOfStep DEF Return
            <4> QED BY <2>3, <2>5, <2>8, <4>1, IdleCall DEF Copy
        <3>2. CASE CallBecomes(t, [call[t] EXCEPT !.at = "write", !.copy = Applied(w, value)])
            <4>1. PICK x : x = Applied(w, value)
                OBVIOUS
            <4>2. /\ call'[t] = [call[t] EXCEPT !.at = "write", !.copy = x]
                  /\ \A u \in Thread \ {t} : call'[u] = call[u]
                BY <3>2, <4>1, CallOfStep
            <4>3. call'[t].copy = x /\ call'[t].write = w
                BY <4>2 DEF TypeInv, TypeOK, Call
            <4>4. Typed(call[t]) /\ w \in Write /\ w.op # "set"
                BY <2>1, <2>8, CallsAreTyped DEF Typed, Call, Copy, InPlaceWrites, RowWrites
            <4>5. w.op # "set_order" => Filed(x)
                BY <2>2, <4>1, <4>4, AppliedFiled DEF Typed, TypeInv, TypeOK
            <4> QED BY <2>3, <2>5, <2>8, <4>2, <4>3, <4>5 DEF Copy
        <3> QED BY <2>8, <3>1, <3>2 DEF Copy
    <2>9. ASSUME NEW t \in Thread, Return(t) \/ (StoreCopy(t) /\ Goto(t, "write_back"))
          PROVE  CopiesFiled'
        <3>1. CASE Return(t)
            <4>1. call'[t] = NoCall /\ \A u \in Thread \ {t} : call'[u] = call[u]
                BY <3>1, CallOfStep DEF Return
            <4> QED BY <2>5, <4>1, IdleCall
        <3>2. CASE StoreCopy(t) /\ Goto(t, "write_back")
            <4>1. /\ call'[t] = [call[t] EXCEPT !.at = "write_back"]
                  /\ \A u \in Thread \ {t} : call'[u] = call[u]
                BY <3>2, CallOfStep DEF Goto
            <4>2. call'[t].copy = call[t].copy /\ call'[t].write = call[t].write
                BY <4>1 DEF TypeInv, TypeOK, Call
            <4>3. call[t].write.op # "set_order" => Filed(call[t].copy)
                BY <2>2, <3>2 DEF StoreCopy, CopiesFiled
            <4> QED BY <2>5, <4>1, <4>2, <4>3
        <3> QED BY <2>9, <3>1, <3>2
    <2>10. ASSUME NEW t \in Thread, Mutate(t), Stores(t, Applied(call[t].write, value))
           PROVE  Filed(value)'
        <3> DEFINE w == call[t].write
        <3>1. Typed(call[t]) /\ w \in Write /\ w.op # "set"
            BY <2>10, CallsAreTyped DEF Typed, Call, Mutate, InPlaceWrites, RowWrites
        <3>2. w.op # "set_order" => Filed(Applied(w, value))
            BY <2>2, <3>1, AppliedFiled DEF Typed, TypeInv, TypeOK
        <3> QED BY <2>4, <2>10, <3>2
    <2>11. ASSUME NEW t \in Thread, StoreCopy(t) \/ WriteBack(t), Stores(t, call[t].copy)
           PROVE  Filed(value)'
        BY <2>2, <2>4, <2>11 DEF StoreCopy, WriteBack, CopiesFiled
    <2>12. ASSUME ToggleHook PROVE Filed(value)' /\ CopiesFiled'
        <3>1. call' = call
            BY <2>12 DEF ToggleHook
        <3>2. CopiesFiled'
            BY <2>2, <3>1 DEF CopiesFiled, Filed, Rows
        <3> QED BY <2>3, <2>12, <3>2 DEF ToggleHook
    <2> QED BY <1>2, <2>3, <2>6, <2>7, <2>8, <2>9, <2>10, <2>11, <2>12, StepCases
<1>3. CASE Moves
    <2>1. misfiled' \in BOOLEAN
        <3>1. TypeInv'
            BY TypeStep
        <3> QED BY <3>1 DEF TypeInv, TypeOK
    <2>2. kind' = "collection" /\ misfiled' = FALSE => Filed(value)' /\ CopiesFiled'
        BY <1>2, <1>3
    <2> QED BY <2>1, <2>2 DEF FiledInv
<1> QED BY <1>1, <1>3 DEF Next, Rest, Moves

(* The rows and the order of a collection are two containers that inserted *)
(* and removed rows change both (collection.rs:140-151, 193-200).  Whatever *)
(* writes overlap, in place or by copy, they agree, as long as the program *)
(* sets no order and no whole value that do not.                           *)
THEOREM RowsInStep ==
    ASSUME FiledContents
    PROVE  Spec => []RowsAndOrderAgree
<1>1. Init => FiledInv
    <2> SUFFICES ASSUME Init, kind = "collection" PROVE Filed(value) /\ CopiesFiled
        BY DEF FiledInv
    <2>1. value = Empty
        BY DEF Init
    <2>2. Filed(Empty)
        <3>1. Empty.order = <<>> /\ Rows(Empty) = {}
            BY DEF Empty, Rows
        <3>2. Range(<<>>) = {} /\ Len(<<>>) = 0
            BY DEF Range
        <3> QED BY <3>1, <3>2, FS_EmptySet DEF Filed
    <2>3. CopiesFiled
        BY IdleCall DEF Init, CopiesFiled
    <2> QED BY <2>1, <2>2, <2>3
<1>2. TypeInv /\ FiledInv /\ [Next]_vars => FiledInv'
    BY FiledStep
<1>3. FiledInv => RowsAndOrderAgree
    BY DEF FiledInv, RowsAndOrderAgree
<1> QED BY <1>1, <1>2, <1>3, TypeInit, TypeStep, PTL DEF Spec

-----------------------------------------------------------------------------
(* The scopes of the announcements.                                        *)

(* What a write changes is in its scope.                                   *)
LEMMA ScopeCovers ==
    ASSUME TypeInv, NEW t \in Thread, ScopeFits(t), call[t].at = "mutate"
    PROVE  Changed(value, Applied(call[t].write, value)) \subseteq call[t].scope
<1> DEFINE w == call[t].write
           scope == call[t].scope
           v == Applied(w, value)
<1>1. Typed(call[t]) /\ w \in Write /\ w.key \in Key /\ w.op \in InPlaceWrites
    BY CallsAreTyped DEF Typed, Call, Write
<1>2. value \in Content
    BY DEF TypeInv, TypeOK
<1>3. /\ \A k \in Key : k # w.key \/ w.op = "set_order" => v.items[k] = value.items[k]
      /\ w.op = "update_item" => v.order = value.order
      /\ w.op = "set_item" /\ value.items[w.key] # Missing => v.order = value.order
    BY <1>1, <1>2, AppliedElsewhere DEF Typed
<1>4. \A k \in Key \ scope : v.items[k] = value.items[k]
    BY <1>1, <1>3 DEF ScopeFits, InPlaceWrites, RowWrites
<1>5. ORDER \notin scope => v.order = value.order
    BY <1>1, <1>3 DEF ScopeFits, InPlaceWrites, RowWrites
<1> QED BY <1>4, <1>5 DEF Changed

(* A step of a tidy program leaves the calls of the other threads, stores  *)
(* only by Mutate, and begins a write with a scope that fits.              *)
LEMMA InPlaceStep ==
    ASSUME TypeInv, InPlaceInv, Moves, tidy'
    PROVE  /\ tidy /\ InPlaceInv'
           /\ \E t \in Thread :
                 /\ \A u \in Thread \ {t} : call'[u] = call[u]
                 /\ \/ Unwritten /\ call[t].at = "idle" /\ ScopeFits(t)'
                    \/ Unwritten /\ call'[t] = NoCall
                    \/ /\ Unwritten /\ call[t].at # "idle"
                       /\ call'[t].write = call[t].write /\ call'[t].scope = call[t].scope
                    \/ /\ Stores(t, Applied(call[t].write, value))
                       /\ call[t].at = "mutate" /\ call'[t] = NoCall
<1>1. ~ToggleHook
    BY DEF ToggleHook
<1>2. PICK t \in Thread : Begin(t) \/ Choose(t) \/ Mutate(t)
    BY <1>1 DEF Moves, Progress, InPlaceInv, Copy, StoreCopy, WriteBack
<1>3. hook' = hook /\ tidy
    BY <1>2 DEF Begin, Choose, Mutate, program, TypeInv, TypeOK
<1>4. ASSUME \A u \in Thread \ {t} : call'[u] = call[u],
             call'[t].at \in {"idle", "choose", "mutate"}
      PROVE  InPlaceInv'
    BY <1>3, <1>4 DEF InPlaceInv
<1>5. CASE Begin(t)
    <2>1. PICK w \in Calls :
             /\ CallBecomes(t, [at |-> CASE w.op = "set" -> "write"
                                         [] w.op \in {"set_key", "update"} -> "copy"
                                         [] OTHER -> "choose",
                                write |-> w, scope |-> Scope(w),
                                copy |-> IF w.op = "set" THEN w.whole ELSE Empty])
             /\ Tidies(t, w)
        BY <1>5 DEF Begin, TypeInv, TypeOK
    <2>2. w.op \in InPlaceWrites
        BY <2>1 DEF Tidies, InPlaceWrites, RowWrites
    <2>3. CallBecomes(t, [at |-> "choose", write |-> w, scope |-> Scope(w), copy |-> Empty])
        BY <2>1, <2>2 DEF InPlaceWrites, RowWrites
    <2>4. /\ call'[t] = [at |-> "choose", write |-> w, scope |-> Scope(w), copy |-> Empty]
          /\ \A u \in Thread \ {t} : call'[u] = call[u]
        BY <2>3, CallOfStep
    <2>5. w \in Write
        BY CallsTyped DEF TypeInv
    <2>6. Unwritten /\ value' = value /\ call[t].at = "idle"
        BY <1>5 DEF Begin, Unwritten
    <2>7. ScopeFits(t)'
        BY <2>1, <2>2, <2>4, <2>5, <2>6
           DEF ScopeFits, Scope, Write, Tidies, InPlaceWrites, RowWrites
    <2> QED BY <1>3, <1>4, <2>4, <2>6, <2>7
<1>6. CASE Choose(t)
    <2>1. Goto(t, "mutate") /\ Unwritten /\ call[t].at = "choose"
        BY <1>6 DEF Choose, InPlaceInv
    <2>2. /\ call'[t] = [call[t] EXCEPT !.at = "mutate"]
          /\ \A u \in Thread \ {t} : call'[u] = call[u]
        BY <2>1, CallOfStep DEF Goto
    <2>3. /\ call'[t].at = "mutate" /\ call'[t].write = call[t].write
          /\ call'[t].scope = call[t].scope
        BY <2>2 DEF TypeInv, TypeOK, Call
    <2> QED BY <1>3, <1>4, <2>1, <2>2, <2>3
<1>7. CASE Mutate(t)
    <2>1. call'[t] = NoCall /\ \A u \in Thread \ {t} : call'[u] = call[u]
        BY <1>7, CallOfStep DEF Mutate, Return
    <2>2. call[t].at = "mutate" /\ (Unwritten \/ Stores(t, Applied(call[t].write, value)))
        BY <1>7 DEF Mutate
    <2> QED BY <1>3, <1>4, <2>1, <2>2, IdleCall
<1> QED BY <1>2, <1>5, <1>6, <1>7

(* No program becomes tidy again.                                          *)
LEMMA TidyBefore ==
    ASSUME TypeInv, Moves, tidy'
    PROVE  tidy
BY DEF Moves, Begin, Progress, Choose, Mutate, Copy, StoreCopy, WriteBack, ToggleHook, program,
       TypeInv, TypeOK

LEMMA ScopeStep ==
    ASSUME OwnRows, TypeInv, ScopeInv, [Next]_vars
    PROVE  ScopeInv'
<1>1. CASE UNCHANGED vars
    BY <1>1 DEF vars, program, ScopeInv, InPlaceInv, ScopesFit, ScopeFits
<1>2. ASSUME Moves, tidy' PROVE InPlaceInv' /\ ScopesFit'
    <2>1. InPlaceInv /\ InPlaceInv' /\ ScopesFit
        BY <1>2, TidyBefore, InPlaceStep DEF ScopeInv
    <2>2. ASSUME NEW u \in Thread, call[u].at # "idle",
                 call'[u].write = call[u].write, call'[u].scope = call[u].scope,
                 call[u].write.op = "set_item" /\ value.items[call[u].write.key] # Missing
                     => value'.items[call[u].write.key] # Missing
          PROVE  ScopeFits(u)'
        <3>1. ScopeFits(u)
            BY <2>1, <2>2 DEF ScopesFit
        <3> QED BY <2>2, <3>1 DEF ScopeFits
    <2>4. ASSUME NEW t \in Thread, Unwritten, \A u \in Thread \ {t} : call'[u] = call[u],
                 call'[t].at # "idle" => ScopeFits(t)'
          PROVE  ScopesFit'
        BY <2>2, <2>4 DEF ScopesFit, Unwritten
    <2>6. ASSUME NEW t \in Thread, \A u \in Thread \ {t} : call'[u] = call[u],
                 Stores(t, Applied(call[t].write, value)), call[t].at = "mutate",
                 call'[t] = NoCall
          PROVE  ScopesFit'
        <3> DEFINE w == call[t].write
        <3>1. ASSUME NEW u \in Thread \ {t}, call[u].at # "idle" PROVE ScopeFits(u)'
            <4>1. Typed(call[t]) /\ w \in Write /\ w.op \in InPlaceWrites /\ ScopeFits(t)
                BY <2>1, <2>6, CallsAreTyped DEF Typed, Call, ScopesFit
            <4>2. ScopeFits(u) /\ call[u].write \in Write
                BY <2>1, <3>1, CallsAreTyped DEF ScopesFit, Typed, Call
            <4>3. value \in Content /\ call[u].write.key \in Key
                BY <4>2 DEF TypeInv, TypeOK, Write
            <4>4. value' = Applied(w, value)
                BY <2>6 DEF Stores
            <4>5. CASE w.op \in {"set_item", "remove_item"}
                <5>1. call[u].write.op = "set_item" => call[u].write.key # w.key
                    BY <4>1, <4>2, <4>5 DEF OwnRows, ScopeFits
                <5>2. call[u].write.op = "set_item"
                        => value'.items[call[u].write.key] = value.items[call[u].write.key]
                    BY <4>1, <4>3, <4>4, <5>1, AppliedElsewhere DEF Typed
                <5> QED BY <2>2, <2>6, <3>1, <5>2
            <4>6. CASE w.op = "set_order"
                <5>1. value'.items[call[u].write.key] = value.items[call[u].write.key]
                    BY <4>1, <4>3, <4>4, <4>6, AppliedElsewhere DEF Typed
                <5> QED BY <2>2, <2>6, <3>1, <5>1
            <4>7. CASE w.op = "update_item"
                <5>1. Rows(value') = Rows(value)
                    BY <4>1, <4>3, <4>4, <4>7, AppliedElsewhere DEF Typed
                <5>2. value.items[call[u].write.key] # Missing
                        => value'.items[call[u].write.key] # Missing
                    BY <4>3, <5>1 DEF Rows
                <5> QED BY <2>2, <2>6, <3>1, <5>2
            <4> QED BY <4>1, <4>5, <4>6, <4>7 DEF InPlaceWrites, RowWrites
        <3> QED BY <2>6, <3>1, IdleCall DEF ScopesFit
    <2>7. ASSUME NEW t \in Thread, Unwritten, \A u \in Thread \ {t} : call'[u] = call[u],
                 call[t].at # "idle", call'[t].write = call[t].write,
                 call'[t].scope = call[t].scope
          PROVE  ScopesFit'
        BY <2>2, <2>4, <2>7 DEF Unwritten
    <2>8. ScopesFit'
        BY <1>2, <2>1, <2>4, <2>6, <2>7, InPlaceStep, IdleCall
    <2> QED BY <2>1, <2>8
<1>3. CASE Moves
    BY <1>2, <1>3 DEF ScopeInv
<1> QED BY <1>1, <1>3 DEF Next, Rest, Moves

(* collection.rs:127-130, 191-192: as long as a program changes a          *)
(* collection in place only and inserts and removes each row from the      *)
(* thread that owns it, the scope of a write names every row it changes,   *)
(* and the order if it changes that, although set_item reads whether its   *)
(* key is new before it takes the value lock, and other threads change     *)
(* items and the order meanwhile.                                          *)
THEOREM ScopesCover ==
    ASSUME OwnRows
    PROVE  Spec => ChangesInScope
<1>1. Init => ScopeInv
    <2> SUFFICES ASSUME Init PROVE InPlaceInv /\ ScopesFit
        BY DEF ScopeInv
    <2>1. hook = "new" /\ \A t \in Thread : call[t].at = "idle"
        BY IdleCall DEF Init
    <2> QED BY <2>1 DEF InPlaceInv, ScopesFit
<1>2. TypeInv /\ ScopeInv /\ [Next]_vars => ScopeInv'
    BY ScopeStep
<1>3. TypeInv /\ ScopeInv /\ [Next]_vars
        => [tidy => \A t \in Thread : call'[t] # call[t]
                       => Changed(value, value') \subseteq call[t].scope]_vars
    <2> SUFFICES ASSUME TypeInv, ScopeInv, Moves, tidy, NEW t \in Thread, call'[t] # call[t]
                 PROVE  Changed(value, value') \subseteq call[t].scope
        BY DEF Next, Rest, Moves
    <2>1. CASE Unwritten
        BY <2>1 DEF Unwritten, Changed
    <2>2. CASE Stores(t, Applied(call[t].write, value)) /\ call[t].at = "mutate"
        <3>1. ScopeFits(t) /\ value' = Applied(call[t].write, value)
            BY <2>2 DEF ScopeInv, ScopesFit, Stores
        <3> QED BY <2>2, <3>1, ScopeCovers
    <2>3. CASE ~tidy'
        <3>1. ToggleHook \/ \E u \in Thread : Begin(u)
            BY <2>3 DEF Moves, Progress, Choose, Mutate, Copy, StoreCopy, WriteBack, program
        <3> QED BY <2>1, <3>1 DEF ToggleHook, Begin
    <2>4. CASE tidy'
        BY <2>1, <2>2, <2>4, InPlaceStep DEF ScopeInv
    <2> QED BY <2>3, <2>4
<1> QED BY <1>1, <1>2, <1>3, TypeInit, TypeStep, PTL DEF Spec, ChangesInScope
=============================================================================
