----------------------------- MODULE Collection -----------------------------
(***************************************************************************)
(* The writes of a keyed store (collection.rs, map.rs) by several threads. *)
(* A collection changes its rows in place, under the value lock, unless a  *)
(* write hook is registered: then, and in a map always, a write reads the  *)
(* whole value, changes that copy and stores it.  Which keys a write is    *)
(* announced under is decided before it, from what the thread saw then.    *)
(*                                                                         *)
(* Store has the hooks and the delivery of announcements in full.  Here a  *)
(* hook only lets a write pass or not, and of an announcement there is the *)
(* scope it is made under: who hears of it is Store's business.            *)
(***************************************************************************)
EXTENDS Integers, Sequences, SequencesExt, FiniteSets

CONSTANTS
    Thread,     \* the threads that write
    Key,        \* the keys of the rows, or the fields of the map
    Item,       \* what a row or a field may hold
    Owner,      \* per thread, the rows that are its own to insert and remove
    Kinds,      \* what the store is: a subset of {"collection", "map"}
    Contents,   \* the whole values the program sets
    Hooked,     \* whether a write hook is ever registered
    MaxWrites   \* bound: the number of writes

Missing == "Missing"    \* no row under this key
ORDER == "@order"       \* ORDER_KEY
Everyone == Key \union {ORDER}      \* NotifyScope::All reaches every listener

Content == [items : [Key -> Item \union {Missing}], order : Seq(Key)]

ASSUME KeyAssumption == Key # {} /\ ORDER \notin Key /\ Missing \notin Item
ASSUME OwnerAssumption == Owner \in [Thread -> SUBSET Key]
ASSUME KindsAssumption == Kinds \subseteq {"collection", "map"}
ASSUME ContentsAssumption == Contents \subseteq Content
ASSUME BoundAssumption == MaxWrites \in Nat /\ Hooked \in BOOLEAN

VARIABLES
    kind,       \* "collection" or "map"
    value,      \* the stored value
    hook,       \* a write hook: "new", "on" (registered) or "off"
    call,       \* per thread, the write it makes
    writes,     \* how many were begun
    misfiled,   \* history: an order was stored that is not one of the rows
    tidy        \* history: rows written in place only, each inserted and removed
                \* by its owner only

program == <<kind, hook, writes, tidy>>
vars == <<value, misfiled, call, program>>

Rows(v) == {k \in Key : v.items[k] # Missing}
Filed(v) == Range(v.order) = Rows(v) /\ Len(v.order) = Cardinality(Rows(v))

(* A write: of the row or field `key` (an item, or none: the closure says  *)
(* no, the value does not parse), of the order, or of the whole.           *)
Write == [op : {"none", "set_item", "update_item", "remove_item", "set_order",
                "set", "set_key", "update"},
          key : Key, item : SUBSET Item, whole : Content]
Empty == [items |-> [k \in Key |-> Missing], order |-> <<>>]
NoWrite == [op |-> "none", key |-> CHOOSE k \in Key : TRUE, item |-> {}, whole |-> Empty]

Call == [at : {"idle", "choose", "mutate", "copy", "write", "write_back"},
         write : Write, scope : SUBSET Everyone, copy : Content]
NoCall == [at |-> "idle", write |-> NoWrite, scope |-> {}, copy |-> Empty]

(* The fields of a map are those of a struct: all there; order unused.     *)
Init ==
    /\ kind \in Kinds
    /\ value \in IF kind = "map" THEN {v \in Contents : Rows(v) = Key} ELSE {Empty}
    /\ hook = "new"
    /\ call = [t \in Thread |-> NoCall]
    /\ writes = 0
    /\ misfiled = FALSE /\ tidy = TRUE

-----------------------------------------------------------------------------
(* Operators named "...Mutant" are faults a run must find, not the code.   *)

CallBecomes(t, c) == call' = [call EXCEPT ![t] = c]
Return(t) == CallBecomes(t, NoCall)
Goto(t, stage) == CallBecomes(t, [call[t] EXCEPT !.at = stage])
Unwritten == UNCHANGED <<value, misfiled>>

(* set_item: a key without a row gets one, last in the order.              *)
Put(v, k, x) ==
    [items |-> [v.items EXCEPT ![k] = x],
     order |-> IF v.items[k] = Missing THEN Append(v.order, k) ELSE v.order]

(* Fault: a field whose new value does not parse is left without one. *)
SetMutant(v, k, item) ==
    [v EXCEPT !.items[k] = IF @ = Missing \/ item = {} THEN Missing ELSE CHOOSE x \in item : TRUE]

(* set_key, update_item: in place of what is there.                        *)
Set(v, k, item) ==
    [v EXCEPT !.items[k] = IF @ = Missing \/ item = {} THEN @ ELSE CHOOSE x \in item : TRUE]

(* Vec::retain: an order without one key, the others as they stand.        *)
Without(order, k) ==
    LET stay == {i \in DOMAIN order : order[i] # k}
        Nth(n) == CHOOSE i \in stay : Cardinality({j \in stay : j <= i}) = n
    IN  [n \in 1..Cardinality(stay) |-> order[Nth(n)]]

(* remove_item.                                                            *)
Drop(v, k) ==
    [items |-> [v.items EXCEPT ![k] = Missing], order |-> Without(v.order, k)]

(* The closure of a write, on a value: what it makes of it, and whether it *)
(* says that nothing changed.                                              *)
Applied(w, v) ==
    CASE w.op = "set_item" -> Put(v, w.key, CHOOSE x \in w.item : TRUE)
      [] w.op = "remove_item" -> Drop(v, w.key)
      [] w.op = "set_order" -> [v EXCEPT !.order = w.whole.order]
      [] w.op = "set" -> w.whole
      [] OTHER -> Set(v, w.key, w.item)

Refuses(w, v) ==
    CASE w.op \in {"set_item", "remove_item", "set_order"} -> Applied(w, v) = v
      [] w.op \in {"update_item", "set_key"} -> w.item = {} \/ v.items[w.key] = Missing
      [] OTHER -> FALSE

(* Fault: an inserted row is announced under its own key only. *)
ScopeMutant(w) ==
    CASE w.op \in {"set_item", "update_item", "set_key"} -> {w.key}
      [] w.op = "remove_item" -> {w.key, ORDER}
      [] w.op = "set_order" -> {ORDER}
      [] OTHER -> Everyone

(* set_item looks before it writes whether the key is new.                 *)
Scope(w) ==
    CASE w.op = "set_item" -> IF value.items[w.key] = Missing THEN {w.key, ORDER} ELSE {w.key}
      [] w.op \in {"update_item", "set_key"} -> {w.key}
      [] w.op = "remove_item" -> {w.key, ORDER}
      [] w.op = "set_order" -> {ORDER}
      [] OTHER -> Everyone

-----------------------------------------------------------------------------
(* The writes that make sense for the store; the program sorts the rows it *)
(* sees, and sets whole values whose order is that of their rows.          *)
Calls ==
    IF kind = "map"
    THEN [op : {"set_key", "update"}, key : Key, item : {{x} : x \in Item} \union {{}},
          whole : {Empty}]
         \union [op : {"set"}, key : {NoWrite.key}, item : {{}},
                 whole : {v \in Contents : Rows(v) = Key}]
    ELSE [op : {"set_item"}, key : Key, item : {{x} : x \in Item}, whole : {Empty}]
         \union [op : {"remove_item"}, key : Key, item : {{}}, whole : {Empty}]
         \union [op : {"update_item"}, key : Key, item : {{x} : x \in Item} \union {{}},
                 whole : {Empty}]
         \union [op : {"set"}, key : {NoWrite.key}, item : {{}}, whole : Contents]
         \union [op : {"set_order"}, key : {NoWrite.key}, item : {{}},
                 whole : {[Empty EXCEPT !.order = Reverse(value.order)]}]

(* In place, and what it inserts or removes is a row of the thread's own.  *)
Tidies(t, w) ==
    \/ w.op \in {"update_item", "set_order"}
    \/ w.op \in {"set_item", "remove_item"} /\ w.key \in Owner[t]

Begin(t) ==
    /\ call[t].at = "idle"
    /\ writes < MaxWrites
    /\ \E w \in Calls :
         /\ CallBecomes(t, [at |-> CASE w.op = "set" -> "write"
                                     [] w.op \in {"set_key", "update"} -> "copy"
                                     [] OTHER -> "choose",
                            write |-> w, scope |-> Scope(w),
                            copy |-> IF w.op = "set" THEN w.whole ELSE Empty])
         /\ tidy' = (tidy /\ Tidies(t, w))
    /\ writes' = writes + 1
    /\ Unwritten /\ UNCHANGED <<kind, hook>>

(* mutate_in_place gives the closure back when there is a hook.            *)
Choose(t) ==
    /\ call[t].at = "choose"
    /\ Goto(t, IF hook = "on" THEN "copy" ELSE "mutate")
    /\ Unwritten /\ UNCHANGED program

Stores(t, v) ==
    /\ value' = v
    /\ misfiled' = (misfiled \/ (call[t].write.op = "set_order" /\ ~Filed(v)))

(* Fault: the closure trusts the look that chose the scope. *)
MutateMutant(t) ==
    LET w == call[t].write
        v == IF w.op = "set_item" /\ ORDER \in call[t].scope
             THEN [items |-> [value.items EXCEPT ![w.key] = CHOOSE x \in w.item : TRUE],
                   order |-> Append(value.order, w.key)]
             ELSE Applied(w, value)
    IN  /\ call[t].at = "mutate"
        /\ IF Refuses(w, value) THEN Unwritten ELSE Stores(t, v)
        /\ Return(t)
        /\ UNCHANGED program

(* In place, under the lock.                                               *)
Mutate(t) ==
    /\ call[t].at = "mutate"
    /\ IF Refuses(call[t].write, value) THEN Unwritten
       ELSE Stores(t, Applied(call[t].write, value))
    /\ Return(t)
    /\ UNCHANGED program

(* On a copy.                                                              *)
Copy(t) ==
    /\ call[t].at = "copy"
    /\ IF Refuses(call[t].write, value) THEN Return(t)
       ELSE CallBecomes(t, [call[t] EXCEPT !.at = "write",
                                           !.copy = Applied(call[t].write, value)])
    /\ Unwritten /\ UNCHANGED program

(* commit, the first store: a set hook may turn the write down, and an     *)
(* equal value is not stored.                                              *)
StoreCopy(t) ==
    /\ call[t].at = "write"
    /\ \/ call[t].copy # value /\ Stores(t, call[t].copy) /\ Goto(t, "write_back")
       \/ (call[t].copy = value \/ hook = "on") /\ Unwritten /\ Return(t)
    /\ UNCHANGED program

(* commit, the second store: the value is stored again whatever is there   *)
(* by now, unless a notify hook turns the announcement down.               *)
WriteBack(t) ==
    /\ call[t].at = "write_back"
    /\ Stores(t, call[t].copy) \/ (hook = "on" /\ Unwritten)
    /\ Return(t)
    /\ UNCHANGED program

ToggleHook ==
    /\ Hooked
    /\ \/ hook = "new" /\ hook' = "on"
       \/ hook = "on" /\ hook' = "off"
    /\ tidy' = FALSE
    /\ Unwritten /\ UNCHANGED <<kind, call, writes>>

-----------------------------------------------------------------------------
Progress(t) == Choose(t) \/ Mutate(t) \/ Copy(t) \/ StoreCopy(t) \/ WriteBack(t)

Rest == (\A t \in Thread : call[t].at = "idle") /\ UNCHANGED vars
Next == (\E t \in Thread : Begin(t) \/ Progress(t)) \/ ToggleHook \/ Rest

Spec == Init /\ [][Next]_vars

-----------------------------------------------------------------------------
TypeOK ==
    /\ kind \in Kinds
    /\ value \in Content
    /\ hook \in {"new", "on", "off"}
    /\ call \in [Thread -> Call]
    /\ writes \in 0..MaxWrites
    /\ misfiled \in BOOLEAN /\ tidy \in BOOLEAN
    /\ kind = "map" => Rows(value) = Key

(* The rows and the order of a collection are two containers, and inserted *)
(* and removed rows change both: whatever overlaps, the order lists every  *)
(* row once and nothing else, unless an order was set that did not.        *)
RowsAndOrderAgree == kind = "collection" /\ ~misfiled => Filed(value)

(* What differs between two values, by the keys that stand for it. *)
Changed(v, u) ==
    {k \in Key : v.items[k] # u.items[k]} \union (IF v.order # u.order THEN {ORDER} ELSE {})

(* collection.rs:127-130, 191-192: the scope a write chose beforehand has  *)
(* the key of every row it then changes, and ORDER_KEY if the order        *)
(* changes.  It holds as long as the program changes the collection in     *)
(* place and inserts and removes each row from one thread: any thread may  *)
(* change its item meanwhile, or the order.                                *)
ChangesInScope ==
    [][tidy => \A t \in Thread :
                   call'[t] # call[t] => Changed(value, value') \subseteq call[t].scope]_vars
=============================================================================
