---------------------------- MODULE BridgeProofs ----------------------------
(***************************************************************************)
(* Proofs about Bridge, for any store, any number of projections and any   *)
(* bounds.                                                                 *)
(***************************************************************************)
EXTENDS Bridge, SequenceTheorems, FunctionTheorems, FiniteSetTheorems, TLAPS

(* What the runs check as TypeOK, in parts.                                *)
Data ==
    /\ kind \in Kinds
    /\ value \in Content
    /\ queue \in Seq(Note)
    /\ item \in Note \union {Nothing}
    /\ echo \in [Maps -> Content \union {NoEcho}]
Loop ==
    /\ draining \in BOOLEAN
    /\ mounted \subseteq Present /\ todo \subseteq Present
    /\ stack \in Seq(Present) /\ base \in 0..Len(stack)
    /\ after \in Writable \union {None}
Shows ==
    /\ shown \in [Projection -> UNION {[View[p] -> Val] : p \in Projection}]
    /\ \A p \in Projection : DOMAIN shown[p] = View[p]
Counts ==
    /\ writes \in 0..MaxWrites /\ mounts \in 0..MaxMounts
    /\ owed \in [Projection -> Int]
    /\ behind \subseteq Projection

(* Nothing is under way when the loop does not run, and it calls with a    *)
(* notification in hand.                                                   *)
Idle == ~draining => queue = <<>> /\ todo = {} /\ base = 0 /\ after = None
Loaded == todo # {} => item \in Note

(* Only a list leaves while the loop is still to call it.                  *)
Leavers == todo \subseteq mounted \union Lists

Types == Data /\ Loop /\ Shows /\ Counts /\ Idle /\ Loaded /\ Leavers

LEMMA TypesSuffice == Types => TypeOK
BY DEF Types, TypeOK, Data, Loop, Shows, Counts

-----------------------------------------------------------------------------
(* The operators.                                                          *)

LEMMA Constant == /\ View \in [Projection -> SUBSET Field]
                  /\ Maps \subseteq Projection /\ Lists \subseteq Projection
                  /\ Writable \subseteq Maps /\ None \notin Projection
                  /\ MaxWrites \in Nat /\ MaxMounts \in Nat
                  /\ \A p \in Maps \union Lists : View[p] = Field
BY ViewAssumption, MapsAssumption, BoundAssumption

LEMMA PresentProjects == Present \subseteq Projection
BY Constant DEF Present

(* What a projection takes of a value has its fields.                      *)
LEMMA PartType ==
    ASSUME NEW p \in Projection, NEW v \in Content
    PROVE  /\ Part(p, v) \in [View[p] -> Val]
           /\ \A f \in View[p] : Part(p, v)[f] = v[f]
BY Constant DEF Part, Content, Restrict

LEMMA ShownUpdated ==
    ASSUME Shows, NEW p \in Projection, NEW s \in [View[p] -> Val],
           shown' = [shown EXCEPT ![p] = s]
    PROVE  Shows'
BY DEF Shows

(* The object a handle reuses reads as the one the notification carries.   *)
LEMMA ReceivedIsSent == \A p : Received(p) = item.value
BY DEF Received

LEMMA AppliedType ==
    ASSUME NEW p \in Projection, item \in Note, Shows
    PROVE  /\ Applied(p) \in [View[p] -> Val]
           /\ \A f \in View[p] : Applied(p)[f] = IF p \in Maps /\ f \notin item.keys
                                                 THEN shown[p][f] ELSE item.value[f]
<1>1. item.value \in Content /\ item.keys \subseteq Field
    BY DEF Note
<1>2. Received(p) = item.value
    BY ReceivedIsSent
<1>3. shown[p] \in [View[p] -> Val]
    BY DEF Shows
<1>4. CASE p \in Maps /\ item.keys # Field
    <2>1. Applied(p) = [f \in Field |-> IF f \in item.keys THEN item.value[f] ELSE shown[p][f]]
        BY <1>2, <1>4 DEF Applied
    <2>2. View[p] = Field
        BY <1>4, Constant
    <2> QED BY <1>1, <1>3, <1>4, <2>1, <2>2 DEF Content
<1>5. CASE ~(p \in Maps /\ item.keys # Field)
    <2>1. Applied(p) = Part(p, item.value)
        BY <1>2, <1>5 DEF Applied
    <2>2. View[p] \subseteq Field
        BY Constant
    <2> QED BY <1>1, <1>5, <2>1, <2>2, PartType
<1> QED BY <1>4, <1>5

(* The notifications of a queue that a projection hears.                   *)
Calls(p, q) == {i \in DOMAIN q : Hears(p, q[i].keys)}

LEMMA CallsFinite ==
    ASSUME NEW q \in Seq(Note), NEW p
    PROVE  IsFiniteSet(Calls(p, q)) /\ Cardinality(Calls(p, q)) \in Nat
<1>1. Calls(p, q) \subseteq 1..Len(q) /\ Len(q) \in Nat
    BY LenProperties DEF Calls
<1>2. IsFiniteSet(1..Len(q))
    BY <1>1, FS_Interval
<1>3. IsFiniteSet(Calls(p, q))
    BY <1>1, <1>2, FS_Subset
<1> QED BY <1>3, FS_CardinalityType

LEMMA WriteTypes ==
    ASSUME Types, NEW keys \in Scopes, NEW v \in Changes(keys), NEW w \in Passed(v, keys)
    PROVE  v \in Content /\ w \in Content /\ keys \in SUBSET Field
BY DEF Types, Data, Scopes, Changes, Passed

(* A write leaves a notification exactly if it changes the value; if no    *)
(* loop runs, it starts one.                                               *)
LEMMA CommitTypes ==
    ASSUME Types, NEW w \in Content, NEW keys \in SUBSET Field, Commit(w, keys),
           writes < MaxWrites
    PROVE  /\ value' \in Content /\ queue' \in Seq(Note)
           /\ draining' \in BOOLEAN /\ base' \in 0..Len(stack)
           /\ writes' \in 0..MaxWrites /\ owed' \in [Projection -> Int]
           /\ draining => draining'
           /\ ~draining' => queue' = <<>> /\ base' = 0
<1>1. [value |-> w, keys |-> keys] \in Note
    BY DEF Note
<1>2. Append(queue, [value |-> w, keys |-> keys]) \in Seq(Note)
    BY <1>1 DEF Types, Data
<1>3. Len(stack) \in Nat /\ writes' \in 0..MaxWrites
    BY Constant DEF Types, Loop, Counts, Commit
<1>4. [p \in Projection |-> owed[p] + IF p \in mounted /\ Hears(p, keys) THEN 1 ELSE 0]
        \in [Projection -> Int]
    BY DEF Types, Counts
<1>5. CASE w = value
    <2>1. value' = value /\ UNCHANGED <<queue, draining, base, owed>>
        BY <1>5 DEF Commit
    <2>2. ~draining => queue = <<>> /\ base = 0
        BY DEF Types, Idle
    <2>3. /\ value \in Content /\ queue \in Seq(Note) /\ draining \in BOOLEAN
          /\ base \in 0..Len(stack) /\ owed \in [Projection -> Int]
        BY DEF Types, Data, Loop, Counts
    <2> QED BY <1>3, <2>1, <2>2, <2>3
<1>6. CASE w # value
    <2>1. /\ value' = w /\ queue' = Append(queue, [value |-> w, keys |-> keys])
          /\ draining' = TRUE /\ base' = IF draining THEN base ELSE Len(stack)
          /\ owed' = [p \in Projection |->
                        owed[p] + IF p \in mounted /\ Hears(p, keys) THEN 1 ELSE 0]
        BY <1>6 DEF Commit
    <2>2. base \in 0..Len(stack)
        BY DEF Types, Loop
    <2>3. base' \in 0..Len(stack)
        BY <1>3, <2>1, <2>2
    <2> QED BY <1>2, <1>3, <1>4, <2>1, <2>3
<1> QED BY <1>5, <1>6

-----------------------------------------------------------------------------
LEMMA TypesInit == Init => Types
<1> SUFFICES ASSUME Init PROVE Types
    OBVIOUS
<1>1. value \in Content
    BY DEF Init, Content
<1>2. queue \in Seq(Note) /\ stack \in Seq(Present) /\ Len(stack) = 0
    BY EmptySeq DEF Init
<1>3. Shows
    BY <1>1, PartType, Constant DEF Init, Shows
<1>4. Data
    BY <1>1, <1>2 DEF Init, Data
<1>5. Loop
    <2>1. /\ draining = FALSE /\ mounted = {} /\ todo = {} /\ base = 0 /\ after = None
        BY DEF Init
    <2>2. draining \in BOOLEAN /\ mounted \subseteq Present /\ todo \subseteq Present
        BY <2>1
    <2>3. base \in 0..Len(stack) /\ after \in Writable \union {None}
        BY <1>2, <2>1
    <2> QED BY <1>2, <2>2, <2>3 DEF Loop
<1>6. Counts
    BY Constant DEF Init, Counts
<1>7. Idle /\ Loaded /\ Leavers
    BY DEF Init, Idle, Loaded, Leavers
<1> QED BY <1>3, <1>4, <1>5, <1>6, <1>7 DEF Types

(* Whoever writes: what a write leaves alone stays well typed.             *)
LEMMA CommitKeepsTypes ==
    ASSUME Types, NEW w \in Content, NEW keys \in SUBSET Field, Commit(w, keys),
           writes < MaxWrites, UNCHANGED <<kind, item, todo, stack, mounted, mounts>>,
           echo' \in [Maps -> Content \union {NoEcho}], Shows', behind' \subseteq Projection,
           after' \in Writable \union {None}, ~draining' => after' = None
    PROVE  Types'
<1>1. /\ value' \in Content /\ queue' \in Seq(Note)
      /\ draining' \in BOOLEAN /\ base' \in 0..Len(stack)
      /\ writes' \in 0..MaxWrites /\ owed' \in [Projection -> Int]
      /\ draining => draining'
      /\ ~draining' => queue' = <<>> /\ base' = 0
    BY CommitTypes
<1>2. Present' = Present
    BY DEF Present
<1>3. Data'
    BY <1>1 DEF Data, Types
<1>4. Loop'
    BY <1>1, <1>2 DEF Loop, Types
<1>5. Counts'
    BY <1>1 DEF Counts, Types
<1>6. Idle' /\ Loaded' /\ Leavers'
    BY <1>1 DEF Idle, Loaded, Leavers, Types
<1> QED BY <1>3, <1>4, <1>5, <1>6 DEF Types

LEMMA RustWriteParts ==
    ASSUME Types, RustWrite
    PROVE  \E w \in Content, keys \in SUBSET Field :
             /\ keys \in Scopes /\ (\E v \in Changes(keys) : w \in Passed(v, keys))
             /\ Commit(w, keys) /\ behind' = LeftBehind(w)
<1>1. PICK keys \in Scopes : \E v \in Changes(keys) : \E w \in Passed(v, keys) :
        Commit(w, keys) /\ behind' = LeftBehind(w)
    BY DEF RustWrite
<1>2. PICK v \in Changes(keys) : \E w \in Passed(v, keys) :
        Commit(w, keys) /\ behind' = LeftBehind(w)
    BY <1>1
<1>3. PICK w \in Passed(v, keys) : Commit(w, keys) /\ behind' = LeftBehind(w)
    BY <1>2
<1> QED BY <1>3, WriteTypes

LEMMA TypesRustWrite == Types /\ RustWrite => Types'
<1> SUFFICES ASSUME Types, RustWrite PROVE Types'
    OBVIOUS
<1>1. PICK w \in Content, keys \in SUBSET Field : Commit(w, keys) /\ behind' = LeftBehind(w)
    BY RustWriteParts
<1>2. /\ UNCHANGED <<kind, item, todo, stack, after, mounted, shown, echo, mounts>>
      /\ writes < MaxWrites
    BY DEF RustWrite, MayWrite
<1>3. /\ echo' \in [Maps -> Content \union {NoEcho}] /\ Shows'
      /\ after' \in Writable \union {None}
    BY <1>2 DEF Types, Data, Loop, Shows
<1>4. behind' \subseteq Projection
    BY <1>1 DEF LeftBehind, Types, Counts
<1>5. ~draining' => after' = None
    BY <1>1, <1>2, CommitTypes DEF Types, Idle
<1> QED BY <1>1, <1>2, <1>3, <1>4, <1>5, CommitKeepsTypes

LEMMA ReadBackShows ==
    ASSUME Shows, NEW p \in Projection, NEW w \in Content, shown' = ReadBack(p, w)
    PROVE  Shows'
<1>1. CASE p \in mounted
    BY <1>1 DEF ReadBack, Shows
<1>2. CASE p \notin mounted
    BY <1>2, PartType, ShownUpdated DEF ReadBack
<1> QED BY <1>1, <1>2

(* A set writes, and reads back unless the loop it starts comes first.      *)
Wrote(p, w) == /\ draining' = draining
               /\ shown' = ReadBack(p, w)
               /\ behind' = LeftBehind(w) \ {p}
               /\ UNCHANGED after
Waits(p, w) == /\ draining' # draining
               /\ after' = p /\ behind' = LeftBehind(w) /\ UNCHANGED shown

LEMMA SetParts ==
    ASSUME Types, NEW p \in Projection, NEW keys \in Scopes, Set(p, keys)
    PROVE  /\ keys \in SUBSET Field
           /\ \E w \in Content, v \in Content :
                /\ v \in Changes(keys) /\ w \in Passed(v, keys)
                /\ Commit(w, keys)
                /\ echo' = Remember(p, keys, v)
                /\ Wrote(p, w) \/ Waits(p, w)
<1>1. PICK v \in Changes(keys) : \E w \in Passed(v, keys) :
         Commit(w, keys) /\ echo' = Remember(p, keys, v) /\ (Wrote(p, w) \/ Waits(p, w))
    BY DEF Set, Wrote, Waits
<1>2. PICK w \in Passed(v, keys) :
         Commit(w, keys) /\ echo' = Remember(p, keys, v) /\ (Wrote(p, w) \/ Waits(p, w))
    BY <1>1
<1> QED BY <1>2, WriteTypes

LEMMA TypesSet ==
    ASSUME Types, NEW p \in Projection, NEW keys \in Scopes, Set(p, keys)
    PROVE  Types'
<1>1. PICK w \in Content, v \in Content :
         Commit(w, keys) /\ echo' = Remember(p, keys, v) /\ (Wrote(p, w) \/ Waits(p, w))
    BY SetParts
<1>2. /\ UNCHANGED <<kind, item, todo, stack, mounted, mounts>>
      /\ writes < MaxWrites /\ p \in Writable /\ p \in Maps /\ keys \in SUBSET Field
    BY Constant, SetParts DEF Set, MayWrite
<1>3. echo' \in [Maps -> Content \union {NoEcho}]
    BY <1>1, <1>2 DEF Remember, Types, Data
<1>4. behind' \subseteq Projection
    BY <1>1 DEF Wrote, Waits, LeftBehind, Types, Counts
<1>5. /\ draining \in BOOLEAN /\ draining' \in BOOLEAN /\ (draining => draining')
      /\ after \in Writable \union {None} /\ (~draining => after = None)
    BY <1>1, <1>2, CommitTypes DEF Types, Loop, Idle
<1>6. CASE Wrote(p, w)
    <2>1. Shows'
        BY <1>1, <1>6, ReadBackShows DEF Types, Wrote
    <2>2. after' \in Writable \union {None} /\ (~draining' => after' = None)
        BY <1>5, <1>6 DEF Wrote
    <2> QED BY <1>1, <1>2, <1>3, <1>4, <2>1, <2>2, CommitKeepsTypes
<1>7. CASE Waits(p, w)
    <2>1. Shows'
        BY <1>7 DEF Types, Shows, Waits
    <2>2. draining' /\ after' \in Writable \union {None}
        BY <1>2, <1>5, <1>7 DEF Waits
    <2> QED BY <1>1, <1>2, <1>3, <1>4, <2>1, <2>2, CommitKeepsTypes
<1> QED BY <1>1, <1>6, <1>7

LEMMA TypesPop == Types /\ Pop => Types'
<1> SUFFICES ASSUME Types, Pop PROVE Types'
    OBVIOUS
<1>1. /\ queue \in Seq(Note) /\ queue # <<>> /\ item' = Head(queue) /\ queue' = Tail(queue)
      /\ todo' = {p \in mounted : Hears(p, Head(queue).keys)}
      /\ draining
      /\ UNCHANGED <<kind, value, draining, base, stack, after, mounted, shown, echo,
                     writes, mounts, owed, behind>>
    BY DEF Types, Data, Pop
<1>2. item' \in Note /\ queue' \in Seq(Note)
    BY <1>1, HeadTailProperties
<1>3. Present' = Present
    BY <1>1 DEF Present
<1>4. Data'
    BY <1>1, <1>2 DEF Types, Data
<1>5. Loop'
    BY <1>1, <1>3 DEF Types, Loop
<1>6. Shows' /\ Counts'
    BY <1>1 DEF Types, Shows, Counts
<1>7. Idle' /\ Loaded' /\ Leavers'
    BY <1>1, <1>2 DEF Types, Idle, Loaded, Leavers
<1> QED BY <1>4, <1>5, <1>6, <1>7 DEF Types

LEMMA StackPush ==
    ASSUME Loop, NEW p \in Present
    PROVE  /\ Append(stack, p) \in Seq(Present)
           /\ Len(Append(stack, p)) = Len(stack) + 1
           /\ base \in 0..Len(Append(stack, p))
<1>1. Append(stack, p) \in Seq(Present) /\ Len(Append(stack, p)) = Len(stack) + 1
    BY AppendProperties DEF Loop
<1>2. Len(stack) \in Nat /\ base \in 0..Len(stack)
    BY DEF Loop
<1> QED BY <1>1, <1>2

LEMMA TypesCall ==
    ASSUME Types, NEW p \in Projection, Call(p)
    PROVE  Types'
<1>1. /\ draining /\ p \in todo /\ todo' = todo \ {p}
      /\ stack' = Append(stack, p)
      /\ shown' = [shown EXCEPT ![p] = Applied(p)]
      /\ owed' = [owed EXCEPT ![p] = @ - 1]
      /\ UNCHANGED <<kind, value, queue, draining, item, base, after, mounted, echo,
                     writes, mounts, behind>>
    BY DEF Call
<1>2. item \in Note /\ p \in Present
    BY <1>1 DEF Types, Loaded, Loop
<1>3. Shows'
    BY <1>1, <1>2, AppliedType, ShownUpdated DEF Types
<1>4. Present' = Present
    BY <1>1 DEF Present
<1>5. Loop'
    BY <1>1, <1>2, <1>4, StackPush DEF Types, Loop
<1>6. owed' \in [Projection -> Int]
    BY <1>1 DEF Types, Counts
<1>7. Data' /\ Counts'
    BY <1>1, <1>6 DEF Types, Data, Counts
<1>8. Idle' /\ Loaded' /\ Leavers'
    BY <1>1, <1>2 DEF Types, Idle, Loaded, Leavers
<1> QED BY <1>3, <1>5, <1>7, <1>8 DEF Types

LEMMA StackPop ==
    ASSUME Loop, stack # <<>>
    PROVE  LET s == SubSeq(stack, 1, Len(stack) - 1)
           IN  /\ s \in Seq(Present)
               /\ Len(s) = Len(stack) - 1
               /\ \A i \in 1..Len(stack) - 1 : s[i] = stack[i]
<1>1. stack \in Seq(Present) /\ Len(stack) \in Nat \ {0}
    BY EmptySeq DEF Loop
<1>2. PICK n \in Nat : n = Len(stack) - 1
    BY <1>1
<1>3. \A i \in 1..n : stack[i] \in Present
    BY <1>1, <1>2
<1>4. /\ SubSeq(stack, 1, n) \in Seq(Present)
      /\ Len(SubSeq(stack, 1, n)) = IF 1 <= n THEN n - 1 + 1 ELSE 0
      /\ \A i \in 1..n - 1 + 1 : SubSeq(stack, 1, n)[i] = stack[1 + i - 1]
    BY <1>3, SubSeqProperties
<1> QED BY <1>2, <1>4

LEMMA TypesReturn == Types /\ Return => Types'
<1> SUFFICES ASSUME Types, Return PROVE Types'
    OBVIOUS
<1>1. /\ stack # <<>> /\ (draining => Len(stack) > base)
      /\ stack' = SubSeq(stack, 1, Len(stack) - 1)
      /\ UNCHANGED <<kind, value, queue, draining, item, todo, base, after, mounted, shown,
                     echo, writes, mounts, owed, behind>>
    BY DEF Return, JsRuns, loop
<1>2. stack' \in Seq(Present) /\ Len(stack') = Len(stack) - 1
    BY <1>1, StackPop DEF Types
<1>3. base \in 0..Len(stack) /\ Len(stack) \in Nat \ {0} /\ (~draining => base = 0)
    BY <1>1, EmptySeq DEF Types, Loop, Idle
<1>4. base \in 0..Len(stack')
    BY <1>1, <1>2, <1>3
<1>5. Present' = Present
    BY <1>1 DEF Present
<1>6. Loop'
    BY <1>1, <1>2, <1>4, <1>5 DEF Types, Loop
<1>7. Data' /\ Shows' /\ Counts'
    BY <1>1 DEF Types, Data, Shows, Counts
<1>8. Idle' /\ Loaded' /\ Leavers'
    BY <1>1 DEF Types, Idle, Loaded, Leavers
<1> QED BY <1>6, <1>7, <1>8 DEF Types

LEMMA TypesDrained == Types /\ Drained => Types'
<1> SUFFICES ASSUME Types, Drained PROVE Types'
    OBVIOUS
<1>1. /\ todo = {} /\ queue = <<>>
      /\ draining' = FALSE /\ item' = Nothing /\ base' = 0 /\ after' = None
      /\ shown' = IF after = None THEN shown ELSE ReadBack(after, value)
      /\ behind' = behind \ {after}
      /\ UNCHANGED <<kind, value, queue, todo, stack, mounted, echo, writes, mounts, owed>>
    BY DEF Drained
<1>2. Shows'
    <2>1. CASE after = None
        BY <1>1, <2>1 DEF Types, Shows
    <2>2. CASE after # None
        <3>1. after \in Projection /\ value \in Content
            BY <2>2, Constant DEF Types, Loop, Data
        <3> QED BY <1>1, <2>2, <3>1, ReadBackShows DEF Types
    <2> QED BY <2>1, <2>2
<1>3. Present' = Present
    BY <1>1 DEF Present
<1>4. 0 \in 0..Len(stack)
    BY DEF Types, Loop
<1>5. Loop'
    BY <1>1, <1>3, <1>4 DEF Types, Loop
<1>6. Data' /\ Counts'
    BY <1>1 DEF Types, Data, Counts
<1>7. Idle' /\ Loaded' /\ Leavers'
    BY <1>1 DEF Types, Idle, Loaded, Leavers
<1> QED BY <1>2, <1>5, <1>6, <1>7 DEF Types

LEMMA TypesMount ==
    ASSUME Types, NEW p \in Projection, Mount(p)
    PROVE  Types'
<1>1. /\ p \in Present \ mounted /\ mounts < MaxMounts /\ mounts' = mounts + 1
      /\ mounted' = mounted \union {p}
      /\ shown' = [shown EXCEPT ![p] = Part(p, value)]
      /\ behind' = behind \ {p}
      /\ stack' = IF p \in Lists THEN Append(stack, p) ELSE stack
      /\ UNCHANGED <<kind, value, queue, draining, item, todo, base, after, echo, writes>>
    BY DEF Mount, loop
<1>2. /\ value \in Content /\ queue \in Seq(Note) /\ stack \in Seq(Present)
      /\ base \in 0..Len(stack) /\ mounted \subseteq Present
    BY DEF Types, Data, Loop
<1>3. Shows'
    BY <1>1, <1>2, PartType, ShownUpdated DEF Types
<1>4. Present' = Present
    BY <1>1 DEF Present
<1>5. stack' \in Seq(Present) /\ base \in 0..Len(stack')
    BY <1>1, <1>2, StackPush DEF Types
<1>6. Loop'
    BY <1>1, <1>4, <1>5 DEF Types, Loop
<1>7. owed' \in [Projection -> Int]
    <2>1. Cardinality(Calls(p, queue)) \in Nat
        BY <1>2, CallsFinite
    <2>2. owed' = [owed EXCEPT ![p] = Cardinality(Calls(p, queue))]
        BY DEF Mount, Calls
    <2> QED BY <2>1, <2>2 DEF Types, Counts
<1>8. mounts' \in 0..MaxMounts
    BY <1>1, Constant DEF Types, Counts
<1>9. Counts' /\ Data'
    BY <1>1, <1>7, <1>8 DEF Types, Counts, Data
<1>10. Idle' /\ Loaded' /\ Leavers'
    BY <1>1 DEF Types, Idle, Loaded, Leavers
<1> QED BY <1>3, <1>6, <1>9, <1>10 DEF Types

LEMMA TypesUnmount ==
    ASSUME Types, NEW p \in Projection, Unmount(p)
    PROVE  Types'
<1>1. /\ mounted' = mounted \ {p}
      /\ UNCHANGED <<kind, value, queue, draining, item, todo, base, stack, after, shown, echo,
                     writes, mounts, owed, behind>>
    BY DEF Unmount, loop
<1>2. todo = {} \/ p \in Lists
    BY DEF Unmount, Types, Idle
<1>3. Present' = Present
    BY <1>1 DEF Present
<1>4. Loop'
    BY <1>1, <1>3 DEF Types, Loop
<1>5. Data' /\ Shows' /\ Counts'
    BY <1>1 DEF Types, Data, Shows, Counts
<1>6. Idle' /\ Loaded' /\ Leavers'
    BY <1>1, <1>2 DEF Types, Idle, Loaded, Leavers
<1> QED BY <1>4, <1>5, <1>6 DEF Types

LEMMA TypesStutter == Types /\ UNCHANGED vars => Types'
<1> SUFFICES ASSUME Types, UNCHANGED vars PROVE Types'
    OBVIOUS
<1>1. Present' = Present
    BY DEF Present, vars
<1>2. Data' /\ Shows' /\ Counts'
    BY DEF Types, Data, Shows, Counts, vars, loop
<1>3. Loop'
    BY <1>1 DEF Types, Loop, vars, loop
<1>4. Idle' /\ Loaded' /\ Leavers'
    BY DEF Types, Idle, Loaded, Leavers, vars, loop
<1> QED BY <1>2, <1>3, <1>4 DEF Types

LEMMA TypesNext == Types /\ [Next]_vars => Types'
<1> SUFFICES ASSUME Types, [Next]_vars PROVE Types'
    OBVIOUS
<1>1. CASE RustWrite
    BY <1>1, TypesRustWrite
<1>2. ASSUME NEW p \in Projection, NEW keys \in Scopes, Set(p, keys) PROVE Types'
    BY <1>2, TypesSet
<1>3. CASE Pop
    BY <1>3, TypesPop
<1>4. CASE Return
    BY <1>4, TypesReturn
<1>5. CASE Drained
    BY <1>5, TypesDrained
<1>6. ASSUME NEW p \in Projection, Call(p) PROVE Types'
    BY <1>6, TypesCall
<1>7. ASSUME NEW p \in Projection, Mount(p) PROVE Types'
    BY <1>7, TypesMount
<1>8. ASSUME NEW p \in Projection, Unmount(p) PROVE Types'
    BY <1>8, TypesUnmount
<1>9. CASE Rest \/ UNCHANGED vars
    BY <1>9, TypesStutter DEF Rest
<1> QED BY <1>1, <1>2, <1>3, <1>4, <1>5, <1>6, <1>7, <1>8, <1>9 DEF Next

(* What each projection shows has its fields, the callbacks under way and  *)
(* those still to be called are of the store there is, and the loop has    *)
(* its notification in hand.                                               *)
THEOREM TypeCorrect == Spec => []TypeOK
<1>1. Types /\ [Next]_vars => Types'
    BY TypesNext
<1> QED BY <1>1, TypesInit, TypesSuffice, PTL DEF Spec

-----------------------------------------------------------------------------
(* While the list callbacks do not write when they are first called, the   *)
(* loop runs from the top level only, and every callback under way is of a *)
(* projection of its own.                                                  *)
Nested ==
    /\ base = 0
    /\ NoReentrantCallback

LEMMA CommitFromTop ==
    ASSUME ~Reentrant, Types, base = 0, MayWrite, NEW w, NEW keys, Commit(w, keys)
    PROVE  base' = 0
<1>1. draining \/ stack = <<>>
    BY DEF MayWrite, InFirstCall
<1>2. stack = <<>> => Len(stack) = 0
    BY EmptySeq
<1> QED BY <1>1, <1>2 DEF Commit

LEMMA NestedPush ==
    ASSUME Types, Nested, NEW p \in Projection, \A i \in DOMAIN stack : stack[i] # p,
           p \in Present, base' = base,
           stack' = Append(stack, p)
    PROVE  Nested'
<1>1. stack \in Seq(Present) /\ Len(stack) \in Nat /\ DOMAIN stack = 1..Len(stack)
    BY LenProperties DEF Types, Loop
<1>2. /\ stack' \in Seq(Present) /\ Len(stack') = Len(stack) + 1
      /\ \A i \in 1..Len(stack) : stack'[i] = stack[i]
      /\ stack'[Len(stack) + 1] = p
    BY <1>1, AppendProperties
<1>3. DOMAIN stack' = 1..Len(stack) + 1
    BY <1>2, LenProperties
<1>4. ASSUME NEW i \in DOMAIN stack', NEW j \in DOMAIN stack', stack'[i] = stack'[j]
      PROVE  i = j
    <2>1. i \in DOMAIN stack /\ j \in DOMAIN stack => i = j
        BY <1>1, <1>2, <1>4 DEF Nested, NoReentrantCallback, IsInjective
    <2> QED BY <1>1, <1>2, <1>3, <1>4, <2>1
<1> QED BY <1>4 DEF Nested, NoReentrantCallback, IsInjective

LEMMA NestedSame ==
    Nested /\ base' = 0 /\ stack' = stack => Nested'
BY DEF Nested, NoReentrantCallback

LEMMA NestedInit == Init => Nested
BY DEF Init, Nested, NoReentrantCallback, IsInjective

LEMMA NestedNext ==
    ASSUME ~Reentrant, Types, Nested, [Next]_vars
    PROVE  Nested'
<1>0. base = 0
    BY DEF Nested
<1>1. CASE RustWrite
    <2>1. MayWrite /\ stack' = stack
        BY <1>1 DEF RustWrite
    <2>2. PICK w \in Content, keys \in SUBSET Field : Commit(w, keys)
        BY <1>1, RustWriteParts
    <2> QED BY <1>0, <2>1, <2>2, CommitFromTop, NestedSame
<1>2. ASSUME NEW p \in Projection, NEW keys \in Scopes, Set(p, keys) PROVE Nested'
    <2>1. MayWrite /\ stack' = stack
        BY <1>2 DEF Set
    <2>2. PICK w \in Content : Commit(w, keys)
        BY <1>2, SetParts
    <2> QED BY <1>0, <2>1, <2>2, CommitFromTop, NestedSame
<1>3. CASE Pop \/ Drained
    BY <1>0, <1>3, NestedSame DEF Pop, Drained
<1>4. CASE Return
    <2>1. stack # <<>> /\ stack' = SubSeq(stack, 1, Len(stack) - 1) /\ base' = base
        BY <1>4 DEF Return, loop
    <2>2. /\ stack \in Seq(Present) /\ stack' \in Seq(Present)
          /\ Len(stack') = Len(stack) - 1
          /\ \A i \in 1..Len(stack) - 1 : stack'[i] = stack[i]
        BY <2>1, StackPop DEF Types, Loop
    <2>3. DOMAIN stack = 1..Len(stack) /\ DOMAIN stack' = 1..Len(stack) - 1 /\ Len(stack) \in Nat
        BY <2>2, LenProperties
    <2>4. \A i \in DOMAIN stack' : i \in DOMAIN stack /\ stack'[i] = stack[i]
        BY <2>2, <2>3
    <2> QED BY <2>1, <2>4 DEF Nested, NoReentrantCallback, IsInjective
<1>5. ASSUME NEW p \in Projection, Call(p) PROVE Nested'
    <2>1. Len(stack) = 0 /\ p \in Present
        BY <1>0, <1>5 DEF Call, Types, Loop
    <2>2. \A i \in DOMAIN stack : stack[i] # p
        BY <2>1, EmptySeq, LenProperties DEF Types, Loop
    <2> QED BY <1>5, <2>1, <2>2, NestedPush DEF Call
<1>6. ASSUME NEW p \in Projection, Mount(p) PROVE Nested'
    <2>1. p \in Present /\ p \notin Range(stack) /\ base' = base
        BY <1>6 DEF Mount, loop
    <2>2. \A i \in DOMAIN stack : stack[i] # p
        BY <2>1 DEF Range
    <2>3. CASE p \in Lists
        BY <1>6, <2>1, <2>2, <2>3, NestedPush DEF Mount
    <2>4. CASE p \notin Lists
        BY <1>0, <1>6, <2>1, <2>4, NestedSame DEF Mount
    <2> QED BY <2>3, <2>4
<1>7. ASSUME NEW p \in Projection, Unmount(p) PROVE Nested'
    BY <1>0, <1>7, NestedSame DEF Unmount, loop
<1>8. CASE Rest \/ UNCHANGED vars
    BY <1>0, <1>8, NestedSame DEF Rest, vars, loop
<1> QED BY <1>1, <1>2, <1>3, <1>4, <1>5, <1>6, <1>7, <1>8 DEF Next

(* lib.rs:604-606, README.md:148: as long as list callbacks do not write   *)
(* when they are first called, no callback is entered while it is under    *)
(* way: its lock is never taken twice.                                     *)
THEOREM CallbacksNotReentered == ASSUME ~Reentrant PROVE Spec => []NoReentrantCallback
<1>1. Types /\ Nested /\ [Next]_vars => Types' /\ Nested'
    BY TypesNext, NestedNext
<1>2. Nested => NoReentrantCallback
    BY DEF Nested
<1> QED BY <1>1, <1>2, TypesInit, NestedInit, PTL DEF Spec

-----------------------------------------------------------------------------
(* Hooks that keep to the written field.  A field no waiting notification  *)
(* names is settled: what is announced last of it is what the store holds, *)
(* and a projection that heard of it shows it.                             *)
Settled(f, q) == \A j \in DOMAIN q : f \notin q[j].keys

QueueCurrent ==
    \A i \in DOMAIN queue, f \in Field :
        (\A j \in DOMAIN queue : j > i => f \notin queue[j].keys) => queue[i].value[f] = value[f]
ItemCurrent ==
    todo # {} => \A f \in Field : Settled(f, queue) => item.value[f] = value[f]
ShownCurrent ==
    \A p \in mounted, f \in Field :
        f \in View[p] /\ Settled(f, queue) /\ (p \in todo => f \notin item.keys)
            => shown[p][f] = value[f]
(* What is not mounted shows the store until that is written past it.      *)
ReadCurrent ==
    \A p \in Present : p \notin mounted /\ p \notin behind \union Lists => shown[p] = Part(p, value)

Current == QueueCurrent /\ ItemCurrent /\ ShownCurrent /\ ReadCurrent

LEMMA CurrentInit == Init => Current
<1> SUFFICES ASSUME Init PROVE Current
    OBVIOUS
<1>1. /\ queue = <<>> /\ todo = {} /\ mounted = {}
      /\ shown = [p \in Projection |-> Part(p, value)]
    BY DEF Init
<1>2. QueueCurrent
    BY <1>1 DEF QueueCurrent
<1>3. ItemCurrent /\ ShownCurrent
    BY <1>1 DEF ItemCurrent, ShownCurrent
<1>4. ReadCurrent
    BY <1>1, PresentProjects DEF ReadCurrent
<1> QED BY <1>2, <1>3, <1>4 DEF Current

(* A field that a write changes is named by its notification.              *)
LEMMA WriteAnnounced ==
    ASSUME ~Stray, Types, NEW keys \in SUBSET Field, NEW v \in Changes(keys),
           NEW w \in Passed(v, keys)
    PROVE  \A f \in Field \ keys : w[f] = value[f]
BY DEF Changes, Passed

LEMMA QueuePush ==
    ASSUME NEW q \in Seq(Note), NEW n \in Note
    PROVE  /\ DOMAIN Append(q, n) = 1..Len(q) + 1 /\ DOMAIN q = 1..Len(q) /\ Len(q) \in Nat
           /\ \A i \in DOMAIN q : Append(q, n)[i] = q[i]
           /\ Append(q, n)[Len(q) + 1] = n
<1>1. /\ Append(q, n) \in Seq(Note) /\ Len(Append(q, n)) = Len(q) + 1
      /\ \A i \in 1..Len(q) : Append(q, n)[i] = q[i]
      /\ Append(q, n)[Len(q) + 1] = n
    BY AppendProperties
<1> QED BY <1>1, LenProperties

(* A write that leaves no notification changes nothing; one that does      *)
(* unsettles the fields it names.                                          *)
LEMMA CommitCurrent ==
    ASSUME Types, QueueCurrent, ItemCurrent, ShownCurrent,
           NEW w \in Content, NEW keys \in SUBSET Field, Commit(w, keys),
           \A f \in Field \ keys : w[f] = value[f],
           UNCHANGED <<item, todo, mounted>>,
           \A p \in mounted : shown'[p] = shown[p]
    PROVE  QueueCurrent' /\ ItemCurrent' /\ ShownCurrent'
<1>1. CASE w = value
    <2>1. value' = value /\ queue' = queue
        BY <1>1 DEF Commit
    <2> QED BY <2>1 DEF QueueCurrent, ItemCurrent, ShownCurrent
<1>2. CASE w # value
    <2> DEFINE n == [value |-> w, keys |-> keys]
    <2>1. value' = w /\ queue' = Append(queue, n)
        BY <1>2 DEF Commit
    <2>2. n \in Note /\ queue \in Seq(Note) /\ n.value = w /\ n.keys = keys
        BY DEF Note, Types, Data
    <2>3. /\ DOMAIN queue' = 1..Len(queue) + 1 /\ DOMAIN queue = 1..Len(queue)
          /\ Len(queue) \in Nat
          /\ \A i \in DOMAIN queue : queue'[i] = queue[i]
          /\ queue'[Len(queue) + 1] = n
        BY <2>1, <2>2, QueuePush
    <2> HIDE DEF n
    <2>4. ASSUME NEW f \in Field, Settled(f, queue')
          PROVE  Settled(f, queue) /\ f \notin keys
        <3>1. Len(queue) + 1 \in DOMAIN queue' /\ DOMAIN queue \subseteq DOMAIN queue'
            BY <2>3
        <3> QED BY <2>2, <2>3, <2>4, <3>1 DEF Settled
    <2>5. QueueCurrent'
        <3> SUFFICES ASSUME NEW i \in DOMAIN queue', NEW f \in Field,
                            \A j \in DOMAIN queue' : j > i => f \notin queue'[j].keys
                     PROVE  queue'[i].value[f] = w[f]
            BY <2>1 DEF QueueCurrent
        <3>1. CASE i = Len(queue) + 1
            BY <2>2, <2>3, <3>1
        <3>2. CASE i # Len(queue) + 1
            <4>1. i \in DOMAIN queue /\ Len(queue) + 1 \in DOMAIN queue' /\ Len(queue) + 1 > i
                BY <2>3, <3>2
            <4>2. f \notin keys
                BY <2>2, <2>3, <4>1
            <4>3. \A j \in DOMAIN queue : j > i => f \notin queue[j].keys
                BY <2>3
            <4>4. queue[i].value[f] = value[f]
                BY <4>1, <4>3 DEF QueueCurrent
            <4> QED BY <2>3, <4>1, <4>2, <4>4
        <3> QED BY <3>1, <3>2
    <2>6. ItemCurrent'
        BY <2>1, <2>4 DEF ItemCurrent
    <2>7. ShownCurrent'
        BY <2>1, <2>4 DEF ShownCurrent
    <2> QED BY <2>5, <2>6, <2>7
<1> QED BY <1>1, <1>2

LEMMA CurrentRustWrite ==
    ASSUME ~Stray, Types, Current, RustWrite
    PROVE  Current'
<1>1. PICK w \in Content, keys \in SUBSET Field :
             /\ keys \in Scopes /\ (\E v \in Changes(keys) : w \in Passed(v, keys))
             /\ Commit(w, keys) /\ behind' = LeftBehind(w)
    BY RustWriteParts
<1>2. UNCHANGED <<kind, item, todo, mounted, shown>> /\ value' = w
    BY <1>1 DEF RustWrite, Commit
<1>3. \A f \in Field \ keys : w[f] = value[f]
    BY <1>1, WriteAnnounced
<1>4. QueueCurrent' /\ ItemCurrent' /\ ShownCurrent'
    BY <1>1, <1>2, <1>3, CommitCurrent DEF Current
<1>5. Present' = Present /\ Present \subseteq Projection
    BY <1>2, PresentProjects DEF Present
<1>6. ReadCurrent'
    BY <1>1, <1>2, <1>5 DEF Current, ReadCurrent, LeftBehind
<1> QED BY <1>4, <1>6 DEF Current

LEMMA CurrentSet ==
    ASSUME ~Stray, Types, Current, NEW p \in Projection, NEW keys \in Scopes, Set(p, keys)
    PROVE  Current'
<1>1. keys \in SUBSET Field
    BY SetParts
<1>2. PICK w \in Content, v \in Content :
                /\ v \in Changes(keys) /\ w \in Passed(v, keys)
                /\ Commit(w, keys)
                /\ Wrote(p, w) \/ Waits(p, w)
    BY SetParts
<1>3. UNCHANGED <<kind, item, todo, mounted>> /\ value' = w
    BY <1>2 DEF Set, Commit
<1>4. \A f \in Field \ keys : w[f] = value[f]
    BY <1>1, <1>2, WriteAnnounced
<1>5. /\ \A q \in Projection : q \in mounted => shown'[q] = shown[q]
      /\ \A q \in Projection : q # p => shown'[q] = shown[q]
      /\ Wrote(p, w) /\ p \notin mounted => shown'[p] = Part(p, w)
      /\ Waits(p, w) => shown' = shown
    BY <1>2 DEF Wrote, Waits, ReadBack, Types, Shows
<1>6. Present' = Present /\ Present \subseteq Projection /\ mounted \subseteq Projection
    BY <1>3, PresentProjects DEF Present, Types, Loop
<1>7. QueueCurrent' /\ ItemCurrent' /\ ShownCurrent'
    BY <1>1, <1>2, <1>3, <1>4, <1>5, <1>6, CommitCurrent DEF Current
<1>8. ReadCurrent'
    <2> SUFFICES ASSUME NEW q \in Present, q \notin mounted, q \notin behind' \union Lists
                 PROVE  shown'[q] = Part(q, w)
        BY <1>3, <1>6 DEF ReadCurrent
    <2>1. w # value => q = p /\ Wrote(p, w)
        BY <1>2, <1>6 DEF Wrote, Waits, LeftBehind
    <2>2. (q = p /\ Wrote(p, w)) \/ q \notin behind
        BY <1>2 DEF Wrote, Waits, LeftBehind
    <2>3. CASE q = p /\ Wrote(p, w)
        BY <1>5, <2>3
    <2>4. CASE ~(q = p /\ Wrote(p, w))
        <3>1. shown'[q] = shown[q]
            BY <1>2, <1>5, <1>6, <2>4
        <3>2. shown[q] = Part(q, value) /\ w = value
            BY <2>1, <2>2, <2>4 DEF Current, ReadCurrent
        <3> QED BY <3>1, <3>2
    <2> QED BY <2>3, <2>4
<1> QED BY <1>7, <1>8 DEF Current

(* The loop takes the first notification: whoever hears it of a field is   *)
(* still to be called.                                                     *)
LEMMA CurrentPop == Types /\ Current /\ Pop => Current'
<1> SUFFICES ASSUME Types, Current, Pop PROVE Current'
    OBVIOUS
<1>1. /\ queue \in Seq(Note) /\ queue # <<>> /\ item' = Head(queue) /\ queue' = Tail(queue)
      /\ todo' = {p \in mounted : Hears(p, Head(queue).keys)} /\ todo = {}
      /\ UNCHANGED <<kind, value, mounted, shown, behind>>
    BY DEF Types, Data, Pop
<1>2. /\ DOMAIN queue = 1..Len(queue) /\ Len(queue) \in Nat \ {0}
      /\ DOMAIN queue' = 1..Len(queue) - 1 /\ \A i \in DOMAIN queue' : queue'[i] = queue[i + 1]
      /\ item' = queue[1]
    <2>1. /\ queue' \in Seq(Note) /\ Len(queue') = Len(queue) - 1
          /\ \A i \in 1..Len(queue') : queue'[i] = queue[i + 1]
        BY <1>1, HeadTailProperties
    <2>2. Len(queue) \in Nat \ {0} /\ DOMAIN queue = 1..Len(queue)
        BY <1>1, EmptySeq, LenProperties
    <2>3. DOMAIN queue' = 1..Len(queue')
        BY <2>1, LenProperties
    <2>4. item' = queue[1]
        BY <1>1
    <2> QED BY <2>1, <2>2, <2>3, <2>4
<1>3. ASSUME NEW f \in Field, Settled(f, queue'), NEW j \in DOMAIN queue, j > 1
      PROVE  f \notin queue[j].keys
    <2>1. j - 1 \in DOMAIN queue' /\ (j - 1) + 1 = j
        BY <1>2, <1>3
    <2>2. queue'[j - 1] = queue[j]
        BY <1>2, <2>1
    <2> QED BY <1>3, <2>1, <2>2 DEF Settled
<1>4. QueueCurrent'
    <2> SUFFICES ASSUME NEW i \in DOMAIN queue', NEW f \in Field,
                        \A j \in DOMAIN queue' : j > i => f \notin queue'[j].keys
                 PROVE  queue'[i].value[f] = value[f]
        BY <1>1 DEF QueueCurrent
    <2>1. i + 1 \in DOMAIN queue /\ queue'[i] = queue[i + 1] /\ i \in Nat
        BY <1>2
    <2>2. ASSUME NEW j \in DOMAIN queue, j > i + 1 PROVE f \notin queue[j].keys
        <3>1. j - 1 \in DOMAIN queue' /\ j - 1 > i /\ (j - 1) + 1 = j
            BY <1>2, <2>1, <2>2
        <3>2. queue'[j - 1] = queue[j]
            BY <1>2, <3>1
        <3> QED BY <3>1, <3>2
    <2> QED BY <2>1, <2>2 DEF Current, QueueCurrent
<1>5. ItemCurrent'
    <2> SUFFICES ASSUME NEW f \in Field, Settled(f, queue') PROVE item'.value[f] = value[f]
        BY <1>1 DEF ItemCurrent
    <2>1. 1 \in DOMAIN queue /\ \A j \in DOMAIN queue : j > 1 => f \notin queue[j].keys
        BY <1>2, <1>3
    <2> QED BY <1>2, <2>1 DEF Current, QueueCurrent
<1>6. ShownCurrent'
    <2> SUFFICES ASSUME NEW p \in mounted, NEW f \in Field, f \in View[p],
                        Settled(f, queue'), p \in todo' => f \notin item'.keys
                 PROVE  shown[p][f] = value[f]
        BY <1>1 DEF ShownCurrent
    <2>1. f \notin queue[1].keys
        BY <1>1, <1>2 DEF Hears
    <2>2. ASSUME NEW j \in DOMAIN queue PROVE f \notin queue[j].keys
        BY <1>2, <1>3, <2>1
    <2> QED BY <1>1, <2>2 DEF Current, ShownCurrent, Settled
<1>7. Present' = Present
    BY <1>1 DEF Present
<1>8. ReadCurrent'
    BY <1>1, <1>7 DEF Current, ReadCurrent
<1> QED BY <1>4, <1>5, <1>6, <1>8 DEF Current

LEMMA CurrentCall ==
    ASSUME Types, Current, NEW p \in Projection, Call(p)
    PROVE  Current'
<1>1. /\ p \in todo /\ todo' = todo \ {p}
      /\ shown' = [shown EXCEPT ![p] = Applied(p)]
      /\ UNCHANGED <<kind, value, queue, item, mounted, behind>>
    BY DEF Call
<1>2. item \in Note /\ p \in mounted \union Lists /\ mounted \subseteq Projection
    BY <1>1, PresentProjects DEF Types, Loaded, Loop, Leavers
<1>3. \A f \in View[p] : Applied(p)[f] = IF p \in Maps /\ f \notin item.keys
                                         THEN shown[p][f] ELSE item.value[f]
    BY <1>2, AppliedType DEF Types
<1>4. /\ shown'[p] = Applied(p)
      /\ \A q \in Projection : q # p => shown'[q] = shown[q]
    BY <1>1 DEF Types, Shows
<1>5. QueueCurrent' /\ ItemCurrent'
    BY <1>1 DEF Current, QueueCurrent, ItemCurrent
<1>6. ShownCurrent'
    <2> SUFFICES ASSUME NEW q \in mounted, NEW f \in Field, f \in View[q],
                        Settled(f, queue), q \in todo' => f \notin item.keys
                 PROVE  shown'[q][f] = value[f]
        BY <1>1 DEF ShownCurrent
    <2>1. item.value[f] = value[f]
        BY <1>1 DEF Current, ItemCurrent
    <2>2. CASE q = p /\ p \in Maps /\ f \notin item.keys
        BY <1>3, <1>4, <2>2 DEF Current, ShownCurrent
    <2>3. CASE q = p /\ ~(p \in Maps /\ f \notin item.keys)
        BY <1>3, <1>4, <2>1, <2>3
    <2>4. CASE q # p
        BY <1>1, <1>2, <1>4, <2>4 DEF Current, ShownCurrent
    <2> QED BY <2>2, <2>3, <2>4
<1>7. Present' = Present /\ Present \subseteq Projection
    BY <1>1, PresentProjects DEF Present
<1>8. ReadCurrent'
    BY <1>1, <1>2, <1>4, <1>7 DEF Current, ReadCurrent
<1> QED BY <1>5, <1>6, <1>8 DEF Current

LEMMA CurrentDrained == Types /\ Current /\ Drained => Current'
<1> SUFFICES ASSUME Types, Current, Drained PROVE Current'
    OBVIOUS
<1>1. /\ todo = {} /\ queue = <<>> /\ item' = Nothing
      /\ shown' = IF after = None THEN shown ELSE ReadBack(after, value)
      /\ behind' = behind \ {after}
      /\ UNCHANGED <<kind, value, queue, todo, mounted>>
    BY DEF Drained
<1>2. \A p \in Projection : p \in mounted => shown'[p] = shown[p]
    BY <1>1 DEF ReadBack, Types, Shows
<1>3. \A p \in Projection : p \notin mounted /\ p # after => shown'[p] = shown[p]
    BY <1>1 DEF ReadBack, Types, Shows
<1>4. after \in Projection \ mounted => shown'[after] = Part(after, value)
    BY <1>1, Constant DEF ReadBack, Types, Shows
<1>5. Present' = Present /\ Present \subseteq Projection /\ mounted \subseteq Projection
    BY <1>1, PresentProjects DEF Present, Types, Loop
<1>6. QueueCurrent' /\ ItemCurrent'
    BY <1>1 DEF QueueCurrent, ItemCurrent
<1>7. ShownCurrent'
    BY <1>1, <1>2, <1>5 DEF Current, ShownCurrent
<1>8. ReadCurrent'
    BY <1>1, <1>3, <1>4, <1>5 DEF Current, ReadCurrent
<1> QED BY <1>6, <1>7, <1>8 DEF Current

LEMMA CurrentMount ==
    ASSUME Types, Current, NEW p \in Projection, Mount(p)
    PROVE  Current'
<1>1. /\ mounted' = mounted \union {p}
      /\ shown' = [shown EXCEPT ![p] = Part(p, value)]
      /\ behind' = behind \ {p}
      /\ UNCHANGED <<kind, value, queue, item, todo>>
    BY DEF Mount, loop
<1>2. /\ shown'[p] = Part(p, value) /\ \A f \in View[p] : Part(p, value)[f] = value[f]
      /\ \A q \in Projection : q # p => shown'[q] = shown[q]
    BY <1>1, PartType DEF Types, Shows, Data
<1>3. Present' = Present /\ Present \subseteq Projection /\ mounted \subseteq Projection
    BY <1>1, PresentProjects DEF Present, Types, Loop
<1>4. QueueCurrent' /\ ItemCurrent'
    BY <1>1 DEF Current, QueueCurrent, ItemCurrent
<1>5. ShownCurrent'
    BY <1>1, <1>2, <1>3 DEF Current, ShownCurrent
<1>6. ReadCurrent'
    BY <1>1, <1>2, <1>3 DEF Current, ReadCurrent
<1> QED BY <1>4, <1>5, <1>6 DEF Current

(* A mounted projection shows the store when nothing waits to be told.     *)
LEMMA MountedShows ==
    ASSUME Types, ShownCurrent, queue = <<>>, todo = {}, NEW p \in mounted
    PROVE  shown[p] = Part(p, value)
<1>1. p \in Projection /\ View[p] \subseteq Field
    BY Constant, PresentProjects DEF Types, Loop
<1>2. shown[p] \in [View[p] -> Val] /\ Part(p, value) \in [View[p] -> Val]
    <2>1. Shows /\ value \in Content
        BY DEF Types, Data
    <2>2. shown[p] \in [View[p] -> Val]
        BY <1>1, <2>1 DEF Shows
    <2> QED BY <1>1, <2>1, <2>2, PartType
<1>3. ASSUME NEW f \in View[p] PROVE shown[p][f] = Part(p, value)[f]
    <2>1. Settled(f, queue)
        BY DEF Settled
    <2> QED BY <1>1, <2>1, PartType DEF ShownCurrent, Types, Data
<1> QED BY <1>2, <1>3

LEMMA CurrentUnmount ==
    ASSUME Types, Current, NEW p \in Projection, Unmount(p)
    PROVE  Current'
<1>1. /\ p \in mounted /\ mounted' = mounted \ {p}
      /\ UNCHANGED <<kind, value, queue, item, todo, shown, behind>>
    BY DEF Unmount, loop
<1>2. p \in Lists \/ shown[p] = Part(p, value)
    BY <1>1, MountedShows DEF Unmount, Types, Idle, Current
<1>3. Present' = Present
    BY <1>1 DEF Present
<1>4. QueueCurrent' /\ ItemCurrent' /\ ShownCurrent'
    BY <1>1 DEF Current, QueueCurrent, ItemCurrent, ShownCurrent
<1>5. ReadCurrent'
    BY <1>1, <1>2, <1>3 DEF Current, ReadCurrent
<1> QED BY <1>4, <1>5 DEF Current

LEMMA CurrentSame ==
    Current /\ UNCHANGED <<kind, value, queue, item, todo, mounted, shown, behind>> => Current'
<1> SUFFICES ASSUME Current, UNCHANGED <<kind, value, queue, item, todo, mounted, shown, behind>>
             PROVE  Current'
    OBVIOUS
<1>1. Present' = Present
    BY DEF Present
<1>2. ReadCurrent'
    BY <1>1 DEF Current, ReadCurrent
<1> QED BY <1>2 DEF Current, QueueCurrent, ItemCurrent, ShownCurrent

LEMMA CurrentNext ==
    ASSUME ~Stray, Types, Current, [Next]_vars
    PROVE  Current'
<1>1. CASE RustWrite
    BY <1>1, CurrentRustWrite
<1>2. ASSUME NEW p \in Projection, NEW keys \in Scopes, Set(p, keys) PROVE Current'
    BY <1>2, CurrentSet
<1>3. CASE Pop
    BY <1>3, CurrentPop
<1>4. CASE Return
    BY <1>4, CurrentSame DEF Return, loop
<1>5. CASE Drained
    BY <1>5, CurrentDrained
<1>6. ASSUME NEW p \in Projection, Call(p) PROVE Current'
    BY <1>6, CurrentCall
<1>7. ASSUME NEW p \in Projection, Mount(p) PROVE Current'
    BY <1>7, CurrentMount
<1>8. ASSUME NEW p \in Projection, Unmount(p) PROVE Current'
    BY <1>8, CurrentUnmount
<1>9. CASE Rest \/ UNCHANGED vars
    BY <1>9, CurrentSame DEF Rest, vars, loop
<1> QED BY <1>1, <1>2, <1>3, <1>4, <1>5, <1>6, <1>7, <1>8, <1>9 DEF Next

LEMMA CurrentMirrors == Types /\ Current => Mirrors
<1> SUFFICES ASSUME Types, Current, AtRest, NEW p \in Present,
                    p \in mounted \/ p \notin behind \union Lists
             PROVE  shown[p] = Part(p, value)
    BY DEF Mirrors
<1>1. queue = <<>> /\ todo = {}
    BY DEF AtRest, Types, Idle
<1>2. CASE p \in mounted
    BY <1>1, <1>2, MountedShows DEF Current
<1>3. CASE p \notin mounted
    BY <1>3 DEF Current, ReadCurrent
<1> QED BY <1>2, <1>3

(* README.md:9, 62-71: with hooks that keep to the written field, what JS  *)
(* shows is what the store holds whenever no call is under way, however    *)
(* Rust, JS and the callbacks wrote and mounted meanwhile.                 *)
THEOREM ProjectionsMirror == ASSUME ~Stray PROVE Spec => []Mirrors
<1>1. Types /\ Current /\ [Next]_vars => Types' /\ Current'
    BY TypesNext, CurrentNext
<1> QED BY <1>1, TypesInit, CurrentInit, CurrentMirrors, PTL DEF Spec

-----------------------------------------------------------------------------
(* A mounted projection is owed exactly the notifications that wait and    *)
(* that it hears, and the one in the loop's hand if it is still to be      *)
(* called with it.                                                         *)
InHand(p) == IF p \in todo THEN 1 ELSE 0
Accounted == \A p \in mounted : owed[p] = Cardinality(Calls(p, queue)) + InHand(p)

LEMMA CallsEmpty == \A p : Calls(p, <<>>) = {} /\ Cardinality(Calls(p, <<>>)) = 0
<1>1. \A p : Calls(p, <<>>) = {}
    BY DEF Calls
<1> QED BY <1>1, FS_EmptySet

LEMMA CallsPush ==
    ASSUME NEW q \in Seq(Note), NEW n \in Note, NEW p
    PROVE  Cardinality(Calls(p, Append(q, n)))
             = Cardinality(Calls(p, q)) + IF Hears(p, n.keys) THEN 1 ELSE 0
<1>1. /\ DOMAIN Append(q, n) = 1..Len(q) + 1 /\ DOMAIN q = 1..Len(q) /\ Len(q) \in Nat
      /\ \A i \in DOMAIN q : Append(q, n)[i] = q[i]
      /\ Append(q, n)[Len(q) + 1] = n
    BY QueuePush
<1>2. IsFiniteSet(Calls(p, q)) /\ Cardinality(Calls(p, q)) \in Nat
    BY CallsFinite
<1>3. CASE Hears(p, n.keys)
    <2>1. Calls(p, Append(q, n)) = Calls(p, q) \union {Len(q) + 1}
        BY <1>1, <1>3 DEF Calls
    <2>2. Len(q) + 1 \notin Calls(p, q)
        BY <1>1 DEF Calls
    <2> QED BY <1>2, <1>3, <2>1, <2>2, FS_AddElement
<1>4. CASE ~Hears(p, n.keys)
    <2>1. Calls(p, Append(q, n)) = Calls(p, q)
        BY <1>1, <1>4 DEF Calls
    <2> QED BY <1>2, <1>4, <2>1
<1> QED BY <1>3, <1>4

LEMMA CallsTake ==
    ASSUME NEW q \in Seq(Note), q # <<>>, NEW p
    PROVE  Cardinality(Calls(p, q))
             = Cardinality(Calls(p, Tail(q))) + IF Hears(p, Head(q).keys) THEN 1 ELSE 0
<1> DEFINE Rear == Calls(p, Tail(q))
           Front == Calls(p, q) \ {1}
           shift == [i \in Rear |-> i + 1]
<1>1. /\ Tail(q) \in Seq(Note) /\ Len(Tail(q)) = Len(q) - 1
      /\ \A i \in 1..Len(Tail(q)) : Tail(q)[i] = q[i + 1]
    BY HeadTailProperties
<1>2. /\ Len(q) \in Nat \ {0} /\ DOMAIN q = 1..Len(q) /\ DOMAIN Tail(q) = 1..Len(q) - 1
      /\ Head(q) = q[1]
    BY <1>1, EmptySeq, LenProperties
<1>3. Rear \subseteq Nat /\ \A i \in Rear : i + 1 \in Front
    BY <1>1, <1>2 DEF Calls
<1>4. \A j \in Front : j - 1 \in Rear /\ (j - 1) + 1 = j
    BY <1>1, <1>2 DEF Calls
<1>5. shift \in [Rear -> Front]
    BY <1>3
<1>6. \A i, j \in Rear : shift[i] = shift[j] => i = j
    BY <1>3
<1>7. \A j \in Front : \E i \in Rear : shift[i] = j
    BY <1>4
<1> HIDE DEF shift
<1>8. shift \in Bijection(Rear, Front)
    <2>1. shift \in Injection(Rear, Front)
        BY <1>5, <1>6, Fun_IsInj
    <2>2. shift \in Surjection(Rear, Front)
        BY <1>5, <1>7, Fun_IsSurj
    <2> QED BY <2>1, <2>2, Fun_IsBij
<1>9. ExistsBijection(Rear, Front)
    BY <1>8 DEF ExistsBijection
<1>10. IsFiniteSet(Rear) /\ IsFiniteSet(Calls(p, q)) /\ Cardinality(Calls(p, q)) \in Nat
    BY <1>1, CallsFinite
<1> HIDE DEF Rear, Front
<1>11. Cardinality(Front) = Cardinality(Rear)
    BY <1>9, <1>10, FS_Bijection
<1>12. 1 \in Calls(p, q) <=> Hears(p, Head(q).keys)
    BY <1>2 DEF Calls
<1>13. Cardinality(Front) = IF 1 \in Calls(p, q) THEN Cardinality(Calls(p, q)) - 1
                            ELSE Cardinality(Calls(p, q))
    BY <1>10, FS_RemoveElement DEF Front
<1> QED BY <1>10, <1>11, <1>12, <1>13 DEF Rear

LEMMA AccountedInit == Init => Accounted
BY DEF Init, Accounted

LEMMA AccountedSame ==
    Accounted /\ UNCHANGED <<queue, todo, mounted, owed>> => Accounted'
BY DEF Accounted, InHand, Calls

LEMMA AccountedCommit ==
    ASSUME Types, Accounted, NEW w \in Content, NEW keys \in SUBSET Field, Commit(w, keys),
           UNCHANGED <<todo, mounted>>
    PROVE  Accounted'
<1>1. CASE w = value
    BY <1>1, AccountedSame DEF Commit
<1>2. CASE w # value
    <2> DEFINE n == [value |-> w, keys |-> keys]
    <2>1. /\ queue' = Append(queue, n)
          /\ owed' = [p \in Projection |->
                        owed[p] + IF p \in mounted /\ Hears(p, keys) THEN 1 ELSE 0]
        BY <1>2 DEF Commit
    <2>2. n \in Note /\ queue \in Seq(Note) /\ n.keys = keys
        BY DEF Note, Types, Data
    <2> HIDE DEF n
    <2> SUFFICES ASSUME NEW p \in mounted
                 PROVE  owed'[p] = Cardinality(Calls(p, queue')) + InHand(p)
        BY DEF Accounted, InHand
    <2>3. p \in Projection
        BY PresentProjects DEF Types, Loop
    <2>4. Cardinality(Calls(p, queue'))
            = Cardinality(Calls(p, queue)) + IF Hears(p, keys) THEN 1 ELSE 0
        BY <2>1, <2>2, CallsPush
    <2>5. owed'[p] = owed[p] + IF Hears(p, keys) THEN 1 ELSE 0
        BY <2>1, <2>3
    <2>6. owed[p] = Cardinality(Calls(p, queue)) + InHand(p)
        BY DEF Accounted
    <2>7. Cardinality(Calls(p, queue)) \in Nat /\ InHand(p) \in Nat
        BY <2>2, CallsFinite DEF InHand
    <2> QED BY <2>4, <2>5, <2>6, <2>7
<1> QED BY <1>1, <1>2

LEMMA AccountedPop == Types /\ Accounted /\ Pop => Accounted'
<1> SUFFICES ASSUME Types, Accounted, Pop, NEW p \in mounted
             PROVE  owed[p] = Cardinality(Calls(p, queue')) + InHand(p)'
    BY DEF Pop, Accounted
<1>1. /\ queue \in Seq(Note) /\ queue # <<>> /\ queue' = Tail(queue)
      /\ todo' = {q \in mounted : Hears(q, Head(queue).keys)} /\ todo = {}
    BY DEF Types, Data, Pop
<1>2. Tail(queue) \in Seq(Note)
    BY <1>1, HeadTailProperties
<1>3. Cardinality(Calls(p, queue))
        = Cardinality(Calls(p, queue')) + IF Hears(p, Head(queue).keys) THEN 1 ELSE 0
    BY <1>1, CallsTake
<1>4. Cardinality(Calls(p, queue')) \in Nat
    BY <1>1, <1>2, CallsFinite
<1>5. InHand(p) = 0 /\ InHand(p)' = IF Hears(p, Head(queue).keys) THEN 1 ELSE 0
    BY <1>1 DEF InHand
<1>6. owed[p] = Cardinality(Calls(p, queue)) + InHand(p)
    BY DEF Accounted
<1> QED BY <1>3, <1>4, <1>5, <1>6

LEMMA AccountedCall ==
    ASSUME Types, Accounted, NEW p \in Projection, Call(p)
    PROVE  Accounted'
<1>1. /\ p \in todo /\ todo' = todo \ {p} /\ owed' = [owed EXCEPT ![p] = @ - 1]
      /\ UNCHANGED <<queue, mounted>>
    BY DEF Call
<1> SUFFICES ASSUME NEW q \in mounted
             PROVE  owed'[q] = Cardinality(Calls(q, queue)) + InHand(q)'
    BY <1>1 DEF Accounted, InHand
<1>2. q \in Projection /\ owed \in [Projection -> Int] /\ queue \in Seq(Note)
    BY PresentProjects DEF Types, Loop, Counts, Data
<1>3. Cardinality(Calls(q, queue)) \in Nat
    BY <1>2, CallsFinite
<1>4. owed[q] = Cardinality(Calls(q, queue)) + InHand(q)
    BY DEF Accounted
<1>5. owed'[q] = IF q = p THEN owed[q] - 1 ELSE owed[q]
    BY <1>1, <1>2
<1>6. InHand(q)' = IF q = p THEN 0 ELSE InHand(q)
    BY <1>1 DEF InHand
<1>7. q = p => InHand(q) = 1
    BY <1>1 DEF InHand
<1> QED BY <1>3, <1>4, <1>5, <1>6, <1>7

LEMMA AccountedMount ==
    ASSUME Types, Accounted, NEW p \in Projection, Mount(p)
    PROVE  Accounted'
<1>1. /\ p \notin todo /\ mounted' = mounted \union {p} /\ UNCHANGED <<queue, todo>>
      /\ owed' = [owed EXCEPT ![p] = Cardinality(Calls(p, queue))]
    BY DEF Mount, loop, Calls
<1> SUFFICES ASSUME NEW q \in mounted'
             PROVE  owed'[q] = Cardinality(Calls(q, queue)) + InHand(q)
    BY <1>1 DEF Accounted, InHand
<1>2. /\ owed \in [Projection -> Int] /\ mounted \subseteq Projection
      /\ queue \in Seq(Note)
    BY <1>1, PresentProjects DEF Types, Loop, Counts, Data
<1>3. CASE q = p
    <2>1. owed'[p] = Cardinality(Calls(p, queue)) /\ Cardinality(Calls(p, queue)) \in Nat
        BY <1>1, <1>2, CallsFinite
    <2> QED BY <1>1, <1>3, <2>1 DEF InHand
<1>4. CASE q # p
    <2>1. q \in mounted /\ owed'[q] = owed[q]
        BY <1>1, <1>2, <1>4
    <2> QED BY <2>1 DEF Accounted
<1> QED BY <1>3, <1>4

LEMMA AccountedNext ==
    ASSUME Types, Accounted, [Next]_vars
    PROVE  Accounted'
<1>1. CASE RustWrite
    <2>1. PICK w \in Content, keys \in SUBSET Field : Commit(w, keys)
        BY <1>1, RustWriteParts
    <2> QED BY <1>1, <2>1, AccountedCommit DEF RustWrite
<1>2. ASSUME NEW p \in Projection, NEW keys \in Scopes, Set(p, keys) PROVE Accounted'
    <2>1. PICK w \in Content : Commit(w, keys)
        BY <1>2, SetParts
    <2> QED BY <1>2, <2>1, SetParts, AccountedCommit DEF Set
<1>3. CASE Pop
    BY <1>3, AccountedPop
<1>4. CASE Return \/ Drained
    BY <1>4, AccountedSame DEF Return, Drained, loop
<1>5. ASSUME NEW p \in Projection, Call(p) PROVE Accounted'
    BY <1>5, AccountedCall
<1>6. ASSUME NEW p \in Projection, Mount(p) PROVE Accounted'
    BY <1>6, AccountedMount
<1>7. ASSUME NEW p \in Projection, Unmount(p) PROVE Accounted'
    BY <1>7 DEF Unmount, loop, Accounted, InHand, Calls
<1>8. CASE Rest \/ UNCHANGED vars
    BY <1>8, AccountedSame DEF Rest, vars, loop
<1> QED BY <1>1, <1>2, <1>3, <1>4, <1>5, <1>6, <1>7, <1>8 DEF Next

(* README.md:45-47 "no echo loop and no double-fire": whenever no call is  *)
(* under way, a mounted projection has been told each change it hears      *)
(* exactly once, whoever wrote and whatever its hooks do.                  *)
THEOREM EachAppliedOnce == Spec => []AppliedOnce
<1>1. Types /\ Accounted /\ [Next]_vars => Types' /\ Accounted'
    BY TypesNext, AccountedNext
<1>2. Types /\ Accounted => AppliedOnce
    <2> SUFFICES ASSUME Types, Accounted, AtRest, NEW p \in mounted PROVE owed[p] = 0
        BY DEF AppliedOnce
    <2>1. queue = <<>> /\ todo = {}
        BY DEF AtRest, Types, Idle
    <2>2. Cardinality(Calls(p, queue)) = 0 /\ InHand(p) = 0
        BY <2>1, CallsEmpty DEF InHand
    <2> QED BY <2>2 DEF Accounted
<1> QED BY <1>1, <1>2, TypesInit, AccountedInit, PTL DEF Spec
=============================================================================
