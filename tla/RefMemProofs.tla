---------------------------- MODULE RefMemProofs ----------------------------
(***************************************************************************)
(* Proofs about RefMem for any number of threads, variables and blocks:    *)
(* the counters agree with the pointers that exist, so no pointer dangles, *)
(* and the static total agrees with the counters and the calls under way.  *)
(***************************************************************************)
EXTENDS RefMem, FiniteSetTheorems, TLAPS

\* A block is live as long as its refcount is positive.
LiveIffCounted == \A b \in Blocks : status[b] = "live" <=> refcount[b] > 0

\* What a thread is destroying is dying, not free and not live.
DyingStatus ==
  \A t \in Threads : \A i \in DOMAIN dying[t] : status[dying[t][i]] = "dying"

\* A thread in the middle of ref_release owns the reference it releases: one
\* of its variables, or the field of the block it is destroying.
ArgOwned ==
  \A t \in Threads : pc[t] = "release" =>
    /\ arg[t] \in Slot
    /\ ptr[arg[t]] # NULL
    /\ \/ \E v \in Vars : arg[t] = Local(t, v)
       \/ dying[t] # <<>> /\ arg[t] = Field(Last(dying[t]))

\* A thread that destroys or frees has something to destroy.
DestroyNonEmpty ==
  \A t \in Threads :
    pc[t] \in {"destroy", "free_load", "free_store"} => dying[t] # <<>>

IInv == /\ TypeOK /\ RefcountExact /\ DestroyedOnce
        /\ LiveIffCounted /\ DyingStatus /\ ArgOwned /\ DestroyNonEmpty

-----------------------------------------------------------------------------
\* Slots of different owners are different, and there are finitely many.
LEMMA SlotFacts ==
  /\ \A t \in Threads, v \in Vars : Local(t, v) \in Slot
  /\ \A b \in Blocks : Field(b) \in Slot
  /\ \A t, u \in Threads, v, w \in Vars :
        Local(t, v) = Local(u, w) <=> t = u /\ v = w
  /\ \A b, c \in Blocks : Field(b) = Field(c) <=> b = c
  /\ \A t \in Threads, v \in Vars, b \in Blocks : Local(t, v) # Field(b)
  /\ IsFiniteSet(Slot)
<1>1. \A t \in Threads, v \in Vars : Local(t, v) \in Slot
  BY DEF Local, Slot
<1>2. \A b \in Blocks : Field(b) \in Slot
  BY DEF Field, Slot
<1>3. \A t, u \in Threads, v, w \in Vars :
        Local(t, v) = Local(u, w) <=> t = u /\ v = w
  BY DEF Local
<1>4. \A b, c \in Blocks : Field(b) = Field(c) <=> b = c
  BY DEF Field
<1>5. \A t \in Threads, v \in Vars, b \in Blocks : Local(t, v) # Field(b)
  BY ConstantsAssumption DEF Local, Field
<1>6. IsFiniteSet(Slot)
  <2>1. IsFiniteSet(Threads \X Vars)
    BY ConstantsAssumption, FS_Product
  <2>2. IsFiniteSet({"field"} \X Blocks)
    BY ConstantsAssumption, FS_Product, FS_Singleton
  <2> QED BY <2>1, <2>2, FS_Union DEF Slot
<1> QED BY <1>1, <1>2, <1>3, <1>4, <1>5, <1>6

\* Changing a function in one place keeps its type.
LEMMA ExceptType ==
  ASSUME NEW S, NEW T, NEW f \in [S -> T], NEW s \in S, NEW v \in T
  PROVE  [f EXCEPT ![s] = v] \in [S -> T]
  OBVIOUS

\* The number of arguments in S that f maps to b.
Count(S, f, b) == Cardinality({x \in S : f[x] = b})

\* What the value x adds to the number of values that are b.
Hit(x, b) == IF x = b THEN 1 ELSE 0

\* f and g agree on S, except perhaps at s.
SameBut(S, f, g, s) == \A x \in S : x # s => g[x] = f[x]

\* How that number changes when the function is changed in one place.
LEMMA CountUpdate ==
  ASSUME NEW S, IsFiniteSet(S), NEW f, NEW g, NEW s \in S, NEW b,
         SameBut(S, f, g, s)
  PROVE  /\ Count(S, f, b) \in Nat
         /\ Count(S, g, b) = Count(S, f, b) + Hit(g[s], b) - Hit(f[s], b)
<1> DEFINE F == {x \in S : f[x] = b}
           G == {x \in S : g[x] = b}
<1>1. IsFiniteSet(F) /\ Cardinality(F) \in Nat
  BY FS_Subset, FS_CardinalityType
<1>2. CASE g[s] = b
  <2>1. G = F \cup {s}
    BY <1>2 DEF SameBut
  <2>2. Cardinality(F \cup {s}) = IF s \in F THEN Cardinality(F)
                                              ELSE Cardinality(F) + 1
    <3> HIDE DEF F
    <3> QED BY <1>1, FS_AddElement
  <2>3. s \in F <=> f[s] = b
    OBVIOUS
  <2>4. Count(S, f, b) = Cardinality(F) /\ Count(S, g, b) = Cardinality(G)
    BY DEF Count
  <2> HIDE DEF F, G
  <2> QED BY <1>1, <1>2, <2>1, <2>2, <2>3, <2>4 DEF Hit
<1>3. CASE g[s] # b
  <2>1. G = F \ {s}
    BY <1>3 DEF SameBut
  <2>2. Cardinality(F \ {s}) = IF s \in F THEN Cardinality(F) - 1
                                           ELSE Cardinality(F)
    <3> HIDE DEF F
    <3> QED BY <1>1, FS_RemoveElement
  <2>3. s \in F <=> f[s] = b
    OBVIOUS
  <2>4. Count(S, f, b) = Cardinality(F) /\ Count(S, g, b) = Cardinality(G)
    BY DEF Count
  <2> HIDE DEF F, G
  <2> QED BY <1>1, <1>3, <2>1, <2>2, <2>3, <2>4 DEF Hit
<1> QED BY <1>2, <1>3

\* The pointers to a block are finitely many, and one that exists counts.
LEMMA RefsCount ==
  ASSUME TypeOK, NEW b \in Blocks
  PROVE  /\ Cardinality(Refs(b)) \in Nat
         /\ (\E s \in Slot : ptr[s] = b) => Cardinality(Refs(b)) > 0
<1>1. IsFiniteSet(Refs(b))
  BY SlotFacts, FS_Subset DEF Refs
<1> QED BY <1>1, FS_CardinalityType, FS_EmptySet DEF Refs

\* The last element of a non-empty stack, and the stack without it.
LEMMA StackFacts ==
  ASSUME NEW S, NEW ds \in Seq(S), ds # <<>>
  PROVE  /\ Len(ds) \in DOMAIN ds /\ Last(ds) = ds[Len(ds)] /\ Last(ds) \in S
         /\ Front(ds) \in Seq(S)
         /\ DOMAIN Front(ds) = DOMAIN ds \ {Len(ds)}
         /\ \A i \in DOMAIN Front(ds) : Front(ds)[i] = ds[i]
  BY DEF Last, Front

LEMMA InitInv == Init => IInv
<1> SUFFICES ASSUME Init PROVE IInv
  OBVIOUS
<1>1. TypeOK
  <2>1. 0 \in 0..(UINT_VALUES - 1)
    BY ConstantsAssumption
  <2> QED BY <2>1 DEF Init, TypeOK
<1>2. RefcountExact
  <2> SUFFICES ASSUME NEW b \in Blocks
               PROVE  refcount[b] = Cardinality(Refs(b))
    BY DEF RefcountExact
  <2>1. Refs(b) = {}
    BY ConstantsAssumption DEF Refs, Init
  <2> QED BY <2>1, FS_EmptySet DEF Init
<1> QED BY <1>1, <1>2 DEF Init, IInv, DestroyedOnce, LiveIffCounted,
           DyingStatus, ArgOwned, DestroyNonEmpty

-----------------------------------------------------------------------------
(* Preservation, conjunct by conjunct.                                      *)

LEMMA TypeStep == TypeOK /\ ArgOwned /\ DestroyNonEmpty /\ LiveIffCounted
                  /\ RefcountExact /\ [Next]_vars => TypeOK'
<1> SUFFICES ASSUME TypeOK, ArgOwned, DestroyNonEmpty, LiveIffCounted,
                    RefcountExact, [Next]_vars
             PROVE  TypeOK'
  OBVIOUS
<1> USE SlotFacts
<1>0. UINT_VALUES \in Nat \ {0}
  BY ConstantsAssumption
<1>1. ASSUME NEW t \in Threads, NEW v \in Vars, NEW b \in Blocks,
             RefAlloc(t, v, b)
      PROVE  TypeOK'
  BY <1>1 DEF RefAlloc, TypeOK
<1>2. ASSUME NEW t \in Threads, LoadBytes(t) PROVE TypeOK'
  BY <1>2 DEF LoadBytes, TypeOK
<1>3. ASSUME NEW t \in Threads, AllocStore(t) PROVE TypeOK'
  BY <1>0, <1>3 DEF AllocStore, TypeOK
<1>4. ASSUME NEW t \in Threads, NEW v \in Vars, NEW w \in Vars,
             RefSetDestroy(t, v, w)
      PROVE  TypeOK'
  BY <1>4 DEF RefSetDestroy, TypeOK
<1>5. ASSUME NEW t \in Threads, NEW v \in Vars, NEW w \in Vars,
             RefHold(t, v, w)
      PROVE  TypeOK'
  BY <1>5 DEF RefHold, TypeOK
<1>6. ASSUME NEW t \in Threads, HoldTotal(t) PROVE TypeOK'
  BY <1>6 DEF HoldTotal, TypeOK
<1>7. ASSUME NEW t \in Threads, NEW v \in Vars, NEW u \in Threads,
             NEW w \in Vars, HandOver(t, v, u, w)
      PROVE  TypeOK'
  BY <1>7 DEF HandOver, TypeOK
<1>8. ASSUME NEW t \in Threads, NEW v \in Vars, RefRelease(t, v)
      PROVE  TypeOK'
  BY <1>8 DEF RefRelease, TypeOK
<1>9. ASSUME NEW t \in Threads, ReleaseDec(t) PROVE TypeOK'
  <2>1. ptr[arg[t]] \in Blocks /\ arg[t] \in Slot
    BY <1>9 DEF ReleaseDec, ArgOwned, TypeOK
  <2>2. refcount[ptr[arg[t]]] > 0
    BY <2>1, RefsCount DEF RefcountExact, TypeOK
  <2>3. refcount' \in [Blocks -> Nat]
    BY <1>9, <2>1, <2>2 DEF ReleaseDec, TypeOK
  <2>4. dying' \in [Threads -> Seq(Blocks)]
    <3>1. Append(dying[t], ptr[arg[t]]) \in Seq(Blocks)
      BY <2>1 DEF TypeOK
    <3>2. CASE refcount[ptr[arg[t]]] = 1
      <4>1. dying' = [dying EXCEPT ![t] = Append(dying[t], ptr[arg[t]])]
        BY <1>9, <3>2 DEF ReleaseDec
      <4> QED BY <3>1, <4>1, ExceptType DEF TypeOK
    <3>3. CASE refcount[ptr[arg[t]]] # 1
      BY <1>9, <3>3 DEF ReleaseDec, TypeOK
    <3> QED BY <3>2, <3>3
  <2>5. ReturnTo(dying[t]) \in {"idle", "destroy"}
    BY DEF ReturnTo
  <2>6. NoSlot \in Slot \cup {NoSlot}
    OBVIOUS
  <2>7. /\ status' \in [Blocks -> {"free", "live", "dying"}]
        /\ pc' \in [Threads -> {"idle", "alloc_load", "alloc_store", "hold",
                         "release", "destroy", "free_load", "free_store"}]
    <3>2. CASE refcount[ptr[arg[t]]] = 1
      BY <1>9, <2>1, <3>2, ZenonT(40) DEF ReleaseDec, TypeOK
    <3>3. CASE refcount[ptr[arg[t]]] # 1
      <4>1. pc' = [pc EXCEPT ![t] = ReturnTo(dying[t])] /\ status' = status
        BY <1>9, <3>3 DEF ReleaseDec
      <4> QED BY <2>5, <4>1, ExceptType DEF TypeOK
    <3> QED BY <3>2, <3>3
  <2> QED BY <1>9, <2>1, <2>3, <2>4, <2>6, <2>7 DEF ReleaseDec, TypeOK
<1>10. ASSUME NEW t \in Threads, Destroy(t) PROVE TypeOK'
  <2>1. Last(dying[t]) \in Blocks
    BY <1>10, StackFacts DEF Destroy, DestroyNonEmpty, TypeOK
  <2>2. Field(Last(dying[t])) \in Slot
    BY <2>1
  <2>3. /\ arg' \in [Threads -> Slot \cup {NoSlot}]
        /\ total_refcount' \in Int
        /\ pc' \in [Threads -> {"idle", "alloc_load", "alloc_store", "hold",
                         "release", "destroy", "free_load", "free_store"}]
    <3>1. CASE ptr[Field(Last(dying[t]))] # NULL
      <4>1. /\ arg' = [arg EXCEPT ![t] = Field(Last(dying[t]))]
            /\ pc' = [pc EXCEPT ![t] = "release"]
            /\ total_refcount' = total_refcount - 1
        BY <1>10, <3>1 DEF Destroy
      <4> QED BY <2>2, <4>1, ExceptType DEF TypeOK
    <3>2. CASE ptr[Field(Last(dying[t]))] = NULL
      BY <1>10, <3>2 DEF Destroy, TypeOK
    <3> QED BY <3>1, <3>2
  <2> QED BY <1>10, <2>3 DEF Destroy, TypeOK
<1>11. ASSUME NEW t \in Threads, FreeStore(t) PROVE TypeOK'
  <2>1. Last(dying[t]) \in Blocks /\ Front(dying[t]) \in Seq(Blocks)
    BY <1>11, StackFacts DEF FreeStore, DestroyNonEmpty, TypeOK
  <2>2. total_bytecount' \in 0..(UINT_VALUES - 1)
    BY <1>0, <1>11 DEF FreeStore, TypeOK
  <2> QED BY <1>11, <2>1, <2>2 DEF FreeStore, ReturnTo, TypeOK
<1>12. CASE UNCHANGED vars
  BY <1>12 DEF vars, TypeOK
<1> QED BY <1>1, <1>2, <1>3, <1>4, <1>5, <1>6, <1>7, <1>8, <1>9, <1>10,
           <1>11, <1>12 DEF Next, Inside, Call

Assign(s, p) == ptr' = [ptr EXCEPT ![s] = p]
Move(s, d) == ptr' = [ptr EXCEPT ![d] = ptr[s], ![s] = NULL]

\* What one assignment to a pointer does to the number of pointers to c.
LEMMA RefsAssign ==
  ASSUME TypeOK, NEW s \in Slot, NEW p \in Blocks \cup {NULL},
         Assign(s, p), NEW c \in Blocks
  PROVE  Cardinality(Refs(c))' = Cardinality(Refs(c))
            + Hit(p, c) - Hit(ptr[s], c)
<1>1. /\ IsFiniteSet(Slot) /\ ptr'[s] = p
      /\ SameBut(Slot, ptr, ptr', s)
  BY SlotFacts DEF TypeOK, SameBut, Assign
<1>2. Count(Slot, ptr', c)
        = Count(Slot, ptr, c) + Hit(ptr'[s], c) - Hit(ptr[s], c)
  BY <1>1, CountUpdate
<1> QED BY <1>1, <1>2 DEF Refs, Count, Hit

\* Moving a reference from one slot to an empty one changes no count.
LEMMA RefsMove ==
  ASSUME TypeOK, NEW s \in Slot, NEW d \in Slot, s # d, ptr[d] = NULL,
         Move(s, d), NEW c \in Blocks
  PROVE  Cardinality(Refs(c))' = Cardinality(Refs(c))
<1> DEFINE g == [ptr EXCEPT ![d] = ptr[s]]
<1>1. ptr[s] \in Blocks \cup {NULL} /\ NULL # c
  BY ConstantsAssumption DEF TypeOK
<1>2. /\ IsFiniteSet(Slot) /\ g[d] = ptr[s] /\ g[s] = ptr[s] /\ ptr'[s] = NULL
      /\ SameBut(Slot, ptr, g, d) /\ SameBut(Slot, g, ptr', s)
  BY SlotFacts DEF TypeOK, SameBut, Move
<1> HIDE DEF g
<1>3. /\ Count(Slot, ptr, c) \in Nat
      /\ Count(Slot, g, c)
        = Count(Slot, ptr, c) + Hit(g[d], c) - Hit(ptr[d], c)
  BY <1>2, CountUpdate
<1>4. Count(Slot, ptr', c)
        = Count(Slot, g, c) + Hit(ptr'[s], c) - Hit(g[s], c)
  BY <1>2, CountUpdate
<1>5. Count(Slot, ptr', c) = Count(Slot, ptr, c)
  BY <1>1, <1>2, <1>3, <1>4 DEF Hit
<1> QED BY <1>5 DEF Refs, Count

LEMMA RefcountStep ==
  ASSUME IInv, [Next]_vars
  PROVE  RefcountExact'
<1> USE SlotFacts
<1>0. TypeOK /\ RefcountExact /\ LiveIffCounted /\ ArgOwned
      /\ NULL \notin Blocks
  BY ConstantsAssumption DEF IInv
<1>1. ASSUME UNCHANGED <<ptr, refcount>> PROVE RefcountExact'
  BY <1>0, <1>1 DEF RefcountExact, Refs
<1>2. ASSUME NEW t \in Threads, NEW v \in Vars, NEW b \in Blocks,
             RefAlloc(t, v, b)
      PROVE  RefcountExact'
  <2>1. refcount[b] = 0 /\ ptr[Local(t, v)] = NULL /\ Local(t, v) \in Slot
    BY <1>0, <1>2 DEF RefAlloc, LiveIffCounted, TypeOK
  <2>2. /\ refcount' = [refcount EXCEPT ![b] = 1]
        /\ Assign(Local(t, v), b)
    BY <1>2 DEF RefAlloc, Assign
  <2> SUFFICES ASSUME NEW c \in Blocks
               PROVE  refcount'[c] = Cardinality(Refs(c))'
    BY DEF RefcountExact
  <2>3. Cardinality(Refs(c))' = Cardinality(Refs(c))
            + Hit(b, c) - Hit(NULL, c)
    BY <1>0, <2>1, <2>2, RefsAssign
  <2> QED BY <1>0, <2>1, <2>2, <2>3 DEF RefcountExact, TypeOK, Hit
<1>3. ASSUME NEW t \in Threads, NEW v \in Vars, NEW w \in Vars,
             RefSetDestroy(t, v, w)
      PROVE  RefcountExact'
  <2> DEFINE s == Local(t, w)
             d == Field(ptr[Local(t, v)])
  <2>1. ptr[Local(t, v)] \in Blocks
    BY <1>0, <1>3 DEF RefSetDestroy, TypeOK
  <2>2. s \in Slot /\ d \in Slot /\ s # d
    BY <2>1
  <2>3. /\ ptr[d] = NULL /\ refcount' = refcount
        /\ Move(s, d)
    BY <1>3 DEF RefSetDestroy, Move
  <2> HIDE DEF s, d
  <2> QED BY <1>0, <2>2, <2>3, RefsMove DEF RefcountExact
<1>4. ASSUME NEW t \in Threads, NEW v \in Vars, NEW w \in Vars,
             RefHold(t, v, w)
      PROVE  RefcountExact'
  <2>1. PICK p \in Blocks : /\ ptr[Local(t, w)] = NULL
                            /\ refcount' = [refcount EXCEPT ![p] = @ + 1]
                            /\ Assign(Local(t, w), p)
    <3>1. PICK s \in {Local(t, v)} \cup
                    {Field(b) : b \in {ptr[Local(t, v)]} \ {NULL}} :
            /\ ptr[s] # NULL /\ ptr[Local(t, w)] = NULL
            /\ refcount' = [refcount EXCEPT ![ptr[s]] = @ + 1]
            /\ ptr' = [ptr EXCEPT ![Local(t, w)] = ptr[s]]
      BY <1>4 DEF RefHold
    <3>2. ptr[Local(t, v)] \in Blocks \cup {NULL}
      BY <1>0 DEF TypeOK
    <3>3. s \in Slot
      BY <3>2
    <3>4. ptr[s] \in Blocks
      BY <1>0, <3>1, <3>3 DEF TypeOK
    <3> QED BY <3>1, <3>4 DEF Assign
  <2> SUFFICES ASSUME NEW c \in Blocks
               PROVE  refcount'[c] = Cardinality(Refs(c))'
    BY DEF RefcountExact
  <2>2. Cardinality(Refs(c))' = Cardinality(Refs(c))
            + Hit(p, c) - Hit(NULL, c)
    BY <1>0, <2>1, RefsAssign
  <2> QED BY <1>0, <2>1, <2>2 DEF RefcountExact, TypeOK, Hit
<1>5. ASSUME NEW t \in Threads, NEW v \in Vars, NEW u \in Threads,
             NEW w \in Vars, HandOver(t, v, u, w)
      PROVE  RefcountExact'
  <2>1. /\ Local(t, v) # Local(u, w) /\ ptr[Local(u, w)] = NULL
        /\ refcount' = refcount
        /\ Move(Local(t, v), Local(u, w))
    BY <1>5 DEF HandOver, Move
  <2> QED BY <1>0, <2>1, RefsMove DEF RefcountExact
<1>6. ASSUME NEW t \in Threads, ReleaseDec(t) PROVE RefcountExact'
  <2> DEFINE b == ptr[arg[t]]
  <2>1. b \in Blocks /\ arg[t] \in Slot
    BY <1>0, <1>6 DEF ReleaseDec, ArgOwned, TypeOK
  <2>2. /\ Assign(arg[t], NULL)
        /\ refcount' = [refcount EXCEPT ![b] = @ - 1]
    BY <1>6 DEF ReleaseDec, Assign
  <2> SUFFICES ASSUME NEW c \in Blocks
               PROVE  refcount'[c] = Cardinality(Refs(c))'
    BY DEF RefcountExact
  <2>3. Cardinality(Refs(c))' = Cardinality(Refs(c))
            + Hit(NULL, c) - Hit(b, c)
    BY <1>0, <2>1, <2>2, RefsAssign
  <2> QED BY <1>0, <2>1, <2>2, <2>3 DEF RefcountExact, TypeOK, Hit
<1> QED BY <1>1, <1>2, <1>3, <1>4, <1>5, <1>6 DEF Next, Inside, Call, vars,
           LoadBytes, AllocStore, HoldTotal, RefRelease, Destroy, FreeStore

\* A reference that some thread is releasing, or any other pointer, keeps the
\* count of its block positive and the block live.
LEMMA PointerLive ==
  ASSUME TypeOK, RefcountExact, LiveIffCounted, NEW s \in Slot, ptr[s] # NULL
  PROVE  /\ ptr[s] \in Blocks
         /\ refcount[ptr[s]] > 0
         /\ status[ptr[s]] = "live"
<1>1. ptr[s] \in Blocks
  BY DEF TypeOK
<1>2. refcount[ptr[s]] > 0
  BY <1>1, RefsCount DEF RefcountExact
<1> QED BY <1>1, <1>2 DEF LiveIffCounted

Stacks == LiveIffCounted /\ DyingStatus /\ DestroyedOnce

LEMMA StackStep ==
  ASSUME IInv, [Next]_vars
  PROVE  Stacks'
<1> USE SlotFacts
<1>0. TypeOK /\ RefcountExact /\ LiveIffCounted /\ ArgOwned /\ DyingStatus
      /\ DestroyedOnce /\ DestroyNonEmpty /\ NULL \notin Blocks
  BY ConstantsAssumption DEF IInv
<1>1. ASSUME UNCHANGED <<status, refcount, dying>> PROVE Stacks'
  BY <1>0, <1>1 DEF Stacks, LiveIffCounted, DyingStatus, DestroyedOnce
<1>2. ASSUME NEW t \in Threads, NEW v \in Vars, NEW b \in Blocks,
             RefAlloc(t, v, b)
      PROVE  Stacks'
  <2>1. LiveIffCounted'
    BY <1>0, <1>2 DEF RefAlloc, LiveIffCounted, TypeOK
  <2>2. DyingStatus'
    BY <1>0, <1>2 DEF RefAlloc, DyingStatus, TypeOK
  <2>3. DestroyedOnce'
    BY <1>0, <1>2 DEF RefAlloc, DestroyedOnce
  <2> QED BY <2>1, <2>2, <2>3 DEF Stacks
<1>3. ASSUME NEW t \in Threads, NEW v \in Vars, NEW w \in Vars,
             RefHold(t, v, w)
      PROVE  Stacks'
  <2>1. PICK s \in {Local(t, v)} \cup
                   {Field(b) : b \in {ptr[Local(t, v)]} \ {NULL}} :
           /\ ptr[s] # NULL
           /\ refcount' = [refcount EXCEPT ![ptr[s]] = @ + 1]
           /\ status' = status /\ dying' = dying
    BY <1>3 DEF RefHold
  <2>2. ptr[Local(t, v)] \in Blocks \cup {NULL}
    BY <1>0 DEF TypeOK
  <2>3. s \in Slot
    BY <2>2
  <2>4. ptr[s] \in Blocks /\ refcount[ptr[s]] > 0 /\ status[ptr[s]] = "live"
    BY <1>0, <2>1, <2>3, PointerLive
  <2>5. LiveIffCounted'
    BY <1>0, <2>1, <2>4 DEF LiveIffCounted, TypeOK
  <2>6. DyingStatus' /\ DestroyedOnce'
    BY <1>0, <2>1 DEF DyingStatus, DestroyedOnce
  <2> QED BY <2>5, <2>6 DEF Stacks
<1>4. ASSUME NEW t \in Threads, ReleaseDec(t) PROVE Stacks'
  <2> DEFINE b == ptr[arg[t]]
  <2>1. b \in Blocks /\ refcount[b] > 0 /\ status[b] = "live"
    BY <1>0, <1>4, PointerLive DEF ReleaseDec, ArgOwned
  <2>2. refcount' = [refcount EXCEPT ![b] = @ - 1]
    BY <1>4 DEF ReleaseDec
  <2>3. CASE refcount[b] = 1
    <3>1. /\ status' = [status EXCEPT ![b] = "dying"]
          /\ dying' = [dying EXCEPT ![t] = Append(dying[t], b)]
      BY <1>4, <2>3 DEF ReleaseDec
    <3>2. dying[t] \in Seq(Blocks)
      BY <1>0 DEF TypeOK
    <3> HIDE DEF b
    <3>3. \A u \in Threads : \A i \in DOMAIN dying'[u] :
             \/ i \in DOMAIN dying[u] /\ dying'[u][i] = dying[u][i]
             \/ u = t /\ i = Len(dying[t]) + 1 /\ dying'[u][i] = b
      <4> SUFFICES ASSUME NEW u \in Threads, NEW i \in DOMAIN dying'[u]
                   PROVE  \/ i \in DOMAIN dying[u] /\ dying'[u][i] = dying[u][i]
                          \/ u = t /\ i = Len(dying[t]) + 1 /\ dying'[u][i] = b
        OBVIOUS
      <4>1. CASE u = t
        <5>1. dying'[u] = Append(dying[t], b)
          BY <1>0, <3>1, <4>1 DEF TypeOK
        <5> QED BY <2>1, <3>2, <4>1, <5>1
      <4>2. CASE u # t
        BY <1>0, <3>1, <4>2 DEF TypeOK
      <4> QED BY <4>1, <4>2
    <3>4. LiveIffCounted'
      BY <1>0, <2>1, <2>2, <2>3, <3>1 DEF LiveIffCounted, TypeOK
    <3>5. DyingStatus'
      <4>1. \A u \in Threads : \A i \in DOMAIN dying[u] :
               dying[u][i] \in Blocks
        BY <1>0 DEF TypeOK
      <4> QED BY <1>0, <2>1, <3>1, <3>3, <4>1 DEF DyingStatus, TypeOK
    <3>6. DestroyedOnce'
      BY <1>0, <2>1, <3>3 DEF DyingStatus, DestroyedOnce
    <3> QED BY <3>4, <3>5, <3>6 DEF Stacks
  <2>4. CASE refcount[b] # 1
    <3>1. status' = status /\ dying' = dying
      BY <1>4, <2>4 DEF ReleaseDec
    <3> HIDE DEF b
    <3>2. LiveIffCounted'
      BY <1>0, <2>1, <2>2, <2>4, <3>1 DEF LiveIffCounted, TypeOK
    <3>3. DyingStatus' /\ DestroyedOnce'
      BY <1>0, <3>1 DEF DyingStatus, DestroyedOnce
    <3> QED BY <3>2, <3>3 DEF Stacks
  <2> QED BY <2>3, <2>4
<1>5. ASSUME NEW t \in Threads, FreeStore(t) PROVE Stacks'
  <2> DEFINE ds == dying[t]
  <2>1. ds \in Seq(Blocks) /\ ds # <<>>
    BY <1>0, <1>5 DEF FreeStore, DestroyNonEmpty, TypeOK
  <2>2. /\ status' = [status EXCEPT ![Last(ds)] = "free"]
        /\ dying' = [dying EXCEPT ![t] = Front(ds)] /\ refcount' = refcount
    BY <1>5 DEF FreeStore
  <2>3. /\ Len(ds) \in DOMAIN ds /\ Last(ds) = ds[Len(ds)]
        /\ Last(ds) \in Blocks
        /\ DOMAIN Front(ds) = DOMAIN ds \ {Len(ds)}
        /\ \A i \in DOMAIN Front(ds) : Front(ds)[i] = ds[i]
    BY <2>1, StackFacts, ZenonT(40)
  <2>4. \A u \in Threads : \A i \in DOMAIN dying'[u] :
           /\ i \in DOMAIN dying[u] /\ dying'[u][i] = dying[u][i]
           /\ ~(u = t /\ i = Len(ds))
    <3>1. dying'[t] = Front(ds) /\ \A u \in Threads \ {t} : dying'[u] = dying[u]
      BY <1>0, <2>2 DEF TypeOK
    <3> QED BY <2>3, <3>1
  <2>5. status[Last(ds)] = "dying"
    BY <1>0, <2>3 DEF DyingStatus
  <2>6. LiveIffCounted'
    BY <1>0, <2>2, <2>3, <2>5 DEF LiveIffCounted, TypeOK
  <2>7. DyingStatus'
    <3> SUFFICES ASSUME NEW u \in Threads, NEW i \in DOMAIN dying'[u]
                 PROVE  status'[dying'[u][i]] = "dying"
      BY DEF DyingStatus
    <3>1. dying'[u][i] # Last(ds)
      BY <1>0, <2>3, <2>4 DEF DestroyedOnce
    <3>2. dying'[u][i] \in Blocks /\ status[dying'[u][i]] = "dying"
      BY <1>0, <2>4 DEF DyingStatus, TypeOK
    <3> QED BY <1>0, <2>2, <2>3, <3>1, <3>2 DEF TypeOK
  <2>8. DestroyedOnce'
    BY <1>0, <2>4 DEF DestroyedOnce
  <2> QED BY <2>6, <2>7, <2>8 DEF Stacks
<1> QED BY <1>1, <1>2, <1>3, <1>4, <1>5 DEF Next, Inside, Call, vars,
           LoadBytes, AllocStore, HoldTotal, RefRelease, Destroy,
           RefSetDestroy, HandOver

\* Two threads never release the same slot.
LEMMA ArgsDiffer ==
  ASSUME TypeOK, ArgOwned, DestroyedOnce,
         NEW t \in Threads, NEW u \in Threads, t # u,
         pc[t] = "release", pc[u] = "release"
  PROVE  arg[t] # arg[u]
<1> USE SlotFacts
<1>1. CASE dying[t] # <<>> /\ arg[t] = Field(Last(dying[t]))
           /\ dying[u] # <<>> /\ arg[u] = Field(Last(dying[u]))
  <2>1. /\ Len(dying[t]) \in DOMAIN dying[t] /\ Last(dying[t]) \in Blocks
        /\ Last(dying[t]) = dying[t][Len(dying[t])]
    BY <1>1, StackFacts DEF TypeOK
  <2>2. /\ Len(dying[u]) \in DOMAIN dying[u] /\ Last(dying[u]) \in Blocks
        /\ Last(dying[u]) = dying[u][Len(dying[u])]
    BY <1>1, StackFacts DEF TypeOK
  <2>3. Last(dying[t]) # Last(dying[u])
    BY <2>1, <2>2 DEF DestroyedOnce
  <2> QED BY <1>1, <2>1, <2>2, <2>3
<1>2. \A x \in Threads : dying[x] # <<>> => Last(dying[x]) \in Blocks
  BY StackFacts DEF TypeOK
<1> QED BY <1>1, <1>2 DEF ArgOwned

\* The part of ArgOwned that is about thread u, and the part of
\* DestroyNonEmpty.
Owns(u) ==
  /\ pc[u] = "release" =>
       /\ arg[u] \in Slot
       /\ ptr[arg[u]] # NULL
       /\ \/ \E v \in Vars : arg[u] = Local(u, v)
          \/ dying[u] # <<>> /\ arg[u] = Field(Last(dying[u]))
  /\ pc[u] \in {"destroy", "free_load", "free_store"} => dying[u] # <<>>

\* A step of another thread that leaves the slot u is releasing non-null does
\* not disturb u.
LEMMA OwnsKept ==
  ASSUME NEW u \in Threads, Owns(u), pc'[u] = pc[u], arg'[u] = arg[u],
         dying'[u] = dying[u],
         pc[u] = "release" => ptr'[arg[u]] # NULL
  PROVE  Owns(u)'
  BY DEF Owns

LEMMA ArgStep ==
  ASSUME IInv, [Next]_vars
  PROVE  ArgOwned' /\ DestroyNonEmpty'
<1> USE SlotFacts
<1>0. TypeOK /\ ArgOwned /\ DestroyedOnce /\ DestroyNonEmpty
      /\ NULL \notin Blocks
  BY ConstantsAssumption DEF IInv
<1>a. \A u \in Threads : Owns(u)
  BY <1>0 DEF ArgOwned, DestroyNonEmpty, Owns
<1> SUFFICES ASSUME NEW u \in Threads PROVE Owns(u)'
  BY DEF ArgOwned, DestroyNonEmpty, Owns
<1>b. pc[u] = "release" => arg[u] \in Slot /\ ptr[arg[u]] # NULL
  BY <1>a DEF Owns
<1>1. ASSUME NEW t \in Threads, NEW v \in Vars, NEW b \in Blocks,
             RefAlloc(t, v, b)
      PROVE  Owns(u)'
  <2>1. CASE u = t
    BY <1>0, <1>1, <2>1 DEF RefAlloc, Owns, TypeOK
  <2>2. CASE u # t
    <3>1. pc'[u] = pc[u] /\ arg'[u] = arg[u] /\ dying'[u] = dying[u]
      BY <1>0, <1>1, <2>2 DEF RefAlloc, TypeOK
    <3>2. pc[u] = "release" => ptr'[arg[u]] # NULL
      BY <1>0, <1>1, <1>b DEF RefAlloc, TypeOK
    <3> QED BY <1>a, <3>1, <3>2, OwnsKept
  <2> QED BY <2>1, <2>2
<1>2. ASSUME NEW t \in Threads, LoadBytes(t) \/ AllocStore(t) \/ HoldTotal(t)
      PROVE  Owns(u)'
  <2>1. CASE u = t
    BY <1>0, <1>2, <2>1 DEF LoadBytes, AllocStore, HoldTotal, Owns, TypeOK,
                            DestroyNonEmpty
  <2>2. CASE u # t
    <3>1. pc'[u] = pc[u] /\ arg'[u] = arg[u] /\ dying'[u] = dying[u]
          /\ ptr' = ptr
      BY <1>0, <1>2, <2>2 DEF LoadBytes, AllocStore, HoldTotal, TypeOK
    <3> QED BY <1>a, <1>b, <3>1, OwnsKept
  <2> QED BY <2>1, <2>2
<1>3. ASSUME NEW t \in Threads, NEW v \in Vars, NEW w \in Vars,
             RefSetDestroy(t, v, w)
      PROVE  Owns(u)'
  <2>0. ptr[Local(t, v)] \in Blocks
    BY <1>0, <1>3 DEF RefSetDestroy, TypeOK
  <2>1. /\ pc[t] = "idle" /\ ptr[Field(ptr[Local(t, v)])] = NULL
        /\ pc' = pc /\ arg' = arg /\ dying' = dying
        /\ ptr' = [ptr EXCEPT ![Field(ptr[Local(t, v)])] = ptr[Local(t, w)],
                              ![Local(t, w)] = NULL]
    BY <1>3 DEF RefSetDestroy
  <2>2. pc[u] = "release" => arg[u] # Local(t, w)
    <3>1. dying[u] # <<>> => Last(dying[u]) \in Blocks
      BY <1>0, StackFacts DEF TypeOK
    <3> QED BY <1>a, <2>1, <3>1 DEF Owns
  <2>3. pc[u] = "release" => ptr'[arg[u]] # NULL
    BY <1>0, <1>b, <2>0, <2>1, <2>2 DEF TypeOK
  <2> QED BY <1>a, <2>1, <2>3, OwnsKept
<1>4. ASSUME NEW t \in Threads, NEW v \in Vars, NEW w \in Vars,
             RefHold(t, v, w)
      PROVE  Owns(u)'
  <2>0. PICK p \in Blocks :
             /\ pc[t] = "idle" /\ ptr[Local(t, w)] = NULL
             /\ pc' = [pc EXCEPT ![t] = "hold"]
             /\ arg' = arg /\ dying' = dying
             /\ ptr' = [ptr EXCEPT ![Local(t, w)] = p]
    <3>1. PICK s \in {Local(t, v)} \cup
                    {Field(b) : b \in {ptr[Local(t, v)]} \ {NULL}} :
            /\ ptr[s] # NULL /\ ptr[Local(t, w)] = NULL /\ pc[t] = "idle"
            /\ pc' = [pc EXCEPT ![t] = "hold"]
            /\ arg' = arg /\ dying' = dying
            /\ ptr' = [ptr EXCEPT ![Local(t, w)] = ptr[s]]
      BY <1>4 DEF RefHold
    <3>2. ptr[Local(t, v)] \in Blocks \cup {NULL}
      BY <1>0 DEF TypeOK
    <3>3. s \in Slot
      BY <3>2
    <3>4. ptr[s] \in Blocks
      BY <1>0, <3>1, <3>3 DEF TypeOK
    <3> QED BY <3>1, <3>4
  <2>1. CASE u = t
    BY <1>0, <2>0, <2>1 DEF Owns, TypeOK
  <2>2. CASE u # t
    <3>1. pc'[u] = pc[u] /\ arg'[u] = arg[u] /\ dying'[u] = dying[u]
      BY <1>0, <2>0, <2>2 DEF TypeOK
    <3>2. pc[u] = "release" => ptr'[arg[u]] # NULL
      BY <1>0, <2>0, <1>b DEF TypeOK
    <3> QED BY <1>a, <3>1, <3>2, OwnsKept
  <2> QED BY <2>1, <2>2
<1>5. ASSUME NEW t \in Threads, NEW v \in Vars, NEW x \in Threads,
             NEW w \in Vars, HandOver(t, v, x, w)
      PROVE  Owns(u)'
  <2>1. /\ pc[t] = "idle" /\ ptr[Local(t, v)] # NULL /\ ptr[Local(x, w)] = NULL
        /\ pc' = pc /\ arg' = arg /\ dying' = dying
        /\ ptr' = [ptr EXCEPT ![Local(x, w)] = ptr[Local(t, v)],
                              ![Local(t, v)] = NULL]
    BY <1>5 DEF HandOver
  <2>2. pc[u] = "release" => arg[u] # Local(t, v)
    <3>1. dying[u] # <<>> => Last(dying[u]) \in Blocks
      BY <1>0, StackFacts DEF TypeOK
    <3> QED BY <1>a, <2>1, <3>1 DEF Owns
  <2>3. pc[u] = "release" => ptr'[arg[u]] # NULL
    BY <1>0, <1>b, <2>1, <2>2 DEF TypeOK
  <2> QED BY <1>a, <2>1, <2>3, OwnsKept
<1>6. ASSUME NEW t \in Threads, NEW v \in Vars, RefRelease(t, v)
      PROVE  Owns(u)'
  <2>1. CASE u = t
    BY <1>0, <1>6, <2>1 DEF RefRelease, Owns, TypeOK
  <2>2. CASE u # t
    <3>1. pc'[u] = pc[u] /\ arg'[u] = arg[u] /\ dying'[u] = dying[u]
          /\ ptr' = ptr
      BY <1>0, <1>6, <2>2 DEF RefRelease, TypeOK
    <3> QED BY <1>a, <1>b, <3>1, OwnsKept
  <2> QED BY <2>1, <2>2
<1>7. ASSUME NEW t \in Threads, ReleaseDec(t) PROVE Owns(u)'
  <2>0. pc[t] = "release" /\ ptr' = [ptr EXCEPT ![arg[t]] = NULL]
    BY <1>7 DEF ReleaseDec
  <2>1. CASE u = t
    <3>1. CASE refcount[ptr[arg[t]]] = 1
      <4>1. pc'[t] = "destroy" /\ dying'[t] = Append(dying[t], ptr[arg[t]])
        BY <1>0, <1>7, <3>1 DEF ReleaseDec, TypeOK
      <4>2. dying[t] \in Seq(Blocks) /\ ptr[arg[t]] \in Blocks
        BY <1>0, <2>0 DEF ArgOwned, TypeOK
      <4>3. Append(dying[t], ptr[arg[t]]) # <<>>
        BY <4>2
      <4> QED BY <2>1, <4>1, <4>3 DEF Owns
    <3>2. CASE refcount[ptr[arg[t]]] # 1
      <4>1. pc'[t] = ReturnTo(dying[t]) /\ dying' = dying
        BY <1>0, <1>7, <3>2 DEF ReleaseDec, TypeOK
      <4> QED BY <2>1, <4>1 DEF Owns, ReturnTo
    <3> QED BY <3>1, <3>2
  <2>2. CASE u # t
    <3>1. pc'[u] = pc[u] /\ arg'[u] = arg[u] /\ dying'[u] = dying[u]
      <4>1. CASE refcount[ptr[arg[t]]] = 1
        BY <1>0, <1>7, <2>2, <4>1 DEF ReleaseDec, TypeOK
      <4>2. CASE refcount[ptr[arg[t]]] # 1
        BY <1>0, <1>7, <2>2, <4>2 DEF ReleaseDec, TypeOK
      <4> QED BY <4>1, <4>2
    <3>2. pc[u] = "release" => arg[u] # arg[t]
      BY <1>0, <2>0, <2>2, ArgsDiffer
    <3>3. pc[u] = "release" => ptr'[arg[u]] # NULL
      BY <1>0, <1>b, <2>0, <3>2 DEF TypeOK
    <3> QED BY <1>a, <3>1, <3>3, OwnsKept
  <2> QED BY <2>1, <2>2
<1>8. ASSUME NEW t \in Threads, Destroy(t) PROVE Owns(u)'
  <2>0. dying[t] # <<>> /\ Field(Last(dying[t])) \in Slot
    BY <1>0, <1>8, StackFacts DEF Destroy, DestroyNonEmpty, TypeOK
  <2>1. ptr' = ptr /\ dying' = dying
    BY <1>8 DEF Destroy
  <2>2. CASE ptr[Field(Last(dying[t]))] # NULL
    <3>1. /\ arg' = [arg EXCEPT ![t] = Field(Last(dying[t]))]
          /\ pc' = [pc EXCEPT ![t] = "release"]
      BY <1>8, <2>2 DEF Destroy
    <3>2. CASE u = t
      <4>1. arg'[t] = Field(Last(dying[t])) /\ pc'[t] = "release"
        BY <1>0, <3>1 DEF TypeOK
      <4> QED BY <2>0, <2>1, <2>2, <3>2, <4>1 DEF Owns
    <3>3. CASE u # t
      <4>1. arg'[u] = arg[u] /\ pc'[u] = pc[u]
        BY <1>0, <3>1, <3>3 DEF TypeOK
      <4> QED BY <1>a, <1>b, <2>1, <4>1, OwnsKept
    <3> QED BY <3>2, <3>3
  <2>3. CASE ptr[Field(Last(dying[t]))] = NULL
    <3>1. arg' = arg /\ pc' = [pc EXCEPT ![t] = "free_load"]
      BY <1>8, <2>3 DEF Destroy
    <3>2. CASE u = t
      BY <1>0, <2>0, <2>1, <3>1, <3>2 DEF Owns, TypeOK
    <3>3. CASE u # t
      <4>1. arg'[u] = arg[u] /\ pc'[u] = pc[u]
        BY <1>0, <3>1, <3>3 DEF TypeOK
      <4> QED BY <1>a, <1>b, <2>1, <4>1, OwnsKept
    <3> QED BY <3>2, <3>3
  <2> QED BY <2>2, <2>3
<1>9. ASSUME NEW t \in Threads, FreeStore(t) PROVE Owns(u)'
  <2>1. /\ ptr' = ptr /\ arg' = arg
        /\ dying' = [dying EXCEPT ![t] = Front(dying[t])]
        /\ pc' = [pc EXCEPT ![t] = ReturnTo(Front(dying[t]))]
    BY <1>9 DEF FreeStore
  <2>2. CASE u = t
    <3>1. dying'[t] = Front(dying[t]) /\ pc'[t] = ReturnTo(Front(dying[t]))
      BY <1>0, <2>1 DEF TypeOK
    <3> QED BY <2>2, <3>1 DEF Owns, ReturnTo
  <2>3. CASE u # t
    <3>1. pc'[u] = pc[u] /\ dying'[u] = dying[u] /\ arg'[u] = arg[u]
      BY <1>0, <2>1, <2>3 DEF TypeOK
    <3> QED BY <1>a, <1>b, <2>1, <3>1, OwnsKept
  <2> QED BY <2>2, <2>3
<1>10. CASE UNCHANGED vars
  BY <1>10, <1>a DEF vars, Owns
<1> QED BY <1>1, <1>2, <1>3, <1>4, <1>5, <1>6, <1>7, <1>8, <1>9, <1>10
        DEF Next, Inside, Call

-----------------------------------------------------------------------------
(* The static counter of references.                                       *)

\* The number of arguments in S that f maps into T.
Number(S, f, T) == Cardinality({x \in S : f[x] \in T})

Member(x, T) == IF x \in T THEN 1 ELSE 0

LEMMA NumberUpdate ==
  ASSUME NEW S, IsFiniteSet(S), NEW T, NEW f, NEW g, NEW s \in S,
         SameBut(S, f, g, s)
  PROVE  /\ Number(S, f, T) \in Nat
         /\ Number(S, g, T) = Number(S, f, T) + Member(g[s], T) - Member(f[s], T)
<1> DEFINE F == {x \in S : f[x] \in T}
           G == {x \in S : g[x] \in T}
<1>1. IsFiniteSet(F) /\ Cardinality(F) \in Nat
  BY FS_Subset, FS_CardinalityType
<1>2. s \in F <=> f[s] \in T
  OBVIOUS
<1>3. Number(S, f, T) = Cardinality(F) /\ Number(S, g, T) = Cardinality(G)
  BY DEF Number
<1>4. CASE g[s] \in T
  <2>1. G = F \cup {s}
    BY <1>4 DEF SameBut
  <2> HIDE DEF F, G
  <2>2. Cardinality(F \cup {s}) = IF s \in F THEN Cardinality(F)
                                              ELSE Cardinality(F) + 1
    BY <1>1, FS_AddElement
  <2> QED BY <1>1, <1>2, <1>3, <1>4, <2>1, <2>2 DEF Member
<1>5. CASE g[s] \notin T
  <2>1. G = F \ {s}
    BY <1>5 DEF SameBut
  <2> HIDE DEF F, G
  <2>2. Cardinality(F \ {s}) = IF s \in F THEN Cardinality(F) - 1
                                           ELSE Cardinality(F)
    BY <1>1, FS_RemoveElement
  <2> QED BY <1>1, <1>2, <1>3, <1>5, <2>1, <2>2 DEF Member
<1> QED BY <1>4, <1>5

\* The pointers that exist, and the calls that have changed one of the pointers
\* and the total, and not yet the other.
Held == Number(Slot, ptr, Blocks)
Halfway == {"hold", "release"}
Calls == Number(Threads, pc, Halfway)

LEMMA HeldIsCount ==
  ASSUME TypeOK PROVE Held = Cardinality({s \in Slot : ptr[s] # NULL})
<1>1. {s \in Slot : ptr[s] # NULL} = {s \in Slot : ptr[s] \in Blocks}
  BY ConstantsAssumption DEF TypeOK
<1> QED BY <1>1 DEF Held, Number

LEMMA HeldAssign ==
  ASSUME TypeOK, NEW s \in Slot, NEW p \in Blocks \cup {NULL}, Assign(s, p)
  PROVE  Held \in Nat /\ Held' = Held + Member(p, Blocks) - Member(ptr[s], Blocks)
<1>1. IsFiniteSet(Slot) /\ ptr'[s] = p /\ SameBut(Slot, ptr, ptr', s)
  BY SlotFacts DEF TypeOK, SameBut, Assign
<1> QED BY <1>1, NumberUpdate DEF Held

LEMMA HeldMove ==
  ASSUME TypeOK, NEW s \in Slot, NEW d \in Slot, s # d, ptr[d] = NULL, Move(s, d)
  PROVE  Held' = Held
<1> DEFINE g == [ptr EXCEPT ![d] = ptr[s]]
<1>1. ptr[s] \in Blocks \cup {NULL} /\ NULL \notin Blocks
  BY ConstantsAssumption DEF TypeOK
<1>2. /\ IsFiniteSet(Slot) /\ g[d] = ptr[s] /\ g[s] = ptr[s] /\ ptr'[s] = NULL
      /\ SameBut(Slot, ptr, g, d) /\ SameBut(Slot, g, ptr', s)
  BY SlotFacts DEF TypeOK, SameBut, Move
<1> HIDE DEF g
<1>3. /\ Number(Slot, ptr, Blocks) \in Nat
      /\ Number(Slot, g, Blocks) = Number(Slot, ptr, Blocks)
           + Member(g[d], Blocks) - Member(ptr[d], Blocks)
  BY <1>2, NumberUpdate
<1>4. Number(Slot, ptr', Blocks) = Number(Slot, g, Blocks)
           + Member(ptr'[s], Blocks) - Member(g[s], Blocks)
  BY <1>2, NumberUpdate
<1> QED BY <1>1, <1>2, <1>3, <1>4 DEF Member, Held

LEMMA HalfwayStates ==
  /\ \A q \in {"idle", "alloc_load", "alloc_store", "destroy", "free_load",
             "free_store"} : Member(q, Halfway) = 0
  /\ \A q \in {"hold", "release"} : Member(q, Halfway) = 1
BY DEF Member, Halfway

Goto(t, q) == pc' = [pc EXCEPT ![t] = q]

LEMMA CallsGoto ==
  ASSUME TypeOK, NEW t \in Threads, NEW q, Goto(t, q)
  PROVE  Calls' = Calls + Member(q, Halfway) - Member(pc[t], Halfway)
<1>1. IsFiniteSet(Threads) /\ pc'[t] = q /\ SameBut(Threads, pc, pc', t)
  BY ConstantsAssumption DEF TypeOK, SameBut, Goto
<1>2. \A T : Number(Threads, pc', T) = Number(Threads, pc, T)
                + Member(pc'[t], T) - Member(pc[t], T)
  BY <1>1, NumberUpdate
<1>3. Calls' = Number(Threads, pc', Halfway)
  BY DEF Calls, Halfway
<1> QED BY <1>1, <1>2, <1>3 DEF Calls

\* What TotalRefcountExact says, of the types alone.
TotalKept == total_refcount = Held - Calls

LEMMA TotalStep ==
  ASSUME IInv, TotalKept, [Next]_vars
  PROVE  TotalKept'
<1> USE SlotFacts
<1>0. TypeOK /\ ArgOwned /\ NULL \notin Blocks
  BY ConstantsAssumption DEF IInv
<1>a. Held \in Nat /\ Calls \in Nat /\ total_refcount \in Int
  <2>1. IsFiniteSet({s \in Slot : ptr[s] \in Blocks})
    BY FS_Subset
  <2>2. IsFiniteSet({t \in Threads : pc[t] \in Halfway})
    BY ConstantsAssumption, FS_Subset
  <2> QED BY <1>0, <2>1, <2>2, FS_CardinalityType DEF Held, Calls, Number, TypeOK
<1>b. ASSUME ptr' = ptr PROVE Held' = Held
  BY <1>b DEF Held
<1>c. ASSUME pc' = pc PROVE Calls' = Calls
  BY <1>c DEF Calls
<1>1. ASSUME NEW t \in Threads, NEW v \in Vars, NEW b \in Blocks,
             RefAlloc(t, v, b)
      PROVE  TotalKept'
  <2>1. /\ ptr[Local(t, v)] = NULL /\ pc[t] = "idle"
        /\ Assign(Local(t, v), b) /\ Goto(t, "alloc_load")
        /\ total_refcount' = total_refcount + 1
    BY <1>1 DEF RefAlloc, Assign, Goto
  <2>2. Held' = Held + 1
    BY <1>0, <1>a, <2>1, HeldAssign DEF Member
  <2>3. Calls' = Calls
    BY <1>0, <1>a, <2>1, CallsGoto, HalfwayStates
  <2> QED BY <1>a, <2>1, <2>2, <2>3 DEF TotalKept
<1>2. ASSUME NEW t \in Threads, LoadBytes(t) \/ AllocStore(t) PROVE TotalKept'
  <2>1. PICK q \in {"alloc_store", "free_store", "idle"} :
          /\ pc[t] \in {"alloc_load", "free_load", "alloc_store"}
          /\ Goto(t, q)
          /\ ptr' = ptr /\ total_refcount' = total_refcount
    BY <1>2 DEF LoadBytes, AllocStore, Goto
  <2>2. Calls' = Calls
    BY <1>0, <1>a, <2>1, CallsGoto, HalfwayStates
  <2> QED BY <1>b, <2>1, <2>2 DEF TotalKept
<1>3. ASSUME NEW t \in Threads, NEW v \in Vars, NEW w \in Vars,
             RefSetDestroy(t, v, w)
      PROVE  TotalKept'
  <2> DEFINE s == Local(t, w)
             d == Field(ptr[Local(t, v)])
  <2>1. ptr[Local(t, v)] \in Blocks
    BY <1>0, <1>3 DEF RefSetDestroy, TypeOK
  <2>2. s \in Slot /\ d \in Slot /\ s # d
    BY <2>1
  <2>3. /\ ptr[d] = NULL /\ Move(s, d) /\ pc' = pc
        /\ total_refcount' = total_refcount
    BY <1>3 DEF RefSetDestroy, Move
  <2> HIDE DEF s, d
  <2>4. Held' = Held
    BY <1>0, <2>2, <2>3, HeldMove
  <2> QED BY <1>c, <2>3, <2>4 DEF TotalKept
<1>4. ASSUME NEW t \in Threads, NEW v \in Vars, NEW w \in Vars,
             RefHold(t, v, w)
      PROVE  TotalKept'
  <2>1. PICK p \in Blocks :
          /\ ptr[Local(t, w)] = NULL /\ Assign(Local(t, w), p)
          /\ pc[t] = "idle" /\ Goto(t, "hold")
          /\ total_refcount' = total_refcount
    <3>1. PICK s \in {Local(t, v)} \cup
                    {Field(b) : b \in {ptr[Local(t, v)]} \ {NULL}} :
            /\ ptr[s] # NULL /\ ptr[Local(t, w)] = NULL /\ pc[t] = "idle"
            /\ Goto(t, "hold")
            /\ ptr' = [ptr EXCEPT ![Local(t, w)] = ptr[s]]
            /\ total_refcount' = total_refcount
      BY <1>4 DEF RefHold, Goto
    <3>2. ptr[Local(t, v)] \in Blocks \cup {NULL}
      BY <1>0 DEF TypeOK
    <3>3. s \in Slot
      BY <3>2
    <3>4. ptr[s] \in Blocks
      BY <1>0, <3>1, <3>3 DEF TypeOK
    <3> QED BY <3>1, <3>4 DEF Assign, Goto
  <2>2. Held' = Held + 1
    BY <1>0, <1>a, <2>1, HeldAssign DEF Member
  <2>3. Calls' = Calls + 1
    BY <1>0, <1>a, <2>1, CallsGoto, HalfwayStates
  <2> QED BY <1>a, <2>1, <2>2, <2>3 DEF TotalKept
<1>5. ASSUME NEW t \in Threads, HoldTotal(t) PROVE TotalKept'
  <2>1. /\ pc[t] = "hold" /\ Goto(t, "idle")
        /\ ptr' = ptr /\ total_refcount' = total_refcount + 1
    BY <1>5 DEF HoldTotal, Goto
  <2>2. Calls' = Calls - 1
    BY <1>0, <1>a, <2>1, CallsGoto, HalfwayStates
  <2> QED BY <1>a, <1>b, <2>1, <2>2 DEF TotalKept
<1>6. ASSUME NEW t \in Threads, NEW v \in Vars, NEW u \in Threads,
             NEW w \in Vars, HandOver(t, v, u, w)
      PROVE  TotalKept'
  <2>1. /\ Local(t, v) # Local(u, w) /\ ptr[Local(u, w)] = NULL
        /\ Move(Local(t, v), Local(u, w)) /\ pc' = pc
        /\ total_refcount' = total_refcount
    BY <1>6 DEF HandOver, Move
  <2>2. Held' = Held
    BY <1>0, <2>1, HeldMove
  <2> QED BY <1>c, <2>1, <2>2 DEF TotalKept
<1>7. ASSUME NEW t \in Threads, NEW v \in Vars, RefRelease(t, v)
      PROVE  TotalKept'
  <2>1. /\ pc[t] = "idle" /\ Goto(t, "release")
        /\ ptr' = ptr /\ total_refcount' = total_refcount - 1
    BY <1>7 DEF RefRelease, Goto
  <2>2. Calls' = Calls + 1
    BY <1>0, <1>a, <2>1, CallsGoto, HalfwayStates
  <2> QED BY <1>a, <1>b, <2>1, <2>2 DEF TotalKept
<1>8. ASSUME NEW t \in Threads, ReleaseDec(t) PROVE TotalKept'
  <2>1. /\ pc[t] = "release" /\ Assign(arg[t], NULL)
        /\ total_refcount' = total_refcount
    BY <1>8 DEF ReleaseDec, Assign
  <2>2. arg[t] \in Slot /\ ptr[arg[t]] \in Blocks
    BY <1>0, <2>1 DEF ArgOwned, TypeOK
  <2>3. PICK q \in {"idle", "destroy"} : Goto(t, q)
    BY <1>8 DEF ReleaseDec, ReturnTo, Goto
  <2>4. Held' = Held - 1
    BY <1>0, <1>a, <2>1, <2>2, HeldAssign DEF Member
  <2>5. Calls' = Calls - 1
    BY <1>0, <1>a, <2>1, <2>3, CallsGoto, HalfwayStates
  <2> QED BY <1>a, <2>1, <2>4, <2>5 DEF TotalKept
<1>9. ASSUME NEW t \in Threads, Destroy(t) PROVE TotalKept'
  <2>1. ptr' = ptr /\ pc[t] = "destroy"
    BY <1>9 DEF Destroy
  <2>2. CASE ptr[Field(Last(dying[t]))] # NULL
    <3>1. /\ Goto(t, "release")
          /\ total_refcount' = total_refcount - 1
      BY <1>9, <2>2 DEF Destroy, Goto
    <3>2. Calls' = Calls + 1
      BY <1>0, <1>a, <2>1, <3>1, CallsGoto, HalfwayStates
    <3> QED BY <1>a, <1>b, <2>1, <3>1, <3>2 DEF TotalKept
  <2>3. CASE ptr[Field(Last(dying[t]))] = NULL
    <3>1. /\ Goto(t, "free_load")
          /\ total_refcount' = total_refcount
      BY <1>9, <2>3 DEF Destroy, Goto
    <3>2. Calls' = Calls
      BY <1>0, <1>a, <2>1, <3>1, CallsGoto, HalfwayStates
    <3> QED BY <1>a, <1>b, <2>1, <3>1, <3>2 DEF TotalKept
  <2> QED BY <2>2, <2>3
<1>10. ASSUME NEW t \in Threads, FreeStore(t) PROVE TotalKept'
  <2>1. PICK q \in {"idle", "destroy"} :
          /\ pc[t] = "free_store" /\ Goto(t, q)
          /\ ptr' = ptr /\ total_refcount' = total_refcount
    BY <1>10 DEF FreeStore, ReturnTo, Goto
  <2>2. Calls' = Calls
    BY <1>0, <1>a, <2>1, CallsGoto, HalfwayStates
  <2> QED BY <1>b, <2>1, <2>2 DEF TotalKept
<1>11. CASE UNCHANGED vars
  BY <1>11, <1>b, <1>c DEF vars, TotalKept
<1> QED BY <1>1, <1>2, <1>3, <1>4, <1>5, <1>6, <1>7, <1>8, <1>9, <1>10, <1>11
        DEF Next, Inside, Call

-----------------------------------------------------------------------------
\* The invariant holds in every reachable state.
THEOREM Invariance == Spec => []IInv
<1>1. Init => IInv
  BY InitInv
<1>2. IInv /\ [Next]_vars => IInv'
  <2> SUFFICES ASSUME IInv, [Next]_vars PROVE IInv'
    OBVIOUS
  <2>1. TypeOK'
    BY TypeStep DEF IInv
  <2>2. RefcountExact'
    BY RefcountStep
  <2>3. Stacks'
    BY StackStep
  <2>4. ArgOwned' /\ DestroyNonEmpty'
    BY ArgStep
  <2> QED BY <2>1, <2>2, <2>3, <2>4 DEF IInv, Stacks
<1> QED BY <1>1, <1>2, PTL DEF Spec

\* The variables of alloc.c keep their types, whatever the threads do.
THEOREM TypeCorrect == Spec => []TypeOK
<1>1. IInv => TypeOK
  BY DEF IInv
<1> QED BY <1>1, Invariance, PTL

\* refcounter_t.refcount is the number of pointers that own the block.
THEOREM RefcountIsExact == Spec => []RefcountExact
<1>1. IInv => RefcountExact
  BY DEF IInv
<1> QED BY <1>1, Invariance, PTL

\* No pointer that is still owned refers to a destroyed or freed block.
THEOREM PointersAreLive == Spec => []NoDanglingPointer
<1>1. IInv => NoDanglingPointer
  BY PointerLive DEF IInv, NoDanglingPointer
<1> QED BY <1>1, Invariance, PTL

\* The test in mvp_atomic_dec_and_test elects exactly one destroyer.
THEOREM DestroyedAtMostOnce == Spec => []DestroyedOnce
<1>1. IInv => DestroyedOnce
  BY DEF IInv
<1> QED BY <1>1, Invariance, PTL
\* ref_get_refcount is right up to the calls under way: however the steps of
\* ref_hold and ref_release interleave, nested releases of destroy functions
\* included, total_refcount differs from the number of pointers by exactly the
\* calls that are between their two atomic operations.
THEOREM TotalIsExact == Spec => []TotalRefcountExact
<1>1. Init => TotalKept
  <2> SUFFICES ASSUME Init PROVE TotalKept
    OBVIOUS
  <2>1. {s \in Slot : ptr[s] \in Blocks} = {}
    BY ConstantsAssumption DEF Init
  <2>2. {t \in Threads : pc[t] \in Halfway} = {}
    BY DEF Init, Halfway
  <2>3. Held = 0 /\ Calls = 0
    BY <2>1, <2>2, FS_EmptySet DEF Held, Calls, Number
  <2> QED BY <2>3 DEF Init, TotalKept
<1>2. IInv /\ TotalKept /\ [Next]_vars => TotalKept'
  BY TotalStep
<1>3. IInv /\ TotalKept => TotalRefcountExact
  BY HeldIsCount DEF IInv, TotalKept, TotalRefcountExact, Calls, Number, Halfway
<1> QED BY <1>1, <1>2, <1>3, Invariance, PTL DEF Spec
=============================================================================
