------------------------------- MODULE RefMem -------------------------------
(***************************************************************************)
(* librefmem: reference counted blocks shared by the threads of mvpmc      *)
(* (libs/librefmem/alloc.c, include/mvp_atomic.h).                         *)
(*                                                                         *)
(* A block is an allocation; a slot is a pointer variable that owns one    *)
(* reference: a variable of a thread, or the pointer field of a block.     *)
(* Threads use the library as the comment at the top of alloc.c asks: a    *)
(* pointer is copied only by a thread that holds it, and the contents of a *)
(* block are written only before it is shared.                             *)
(*                                                                         *)
(* Every atomic operation on a counter is one step, and so are the load    *)
(* and the store of "total_bytecount +=", which is no atomic operation.    *)
(***************************************************************************)
EXTENDS Integers, Sequences, FiniteSets, SequencesExt

CONSTANTS
  Threads,   \* the threads of the program
  Vars,      \* names of each thread's pointer variables
  Blocks,    \* the addresses malloc can return
  NULL,      \* the null pointer
  UINT_VALUES \* number of values of the unsigned byte counter (2^32)

ASSUME ConstantsAssumption ==
  /\ IsFiniteSet(Threads) /\ IsFiniteSet(Vars) /\ IsFiniteSet(Blocks)
  /\ "field" \notin Threads
  /\ NULL \notin Blocks
  /\ UINT_VALUES \in Nat \ {0}

VARIABLES
  status,          \* of each block: "free", "live", or "dying" (its count is 0)
  refcount,        \* refcounter_t.refcount of each block
  ptr,             \* the block each slot points to, or NULL
  total_refcount,  \* static counter of references
  total_bytecount, \* static counter of bytes, here of blocks
  pc,              \* where each thread is inside the library
  arg,             \* the slot whose reference the thread is releasing
  dying,           \* blocks the thread is destroying, innermost last
  tmp              \* total_bytecount as the thread loaded it

vars == <<status, refcount, ptr, total_refcount, total_bytecount,
          pc, arg, dying, tmp>>

Local(t, v) == <<t, v>>
Field(b)    == <<"field", b>>
Slot        == (Threads \X Vars) \cup ({"field"} \X Blocks)
NoSlot      == <<"none", NULL>>

\* The references to block b that exist: the slots that point to it.
Refs(b) == {s \in Slot : ptr[s] = b}

Init ==
  /\ status = [b \in Blocks |-> "free"]
  /\ refcount = [b \in Blocks |-> 0]
  /\ ptr = [s \in Slot |-> NULL]
  /\ total_refcount = 0
  /\ total_bytecount = 0
  /\ pc = [t \in Threads |-> "idle"]
  /\ arg = [t \in Threads |-> NoSlot]
  /\ dying = [t \in Threads |-> <<>>]
  /\ tmp = [t \in Threads |-> 0]

-----------------------------------------------------------------------------
(* ref_alloc: the block is private, so its count and total_refcount are    *)
(* set in one step; the byte counter follows.                              *)
RefAlloc(t, v, b) ==
  /\ pc[t] = "idle" /\ ptr[Local(t, v)] = NULL
  /\ status[b] = "free"
  /\ status' = [status EXCEPT ![b] = "live"]
  /\ refcount' = [refcount EXCEPT ![b] = 1]
  /\ ptr' = [ptr EXCEPT ![Local(t, v)] = b]
  /\ total_refcount' = total_refcount + 1
  /\ pc' = [pc EXCEPT ![t] = "alloc_load"]
  /\ UNCHANGED <<total_bytecount, arg, dying, tmp>>

LoadBytes(t) ==
  /\ pc[t] \in {"alloc_load", "free_load"}
  /\ tmp' = [tmp EXCEPT ![t] = total_bytecount]
  /\ pc' = [pc EXCEPT ![t] = IF @ = "alloc_load" THEN "alloc_store"
                                                 ELSE "free_store"]
  /\ UNCHANGED <<status, refcount, ptr, total_refcount, total_bytecount,
                 arg, dying>>

AllocStore(t) ==
  /\ pc[t] = "alloc_store"
  /\ total_bytecount' = (tmp[t] + 1) % UINT_VALUES
  /\ pc' = [pc EXCEPT ![t] = "idle"]
  /\ UNCHANGED <<status, refcount, ptr, total_refcount, arg, dying, tmp>>

(* A constructor fills the pointer field of its private block with a       *)
(* reference it owns and sets the destroy function that will release it.   *)
RefSetDestroy(t, v, w) ==
  LET b == ptr[Local(t, v)]
      c == ptr[Local(t, w)]
  IN  /\ pc[t] = "idle"
      /\ b # NULL /\ c # NULL /\ b # c
      /\ refcount[b] = 1 /\ ptr[Field(b)] = NULL
      /\ ptr' = [ptr EXCEPT ![Field(b)] = c, ![Local(t, w)] = NULL]
      /\ UNCHANGED <<status, refcount, total_refcount, total_bytecount,
                     pc, arg, dying, tmp>>

\* Fault: a second pointer to the block is made, but not counted.
RefHoldUncounted(t, v, w) ==
  /\ pc[t] = "idle"
  /\ ptr[Local(t, v)] # NULL /\ ptr[Local(t, w)] = NULL
  /\ ptr' = [ptr EXCEPT ![Local(t, w)] = ptr[Local(t, v)]]
  /\ pc' = [pc EXCEPT ![t] = "hold"]
  /\ UNCHANGED <<status, refcount, total_refcount, total_bytecount,
                 arg, dying, tmp>>

(* ref_hold on a pointer the thread holds, or on the field of a block it   *)
(* holds; the new reference is kept in variable w.                         *)
RefHold(t, v, w) ==
  \E s \in {Local(t, v)} \cup {Field(b) : b \in {ptr[Local(t, v)]} \ {NULL}} :
    LET p == ptr[s]
    IN  /\ pc[t] = "idle"
        /\ p # NULL /\ ptr[Local(t, w)] = NULL
        /\ refcount' = [refcount EXCEPT ![p] = @ + 1]
        /\ ptr' = [ptr EXCEPT ![Local(t, w)] = p]
        /\ pc' = [pc EXCEPT ![t] = "hold"]
        /\ UNCHANGED <<status, total_refcount, total_bytecount, arg, dying, tmp>>

\* Fault: ref_hold leaves total_refcount alone.
HoldTotalForgotten(t) ==
  /\ pc[t] = "hold"
  /\ pc' = [pc EXCEPT ![t] = "idle"]
  /\ UNCHANGED <<status, refcount, ptr, total_refcount, total_bytecount,
                 arg, dying, tmp>>

HoldTotal(t) ==
  /\ pc[t] = "hold"
  /\ total_refcount' = total_refcount + 1
  /\ pc' = [pc EXCEPT ![t] = "idle"]
  /\ UNCHANGED <<status, refcount, ptr, total_bytecount, arg, dying, tmp>>

(* A thread hands a reference over to another one (thread argument, queue). *)
HandOver(t, v, u, w) ==
  /\ t # u /\ pc[t] = "idle"
  /\ ptr[Local(t, v)] # NULL /\ ptr[Local(u, w)] = NULL
  /\ ptr' = [ptr EXCEPT ![Local(u, w)] = ptr[Local(t, v)],
                        ![Local(t, v)] = NULL]
  /\ UNCHANGED <<status, refcount, total_refcount, total_bytecount,
                 pc, arg, dying, tmp>>

(* ref_release, first step: the total is decremented before the count.     *)
RefRelease(t, v) ==
  /\ pc[t] = "idle" /\ ptr[Local(t, v)] # NULL
  /\ total_refcount' = total_refcount - 1
  /\ arg' = [arg EXCEPT ![t] = Local(t, v)]
  /\ pc' = [pc EXCEPT ![t] = "release"]
  /\ UNCHANGED <<status, refcount, ptr, total_bytecount, dying, tmp>>

\* Fault: a nested ref_release leaves the destroy function that called it.
ReturnToCaller(ds) == "idle"

\* Where a ref_release that has ended returns to, when ds is what the
\* thread is still destroying: a destroy function, or the caller.
ReturnTo(ds) == IF ds = <<>> THEN "idle" ELSE "destroy"

\* Fault: the block is destroyed one reference too early.
ReleaseDecEarly(t) ==
  LET b == ptr[arg[t]]
  IN  /\ pc[t] = "release"
      /\ ptr' = [ptr EXCEPT ![arg[t]] = NULL]
      /\ arg' = [arg EXCEPT ![t] = NoSlot]
      /\ refcount' = [refcount EXCEPT ![b] = @ - 1]
      /\ IF refcount[b] <= 2
         THEN /\ status' = [status EXCEPT ![b] = "dying"]
              /\ dying' = [dying EXCEPT ![t] = Append(@, b)]
              /\ pc' = [pc EXCEPT ![t] = "destroy"]
         ELSE /\ pc' = [pc EXCEPT ![t] = ReturnTo(dying[t])]
              /\ UNCHANGED <<status, dying>>
      /\ UNCHANGED <<total_refcount, total_bytecount, tmp>>

(* mvp_atomic_dec_and_test: whoever brings the count to 0 destroys.        *)
ReleaseDec(t) ==
  LET b == ptr[arg[t]]
  IN  /\ pc[t] = "release"
      /\ ptr' = [ptr EXCEPT ![arg[t]] = NULL]
      /\ arg' = [arg EXCEPT ![t] = NoSlot]
      /\ refcount' = [refcount EXCEPT ![b] = @ - 1]
      /\ IF refcount[b] = 1
         THEN /\ status' = [status EXCEPT ![b] = "dying"]
              /\ dying' = [dying EXCEPT ![t] = Append(@, b)]
              /\ pc' = [pc EXCEPT ![t] = "destroy"]
         ELSE /\ pc' = [pc EXCEPT ![t] = ReturnTo(dying[t])]
              /\ UNCHANGED <<status, dying>>
      /\ UNCHANGED <<total_refcount, total_bytecount, tmp>>

(* ref->destroy: a nested ref_release of the block's field, if it has one. *)
Destroy(t) ==
  LET f == Field(Last(dying[t]))
  IN  /\ pc[t] = "destroy"
      /\ IF ptr[f] # NULL
         THEN /\ total_refcount' = total_refcount - 1
              /\ arg' = [arg EXCEPT ![t] = f]
              /\ pc' = [pc EXCEPT ![t] = "release"]
         ELSE /\ pc' = [pc EXCEPT ![t] = "free_load"]
              /\ UNCHANGED <<total_refcount, arg>>
      /\ UNCHANGED <<status, refcount, ptr, total_bytecount, dying, tmp>>

\* Fault: the counter is signed and may go below zero.
FreeStoreSigned(t) ==
  /\ pc[t] = "free_store"
  /\ total_bytecount' = tmp[t] - 1
  /\ status' = [status EXCEPT ![Last(dying[t])] = "free"]
  /\ dying' = [dying EXCEPT ![t] = Front(@)]
  /\ pc' = [pc EXCEPT ![t] = ReturnTo(Front(dying[t]))]
  /\ UNCHANGED <<refcount, ptr, total_refcount, arg, tmp>>

(* The store of the byte counter, then free(block).                        *)
FreeStore(t) ==
  /\ pc[t] = "free_store"
  /\ total_bytecount' = (tmp[t] + UINT_VALUES - 1) % UINT_VALUES
  /\ status' = [status EXCEPT ![Last(dying[t])] = "free"]
  /\ dying' = [dying EXCEPT ![t] = Front(@)]
  /\ pc' = [pc EXCEPT ![t] = ReturnTo(Front(dying[t]))]
  /\ UNCHANGED <<refcount, ptr, total_refcount, arg, tmp>>

-----------------------------------------------------------------------------
\* The steps a thread takes inside the library once it has called it.
Inside(t) ==
  \/ LoadBytes(t) \/ AllocStore(t) \/ HoldTotal(t)
  \/ ReleaseDec(t) \/ Destroy(t) \/ FreeStore(t)

Call(t) ==
  \/ \E v \in Vars, b \in Blocks : RefAlloc(t, v, b)
  \/ \E v, w \in Vars : RefSetDestroy(t, v, w) \/ RefHold(t, v, w)
  \/ \E v \in Vars : RefRelease(t, v)
  \/ \E v, w \in Vars, u \in Threads : HandOver(t, v, u, w)

Next == \E t \in Threads : Inside(t) \/ Call(t)

Spec == Init /\ [][Next]_vars

\* A thread inside the library is eventually scheduled; nothing makes a
\* client call it.
FairSpec == Spec /\ \A t \in Threads : WF_vars(Inside(t))
-----------------------------------------------------------------------------
TypeOK ==
  /\ status \in [Blocks -> {"free", "live", "dying"}]
  /\ refcount \in [Blocks -> Nat]
  /\ ptr \in [Slot -> Blocks \cup {NULL}]
  /\ total_refcount \in Int
  /\ total_bytecount \in 0..(UINT_VALUES - 1)
  /\ pc \in [Threads -> {"idle", "alloc_load", "alloc_store", "hold",
                         "release", "destroy", "free_load", "free_store"}]
  /\ arg \in [Threads -> Slot \cup {NoSlot}]
  /\ dying \in [Threads -> Seq(Blocks)]
  /\ tmp \in [Threads -> 0..(UINT_VALUES - 1)]

\* A pointer that some thread or some block still owns never refers to memory
\* that is being destroyed or has been freed: neither ref_release nor a
\* destroy function ever frees a block early, in any interleaving.
NoDanglingPointer ==
  \A s \in Slot : ptr[s] # NULL => status[ptr[s]] = "live"

\* The refcount of a block is exactly the number of pointers that own it, so
\* the last ref_release, and only that one, destroys it.
RefcountExact == \A b \in Blocks : refcount[b] = Cardinality(Refs(b))

\* No block is destroyed by two threads or by two nested calls of ref_release.
DestroyedOnce ==
  \A t, u \in Threads : \A i \in DOMAIN dying[t], j \in DOMAIN dying[u] :
    dying[t][i] = dying[u][j] => t = u /\ i = j

\* ref_get_refcount (mvp_refmem.h: "current number of references outstanding
\* for everything") is right up to the calls that are under way: ref_hold adds
\* to the total last, ref_release subtracts first.
TotalRefcountExact ==
  total_refcount = Cardinality({s \in Slot : ptr[s] # NULL})
                   - Cardinality({t \in Threads : pc[t] \in {"hold", "release"}})

\* A block whose last reference is gone is eventually returned to the heap,
\* whatever chain of destroy functions runs first.
DyingIsFreed ==
  \A b \in Blocks : (status[b] = "dying") ~> (status[b] = "free")
=============================================================================
