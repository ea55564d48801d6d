------------------------------ MODULE AtomicPPC ------------------------------
(***************************************************************************)
(* __mvp_atomic_increment and __mvp_atomic_decrement as they are built for *)
(* the PowerPC of the MediaMVP: a lwarx/stwcx. loop.  A reservation is     *)
(* lost when another thread stores to the counter, and may be lost at any  *)
(* time (an interrupt).                                                    *)
(***************************************************************************)
EXTENDS Integers, TLAPS

CONSTANTS Threads, UINT_VALUES

ASSUME WidthAssumption == UINT_VALUES \in Nat \ {0}

VARIABLES
  mem,    \* *valp
  pc,     \* "idle", at "lwarx", or at "stwcx"
  delta,  \* 1 or -1: which of the two functions the thread is in; 0 if none
  val,    \* register %0
  resv,   \* does the thread hold the reservation?
  ret     \* the value last returned

vars == <<mem, pc, delta, val, resv, ret>>

Init == /\ mem = 0
        /\ pc = [t \in Threads |-> "idle"]
        /\ delta = [t \in Threads |-> 0]
        /\ val = [t \in Threads |-> 0]
        /\ resv = [t \in Threads |-> FALSE]
        /\ ret = [t \in Threads |-> 0]

Enter(t) ==
  /\ pc[t] = "idle"
  /\ \E d \in {1, -1} : delta' = [delta EXCEPT ![t] = d]
  /\ pc' = [pc EXCEPT ![t] = "lwarx"]
  /\ UNCHANGED <<mem, val, resv, ret>>

\* Fault: the immediate operand of the increment was copied to the decrement.
LwarxIncrement(t) ==
  /\ pc[t] = "lwarx"
  /\ val' = [val EXCEPT ![t] = (mem + 1) % UINT_VALUES]
  /\ resv' = [resv EXCEPT ![t] = TRUE]
  /\ pc' = [pc EXCEPT ![t] = "stwcx"]
  /\ UNCHANGED <<mem, delta, ret>>

\* Fault: a register wider than the word.
LwarxWide(t) ==
  /\ pc[t] = "lwarx"
  /\ val' = [val EXCEPT ![t] = mem + delta[t]]
  /\ resv' = [resv EXCEPT ![t] = TRUE]
  /\ pc' = [pc EXCEPT ![t] = "stwcx"]
  /\ UNCHANGED <<mem, delta, ret>>

\* lwarx and addic.: the register holds the value to store.
Lwarx(t) ==
  /\ pc[t] = "lwarx"
  /\ val' = [val EXCEPT ![t] = (mem + delta[t]) % UINT_VALUES]
  /\ resv' = [resv EXCEPT ![t] = TRUE]
  /\ pc' = [pc EXCEPT ![t] = "stwcx"]
  /\ UNCHANGED <<mem, delta, ret>>

\* Fault: a plain store, as on the "unknown architecture" path.
StwcxAlways(t) ==
  /\ pc[t] = "stwcx"
  /\ mem' = val[t]
  /\ resv' = [u \in Threads |-> FALSE]
  /\ ret' = [ret EXCEPT ![t] = val[t]]
  /\ pc' = [pc EXCEPT ![t] = "idle"]
  /\ delta' = [delta EXCEPT ![t] = 0]
  /\ UNCHANGED val

\* stwcx. and bne-: store and return, or start again.
Stwcx(t) ==
  /\ pc[t] = "stwcx"
  /\ \/ /\ resv[t]
        /\ mem' = val[t]
        /\ resv' = [u \in Threads |-> FALSE]
        /\ ret' = [ret EXCEPT ![t] = val[t]]
        /\ pc' = [pc EXCEPT ![t] = "idle"]
        /\ delta' = [delta EXCEPT ![t] = 0]
     \/ /\ ~resv[t]
        /\ pc' = [pc EXCEPT ![t] = "lwarx"]
        /\ UNCHANGED <<mem, resv, ret, delta>>
  /\ UNCHANGED val

\* External: the processor drops a reservation.
LoseReservation(t) ==
  /\ resv[t]
  /\ resv' = [resv EXCEPT ![t] = FALSE]
  /\ UNCHANGED <<mem, pc, delta, val, ret>>

Next == \E t \in Threads :
          Enter(t) \/ Lwarx(t) \/ Stwcx(t) \/ LoseReservation(t)

Spec == Init /\ [][Next]_vars

-----------------------------------------------------------------------------
TypeOK ==
  /\ mem \in 0..(UINT_VALUES - 1)
  /\ pc \in [Threads -> {"idle", "lwarx", "stwcx"}]
  /\ delta \in [Threads -> {0, 1, -1}]
  /\ val \in [Threads -> 0..(UINT_VALUES - 1)]
  /\ resv \in [Threads -> BOOLEAN]
  /\ ret \in [Threads -> 0..(UINT_VALUES - 1)]

Abstract == INSTANCE AtomicCounter WITH value <- mem, pending <- delta

\* The loop implements the atomic counter of mvp_atomic.h ("Atomically
\* incremente a reference count variable"): every call takes effect once, in
\* one step, and returns the value it stored.
ImplementsAtomicCounter == Abstract!Spec

\* While a thread holds the reservation its register is up to date: that is
\* why the store may be trusted.
ReservationFresh ==
  \A t \in Threads :
    /\ resv[t] => pc[t] = "stwcx"
    /\ resv[t] => val[t] = (mem + delta[t]) % UINT_VALUES
    /\ pc[t] = "idle" <=> delta[t] = 0

IInv == TypeOK /\ ReservationFresh

-----------------------------------------------------------------------------
LEMMA InitInv == Init => IInv
<1>1. 0 \in 0..(UINT_VALUES - 1)
  BY WidthAssumption
<1> QED BY <1>1 DEF Init, IInv, TypeOK, ReservationFresh

LEMMA StepInv == IInv /\ [Next]_vars => IInv'
<1> SUFFICES ASSUME IInv, [Next]_vars PROVE IInv'
  OBVIOUS
<1> USE WidthAssumption
<1>1. ASSUME NEW t \in Threads, Enter(t) PROVE IInv'
  BY <1>1 DEF Enter, IInv, TypeOK, ReservationFresh
<1>2. ASSUME NEW t \in Threads, Lwarx(t) PROVE IInv'
  <2>1. (mem + delta[t]) % UINT_VALUES \in 0..(UINT_VALUES - 1)
    BY DEF IInv, TypeOK
  <2>2. TypeOK'
    BY <1>2, <2>1 DEF Lwarx, IInv, TypeOK
  <2>3. ReservationFresh'
    BY <1>2, <2>1 DEF Lwarx, IInv, TypeOK, ReservationFresh
  <2> QED BY <2>2, <2>3 DEF IInv
<1>3. ASSUME NEW t \in Threads, Stwcx(t) PROVE IInv'
  <2>1. CASE resv[t]
    <3>1. /\ mem' = val[t] /\ resv' = [u \in Threads |-> FALSE]
          /\ ret' = [ret EXCEPT ![t] = val[t]] /\ val' = val
          /\ pc' = [pc EXCEPT ![t] = "idle"]
          /\ delta' = [delta EXCEPT ![t] = 0]
      BY <1>3, <2>1 DEF Stwcx
    <3>2. val[t] \in 0..(UINT_VALUES - 1)
      BY DEF IInv, TypeOK
    <3>3. TypeOK'
      BY <3>1, <3>2 DEF IInv, TypeOK
    <3>4. ReservationFresh'
      BY <3>1 DEF IInv, TypeOK, ReservationFresh
    <3> QED BY <3>3, <3>4 DEF IInv
  <2>2. CASE ~resv[t]
    <3>1. /\ mem' = mem /\ resv' = resv /\ ret' = ret /\ val' = val
          /\ delta' = delta /\ pc' = [pc EXCEPT ![t] = "lwarx"]
          /\ pc[t] = "stwcx"
      BY <1>3, <2>2 DEF Stwcx
    <3>2. TypeOK'
      BY <3>1 DEF IInv, TypeOK
    <3>3. ReservationFresh'
      BY <2>2, <3>1 DEF IInv, TypeOK, ReservationFresh
    <3> QED BY <3>2, <3>3 DEF IInv
  <2> QED BY <2>1, <2>2
<1>4. ASSUME NEW t \in Threads, LoseReservation(t) PROVE IInv'
  BY <1>4 DEF LoseReservation, IInv, TypeOK, ReservationFresh
<1>5. CASE UNCHANGED vars
  BY <1>5 DEF vars, IInv, TypeOK, ReservationFresh
<1> QED BY <1>1, <1>2, <1>3, <1>4, <1>5 DEF Next

\* The counter, the registers and the results stay within the width of the
\* counter: what an increment computes is wrapped before it is stored.
THEOREM TypeCorrect == Spec => []TypeOK
<1>1. IInv => TypeOK
  BY DEF IInv
<1> QED BY <1>1, InitInv, StepInv, PTL DEF Spec

\* A held reservation means an up-to-date register, for any number of threads.
THEOREM ReservationIsFresh == Spec => []ReservationFresh
<1>1. IInv => ReservationFresh
  BY DEF IInv
<1> QED BY <1>1, InitInv, StepInv, PTL DEF Spec

\* The lwarx/stwcx. loop implements the atomic counter, for any number of
\* threads and any width of the counter.
THEOREM Refinement == Spec => ImplementsAtomicCounter
<1>1. Init => Abstract!Init
  BY DEF Init, Abstract!Init
<1>2. IInv /\ [Next]_vars => [Abstract!Next]_(Abstract!vars)
  <2> SUFFICES ASSUME IInv, [Next]_vars
               PROVE  [Abstract!Next]_(Abstract!vars)
    OBVIOUS
  <2> USE DEF Abstract!vars
  <2>1. ASSUME NEW t \in Threads, Enter(t) PROVE Abstract!Next
    <3>1. Abstract!Call(t)
      BY <2>1 DEF Enter, Abstract!Call, IInv, ReservationFresh
    <3> QED BY <3>1 DEF Abstract!Next
  <2>2. ASSUME NEW t \in Threads, Lwarx(t) PROVE UNCHANGED Abstract!vars
    BY <2>2 DEF Lwarx
  <2>3. ASSUME NEW t \in Threads, Stwcx(t)
        PROVE  Abstract!Next \/ UNCHANGED Abstract!vars
    <3>1. CASE resv[t]
      <4>1. Abstract!Apply(t)
        BY <2>3, <3>1 DEF Stwcx, Abstract!Apply, IInv, ReservationFresh
      <4> QED BY <4>1 DEF Abstract!Next
    <3>2. CASE ~resv[t]
      BY <2>3, <3>2 DEF Stwcx
    <3> QED BY <3>1, <3>2
  <2>4. ASSUME NEW t \in Threads, LoseReservation(t)
        PROVE  UNCHANGED Abstract!vars
    BY <2>4 DEF LoseReservation
  <2>5. CASE UNCHANGED vars
    BY <2>5 DEF vars
  <2> QED BY <2>1, <2>2, <2>3, <2>4, <2>5 DEF Next
<1> QED BY <1>1, <1>2, InitInv, StepInv, PTL
        DEF Spec, ImplementsAtomicCounter, Abstract!Spec
=============================================================================
