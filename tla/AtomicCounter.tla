---------------------------- MODULE AtomicCounter ----------------------------
(***************************************************************************)
(* What include/mvp_atomic.h promises of __mvp_atomic_increment and of     *)
(* __mvp_atomic_decrement: each call changes the counter once, in one      *)
(* step, and returns the value it gave it.                                 *)
(***************************************************************************)
EXTENDS Integers

CONSTANTS
  Threads,
  UINT_VALUES   \* number of values of an unsigned int

VARIABLES
  value,    \* the counter
  pending,  \* what the call of each thread has still to add: 1, -1, or 0
  ret       \* what the last call of each thread returned

vars == <<value, pending, ret>>

Init == /\ value = 0
        /\ pending = [t \in Threads |-> 0]
        /\ ret = [t \in Threads |-> 0]

Call(t) ==
  /\ pending[t] = 0
  /\ \E d \in {1, -1} : pending' = [pending EXCEPT ![t] = d]
  /\ UNCHANGED <<value, ret>>

Apply(t) ==
  /\ pending[t] # 0
  /\ value' = (value + pending[t]) % UINT_VALUES
  /\ ret' = [ret EXCEPT ![t] = value']
  /\ pending' = [pending EXCEPT ![t] = 0]

Next == \E t \in Threads : Call(t) \/ Apply(t)

Spec == Init /\ [][Next]_vars
=============================================================================
