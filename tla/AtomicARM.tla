------------------------------ MODULE AtomicARM ------------------------------
(***************************************************************************)
(* __mvp_atomic_increment and __mvp_atomic_decrement as they are built for *)
(* ARM: ldr, add, swp, and, when the word had changed in between, a second *)
(* swp that puts the other thread's value back before the loop restarts.   *)
(***************************************************************************)
EXTENDS Integers

CONSTANTS Threads, UINT_VALUES

VARIABLES
  mem,    \* *valp
  pc,     \* "idle", at "ldr", at "swp", or at "swpne"
  delta,  \* 1 or -1: which of the two functions the thread is in
  tmp1,   \* register %0: the value loaded
  tmp2,   \* register %2: the value swp found
  sum     \* ghost: what all the calls that have returned should have added

vars == <<mem, pc, delta, tmp1, tmp2, sum>>

\* The count of a block that many pointers refer to already.
Init == /\ mem = UINT_VALUES \div 2 /\ sum = UINT_VALUES \div 2
        /\ pc = [t \in Threads |-> "idle"]
        /\ delta = [t \in Threads |-> 0]
        /\ tmp1 = [t \in Threads |-> 0]
        /\ tmp2 = [t \in Threads |-> 0]

Enter(t) ==
  /\ pc[t] = "idle"
  /\ \E d \in {1, -1} : delta' = [delta EXCEPT ![t] = d]
  /\ pc' = [pc EXCEPT ![t] = "ldr"]
  /\ UNCHANGED <<mem, tmp1, tmp2, sum>>

Ldr(t) ==
  /\ pc[t] = "ldr"
  /\ tmp1' = [tmp1 EXCEPT ![t] = mem]
  /\ pc' = [pc EXCEPT ![t] = "swp"]
  /\ UNCHANGED <<mem, delta, tmp2, sum>>

\* swp and cmp: the new value is stored whatever the word holds by now.
Swp(t) ==
  /\ pc[t] = "swp"
  /\ tmp2' = [tmp2 EXCEPT ![t] = mem]
  /\ mem' = (tmp1[t] + delta[t]) % UINT_VALUES
  /\ IF mem = tmp1[t]
     THEN /\ pc' = [pc EXCEPT ![t] = "idle"]
          /\ sum' = (sum + delta[t]) % UINT_VALUES
     ELSE /\ pc' = [pc EXCEPT ![t] = "swpne"]
          /\ UNCHANGED sum
  /\ UNCHANGED <<delta, tmp1>>

\* swpne and bne 0b.
SwpNe(t) ==
  /\ pc[t] = "swpne"
  /\ tmp1' = [tmp1 EXCEPT ![t] = mem]
  /\ mem' = tmp2[t]
  /\ pc' = [pc EXCEPT ![t] = "ldr"]
  /\ UNCHANGED <<delta, tmp2, sum>>

Next == \E t \in Threads : Enter(t) \/ Ldr(t) \/ Swp(t) \/ SwpNe(t)

Spec == Init /\ [][Next]_vars

-----------------------------------------------------------------------------
\* mvp_atomic.h: "Atomically incremente a reference count variable."  Once no
\* call is under way the counter is the sum of all the calls.
NoLostUpdate == (\A t \in Threads : pc[t] = "idle") => mem = sum
=============================================================================
