---------------------------- MODULE MythTVProofs ----------------------------
(***************************************************************************)
(* The invariants of the MythTV client's threads.                          *)
(*                                                                         *)
(* A thread's state is the rest of its program, a sequence of              *)
(* instructions.  The invariant therefore types programs: Typed(t,h,c,K,s) *)
(* says that thread t may run s to its end from any state in which it has  *)
(* locked the mutexes h, has incremented prevent c times and may rely on   *)
(* the facts K, and that every instruction it meets is allowed there.  It  *)
(* is the greatest such relation, the union of the sets that are Closed    *)
(* under steps, so that a program that calls itself can be typed too.      *)
(*                                                                         *)
(* First come sequences, then the rules, then a typing of every function,  *)
(* for whatever follows it, then the steps of the threads, and at last     *)
(* what the invariant says of locks, requests and leaks.                   *)
(***************************************************************************)
EXTENDS MythTV, SequenceTheorems, TLAPS

Opcodes ==
  {"lock", "unlock", "inc", "dec", "set", "clear", "awaitnot", "if", "choose",
   "try", "rpc", "drop", "leak", "hold", "release", "idle", "take", "drain",
   "unlessprevented", "send", "answer"}

\* A program: a sequence of instructions.
IsSeq(s) == \E S : s \in Seq(S)
Program(s) == IsSeq(s) /\ \A j \in 1..Len(s) : s[j][1] \in Opcodes

\* The instructions that have no name of their own.
Idle == <<"idle">>
Hold == <<"hold">>
Release == <<"release">>
Take == <<"take">>
Drain == <<"drain">>
Unless == <<"unlessprevented">>
Send(from) == <<"send", from>>
Answer == <<"answer">>

\* The instruction i, and then the program k.
i ** k == <<i>> \o k

LEMMA SeqJoin ==
  ASSUME NEW p, NEW k, IsSeq(p), IsSeq(k)
  PROVE  /\ IsSeq(p \o k)
         /\ Len(p \o k) = Len(p) + Len(k) /\ Len(p) \in Nat /\ Len(k) \in Nat
         /\ \A j \in 1..Len(p) + Len(k) :
              (p \o k)[j] = IF j <= Len(p) THEN p[j] ELSE k[j - Len(p)]
<1>1. PICK S : p \in Seq(S)
  BY DEF IsSeq
<1>2. PICK T : k \in Seq(T)
  BY DEF IsSeq
<1>3. p \in Seq(S \cup T) /\ k \in Seq(S \cup T)
  BY <1>1, <1>2
<1> QED
  BY <1>3, ConcatProperties DEF IsSeq

LEMMA ProgramJoin ==
  ASSUME NEW p, NEW k, Program(p), Program(k)
  PROVE  Program(p \o k)
BY SeqJoin DEF Program

LEMMA SeqAssociative ==
  ASSUME NEW p, NEW q, NEW k, IsSeq(p), IsSeq(q), IsSeq(k)
  PROVE  (p \o q) \o k = p \o (q \o k)
<1>1. PICK S : p \in Seq(S)
  BY DEF IsSeq
<1>2. PICK T : q \in Seq(T)
  BY DEF IsSeq
<1>3. PICK U : k \in Seq(U)
  BY DEF IsSeq
<1> DEFINE A == S \cup T \cup U
<1>4. p \in Seq(A) /\ q \in Seq(A) /\ k \in Seq(A)
  BY <1>1, <1>2, <1>3
<1> QED
  BY <1>4, ConcatAssociative

\* The same with a name, for Zenon, to which the equation is opaque then.
Associative(p, q, k) == (p \o q) \o k = p \o (q \o k)

LEMMA Regroup ==
  ASSUME NEW p, NEW q, NEW k, IsSeq(p), IsSeq(q), IsSeq(k)
  PROVE  Associative(p, q, k)
BY SeqAssociative DEF Associative

LEMMA SeqEmpty ==
  ASSUME NEW k, IsSeq(k)
  PROVE  <<>> \o k = k /\ k \o <<>> = k
<1>1. PICK S : k \in Seq(S)
  BY DEF IsSeq
<1> QED
  BY <1>1, ConcatEmptySeq

LEMMA SeqFirst ==
  ASSUME NEW i, NEW k, IsSeq(k)
  PROVE  /\ i ** k # <<>> /\ Head(i ** k) = i /\ Tail(i ** k) = k
         /\ IsSeq(i ** k)
<1>1. PICK S : k \in Seq(S)
  BY DEF IsSeq
<1>2. <<i>> \in Seq(S \cup {i}) /\ k \in Seq(S \cup {i})
  BY <1>1
<1>3. <<i>> \o k \in Seq(S \cup {i}) /\ Len(<<i>> \o k) = 1 + Len(k) /\ Len(k) \in Nat
      /\ \A j \in 1..1 + Len(k) : (<<i>> \o k)[j] = IF j <= 1 THEN <<i>>[j] ELSE k[j - 1]
  BY <1>2, ConcatProperties
<1>4. Head(<<i>> \o k) = i /\ <<i>> \o k # <<>>
  BY <1>3
<1>5. Tail(<<i>> \o k) = k
  BY <1>2, <1>3, SMTT(30)
<1> QED
  BY <1>3, <1>4, <1>5 DEF **, IsSeq

LEMMA SeqSplit ==
  ASSUME NEW s, IsSeq(s), s # <<>>
  PROVE  s = Head(s) ** Tail(s) /\ IsSeq(Tail(s))
<1>1. PICK S : s \in Seq(S)
  BY DEF IsSeq
<1> QED
  BY <1>1, HeadTailProperties DEF **, IsSeq

LEMMA Tuple1 == ASSUME NEW a PROVE IsSeq(<<a>>) /\ Len(<<a>>) = 1
BY <<a>> \in Seq({a}) DEF IsSeq

LEMMA TupleStep ==
  ASSUME NEW a, NEW q, NEW k, IsSeq(q), IsSeq(k)
  PROVE  (<<a>> \o q) \o k = a ** (q \o k)
BY Tuple1, SeqAssociative DEF **

LEMMA Tuple2 ==
  ASSUME NEW a, NEW b, NEW k, IsSeq(k)
  PROVE  <<a, b>> \o k = a ** (b ** k) /\ IsSeq(<<a, b>>)
<1> DEFINE S == {a, b}
<1>1. <<a>> \in Seq(S) /\ <<b>> \in Seq(S) /\ <<a, b>> \in Seq(S)
  OBVIOUS
<1>2. Len(<<a>> \o <<b>>) = 2 /\ Len(<<a, b>>) = 2
  BY <1>1, ConcatProperties
<1>3. \A j \in 1..2 : <<a, b>>[j] = (<<a>> \o <<b>>)[j]
  BY <1>1, ConcatProperties
<1>4. <<a, b>> = <<a>> \o <<b>>
  BY <1>1, <1>2, <1>3, ConcatProperties, SeqEqual
<1>5. IsSeq(<<a>>) /\ IsSeq(<<b>>) /\ IsSeq(<<a, b>>)
  BY <1>1 DEF IsSeq
<1> QED
  BY <1>4, <1>5, SeqAssociative DEF **

LEMMA Tuple3 ==
  ASSUME NEW a, NEW b, NEW c, NEW k, IsSeq(k)
  PROVE  <<a, b, c>> \o k = a ** (b ** (c ** k)) /\ IsSeq(<<a, b, c>>)
<1> DEFINE S == {a, b, c}
<1>1. <<a>> \in Seq(S) /\ <<b, c>> \in Seq(S) /\ <<a, b, c>> \in Seq(S)
  OBVIOUS
<1>2. Len(<<a>> \o <<b, c>>) = 3 /\ Len(<<a, b, c>>) = 3
  BY <1>1, ConcatProperties
<1>3. \A j \in 1..3 : <<a, b, c>>[j] = (<<a>> \o <<b, c>>)[j]
  BY <1>1, ConcatProperties
<1>4. <<a, b, c>> = <<a>> \o <<b, c>>
  BY <1>1, <1>2, <1>3, ConcatProperties, SeqEqual
<1>5. IsSeq(<<a>>) /\ IsSeq(<<b, c>>) /\ IsSeq(<<a, b, c>>)
  BY <1>1 DEF IsSeq
<1>6. <<a, b, c>> \o k = a ** (<<b, c>> \o k)
  <2> DEFINE p == <<a, b, c>>
             q == <<b, c>>
  <2>1. p = <<a>> \o q /\ IsSeq(q)
    BY <1>4, <1>5
  <2> HIDE DEF p, q
  <2>2. (<<a>> \o q) \o k = a ** (q \o k)
    BY <2>1, TupleStep
  <2>3. p \o k = a ** (q \o k)
    BY <2>1, <2>2, Zenon
  <2> QED
    BY <2>3 DEF p, q
<1>7. <<b, c>> \o k = b ** (c ** k)
  BY Tuple2
<1> QED
  BY <1>5, <1>6, <1>7

LEMMA Tuple4 ==
  ASSUME NEW a, NEW b, NEW c, NEW d, NEW k, IsSeq(k)
  PROVE  <<a, b, c, d>> \o k = a ** (b ** (c ** (d ** k))) /\ IsSeq(<<a, b, c, d>>)
<1> DEFINE S == {a, b, c, d}
<1>1. <<a>> \in Seq(S) /\ <<b, c, d>> \in Seq(S) /\ <<a, b, c, d>> \in Seq(S)
  OBVIOUS
<1>2. Len(<<a>> \o <<b, c, d>>) = 4 /\ Len(<<a, b, c, d>>) = 4
  BY <1>1, ConcatProperties
<1>3. \A j \in 1..4 : <<a, b, c, d>>[j] = (<<a>> \o <<b, c, d>>)[j]
  BY <1>1, ConcatProperties
<1>4. <<a, b, c, d>> = <<a>> \o <<b, c, d>>
  BY <1>1, <1>2, <1>3, ConcatProperties, SeqEqual
<1>5. IsSeq(<<a>>) /\ IsSeq(<<b, c, d>>) /\ IsSeq(<<a, b, c, d>>)
  BY <1>1 DEF IsSeq
<1>6. <<a, b, c, d>> \o k = a ** (<<b, c, d>> \o k)
  <2> DEFINE p == <<a, b, c, d>>
             q == <<b, c, d>>
  <2>1. p = <<a>> \o q /\ IsSeq(q)
    BY <1>4, <1>5
  <2> HIDE DEF p, q
  <2>2. (<<a>> \o q) \o k = a ** (q \o k)
    BY <2>1, TupleStep
  <2>3. p \o k = a ** (q \o k)
    BY <2>1, <2>2, Zenon
  <2> QED
    BY <2>3 DEF p, q
<1>7. <<b, c, d>> \o k = b ** (c ** (d ** k))
  BY Tuple3
<1> QED
  BY <1>5, <1>6, <1>7

LEMMA Tuple5 ==
  ASSUME NEW a, NEW b, NEW c, NEW d, NEW e, NEW k, IsSeq(k)
  PROVE  <<a, b, c, d, e>> \o k = a ** (b ** (c ** (d ** (e ** k)))) /\ IsSeq(<<a, b, c, d, e>>)
<1> DEFINE S == {a, b, c, d, e}
<1>1. <<a>> \in Seq(S) /\ <<b, c, d, e>> \in Seq(S) /\ <<a, b, c, d, e>> \in Seq(S)
  OBVIOUS
<1>2. Len(<<a>> \o <<b, c, d, e>>) = 5 /\ Len(<<a, b, c, d, e>>) = 5
  BY <1>1, ConcatProperties
<1>3. \A j \in 1..5 : <<a, b, c, d, e>>[j] = (<<a>> \o <<b, c, d, e>>)[j]
  BY <1>1, ConcatProperties
<1>4. <<a, b, c, d, e>> = <<a>> \o <<b, c, d, e>>
  BY <1>1, <1>2, <1>3, ConcatProperties, SeqEqual
<1>5. IsSeq(<<a>>) /\ IsSeq(<<b, c, d, e>>) /\ IsSeq(<<a, b, c, d, e>>)
  BY <1>1 DEF IsSeq
<1>6. <<a, b, c, d, e>> \o k = a ** (<<b, c, d, e>> \o k)
  <2> DEFINE p == <<a, b, c, d, e>>
             q == <<b, c, d, e>>
  <2>1. p = <<a>> \o q /\ IsSeq(q)
    BY <1>4, <1>5
  <2> HIDE DEF p, q
  <2>2. (<<a>> \o q) \o k = a ** (q \o k)
    BY <2>1, TupleStep
  <2>3. p \o k = a ** (q \o k)
    BY <2>1, <2>2, Zenon
  <2> QED
    BY <2>3 DEF p, q
<1>7. <<b, c, d, e>> \o k = b ** (c ** (d ** (e ** k)))
  BY Tuple4
<1> QED
  BY <1>5, <1>6, <1>7

LEMMA Tuple6 ==
  ASSUME NEW a, NEW b, NEW c, NEW d, NEW e, NEW f, NEW k, IsSeq(k)
  PROVE  <<a, b, c, d, e, f>> \o k = a ** (b ** (c ** (d ** (e ** (f ** k))))) /\ IsSeq(<<a, b, c, d, e, f>>)
<1> DEFINE S == {a, b, c, d, e, f}
<1>1. <<a>> \in Seq(S) /\ <<b, c, d, e, f>> \in Seq(S) /\ <<a, b, c, d, e, f>> \in Seq(S)
  OBVIOUS
<1>2. Len(<<a>> \o <<b, c, d, e, f>>) = 6 /\ Len(<<a, b, c, d, e, f>>) = 6
  BY <1>1, ConcatProperties
<1>3. \A j \in 1..6 : <<a, b, c, d, e, f>>[j] = (<<a>> \o <<b, c, d, e, f>>)[j]
  BY <1>1, ConcatProperties
<1>4. <<a, b, c, d, e, f>> = <<a>> \o <<b, c, d, e, f>>
  BY <1>1, <1>2, <1>3, ConcatProperties, SeqEqual
<1>5. IsSeq(<<a>>) /\ IsSeq(<<b, c, d, e, f>>) /\ IsSeq(<<a, b, c, d, e, f>>)
  BY <1>1 DEF IsSeq
<1>6. <<a, b, c, d, e, f>> \o k = a ** (<<b, c, d, e, f>> \o k)
  <2> DEFINE p == <<a, b, c, d, e, f>>
             q == <<b, c, d, e, f>>
  <2>1. p = <<a>> \o q /\ IsSeq(q)
    BY <1>4, <1>5
  <2> HIDE DEF p, q
  <2>2. (<<a>> \o q) \o k = a ** (q \o k)
    BY <2>1, TupleStep
  <2>3. p \o k = a ** (q \o k)
    BY <2>1, <2>2, Zenon
  <2> QED
    BY <2>3 DEF p, q
<1>7. <<b, c, d, e, f>> \o k = b ** (c ** (d ** (e ** (f ** k))))
  BY Tuple5
<1> QED
  BY <1>5, <1>6, <1>7

LEMMA Tuple7 ==
  ASSUME NEW a, NEW b, NEW c, NEW d, NEW e, NEW f, NEW g, NEW k, IsSeq(k)
  PROVE  <<a, b, c, d, e, f, g>> \o k = a ** (b ** (c ** (d ** (e ** (f ** (g ** k)))))) /\ IsSeq(<<a, b, c, d, e, f, g>>)
<1> DEFINE S == {a, b, c, d, e, f, g}
<1>1. <<a>> \in Seq(S) /\ <<b, c, d, e, f, g>> \in Seq(S) /\ <<a, b, c, d, e, f, g>> \in Seq(S)
  OBVIOUS
<1>2. Len(<<a>> \o <<b, c, d, e, f, g>>) = 7 /\ Len(<<a, b, c, d, e, f, g>>) = 7
  BY <1>1, ConcatProperties
<1>3. \A j \in 1..7 : <<a, b, c, d, e, f, g>>[j] = (<<a>> \o <<b, c, d, e, f, g>>)[j]
  BY <1>1, ConcatProperties
<1>4. <<a, b, c, d, e, f, g>> = <<a>> \o <<b, c, d, e, f, g>>
  BY <1>1, <1>2, <1>3, ConcatProperties, SeqEqual
<1>5. IsSeq(<<a>>) /\ IsSeq(<<b, c, d, e, f, g>>) /\ IsSeq(<<a, b, c, d, e, f, g>>)
  BY <1>1 DEF IsSeq
<1>6. <<a, b, c, d, e, f, g>> \o k = a ** (<<b, c, d, e, f, g>> \o k)
  <2> DEFINE p == <<a, b, c, d, e, f, g>>
             q == <<b, c, d, e, f, g>>
  <2>1. p = <<a>> \o q /\ IsSeq(q)
    BY <1>4, <1>5
  <2> HIDE DEF p, q
  <2>2. (<<a>> \o q) \o k = a ** (q \o k)
    BY <2>1, TupleStep
  <2>3. p \o k = a ** (q \o k)
    BY <2>1, <2>2, Zenon
  <2> QED
    BY <2>3 DEF p, q
<1>7. <<b, c, d, e, f, g>> \o k = b ** (c ** (d ** (e ** (f ** (g ** k)))))
  BY Tuple6
<1> QED
  BY <1>5, <1>6, <1>7

-----------------------------------------------------------------------------
(* What a thread may do.  Its abstract state is the mutexes h it has        *)
(* locked, how often c it has incremented prevent, and a set K of what it   *)
(* may rely on:                                                             *)
(*   leaked, lost, exiting, exited, jumping, reopen: that is the case;      *)
(*   livetv: so are exiting and livetv, and it has locked myth_mutex;       *)
(*   asked: what the control thread has asked for is open, or lost;         *)
(*   chain: live TV is a chain of files;                                    *)
(*   holds: the read thread may hold a reference, it does not without;      *)
(*   marked: it has set closing, nobody has cleared it, or lost;            *)
(*   destroys: the read thread has released the last reference to a file    *)
(*   that another thread has dropped.                                       *)

Facts == {"leaked", "lost", "exiting", "exited", "jumping", "reopen", "livetv",
          "asked", "chain", "holds", "marked", "destroys"}

Bound(t) == CASE t = "control" -> 0 [] t = "read" -> 2 [] OTHER -> 1

\* Who may rely on what.
Relies(t, h, K) ==
  /\ K \subseteq Facts /\ h \subseteq Mutexes
  /\ {"jumping", "reopen"} \cap K # {} => t = "read"
  /\ "destroys" \in K => t = "read" /\ "holds" \notin K
  /\ "marked" \in K => t # "control" /\ "block" \in h
  /\ "seek" \in h => t = "read" \/ (t = "gui" /\ "exiting" \in K)
  /\ "chain" \in K => t = "control"
  /\ "asked" \in K => t = "control" /\ "block" \in h
  /\ "livetv" \in K => t = "gui" /\ "myth" \in h /\ "exiting" \in K
  /\ "exited" \in K => t = "gui" /\ "exiting" \in K

\* Nothing more to do: what a function that returns leaves behind.
Returned(t, h, c, K) ==
  /\ K \subseteq {"leaked", "exiting", "exited", "reopen"}
  /\ \/ h = {} /\ c = 0 
     \/ t = "read" /\ "leaked" \in K /\ h = {"seek", "block"} /\ c = 1
     \/ t = "gui" /\ "leaked" \in K /\ h = {"myth"} /\ c = 0
     \/ t = "gui" /\ "exited" \in K

\* A thread that has locked a mutex waits for itself.
Stuck(K) == {"leaked", "livetv", "chain"} \cap K # {}

\* The read thread does something else than to read.
Otherwise(K) == {"leaked", "jumping", "reopen"} \cap K # {}

MayLock(t, h, K, m) ==
  /\ m \in Mutexes
  /\ m \notin h => "cmyth" \notin h
  /\ t = "control" /\ m # "cmyth" => h = {}
  /\ t = "read" /\ ~Otherwise(K) => \/ m = "seek" /\ h = {}
                                    \/ m = "cmyth" /\ "destroys" \in K

MayAwait(t, h, K, f) ==
  /\ "cmyth" \notin h /\ "marked" \notin K
  /\ t = "read" => Otherwise(K)
  /\ f = "closing" => t \in {"gui", "read"}
  /\ f = "reading" => t = "gui" /\ (h = {} \/ "leaked" \in K)

\* Who may give up mythtv_file and mythtv_recorder.
MayDrop(t, h, K) == ("block" \in h /\ t # "control") \/ "lost" \in K

MayClear(t, h, K, f) ==
  /\ f \notin {"file", "lost", "exiting", "exited"}
  /\ f = "recorder" => MayDrop(t, h, K)
  /\ f = "livetv" => t = "gui" \/ (t = "event" /\ "myth" \in h)
  /\ f \in {"jumping", "reopen"} => t = "read"
  /\ f = "closing" => /\ "marked" \notin K
                      /\ "block" \in h \/ {"lost", "destroys"} \cap K # {}

\* What a thread learns from the flag f, when it sets it and when it sees it.
LearntSet(f) == IF f = "closing" THEN {"marked"} ELSE {f} \cap {"lost", "exiting", "exited"}
LearntIf(t, h, K, f) ==
  IF f = "livetv" /\ t = "gui" /\ "exiting" \in K /\ "myth" \in h
    THEN {"livetv"} ELSE {}
Forgotten(f) ==
  CASE f = "recorder" -> {"lost"} [] f = "closing" -> {"destroys"}
    [] OTHER -> {f} \cap {"jumping", "reopen", "livetv"}

\* cmyth_livetv_chain_request_block.
RequestChain == <<Lock("cmyth")>> \o request_block("recorder") \o <<Unlock("cmyth")>>

\* A thread in that state may execute the instruction i, and what remains, k
\* or another program, is in P with the state in which it finds it.
Allowed(t, P, h, c, K, i, k) ==
  /\ i[1] = "lock" =>
       /\ MayLock(t, h, K, i[2])
       /\ IF i[2] \in h THEN Stuck(K) ELSE <<h \cup {i[2]}, c, K, k>> \in P
  /\ i[1] = "unlock" => i[2] \in h /\ <<h \ {i[2]}, c, K, k>> \in P
  /\ i[1] = "inc" => c + 1 <= Bound(t) /\ <<h, c + 1, K, k>> \in P
  /\ i[1] = "dec" => c > 0 /\ <<h, c - 1, K, k>> \in P
  /\ i[1] = "set" =>
       /\ i[2] \in Flags /\ <<h, c, K \cup LearntSet(i[2]), k>> \in P
  /\ i[1] = "clear" =>
       MayClear(t, h, K, i[2]) /\ <<h, c, K \ Forgotten(i[2]), k>> \in P
  /\ i[1] = "awaitnot" => MayAwait(t, h, K, i[2]) /\ <<h, c, K, k>> \in P
  /\ i[1] = "if" => /\ <<h, c, K \cup LearntIf(t, h, K, i[2]), i[3] \o k>> \in P
                    /\ <<h, c, K, i[4] \o k>> \in P
  /\ i[1] = "choose" => <<h, c, K, i[2] \o k>> \in P /\ <<h, c, K, i[3] \o k>> \in P
  /\ i[1] = "try" => <<h, c, K, i[3] \o k>> \in P /\ <<h, c, K, i[4] \o k>> \in P
  /\ i[1] = "rpc" => /\ "cmyth" \notin h \/ "jumping" \in K
                     /\ t = "read" => Otherwise(K)
                     /\ <<h, c, K, k>> \in P
  /\ i[1] = "drop" =>
       /\ "lost" \in K \/ ("marked" \in K /\ k # <<>> /\ Head(k) = AwaitNot("closing"))
       /\ <<h, c, K \ {"marked"}, k>> \in P
       /\ <<h, c, K \ {"marked"}, cmyth_file_destroy \o k>> \in P
  /\ i[1] = "leak" => <<h, c, K \cup {"leaked"}, k>> \in P
  /\ i[1] = "hold" => t = "read" /\ <<h, c, K \cup {"holds"}, k>> \in P
  /\ i[1] = "release" => /\ t = "read" /\ <<h, c, K \ {"holds"}, k>> \in P
                         /\ <<h, c, (K \ {"holds"}) \cup {"destroys"},
                              cmyth_file_destroy \o k>> \in P
  /\ i[1] \in {"idle", "take", "send"} => <<h, c, K, k>> \in P
  /\ i[1] = "send" => i[2] \in {"file", "recorder"}
  /\ i[1] = "drain" => "jumping" \in K /\ <<h, c, K, k>> \in P
  /\ i[1] = "unlessprevented" =>
       /\ <<h, c, K, k>> \in P
       /\ <<h, c, K \cup {"asked"}, request_block("file") \o k>> \in P
       /\ <<h, c, K \cup {"asked"}, request_block("recorder") \o k>> \in P
       /\ <<h, c, K \cup {"asked", "chain"}, RequestChain \o k>> \in P
  /\ i[1] = "answer" =>
       /\ "asked" \in K /\ "cmyth" \in h
       /\ \A after \in {<<>>, <<Clear("reading")>>,
                        <<Clear("reading")>> \o mythtv_shutdown} :
            <<h \ {"cmyth"}, c, K \ {"asked"}, k \o after>> \in P

Good(t, P, h, c, K, s) ==
  /\ Program(s) /\ Relies(t, h, K) /\ c \in 0..Bound(t)
  /\ s = <<>> => Returned(t, h, c, K)
  /\ s # <<>> => Allowed(t, P, h, c, K, Head(s), Tail(s))

Closed(t, P) ==
  \A h, c, K, s : <<h, c, K, s>> \in P => Good(t, P, h, c, K, s)

\* Thread t, in that state, may execute the program s.
Typed(t, h, c, K, s) == \E P : Closed(t, P) /\ <<h, c, K, s>> \in P

LEMMA AllowedMonotone ==
  ASSUME NEW t, NEW P, NEW Q, NEW h, NEW c, NEW K, NEW i, NEW k,
         Allowed(t, P, h, c, K, i, k), P \subseteq Q
  PROVE  Allowed(t, Q, h, c, K, i, k)
BY DEF Allowed

LEMMA GoodMonotone ==
  ASSUME NEW t, NEW P, NEW Q, NEW h, NEW c, NEW K, NEW s,
         Good(t, P, h, c, K, s), P \subseteq Q
  PROVE  Good(t, Q, h, c, K, s)
BY AllowedMonotone DEF Good

LEMMA ClosedUnion ==
  ASSUME NEW t, NEW P, NEW Q, Closed(t, P), Closed(t, Q)
  PROVE  Closed(t, P \cup Q)
<1> SUFFICES ASSUME NEW h, NEW c, NEW K, NEW s, <<h, c, K, s>> \in P \cup Q
             PROVE  Good(t, P \cup Q, h, c, K, s)
  BY DEF Closed
<1>1. CASE <<h, c, K, s>> \in P
  <2>1. Good(t, P, h, c, K, s)
    BY <1>1 DEF Closed
  <2> QED
    BY <2>1, GoodMonotone
<1>2. CASE <<h, c, K, s>> \in Q
  <2>1. Good(t, Q, h, c, K, s)
    BY <1>2 DEF Closed
  <2> QED
    BY <2>1, GoodMonotone
<1> QED
  BY <1>1, <1>2

LEMMA TypedGood ==
  ASSUME NEW t, NEW h, NEW c, NEW K, NEW s, Typed(t, h, c, K, s)
  PROVE  Program(s) /\ IsSeq(s) /\ Relies(t, h, K) /\ c \in 0..Bound(t)
BY DEF Typed, Closed, Good, Program

LEMMA TypedBoth ==
  ASSUME NEW t, NEW h, NEW c, NEW K, NEW s, NEW hh, NEW cc, NEW KK, NEW ss,
         Typed(t, h, c, K, s), Typed(t, hh, cc, KK, ss)
  PROVE  \E P : Closed(t, P) /\ <<h, c, K, s>> \in P /\ <<hh, cc, KK, ss>> \in P
<1>1. PICK P : Closed(t, P) /\ <<h, c, K, s>> \in P
  BY DEF Typed
<1>2. PICK Q : Closed(t, Q) /\ <<hh, cc, KK, ss>> \in Q
  BY DEF Typed
<1>3. Closed(t, P \cup Q)
  BY <1>1, <1>2, ClosedUnion
<1> QED
  BY <1>1, <1>2, <1>3

LEMMA TypedIntro ==
  ASSUME NEW t, NEW P, NEW h, NEW c, NEW K, NEW s, Closed(t, P), Good(t, P, h, c, K, s)
  PROVE  Typed(t, h, c, K, s)
<1> DEFINE Q == P \cup {<<h, c, K, s>>}
<1>1. ASSUME NEW hh, NEW cc, NEW KK, NEW ss, <<hh, cc, KK, ss>> \in Q
      PROVE  Good(t, Q, hh, cc, KK, ss)
  <2>1. CASE <<hh, cc, KK, ss>> \in P
    <3>1. Good(t, P, hh, cc, KK, ss)
      BY <2>1 DEF Closed
    <3> QED
      BY <3>1, GoodMonotone
  <2>2. CASE <<hh, cc, KK, ss>> = <<h, c, K, s>>
    <3>1. hh = h /\ cc = c /\ KK = K /\ ss = s
      BY <2>2
    <3>2. Good(t, Q, h, c, K, s)
      BY GoodMonotone
    <3> QED
      BY <3>1, <3>2, Zenon
  <2> QED
    BY <1>1, <2>1, <2>2
<1>2. Closed(t, Q)
  BY <1>1 DEF Closed
<1> QED
  BY <1>2 DEF Typed

\* A program of one instruction more.
LEMMA TypedStep ==
  ASSUME NEW t, NEW P, NEW h, NEW c, NEW K, NEW i, NEW k, Closed(t, P),
         Program(k), i[1] \in Opcodes, Relies(t, h, K), c \in 0..Bound(t),
         Allowed(t, P, h, c, K, i, k)
  PROVE  Typed(t, h, c, K, i ** k)
<1>1. i ** k # <<>> /\ Head(i ** k) = i /\ Tail(i ** k) = k
  BY SeqFirst DEF Program
<1>2. Program(<<i>>)
  BY Tuple1 DEF Program
<1>3. Program(i ** k)
  BY <1>2, ProgramJoin DEF **
<1>4. Good(t, P, h, c, K, i ** k)
  BY <1>1, <1>3 DEF Good
<1> QED
  BY <1>4, TypedIntro

\* Nothing is left to do.
LEMMA TypedEnd ==
  ASSUME NEW t, NEW h, NEW c, NEW K, Relies(t, h, K), c \in 0..Bound(t),
         Returned(t, h, c, K)
  PROVE  Typed(t, h, c, K, <<>>)
<1>1. Program(<<>>)
  BY <<>> \in Seq({}) DEF Program, IsSeq
<1>2. Good(t, {}, h, c, K, <<>>)
  BY <1>1 DEF Good
<1>3. Closed(t, {})
  BY DEF Closed
<1> QED
  BY <1>2, <1>3, TypedIntro

-----------------------------------------------------------------------------
(* One rule for each instruction.                                           *)

LEMMA RuleLock ==
  ASSUME NEW t, NEW h, NEW c, NEW K, NEW k, NEW m, m \notin h, MayLock(t, h, K, m),
         Relies(t, h, K), Typed(t, h \cup {m}, c, K, k)
  PROVE  Typed(t, h, c, K, Lock(m) ** k)
<1>1. PICK P : Closed(t, P) /\ <<h \cup {m}, c, K, k>> \in P
  BY DEF Typed
<1>2. Allowed(t, P, h, c, K, Lock(m), k) /\ Lock(m)[1] \in Opcodes
  BY <1>1 DEF Allowed, Lock, Opcodes
<1> QED
  BY <1>1, <1>2, TypedGood, TypedStep

\* A mutex that the thread itself has locked: it waits for good.
LEMMA RuleStuck ==
  ASSUME NEW t, NEW h, NEW c, NEW K, NEW k, NEW m, m \in h, MayLock(t, h, K, m),
         Relies(t, h, K), Stuck(K), c \in 0..Bound(t), Program(k)
  PROVE  Typed(t, h, c, K, Lock(m) ** k)
<1>1. Closed(t, {})
  BY DEF Closed
<1>2. Allowed(t, {}, h, c, K, Lock(m), k) /\ Lock(m)[1] \in Opcodes
  BY <1>1 DEF Allowed, Lock, Opcodes
<1> QED
  BY <1>1, <1>2, TypedStep

LEMMA RuleUnlock ==
  ASSUME NEW t, NEW h, NEW c, NEW K, NEW k, NEW m \in Mutexes, m \notin h,
         m = "seek" => t = "read" \/ (t = "gui" /\ "exiting" \in K),
         Typed(t, h, c, K, k)
  PROVE  Typed(t, h \cup {m}, c, K, Unlock(m) ** k)
<1>1. PICK P : Closed(t, P) /\ <<h, c, K, k>> \in P
  BY DEF Typed
<1>2. (h \cup {m}) \ {m} = h
  OBVIOUS
<1>3. Allowed(t, P, h \cup {m}, c, K, Unlock(m), k) /\ Unlock(m)[1] \in Opcodes
  BY <1>1, <1>2 DEF Allowed, Unlock, Opcodes
<1>4. Relies(t, h \cup {m}, K)
  BY TypedGood DEF Relies
<1> QED
  BY <1>1, <1>3, <1>4, TypedGood, TypedStep

LEMMA RuleInc ==
  ASSUME NEW t, NEW h, NEW c, NEW K, NEW k, c \in 0..Bound(t), c < Bound(t),
         Typed(t, h, c + 1, K, k)
  PROVE  Typed(t, h, c, K, Inc ** k)
<1>1. PICK P : Closed(t, P) /\ <<h, c + 1, K, k>> \in P
  BY DEF Typed
<1>2. Bound(t) \in Nat
  BY DEF Bound
<1>3. Allowed(t, P, h, c, K, Inc, k) /\ Inc[1] \in Opcodes
  BY <1>1, <1>2 DEF Allowed, Inc, Opcodes
<1> QED
  BY <1>1, <1>3, TypedGood, TypedStep

LEMMA RuleDec ==
  ASSUME NEW t, NEW h, NEW c, NEW K, NEW k, c \in 0..Bound(t), c < Bound(t),
         Typed(t, h, c, K, k)
  PROVE  Typed(t, h, c + 1, K, Dec ** k)
<1>1. PICK P : Closed(t, P) /\ <<h, c, K, k>> \in P
  BY DEF Typed
<1>2. Bound(t) \in Nat
  BY DEF Bound
<1>3. c + 1 \in 0..Bound(t) /\ c + 1 > 0 /\ (c + 1) - 1 = c
  BY <1>2
<1>4. Allowed(t, P, h, c + 1, K, Dec, k) /\ Dec[1] \in Opcodes
  BY <1>1, <1>3 DEF Allowed, Dec, Opcodes
<1> QED
  BY <1>1, <1>3, <1>4, TypedGood, TypedStep

\* The flags that say nothing to the thread.
LEMMA RuleSet ==
  ASSUME NEW t, NEW h, NEW c, NEW K, NEW k,
         NEW f \in Flags \ {"lost", "exiting", "exited", "closing"}, Typed(t, h, c, K, k)
  PROVE  Typed(t, h, c, K, Set(f) ** k)
<1>1. PICK P : Closed(t, P) /\ <<h, c, K, k>> \in P
  BY DEF Typed
<1>2. K \cup LearntSet(f) = K
  BY DEF LearntSet
<1>3. Allowed(t, P, h, c, K, Set(f), k) /\ Set(f)[1] \in Opcodes
  BY <1>1, <1>2 DEF Allowed, Set, Opcodes
<1> QED
  BY <1>1, <1>3, TypedGood, TypedStep

LEMMA RuleSetLearn ==
  ASSUME NEW t, NEW h, NEW c, NEW K, NEW k, NEW f \in {"lost", "exiting", "exited"},
         Relies(t, h, K), Typed(t, h, c, K \cup {f}, k)
  PROVE  Typed(t, h, c, K, Set(f) ** k)
<1>1. PICK P : Closed(t, P) /\ <<h, c, K \cup {f}, k>> \in P
  BY DEF Typed
<1>2. LearntSet(f) = {f} /\ f \in Flags
  BY DEF LearntSet, Flags
<1>3. Allowed(t, P, h, c, K, Set(f), k) /\ Set(f)[1] \in Opcodes
  BY <1>1, <1>2 DEF Allowed, Set, Opcodes
<1> QED
  BY <1>1, <1>3, TypedGood, TypedStep

LEMMA RuleSetClosing ==
  ASSUME NEW t, NEW h, NEW c, NEW K, NEW k, Relies(t, h, K),
         Typed(t, h, c, K \cup {"marked"}, k)
  PROVE  Typed(t, h, c, K, Set("closing") ** k)
<1>1. PICK P : Closed(t, P) /\ <<h, c, K \cup {"marked"}, k>> \in P
  BY DEF Typed
<1>2. LearntSet("closing") = {"marked"} /\ "closing" \in Flags
  BY DEF LearntSet, Flags
<1>3. Allowed(t, P, h, c, K, Set("closing"), k) /\ Set("closing")[1] \in Opcodes
  BY <1>1, <1>2 DEF Allowed, Set, Opcodes
<1> QED
  BY <1>1, <1>3, TypedGood, TypedStep

LEMMA RuleClear ==
  ASSUME NEW t, NEW h, NEW c, NEW K, NEW k, NEW f, f \notin K,
         f = "recorder" => "lost" \notin K, f = "closing" => "destroys" \notin K,
         MayClear(t, h, K, f), Typed(t, h, c, K, k)
  PROVE  Typed(t, h, c, K, Clear(f) ** k)
<1>1. PICK P : Closed(t, P) /\ <<h, c, K, k>> \in P
  BY DEF Typed
<1>2. K \ Forgotten(f) = K
  BY DEF Forgotten
<1>3. Allowed(t, P, h, c, K, Clear(f), k) /\ Clear(f)[1] \in Opcodes
  BY <1>1, <1>2 DEF Allowed, Clear, Opcodes
<1> QED
  BY <1>1, <1>3, TypedGood, TypedStep

LEMMA RuleClearRecorder ==
  ASSUME NEW t, NEW h, NEW c, NEW K, NEW k, "lost" \notin K, Typed(t, h, c, K, k)
  PROVE  Typed(t, h, c, K \cup {"lost"}, Clear("recorder") ** k)
<1>1. PICK P : Closed(t, P) /\ <<h, c, K, k>> \in P
  BY DEF Typed
<1>2. (K \cup {"lost"}) \ Forgotten("recorder") = K
  BY DEF Forgotten
<1>3. MayClear(t, h, K \cup {"lost"}, "recorder")
  BY DEF MayClear, MayDrop
<1>4. Allowed(t, P, h, c, K \cup {"lost"}, Clear("recorder"), k)
      /\ Clear("recorder")[1] \in Opcodes
  BY <1>1, <1>2, <1>3 DEF Allowed, Clear, Opcodes
<1>5. Relies(t, h, K \cup {"lost"})
  BY TypedGood DEF Relies, Facts
<1> QED
  BY <1>1, <1>4, <1>5, TypedGood, TypedStep

LEMMA RuleClearOwn ==
  ASSUME NEW h, NEW c, NEW K, NEW k, NEW f \in {"jumping", "reopen"}, f \notin K,
         Typed("read", h, c, K, k)
  PROVE  Typed("read", h, c, K \cup {f}, Clear(f) ** k)
<1>1. PICK P : Closed("read", P) /\ <<h, c, K, k>> \in P
  BY DEF Typed
<1>2. (K \cup {f}) \ Forgotten(f) = K
  BY DEF Forgotten
<1>3. MayClear("read", h, K \cup {f}, f)
  BY DEF MayClear
<1>4. Allowed("read", P, h, c, K \cup {f}, Clear(f), k) /\ Clear(f)[1] \in Opcodes
  BY <1>1, <1>2, <1>3 DEF Allowed, Clear, Opcodes
<1>5. Relies("read", h, K \cup {f})
  BY TypedGood DEF Relies, Facts
<1> QED
  BY <1>1, <1>4, <1>5, TypedGood, TypedStep

LEMMA RuleAwaitNot ==
  ASSUME NEW t, NEW h, NEW c, NEW K, NEW k, NEW f, MayAwait(t, h, K, f),
         Typed(t, h, c, K, k)
  PROVE  Typed(t, h, c, K, AwaitNot(f) ** k)
<1>1. PICK P : Closed(t, P) /\ <<h, c, K, k>> \in P
  BY DEF Typed
<1>2. Allowed(t, P, h, c, K, AwaitNot(f), k) /\ AwaitNot(f)[1] \in Opcodes
  BY <1>1 DEF Allowed, AwaitNot, Opcodes
<1> QED
  BY <1>1, <1>2, TypedGood, TypedStep

LEMMA RuleIf ==
  ASSUME NEW t, NEW h, NEW c, NEW K, NEW k, NEW f, NEW p, NEW q, Program(k),
         f = "livetv" => "exiting" \notin K,
         Typed(t, h, c, K, p \o k), Typed(t, h, c, K, q \o k)
  PROVE  Typed(t, h, c, K, If(f, p, q) ** k)
<1>1. PICK P : Closed(t, P) /\ <<h, c, K, p \o k>> \in P /\ <<h, c, K, q \o k>> \in P
  BY TypedBoth
<1>2. K \cup LearntIf(t, h, K, f) = K
  BY DEF LearntIf
<1>3. Allowed(t, P, h, c, K, If(f, p, q), k) /\ If(f, p, q)[1] \in Opcodes
  BY <1>1, <1>2 DEF Allowed, If, Opcodes
<1> QED
  BY <1>1, <1>3, TypedGood, TypedStep

\* mythtv_atexit, with myth_mutex locked, finds live TV on.
LEMMA RuleIfExiting ==
  ASSUME NEW h, NEW c, NEW K, NEW k, NEW p, NEW q, Program(k),
         "exiting" \in K, "myth" \in h,
         Typed("gui", h, c, K \cup {"livetv"}, p \o k), Typed("gui", h, c, K, q \o k)
  PROVE  Typed("gui", h, c, K, If("livetv", p, q) ** k)
<1>1. PICK P : Closed("gui", P) /\ <<h, c, K \cup {"livetv"}, p \o k>> \in P
                                /\ <<h, c, K, q \o k>> \in P
  BY TypedBoth
<1>2. LearntIf("gui", h, K, "livetv") = {"livetv"}
  BY DEF LearntIf
<1>3. Allowed("gui", P, h, c, K, If("livetv", p, q), k)
      /\ If("livetv", p, q)[1] \in Opcodes
  BY <1>1, <1>2 DEF Allowed, If, Opcodes
<1> QED
  BY <1>1, <1>3, TypedGood, TypedStep

LEMMA RuleChoose ==
  ASSUME NEW t, NEW h, NEW c, NEW K, NEW k, NEW p, NEW q, Program(k),
         Typed(t, h, c, K, p \o k), Typed(t, h, c, K, q \o k)
  PROVE  Typed(t, h, c, K, Choose(p, q) ** k)
<1>1. PICK P : Closed(t, P) /\ <<h, c, K, p \o k>> \in P /\ <<h, c, K, q \o k>> \in P
  BY TypedBoth
<1>2. Allowed(t, P, h, c, K, Choose(p, q), k) /\ Choose(p, q)[1] \in Opcodes
  BY <1>1 DEF Allowed, Choose, Opcodes
<1> QED
  BY <1>1, <1>2, TypedGood, TypedStep

LEMMA RuleTry ==
  ASSUME NEW t, NEW h, NEW c, NEW K, NEW k, NEW f, NEW p, NEW q, Program(k),
         Typed(t, h, c, K, p \o k), Typed(t, h, c, K, q \o k)
  PROVE  Typed(t, h, c, K, Try(f, p, q) ** k)
<1>1. PICK P : Closed(t, P) /\ <<h, c, K, p \o k>> \in P /\ <<h, c, K, q \o k>> \in P
  BY TypedBoth
<1>2. Allowed(t, P, h, c, K, Try(f, p, q), k) /\ Try(f, p, q)[1] \in Opcodes
  BY <1>1 DEF Allowed, Try, Opcodes
<1> QED
  BY <1>1, <1>2, TypedGood, TypedStep

LEMMA RuleRpc ==
  ASSUME NEW t, NEW h, NEW c, NEW K, NEW k, Typed(t, h, c, K, k),
         "cmyth" \notin h \/ "jumping" \in K, t = "read" => Otherwise(K)
  PROVE  Typed(t, h, c, K, Rpc ** k)
<1>1. PICK P : Closed(t, P) /\ <<h, c, K, k>> \in P
  BY DEF Typed
<1>2. Allowed(t, P, h, c, K, Rpc, k) /\ Rpc[1] \in Opcodes
  BY <1>1 DEF Allowed, Rpc, Opcodes
<1> QED
  BY <1>1, <1>2, TypedGood, TypedStep

LEMMA RuleIdle ==
  ASSUME NEW t, NEW h, NEW c, NEW K, NEW k, NEW i \in {Idle, Take},
         Typed(t, h, c, K, k)
  PROVE  Typed(t, h, c, K, i ** k)
<1>1. PICK P : Closed(t, P) /\ <<h, c, K, k>> \in P
  BY DEF Typed
<1>2. Allowed(t, P, h, c, K, i, k) /\ i[1] \in Opcodes
  <2>1. i[1] \in {"idle", "take"}
    BY DEF Idle, Take
  <2> QED
    BY <1>1, <2>1 DEF Allowed, Opcodes
<1> QED
  BY <1>1, <1>2, TypedGood, TypedStep

LEMMA RuleSend ==
  ASSUME NEW t, NEW h, NEW c, NEW K, NEW k, NEW from \in {"file", "recorder"},
         Typed(t, h, c, K, k)
  PROVE  Typed(t, h, c, K, Send(from) ** k)
<1>1. PICK P : Closed(t, P) /\ <<h, c, K, k>> \in P
  BY DEF Typed
<1>2. Allowed(t, P, h, c, K, Send(from), k) /\ Send(from)[1] \in Opcodes
  BY <1>1 DEF Allowed, Opcodes, Send
<1> QED
  BY <1>1, <1>2, TypedGood, TypedStep

LEMMA RuleDrain ==
  ASSUME NEW t, NEW h, NEW c, NEW K, NEW k, "jumping" \in K, Typed(t, h, c, K, k)
  PROVE  Typed(t, h, c, K, Drain ** k)
<1>1. PICK P : Closed(t, P) /\ <<h, c, K, k>> \in P
  BY DEF Typed
<1>2. Allowed(t, P, h, c, K, Drain, k) /\ Drain[1] \in Opcodes
  BY <1>1 DEF Allowed, Drain, Opcodes
<1> QED
  BY <1>1, <1>2, TypedGood, TypedStep

LEMMA RuleLeak ==
  ASSUME NEW t, NEW h, NEW c, NEW K, NEW k, Relies(t, h, K),
         Typed(t, h, c, K \cup {"leaked"}, k)
  PROVE  Typed(t, h, c, K, Leak ** k)
<1>1. PICK P : Closed(t, P) /\ <<h, c, K \cup {"leaked"}, k>> \in P
  BY DEF Typed
<1>2. Allowed(t, P, h, c, K, Leak, k) /\ Leak[1] \in Opcodes
  BY <1>1 DEF Allowed, Leak, Opcodes
<1> QED
  BY <1>1, <1>2, TypedGood, TypedStep

LEMMA RuleHold ==
  ASSUME NEW h, NEW c, NEW K, NEW k, Relies("read", h, K),
         Typed("read", h, c, K \cup {"holds"}, k)
  PROVE  Typed("read", h, c, K, Hold ** k)
<1>1. PICK P : Closed("read", P) /\ <<h, c, K \cup {"holds"}, k>> \in P
  BY DEF Typed
<1>2. Allowed("read", P, h, c, K, Hold, k) /\ Hold[1] \in Opcodes
  BY <1>1 DEF Allowed, Hold, Opcodes
<1> QED
  BY <1>1, <1>2, TypedGood, TypedStep

LEMMA TypedDestroy ==
  ASSUME NEW t, NEW h, NEW c, NEW K, NEW k, "cmyth" \notin h, Relies(t, h, K),
         MayClear(t, h, K, "closing"), t = "read" => Otherwise(K) \/ "destroys" \in K,
         Typed(t, h, c, K \ {"destroys"}, k)
  PROVE  Typed(t, h, c, K, cmyth_file_destroy \o k)
<1> DEFINE k1 == Clear("closing") ** k
           k2 == Unlock("cmyth") ** k1
<1>1. Typed(t, h, c, K, k1)
  <2>1. PICK P : Closed(t, P) /\ <<h, c, K \ {"destroys"}, k>> \in P
    BY DEF Typed
  <2>2. Forgotten("closing") = {"destroys"}
    BY DEF Forgotten
  <2>3. Allowed(t, P, h, c, K, Clear("closing"), k) /\ Clear("closing")[1] \in Opcodes
    BY <2>1, <2>2 DEF Allowed, Clear, Opcodes
  <2> QED
    BY <2>1, <2>3, TypedGood, TypedStep
<1>2. Typed(t, h \cup {"cmyth"}, c, K, k2)
  BY <1>1, RuleUnlock DEF Mutexes
<1>3. Typed(t, h, c, K, Lock("cmyth") ** k2)
  <2>1. MayLock(t, h, K, "cmyth")
    BY DEF MayLock, Mutexes
  <2> QED
    BY <1>2, <2>1, RuleLock
<1>4. cmyth_file_destroy \o k = Lock("cmyth") ** k2
  BY TypedGood, Tuple3 DEF cmyth_file_destroy
<1> QED
  BY <1>3, <1>4

\* The client gives up the backend.
LEMMA RuleDropLost ==
  ASSUME NEW t, NEW h, NEW c, NEW K, NEW k, "cmyth" \notin h, "lost" \in K,
         {"marked", "destroys"} \cap K = {}, t = "read" => Otherwise(K),
         Typed(t, h, c, K, k)
  PROVE  Typed(t, h, c, K, Drop ** k)
<1>1. K \ {"marked"} = K /\ K \ {"destroys"} = K /\ Relies(t, h, K)
  BY TypedGood
<1>2. MayClear(t, h, K, "closing")
  BY DEF MayClear
<1>3. Typed(t, h, c, K, cmyth_file_destroy \o k)
  BY <1>1, <1>2, TypedDestroy
<1>4. PICK P : Closed(t, P) /\ <<h, c, K, k>> \in P
                            /\ <<h, c, K, cmyth_file_destroy \o k>> \in P
  BY <1>3, TypedBoth
<1>5. Allowed(t, P, h, c, K, Drop, k) /\ Drop[1] \in Opcodes
  BY <1>1, <1>4 DEF Allowed, Drop, Opcodes
<1> QED
  BY <1>1, <1>4, <1>5, TypedGood, TypedStep

\* Who closes the file then waits.
LEMMA RuleDropMarked ==
  ASSUME NEW t, NEW h, NEW c, NEW K, NEW k, "cmyth" \notin h, "block" \in h,
         {"marked", "destroys"} \cap K = {}, t # "control", t = "read" => Otherwise(K),
         Typed(t, h, c, K, AwaitNot("closing") ** k), IsSeq(k)
  PROVE  Typed(t, h, c, K \cup {"marked"}, Drop ** (AwaitNot("closing") ** k))
<1> DEFINE kk == AwaitNot("closing") ** k
           KK == K \cup {"marked"}
<1>1. K \ {"destroys"} = K /\ Relies(t, h, K) /\ KK \ {"marked"} = K
  BY TypedGood
<1>2. MayClear(t, h, K, "closing") /\ Relies(t, h, KK)
  BY <1>1 DEF MayClear, Relies, Facts
<1>3. kk # <<>> /\ Head(kk) = AwaitNot("closing")
  BY SeqFirst
<1>4. Typed(t, h, c, K, kk)
  OBVIOUS
<1> HIDE DEF kk
<1>5. Typed(t, h, c, K, cmyth_file_destroy \o kk)
  BY <1>1, <1>2, <1>4, TypedDestroy
<1>6. PICK P : Closed(t, P) /\ <<h, c, K, kk>> \in P
                            /\ <<h, c, K, cmyth_file_destroy \o kk>> \in P
  BY <1>4, <1>5, TypedBoth
<1>7. Allowed(t, P, h, c, KK, Drop, kk) /\ Drop[1] \in Opcodes
  BY <1>1, <1>3, <1>6 DEF Allowed, Drop, Opcodes
<1>8. Typed(t, h, c, KK, Drop ** kk)
  BY <1>2, <1>4, <1>6, <1>7, TypedGood, TypedStep
<1> QED
  BY <1>8 DEF kk

LEMMA RuleRelease ==
  ASSUME NEW h, NEW c, NEW K, NEW k, "cmyth" \notin h, {"holds", "destroys", "marked"} \cap K = {},
         Typed("read", h, c, K, k)
  PROVE  Typed("read", h, c, K \cup {"holds"}, Release ** k)
<1> DEFINE KD == K \cup {"destroys"}
<1>1. /\ (K \cup {"holds"}) \ {"holds"} = K
      /\ ((K \cup {"holds"}) \ {"holds"}) \cup {"destroys"} = KD
      /\ KD \ {"destroys"} = K
  OBVIOUS
<1>2. Relies("read", h, K \cup {"holds"}) /\ Relies("read", h, KD)
  BY TypedGood DEF Relies, Facts
<1>3. MayClear("read", h, KD, "closing") /\ "destroys" \in KD
  BY DEF MayClear
<1> HIDE DEF KD
<1>4. Typed("read", h, c, KD, cmyth_file_destroy \o k)
  BY <1>1, <1>2, <1>3, TypedDestroy
<1>5. PICK P : Closed("read", P) /\ <<h, c, K, k>> \in P
                                 /\ <<h, c, KD, cmyth_file_destroy \o k>> \in P
  BY <1>4, TypedBoth
<1>6. Allowed("read", P, h, c, K \cup {"holds"}, Release, k)
      /\ Release[1] \in Opcodes
  BY <1>1, <1>5 DEF Allowed, Release, Opcodes
<1> QED
  BY <1>2, <1>5, <1>6, TypedGood, TypedStep

-----------------------------------------------------------------------------
(* The functions of the player and of mythtv.c.                             *)

LEMMA ProgramStep ==
  ASSUME NEW i, NEW k, i[1] \in Opcodes, Program(k)
  PROVE  Program(i ** k)
<1>1. Program(<<i>>)
  BY Tuple1 DEF Program
<1> QED
  BY <1>1, ProgramJoin DEF **

LEMMA TypedPlay ==
  ASSUME NEW t, NEW h, NEW c, NEW K, NEW k, Typed(t, h, c, K, k)
  PROVE  Typed(t, h, c, K, video_play \o k)
<1>1. Typed(t, h, c, K, Set("playing") ** k)
  BY RuleSet DEF Flags
<1>2. Typed(t, h, c, K, Set("reopen") ** (Set("playing") ** k))
  BY <1>1, RuleSet DEF Flags
<1>3. video_play \o k = Set("reopen") ** (Set("playing") ** k)
  BY TypedGood, Tuple2 DEF video_play
<1> QED
  BY <1>2, <1>3

\* A flag that no thread relies on.
LEMMA TypedClear ==
  ASSUME NEW t, NEW h, NEW c, NEW K, NEW k, NEW f, Typed(t, h, c, K, k),
         f \notin {"file", "recorder", "livetv", "closing"} \cup Facts
  PROVE  Typed(t, h, c, K, Clear(f) ** k)
<1>1. MayClear(t, h, K, f)
  BY DEF MayClear, Facts
<1>2. f \notin K
  BY TypedGood DEF Relies
<1> QED
  BY <1>1, <1>2, RuleClear

LEMMA TypedVideoClear ==
  ASSUME NEW t, NEW h, NEW c, NEW K, NEW k, Typed(t, h, c, K, k)
  PROVE  Typed(t, h, c, K, video_clear \o k)
<1>1. Typed(t, h, c, K, Idle ** k)
  BY RuleIdle
<1>2. Typed(t, h, c, K, Clear("playing") ** (Idle ** k))
  BY <1>1, TypedClear DEF Facts
<1>3. video_clear = <<Clear("playing"), Idle>>
  BY DEF video_clear, Idle
<1>4. video_clear \o k = Clear("playing") ** (Idle ** k)
  BY <1>3, TypedGood, Tuple2
<1> QED
  BY <1>2, <1>4

LEMMA TypedClose ==
  ASSUME NEW t, NEW h, NEW c, NEW K, NEW k, "cmyth" \notin h,
         {"lost", "marked", "destroys"} \cap K = {}, t = "read" => Otherwise(K),
         Typed(t, h, c, K, k)
  PROVE  Typed(t, h, c, K, mythtv_close \o k)
<1> DEFINE KK == K \cup {"lost"}
           k1 == Clear("recorder") ** k
<1>1. Typed(t, h, c, KK, k1)
  BY RuleClearRecorder
<1>2. Typed(t, h, c, KK, Drop ** k1)
  <2>1. "lost" \in KK /\ {"marked", "destroys"} \cap KK = {} /\ (t = "read" => Otherwise(KK))
    BY DEF Otherwise
  <2> QED
    BY <1>1, <2>1, RuleDropLost
<1>3. Typed(t, h, c, K, Set("lost") ** (Drop ** k1))
  BY <1>2, TypedGood, RuleSetLearn
<1>4. mythtv_close \o k = Set("lost") ** (Drop ** k1)
  BY TypedGood, Tuple3 DEF mythtv_close
<1> QED
  BY <1>3, <1>4

\* Without a file there is nothing to close.  The read thread that has left
\* request_block_mutex locked waits for itself.
LEMMA TypedCloseFile ==
  ASSUME NEW t \in {"gui", "read"}, NEW h, NEW c, NEW K, NEW k,
         Typed(t, h, c, K, k), "cmyth" \notin h, c < Bound(t),
         {"exiting", "marked", "destroys"} \cap K = {},
         \/ t = "gui" /\ "block" \notin h
         \/ t = "read" /\ h = {} /\ "reopen" \in K
         \/ t = "read" /\ "block" \in h /\ "leaked" \in K
  PROVE  Typed(t, h, c, K, mythtv_close_just_file \o k)
<1> DEFINE k1 == Unlock("block") ** k
           k2 == Dec ** k1
           k3 == Set("closing") ** (Drop ** (AwaitNot("closing") ** k2))
           body == <<Inc, Lock("block"), Set("closing"), Drop, AwaitNot("closing"),
                     Dec, Unlock("block")>>
<1>1. Program(k) /\ IsSeq(k) /\ Relies(t, h, K) /\ c \in 0..Bound(t) /\ Bound(t) \in Nat
  BY TypedGood DEF Bound
<1>2. Program(k3)
  <2>1. Program(k2)
    BY <1>1, ProgramStep DEF Dec, Unlock, Opcodes
  <2> HIDE DEF k2
  <2> QED
    BY <2>1, ProgramStep DEF AwaitNot, Drop, Set, Opcodes
<1>3. Typed(t, h, c + 1, K, Lock("block") ** k3)
  <2>1. CASE "block" \in h
    <3>1. MayLock(t, h, K, "block") /\ Stuck(K) /\ c + 1 \in 0..Bound(t)
      BY <1>1, <2>1 DEF MayLock, Stuck, Mutexes, Otherwise
    <3> QED
      BY <1>1, <1>2, <2>1, <3>1, RuleStuck
  <2>2. CASE "block" \notin h
    <3> DEFINE hh == h \cup {"block"}
    <3>1. Typed(t, hh, c, K, k1)
      BY <2>2, RuleUnlock DEF Mutexes
    <3>2. Typed(t, hh, c + 1, K, k2)
      BY <1>1, <3>1, RuleDec
    <3>3. Typed(t, hh, c + 1, K, AwaitNot("closing") ** k2)
      <4>1. MayAwait(t, hh, K, "closing")
        BY <2>2 DEF MayAwait, Otherwise
      <4> QED
        BY <3>2, <4>1, RuleAwaitNot
    <3>4. Typed(t, hh, c + 1, K \cup {"marked"}, Drop ** (AwaitNot("closing") ** k2))
      <4>1. "cmyth" \notin hh /\ "block" \in hh /\ t # "control" /\ (t = "read" => Otherwise(K))
        BY <2>2 DEF Otherwise
      <4>2. IsSeq(k2)
        BY <3>2, TypedGood
      <4> QED
        BY <3>3, <4>1, <4>2, RuleDropMarked
    <3>5. Typed(t, hh, c + 1, K, k3)
      BY <3>3, <3>4, TypedGood, RuleSetClosing
    <3>6. MayLock(t, h, K, "block")
      BY <2>2 DEF MayLock, Mutexes, Otherwise
    <3> QED
      BY <1>1, <2>2, <3>5, <3>6, RuleLock
  <2> QED
    BY <2>1, <2>2
<1>4. Typed(t, h, c, K, body \o k)
  <2>1. Typed(t, h, c, K, Inc ** (Lock("block") ** k3))
    BY <1>1, <1>3, RuleInc
  <2>2. body \o k = Inc ** (Lock("block") ** k3)
    BY <1>1, Tuple7
  <2> QED
    BY <2>1, <2>2
<1>5. Typed(t, h, c, K, <<>> \o k)
  BY <1>1, SeqEmpty
<1>6. Typed(t, h, c, K, <<If("file", body, <<>>)>> \o k)
  BY <1>1, <1>4, <1>5, RuleIf DEF **
<1>7. Typed(t, h, c, K, <<If("via", <<If("file", body, <<>>)>>, <<>>)>> \o k)
  BY <1>1, <1>5, <1>6, RuleIf DEF **
<1> QED
  BY <1>7 DEF mythtv_close_just_file

-----------------------------------------------------------------------------
(* The functions of the GUI thread.  It is fit for k when it may execute k  *)
(* between two operations, after "No tuners available" too, with            *)
(* myth_mutex still locked.                                                 *)

Fit(k) == Typed("gui", {}, 0, {}, k) /\ Typed("gui", {"myth"}, 0, {"leaked"}, k)

\* With myth_mutex locked, as it should be.
InMyth(k) == Typed("gui", {"myth"}, 0, {}, k)

LEMMA FitProgram ==
  ASSUME NEW k, Fit(k)
  PROVE  Program(k) /\ IsSeq(k)
BY TypedGood DEF Fit

LEMMA MythProgram ==
  ASSUME NEW k, InMyth(k)
  PROVE  Program(k) /\ IsSeq(k)
BY TypedGood DEF InMyth

LEMMA FitEnd == Fit(<<>>) /\ Typed("gui", {"myth"}, 0, {"leaked"}, <<>>)
<1>1. Relies("gui", {}, {}) /\ Relies("gui", {"myth"}, {"leaked"}) /\ 0 \in 0..Bound("gui")
  BY DEF Relies, Bound, Facts, Mutexes
<1>2. Returned("gui", {}, 0, {}) /\ Returned("gui", {"myth"}, 0, {"leaked"})
  BY DEF Returned
<1> QED
  BY <1>1, <1>2, TypedEnd DEF Fit

LEMMA FitLock ==
  ASSUME NEW k, InMyth(k)
  PROVE  Fit(Lock("myth") ** k)
<1>1. Typed("gui", {}, 0, {}, Lock("myth") ** k)
  <2>1. MayLock("gui", {}, {}, "myth") /\ Relies("gui", {}, {})
    BY DEF MayLock, Relies, Facts, Mutexes
  <2>2. {} \cup {"myth"} = {"myth"}
    OBVIOUS
  <2>3. Typed("gui", {} \cup {"myth"}, 0, {}, k)
    BY <2>2, Zenon DEF InMyth
  <2> QED
    BY <2>1, <2>3, RuleLock
<1>2. Typed("gui", {"myth"}, 0, {"leaked"}, Lock("myth") ** k)
  <2>1. MayLock("gui", {"myth"}, {"leaked"}, "myth") /\ Relies("gui", {"myth"}, {"leaked"})
        /\ Stuck({"leaked"}) /\ 0 \in 0..Bound("gui")
    BY DEF MayLock, Relies, Facts, Mutexes, Stuck, Bound
  <2> QED
    BY <2>1, MythProgram, RuleStuck
<1> QED
  BY <1>1, <1>2 DEF Fit

LEMMA MythUnlock ==
  ASSUME NEW k, Fit(k)
  PROVE  InMyth(Unlock("myth") ** k)
<1>1. Typed("gui", {} \cup {"myth"}, 0, {}, Unlock("myth") ** k)
  BY RuleUnlock DEF Fit, Mutexes
<1>2. {} \cup {"myth"} = {"myth"}
  OBVIOUS
<1> QED
  BY <1>1, <1>2, Zenon DEF InMyth

LEMMA FitSet ==
  ASSUME NEW k, NEW f \in Flags \ {"lost", "exiting", "exited", "closing"}, Fit(k)
  PROVE  Fit(Set(f) ** k)
BY RuleSet DEF Fit

LEMMA FitClear ==
  ASSUME NEW k, NEW f \in {"livefn", "livetv", "changing"}, Fit(k)
  PROVE  Fit(Clear(f) ** k)
<1>1. MayClear("gui", {}, {}, f) /\ MayClear("gui", {"myth"}, {"leaked"}, f)
  BY DEF MayClear
<1>2. f \notin {} /\ f \notin {"leaked"} /\ f # "recorder"
  OBVIOUS
<1> QED
  BY <1>1, <1>2, RuleClear DEF Fit

LEMMA FitRpc ==
  ASSUME NEW k, Fit(k)
  PROVE  Fit(Rpc ** k)
BY RuleRpc DEF Fit

LEMMA FitIf ==
  ASSUME NEW k, NEW f, NEW p, NEW q, Program(k), Fit(p \o k), Fit(q \o k)
  PROVE  Fit(If(f, p, q) ** k)
<1>1. "exiting" \notin {} /\ "exiting" \notin {"leaked"}
  OBVIOUS
<1> QED
  BY <1>1, RuleIf DEF Fit

LEMMA FitChoose ==
  ASSUME NEW k, NEW p, NEW q, Program(k), Fit(p \o k), Fit(q \o k)
  PROVE  Fit(Choose(p, q) ** k)
BY RuleChoose DEF Fit

LEMMA FitVideo ==
  ASSUME NEW k, Fit(k)
  PROVE  Fit(video_play \o k) /\ Fit(video_clear \o k)
BY TypedPlay, TypedVideoClear DEF Fit

LEMMA MythRpc ==
  ASSUME NEW k, InMyth(k)
  PROVE  InMyth(Rpc ** k)
BY RuleRpc DEF InMyth

LEMMA MythSet ==
  ASSUME NEW k, NEW f \in Flags \ {"lost", "exiting", "exited", "closing"}, InMyth(k)
  PROVE  InMyth(Set(f) ** k)
BY RuleSet DEF InMyth

LEMMA MythTry ==
  ASSUME NEW k, NEW f, NEW p, NEW q, Program(k), InMyth(p \o k), InMyth(q \o k)
  PROVE  InMyth(Try(f, p, q) ** k)
BY RuleTry DEF InMyth

LEMMA MythVideo ==
  ASSUME NEW k, InMyth(k)
  PROVE  InMyth(video_play \o k) /\ InMyth(video_clear \o k)
BY TypedPlay, TypedVideoClear DEF InMyth

LEMMA MythCloseFile ==
  ASSUME NEW k, InMyth(k)
  PROVE  InMyth(mythtv_close_file \o k)
<1>1. "cmyth" \notin {"myth"} /\ {"block", "seek"} \cap {"myth"} = {}
      /\ "exiting" \notin {} /\ 0 < Bound("gui")
  BY DEF Bound
<1> QED
  BY <1>1, TypedCloseFile DEF InMyth, mythtv_close_file

LEMMA MythClose ==
  ASSUME NEW k, InMyth(k)
  PROVE  InMyth(mythtv_shutdown \o k)
BY TypedClose DEF InMyth, mythtv_shutdown

\* The programs that are joined below are sequences.
LEMMA Sequences1 ==
  /\ IsSeq(<<>>) /\ IsSeq(video_play) /\ IsSeq(video_clear) /\ IsSeq(mythtv_close)
  /\ IsSeq(mythtv_shutdown) /\ IsSeq(mythtv_close_just_file) /\ IsSeq(mythtv_close_file)
<1>1. IsSeq(<<>>)
  BY <<>> \in Seq({}) DEF IsSeq
<1> QED
  BY <1>1, Tuple1, Tuple2, Tuple3
     DEF video_play, video_clear, mythtv_close, mythtv_shutdown, mythtv_close_file,
         mythtv_close_just_file

LEMMA Join3 ==
  ASSUME NEW p, NEW q, NEW r, NEW k, IsSeq(p), IsSeq(q), IsSeq(r), IsSeq(k)
  PROVE  (p \o q \o r) \o k = p \o (q \o (r \o k)) /\ IsSeq(p \o q) /\ IsSeq(p \o q \o r)
<1>1. IsSeq(p \o q) /\ IsSeq(r \o k) /\ IsSeq(p \o q \o r)
  BY SeqJoin
<1> DEFINE pq == p \o q
           rk == r \o k
<1>2. (p \o q) \o rk = p \o (q \o rk)
  <2>1. IsSeq(rk)
    BY <1>1
  <2> HIDE DEF rk
  <2>2. Associative(p, q, rk)
    BY <2>1, Regroup, Zenon
  <2> QED
    BY ONLY <2>2 DEF Associative
<1>3. (pq \o r) \o k = pq \o (r \o k)
  <2>1. IsSeq(pq)
    BY <1>1
  <2> HIDE DEF pq
  <2>2. Associative(pq, r, k)
    BY <2>1, Regroup, Zenon
  <2> QED
    BY ONLY <2>2 DEF Associative
<1> QED
  BY <1>1, <1>2, <1>3, Zenon

LEMMA Join4 ==
  ASSUME NEW p, NEW q, NEW r, NEW s, NEW k, IsSeq(p), IsSeq(q), IsSeq(r), IsSeq(s), IsSeq(k)
  PROVE  (p \o q \o r \o s) \o k = p \o (q \o (r \o (s \o k))) /\ IsSeq(p \o q \o r \o s)
<1>1. IsSeq(p \o q \o r) /\ IsSeq(s \o k) /\ IsSeq(p \o q \o r \o s)
  BY SeqJoin
<1> DEFINE pqr == p \o q \o r
           sk == s \o k
<1>2. (p \o q \o r) \o sk = p \o (q \o (r \o sk))
  <2>1. IsSeq(sk)
    BY <1>1
  <2> HIDE DEF sk
  <2> QED
    BY <2>1, Join3
<1>3. (pqr \o s) \o k = pqr \o (s \o k)
  <2>1. IsSeq(pqr)
    BY <1>1
  <2> HIDE DEF pqr
  <2>2. Associative(pqr, s, k)
    BY <2>1, Regroup, Zenon
  <2> QED
    BY ONLY <2>2 DEF Associative
<1> QED
  BY <1>1, <1>2, <1>3, Zenon

\* The same with names, for Zenon.
Joined3(p, q, r, k) ==
  (p \o q \o r) \o k = p \o (q \o (r \o k)) /\ IsSeq(p \o q \o r)
Joined4(p, q, r, s, k) ==
  (p \o q \o r \o s) \o k = p \o (q \o (r \o (s \o k))) /\ IsSeq(p \o q \o r \o s)

LEMMA Regroup3 ==
  ASSUME NEW p, NEW q, NEW r, NEW k, IsSeq(p), IsSeq(q), IsSeq(r), IsSeq(k)
  PROVE  Joined3(p, q, r, k)
BY Join3 DEF Joined3

LEMMA Regroup4 ==
  ASSUME NEW p, NEW q, NEW r, NEW s, NEW k, IsSeq(p), IsSeq(q), IsSeq(r), IsSeq(s), IsSeq(k)
  PROVE  Joined4(p, q, r, s, k)
BY Join4, Zenon DEF Joined4

LEMMA FitStop ==
  ASSUME NEW k, Fit(k)
  PROVE  Fit(mythtv_stop \o k) /\ IsSeq(mythtv_stop)
<1> DEFINE k1 == video_clear \o k
           k2 == Unlock("myth") ** k1
           k3 == mythtv_close_file \o k2
<1>1. Fit(k1)
  BY FitVideo
<1>2. InMyth(k2)
  BY <1>1, MythUnlock
<1>3. InMyth(k3)
  BY <1>2, MythCloseFile
<1>4. Fit(Lock("myth") ** k3)
  BY <1>3, FitLock
<1>5. mythtv_stop \o k = Lock("myth") ** k3 /\ IsSeq(mythtv_stop)
  BY FitProgram, Sequences1, Tuple1, Join4 DEF mythtv_stop, **
<1> QED
  BY <1>4, <1>5

LEMMA FitUpdate ==
  ASSUME NEW k, Fit(k)
  PROVE  Fit(mythtv_update \o k) /\ IsSeq(mythtv_update)
<1>1. InMyth(Rpc ** (Unlock("myth") ** k))
  BY MythUnlock, MythRpc
<1>2. Fit(Lock("myth") ** (Rpc ** (Unlock("myth") ** k)))
  BY <1>1, FitLock
<1>3. mythtv_update \o k = Lock("myth") ** (Rpc ** (Unlock("myth") ** k))
      /\ IsSeq(mythtv_update)
  BY FitProgram, Tuple3 DEF mythtv_update
<1> QED
  BY <1>2, <1>3

LEMMA FitSize ==
  ASSUME NEW k, Fit(k)
  PROVE  Fit(mythtv_size \o k)
<1>1. Fit(mythtv_update \o k) /\ Fit(<<>> \o k)
  BY FitUpdate, FitProgram, SeqEmpty
<1>2. Fit(Choose(<<>>, mythtv_update) ** k)
  BY <1>1, FitProgram, FitChoose
<1>3. mythtv_size \o k = Choose(<<>>, mythtv_update) ** k
  BY DEF mythtv_size, mythtv_update, **
<1> QED
  BY <1>2, <1>3

LEMMA FitDelete ==
  ASSUME NEW k, Fit(k)
  PROVE  Fit(mythtv_delete_prog \o k)
<1> DEFINE k1 == Unlock("myth") ** k
           p == mythtv_close_file \o video_clear
<1>1. InMyth(k1) /\ IsSeq(k1) /\ Program(k1)
  BY MythUnlock, MythProgram
<1>2. InMyth(p \o k1)
  <2>1. InMyth(mythtv_close_file \o (video_clear \o k1))
    BY <1>1, MythVideo, MythCloseFile
  <2>2. p \o k1 = mythtv_close_file \o (video_clear \o k1)
    <3>1. IsSeq(mythtv_close_file) /\ IsSeq(video_clear)
      BY Sequences1
    <3> HIDE DEF k1
    <3>2. Associative(mythtv_close_file, video_clear, k1)
      BY <1>1, <3>1, Regroup, Zenon
    <3> QED
      BY ONLY <3>2 DEF Associative
  <2> QED
    BY <2>1, <2>2
<1>3. InMyth(Choose(p, <<>>) ** k1)
  <2>1. InMyth(<<>> \o k1)
    BY <1>1, SeqEmpty
  <2> QED
    BY <1>1, <1>2, <2>1, RuleChoose DEF InMyth
<1>4. Fit(Lock("myth") ** (Rpc ** (Choose(p, <<>>) ** k1)))
  BY <1>3, MythRpc, FitLock
<1>5. mythtv_delete_prog \o k = Lock("myth") ** (Rpc ** (Choose(p, <<>>) ** k1))
  BY FitProgram, Tuple4 DEF mythtv_delete_prog
<1> QED
  BY <1>4, <1>5

-----------------------------------------------------------------------------
(* The functions of mythtv_livetv.c.                                        *)

LivetvStop ==
  <<Inc, Lock("block"), Lock("myth"), Clear("via"), Clear("livetv")>> \o video_clear \o
  <<Rpc, Try("rpc", <<Clear("recorder")>>, <<>>), Unlock("myth"), Dec, Unlock("block")>>

\* What remains once myth_mutex is locked.
LivetvStopped(k) ==
  Clear("via") ** (Clear("livetv") ** (video_clear \o
    (Rpc ** (Try("rpc", <<Clear("recorder")>>, <<>>) **
      (Unlock("myth") ** (Dec ** (Unlock("block") ** k)))))))

LEMMA LivetvStopProgram ==
  ASSUME NEW k, Program(k)
  PROVE  /\ LivetvStop \o k = Inc ** (Lock("block") ** (Lock("myth") ** LivetvStopped(k)))
         /\ mythtv_livetv_stop = <<If("livetv", LivetvStop, <<>>)>>
<1> DEFINE x == Try("rpc", <<Clear("recorder")>>, <<>>)
           p == <<Inc, Lock("block"), Lock("myth"), Clear("via"), Clear("livetv")>>
           r == <<Rpc, x, Unlock("myth"), Dec, Unlock("block")>>
           k1 == Rpc ** (x ** (Unlock("myth") ** (Dec ** (Unlock("block") ** k))))
           k2 == video_clear \o k1
<1>1. IsSeq(k) /\ IsSeq(video_clear)
  BY Sequences1 DEF Program
<1>2. r \o k = k1 /\ IsSeq(r)
  <2> HIDE DEF x
  <2> QED
    BY <1>1, Tuple5
<1>7. IsSeq(r) /\ IsSeq(p)
  BY <1>1, <1>2, Tuple5
<1>3. IsSeq(k1) /\ IsSeq(k2)
  BY <1>1, <1>2, SeqJoin
<1>4. p \o k2 = Inc ** (Lock("block") ** (Lock("myth") **
                  (Clear("via") ** (Clear("livetv") ** k2))))
  <2> HIDE DEF k2
  <2> QED
    BY <1>3, Tuple5
<1>5. (p \o video_clear \o r) \o k = p \o (video_clear \o (r \o k))
  <2> HIDE DEF p, r
  <2> QED
    BY <1>1, <1>7, Join3
<1>6. LivetvStop \o k = p \o k2
  BY <1>2, <1>5, Zenon DEF LivetvStop
<1> QED
  BY <1>4, <1>6 DEF LivetvStopped, mythtv_livetv_stop, LivetvStop

LEMMA TypedLivetvStopped ==
  ASSUME NEW t \in {"gui", "event"}, NEW k, Typed(t, {}, 0, {}, k)
  PROVE  Typed(t, {} \cup {"block"} \cup {"myth"}, 0 + 1, {}, LivetvStopped(k))
<1> DEFINE h1 == {} \cup {"block"}
           h2 == h1 \cup {"myth"}
           k1 == Unlock("block") ** k
           k2 == Dec ** k1
           k3 == Unlock("myth") ** k2
<1>1. Typed(t, h1, 0, {}, k1)
  BY RuleUnlock DEF Mutexes
<1>2. Typed(t, h1, 0 + 1, {}, k2)
  BY <1>1, RuleDec DEF Bound
<1>3. Typed(t, h2, 0 + 1, {}, k3)
  BY <1>2, RuleUnlock DEF Mutexes
<1> HIDE DEF k3
<1>4. Program(k3) /\ IsSeq(k3)
  BY <1>3, TypedGood
<1>5. Typed(t, h2, 0 + 1, {}, <<Clear("recorder")>> \o k3)
  <2>1. MayClear(t, h2, {}, "recorder")
    BY DEF MayClear, MayDrop
  <2>2. "recorder" \notin {} /\ "lost" \notin {}
    OBVIOUS
  <2> HIDE DEF h2
  <2> QED
    BY <1>3, <2>1, <2>2, RuleClear DEF **
<1>6. Typed(t, h2, 0 + 1, {}, <<>> \o k3)
  BY <1>3, <1>4, SeqEmpty
<1>7. Typed(t, h2, 0 + 1, {}, Try("rpc", <<Clear("recorder")>>, <<>>) ** k3)
  BY <1>4, <1>5, <1>6, RuleTry
<1> DEFINE k4 == Try("rpc", <<Clear("recorder")>>, <<>>) ** k3
           k5 == video_clear \o (Rpc ** k4)
<1>8. Typed(t, h2, 0 + 1, {}, k5)
  BY <1>7, RuleRpc, TypedVideoClear
<1> HIDE DEF k5
<1>9. Typed(t, h2, 0 + 1, {}, Clear("livetv") ** k5)
  <2>1. MayClear(t, h2, {}, "livetv")
    BY DEF MayClear
  <2>2. "livetv" \notin {}
    OBVIOUS
  <2> HIDE DEF h2
  <2> QED
    BY <1>8, <2>1, <2>2, RuleClear
<1>10. Typed(t, h2, 0 + 1, {}, Clear("via") ** (Clear("livetv") ** k5))
  BY <1>9, TypedClear DEF Facts
<1> QED
  BY <1>10 DEF LivetvStopped, k5, k3

LEMMA TypedLivetvStop ==
  ASSUME NEW t \in {"gui", "event"}, NEW k, Typed(t, {}, 0, {}, k)
  PROVE  Typed(t, {}, 0, {}, mythtv_livetv_stop \o k)
<1> DEFINE k1 == LivetvStopped(k)
<1>1. Typed(t, {} \cup {"block"} \cup {"myth"}, 0 + 1, {}, k1)
  BY TypedLivetvStopped
<1>2. /\ MayLock(t, {} \cup {"block"}, {}, "myth") /\ Relies(t, {} \cup {"block"}, {})
      /\ MayLock(t, {}, {}, "block") /\ Relies(t, {}, {}) /\ "myth" \notin {} \cup {"block"}
  BY DEF MayLock, Relies, Mutexes
<1>3. Typed(t, {} \cup {"block"}, 0 + 1, {}, Lock("myth") ** k1)
  BY <1>1, <1>2, RuleLock
<1>4. Typed(t, {}, 0 + 1, {}, Lock("block") ** (Lock("myth") ** k1))
  BY <1>2, <1>3, RuleLock
<1>5. Typed(t, {}, 0, {}, Inc ** (Lock("block") ** (Lock("myth") ** k1)))
  BY <1>4, RuleInc DEF Bound
<1>6. Program(k) /\ IsSeq(k)
  BY TypedGood
<1>7. Typed(t, {}, 0, {}, LivetvStop \o k) /\ Typed(t, {}, 0, {}, <<>> \o k)
  BY <1>5, <1>6, LivetvStopProgram, SeqEmpty
<1>8. Typed(t, {}, 0, {}, If("livetv", LivetvStop, <<>>) ** k)
  BY <1>6, <1>7, RuleIf
<1> QED
  BY <1>6, <1>8, LivetvStopProgram DEF **

\* Inc, Lock("block") and, later, Lock("myth"), with myth_mutex left locked.
LEMMA LeakedStuck ==
  ASSUME NEW k, Program(k)
  PROVE  Typed("gui", {"myth"} \cup {"block"}, 0 + 1, {"leaked"}, Lock("myth") ** k)
<1>1. MayLock("gui", {"myth"} \cup {"block"}, {"leaked"}, "myth")
      /\ Relies("gui", {"myth"} \cup {"block"}, {"leaked"})
      /\ Stuck({"leaked"}) /\ 0 + 1 \in 0..Bound("gui")
  BY DEF MayLock, Relies, Facts, Mutexes, Stuck, Bound
<1> QED
  BY <1>1, RuleStuck

LEMMA LeakedBlock ==
  ASSUME NEW k, Typed("gui", {"myth"} \cup {"block"}, 0 + 1, {"leaked"}, k)
  PROVE  Typed("gui", {"myth"}, 0, {"leaked"}, Inc ** (Lock("block") ** k))
<1>1. MayLock("gui", {"myth"}, {"leaked"}, "block") /\ Relies("gui", {"myth"}, {"leaked"})
      /\ "block" \notin {"myth"}
  BY DEF MayLock, Relies, Facts, Mutexes
<1>2. Typed("gui", {"myth"}, 0 + 1, {"leaked"}, Lock("block") ** k)
  BY <1>1, RuleLock
<1> QED
  BY <1>2, RuleInc DEF Bound

LEMMA FitLivetvStop ==
  ASSUME NEW k, Fit(k)
  PROVE  Fit(mythtv_livetv_stop \o k)
<1>1. Typed("gui", {}, 0, {}, k) /\ Program(k) /\ IsSeq(k)
  BY FitProgram DEF Fit
<1>2. Typed("gui", {}, 0, {}, mythtv_livetv_stop \o k)
  BY <1>1, TypedLivetvStop
<1>3. Program(LivetvStopped(k))
  BY <1>1, TypedLivetvStopped, TypedGood
<1>4. Typed("gui", {"myth"}, 0, {"leaked"}, LivetvStop \o k)
  BY <1>1, <1>3, LeakedStuck, LeakedBlock, LivetvStopProgram
<1>5. Typed("gui", {"myth"}, 0, {"leaked"}, <<>> \o k)
  BY <1>1, SeqEmpty DEF Fit
<1>6. Typed("gui", {"myth"}, 0, {"leaked"}, If("livetv", LivetvStop, <<>>) ** k)
  BY <1>1, <1>4, <1>5, RuleIf
<1> QED
  BY <1>1, <1>2, <1>6, LivetvStopProgram DEF **, Fit

LEMMA FitStopOther ==
  ASSUME NEW k, Fit(k)
  PROVE  Fit(StopOther \o k) /\ IsSeq(StopOther)
<1> DEFINE r == <<If("recorder", mythtv_stop, <<>>)>>
           f == <<If("file", mythtv_stop, r)>>
<1>1. Program(k) /\ Fit(mythtv_stop \o k) /\ Fit(<<>> \o k)
  BY FitProgram, FitStop, SeqEmpty
<1>2. Fit(r \o k)
  BY <1>1, FitIf DEF **
<1>3. Fit(f \o k)
  <2> HIDE DEF r
  <2> QED
    BY <1>1, <1>2, FitIf DEF **
<1>4. Fit(<<If("via", f, <<>>)>> \o k) /\ IsSeq(<<If("via", f, <<>>)>>)
  <2> HIDE DEF f
  <2> QED
    BY <1>1, <1>3, FitIf, Tuple1 DEF **
<1> QED
  BY <1>4 DEF StopOther

LEMMA MythSpawn ==
  ASSUME NEW k, NEW then, Fit(k), IsSeq(then), Fit(then \o k)
  PROVE  InMyth(SpawnLiveTv(then) \o k) /\ IsSeq(SpawnLiveTv(then))
<1> DEFINE p == <<Set("recorder")>> \o video_play \o <<Unlock("myth")>> \o then
           q == <<Unlock("myth"), Clear("livetv")>>
           x == Try("rpc", p, q)
<1>1. Program(k) /\ IsSeq(k)
  BY FitProgram
<1>2. InMyth(p \o k)
  <2>1. InMyth(video_play \o (Unlock("myth") ** (then \o k)))
    BY MythUnlock, MythVideo
  <2>2. InMyth(Set("recorder") ** (video_play \o (Unlock("myth") ** (then \o k))))
    BY <2>1, MythSet DEF Flags
  <2>3. IsSeq(<<Set("recorder")>>) /\ IsSeq(<<Unlock("myth")>>) /\ IsSeq(video_play)
    BY Tuple1, Sequences1
  <2>4. p \o k = <<Set("recorder")>> \o (video_play \o (<<Unlock("myth")>> \o (then \o k)))
    BY <1>1, <2>3, Join4
  <2> QED
    BY <2>2, <2>4, Zenon DEF **
<1>3. InMyth(q \o k)
  <2>1. InMyth(Unlock("myth") ** (Clear("livetv") ** k))
    BY FitClear, MythUnlock
  <2>2. q \o k = Unlock("myth") ** (Clear("livetv") ** k)
    BY <1>1, Tuple2
  <2> QED
    BY <2>1, <2>2
<1>4. InMyth(x ** k)
  <2> HIDE DEF p, q
  <2> QED
    BY <1>1, <1>2, <1>3, MythTry
<1> HIDE DEF x
<1>5. InMyth(Rpc ** (x ** k))
  BY <1>4, MythRpc
<1>6. <<Rpc, x>> \o k = Rpc ** (x ** k) /\ IsSeq(<<Rpc, x>>)
  BY <1>1, Tuple2
<1> QED
  BY <1>5, <1>6 DEF SpawnLiveTv, x

LEMMA FitLivetvStart ==
  ASSUME NEW k, NEW then, Fit(k), IsSeq(then), Fit(then \o k)
  PROVE  Fit(mythtv_livetv_start(then) \o k) /\ IsSeq(mythtv_livetv_start(then))
<1> DEFINE q == mythtv_shutdown \o <<Unlock("myth"), Clear("livetv")>>
           x == Try("tuner", SpawnLiveTv(then), q)
           p == <<Lock("myth"), Set("livetv"), Set("via"), Set("livefn"), Rpc, x>>
           r == mythtv_update \o then
           y == If("livetv", r, p)
<1>1. Program(k) /\ IsSeq(k)
  BY FitProgram
<1>2. InMyth(q \o k)
  <2>1. InMyth(Unlock("myth") ** (Clear("livetv") ** k))
    BY FitClear, MythUnlock
  <2>2. <<Unlock("myth"), Clear("livetv")>> \o k = Unlock("myth") ** (Clear("livetv") ** k)
        /\ IsSeq(<<Unlock("myth"), Clear("livetv")>>) /\ IsSeq(mythtv_shutdown)
    BY <1>1, Tuple2, Sequences1
  <2>3. InMyth(mythtv_shutdown \o (<<Unlock("myth"), Clear("livetv")>> \o k))
    BY <2>1, <2>2, MythClose
  <2>4. q \o k = mythtv_shutdown \o (<<Unlock("myth"), Clear("livetv")>> \o k)
    BY <1>1, <2>2, SeqAssociative
  <2> QED
    BY <2>3, <2>4
<1>3. InMyth(x ** k)
  <2> HIDE DEF q
  <2> QED
    BY <1>1, <1>2, MythSpawn, MythTry
<1>4. Fit(p \o k)
  <2> HIDE DEF x
  <2>1. InMyth(Set("livefn") ** (Rpc ** (x ** k)))
    BY <1>3, MythRpc, MythSet DEF Flags
  <2>2. InMyth(Set("livetv") ** (Set("via") ** (Set("livefn") ** (Rpc ** (x ** k)))))
    BY <2>1, MythSet DEF Flags
  <2>3. p \o k = Lock("myth") ** (Set("livetv") ** (Set("via") ** (Set("livefn") **
                   (Rpc ** (x ** k)))))
    BY <1>1, Tuple6
  <2> QED
    BY <2>2, <2>3, FitLock
<1>5. Fit(r \o k)
  <2>1. Fit(mythtv_update \o (then \o k)) /\ IsSeq(mythtv_update)
    BY FitUpdate
  <2>2. r \o k = mythtv_update \o (then \o k)
    BY <1>1, <2>1, SeqAssociative
  <2> QED
    BY <2>1, <2>2
<1>6. Fit(y ** k)
  <2> HIDE DEF p, r
  <2> QED
    BY <1>1, <1>4, <1>5, FitIf
<1> HIDE DEF y
<1>7. Fit(StopOther \o (y ** k)) /\ IsSeq(StopOther) /\ IsSeq(<<y>>)
  BY <1>6, FitStopOther, Tuple1
<1>8. (StopOther \o <<y>>) \o k = StopOther \o (<<y>> \o k) /\ IsSeq(StopOther \o <<y>>)
  BY <1>1, <1>7, SeqAssociative, SeqJoin
<1>9. mythtv_livetv_start(then) = StopOther \o <<y>>
  BY Zenon DEF mythtv_livetv_start, y
<1> QED
  BY <1>7, <1>8, <1>9 DEF **

LEMMA FitNewLivetvStart ==
  ASSUME NEW k, Fit(k)
  PROVE  Fit(mythtv_new_livetv_start \o k) /\ IsSeq(mythtv_new_livetv_start)
<1> DEFINE p == <<Lock("myth"), Set("livetv"), Set("via"), Set("livefn")>>
           sp == SpawnLiveTv(<<>>)
           y == If("livetv", mythtv_update, p \o sp)
<1>1. Program(k) /\ IsSeq(k)
  BY FitProgram
<1>2. InMyth(sp \o k) /\ IsSeq(sp)
  BY <1>1, MythSpawn, Sequences1, SeqEmpty
<1>3. Fit((p \o sp) \o k)
  <2>1. InMyth(Set("livetv") ** (Set("via") ** (Set("livefn") ** (sp \o k))))
    BY <1>2, MythSet DEF Flags
  <2> HIDE DEF sp
  <2>2. IsSeq(sp \o k)
    BY <1>1, <1>2, SeqJoin
  <2>3. p \o (sp \o k) = Lock("myth") ** (Set("livetv") ** (Set("via") **
                           (Set("livefn") ** (sp \o k))))
        /\ IsSeq(p)
    BY <2>2, Tuple4
  <2>4. (p \o sp) \o k = p \o (sp \o k)
    <3>1. IsSeq(p)
      BY <2>3
    <3> HIDE DEF p
    <3> QED
      BY <1>1, <1>2, <3>1, SeqAssociative
  <2> QED
    BY <2>1, <2>3, <2>4, FitLock
<1>4. Fit(y ** k)
  <2> HIDE DEF p, sp
  <2> QED
    BY <1>1, <1>3, FitUpdate, FitIf
<1> HIDE DEF y
<1>5. Fit(StopOther \o (y ** k)) /\ IsSeq(StopOther) /\ IsSeq(<<y>>)
  BY <1>4, FitStopOther, Tuple1
<1>6. (StopOther \o <<y>>) \o k = StopOther \o (<<y>> \o k) /\ IsSeq(StopOther \o <<y>>)
  BY <1>1, <1>5, SeqAssociative, SeqJoin
<1>7. mythtv_new_livetv_start = StopOther \o <<y>>
  BY Zenon DEF mythtv_new_livetv_start, y
<1> QED
  BY <1>5, <1>6, <1>7 DEF **

\* No tuner: the function returns with myth_mutex locked.
LEMMA FitNewLivetv == Fit(mythtv_new_livetv)
<1> DEFINE p == <<Unlock("myth")>> \o mythtv_new_livetv_start
           x == Try("tuner", p, <<Leak>>)
<1>1. Fit(mythtv_new_livetv_start \o <<>>) /\ IsSeq(mythtv_new_livetv_start)
  BY FitEnd, FitNewLivetvStart
<1>2. mythtv_new_livetv_start \o <<>> = mythtv_new_livetv_start
  BY <1>1, SeqEmpty
<1>3. InMyth(p) /\ p \o <<>> = p /\ <<Leak>> \o <<>> = <<Leak>>
  <2>1. InMyth(Unlock("myth") ** mythtv_new_livetv_start)
    BY <1>1, <1>2, MythUnlock
  <2>2. InMyth(p)
    BY <2>1 DEF **
  <2>3. IsSeq(p) /\ IsSeq(<<Leak>>)
    BY <2>2, MythProgram, Tuple1
  <2> QED
    BY <2>2, <2>3, SeqEmpty
<1>4. InMyth(<<Leak>> \o <<>>)
  <2>1. Typed("gui", {"myth"}, 0, {} \cup {"leaked"}, <<>>) /\ Relies("gui", {"myth"}, {})
    <3>1. {} \cup {"leaked"} = {"leaked"}
      OBVIOUS
    <3>2. Relies("gui", {"myth"}, {})
      BY DEF Relies, Mutexes
    <3> QED
      BY <3>1, <3>2, FitEnd
  <2> QED
    BY <2>1, RuleLeak DEF InMyth, **
<1>5. InMyth(x ** <<>>)
  <2>1. Program(<<>>) /\ InMyth(p \o <<>>)
    BY <1>3, FitEnd, FitProgram
  <2> HIDE DEF p
  <2> QED
    BY <1>4, <2>1, MythTry
<1> HIDE DEF x
<1>6. Fit(Lock("myth") ** (Rpc ** (x ** <<>>)))
  BY <1>5, MythRpc, FitLock
<1>7. <<Lock("myth"), Rpc, x>> \o <<>> = Lock("myth") ** (Rpc ** (x ** <<>>))
      /\ IsSeq(<<Lock("myth"), Rpc, x>>)
  <2> DEFINE k == <<>>
  <2>1. IsSeq(k)
    BY Sequences1
  <2> HIDE DEF k
  <2>2. <<Lock("myth"), Rpc, x>> \o k = Lock("myth") ** (Rpc ** (x ** k))
        /\ IsSeq(<<Lock("myth"), Rpc, x>>)
    BY <2>1, Tuple3
  <2> QED
    BY <2>2, Zenon DEF k
<1>8. <<Lock("myth"), Rpc, x>> \o <<>> = <<Lock("myth"), Rpc, x>>
  BY <1>7, SeqEmpty
<1>9. mythtv_new_livetv = <<Lock("myth"), Rpc, x>>
  BY Zenon DEF mythtv_new_livetv, x
<1> QED
  BY <1>6, <1>7, <1>8, <1>9, Zenon

LEMMA TypedPause ==
  ASSUME NEW t, NEW h, NEW c, NEW K, NEW k, NEW then, "cmyth" \notin h, t # "read",
         Typed(t, h, c, K, k), Typed(t, h, c, K, then \o k)
  PROVE  Typed(t, h, c, K, PauseAndSet(then) \o k) /\ IsSeq(PauseAndSet(then))
<1> DEFINE x == Try("rpc", then, <<>>)
<1>1. Program(k) /\ IsSeq(k) /\ Typed(t, h, c, K, <<>> \o k)
  BY TypedGood, SeqEmpty
<1>2. Typed(t, h, c, K, x ** k)
  BY <1>1, RuleTry
<1> HIDE DEF x
<1>3. Typed(t, h, c, K, Rpc ** (x ** k))
  BY <1>2, RuleRpc
<1>4. <<Rpc, x>> \o k = Rpc ** (x ** k) /\ IsSeq(<<Rpc, x>>)
  BY <1>1, Tuple2
<1>5. PauseAndSet(then) = <<Rpc, x>>
  BY Zenon DEF PauseAndSet, x
<1> QED
  BY <1>3, <1>4, <1>5, Zenon

LEMMA FitChangeChannel ==
  ASSUME NEW k, Fit(k)
  PROVE  Fit(ChangeChannel \o k) /\ IsSeq(ChangeChannel)
<1> DEFINE p == <<Set("changing"), Lock("myth")>>
           q == PauseAndSet(video_play)
           r == <<Unlock("myth"), Clear("changing")>>
           k1 == r \o k
           k2 == q \o k1
<1>1. Program(k) /\ IsSeq(k)
  BY FitProgram
<1>2. InMyth(k1) /\ IsSeq(r)
  <2>1. InMyth(Unlock("myth") ** (Clear("changing") ** k))
    BY FitClear, MythUnlock
  <2>2. r \o k = Unlock("myth") ** (Clear("changing") ** k) /\ IsSeq(r)
    BY <1>1, Tuple2
  <2> QED
    BY <2>1, <2>2
<1>3. InMyth(k2) /\ IsSeq(q)
  <2>1. InMyth(video_play \o k1) /\ "cmyth" \notin {"myth"}
    BY <1>2, MythVideo
  <2> HIDE DEF k1
  <2> QED
    BY <1>2, <2>1, TypedPause DEF InMyth
<1>4. Fit(p \o k2) /\ IsSeq(p)
  <2>1. Fit(Set("changing") ** (Lock("myth") ** k2))
    BY <1>3, FitLock, FitSet DEF Flags
  <2>2. IsSeq(k2)
    BY <1>3, MythProgram
  <2> HIDE DEF k2
  <2>3. p \o k2 = Set("changing") ** (Lock("myth") ** k2) /\ IsSeq(p)
    BY <2>2, Tuple2
  <2> QED
    BY <2>1, <2>3
<1>5. ChangeChannel = p \o q \o r
  BY DEF ChangeChannel
<1>6. (p \o q \o r) \o k = p \o (q \o (r \o k)) /\ IsSeq(p \o q \o r)
  <2>1. IsSeq(p) /\ IsSeq(q) /\ IsSeq(r)
    BY <1>2, <1>3, <1>4
  <2> HIDE DEF p, q, r
  <2> QED
    BY <1>1, <2>1, Join3
<1> QED
  BY <1>4, <1>5, <1>6, Zenon

\* request_block_mutex and myth_mutex, given back in the order they were taken.
LEMMA TypedChannelEnd ==
  ASSUME NEW k, Fit(k)
  PROVE  LET r == <<Dec, Unlock("block"), Clear("changing"), Unlock("myth")>>
         IN  Typed("gui", {} \cup {"block"} \cup {"myth"}, 0 + 1, {}, r \o k) /\ IsSeq(r)
<1> DEFINE r == <<Dec, Unlock("block"), Clear("changing"), Unlock("myth")>>
           k1 == Clear("changing") ** (Unlock("myth") ** k)
           k2 == Dec ** (Unlock("block") ** k1)
<1>1. IsSeq(k)
  BY FitProgram
<1>2. Typed("gui", {"myth"}, 0, {}, k1)
  BY MythUnlock, TypedClear DEF InMyth, Facts
<1>3. Typed("gui", {"myth"} \cup {"block"}, 0, {}, Unlock("block") ** k1)
  BY <1>2, RuleUnlock DEF Mutexes
<1>4. Typed("gui", {"myth"} \cup {"block"}, 0 + 1, {}, k2)
  BY <1>3, RuleDec DEF Bound
<1>5. {"myth"} \cup {"block"} = {} \cup {"block"} \cup {"myth"}
  OBVIOUS
<1>6. r \o k = k2 /\ IsSeq(r)
  BY <1>1, Tuple4
<1>7. Typed("gui", {} \cup {"block"} \cup {"myth"}, 0 + 1, {}, k2)
  <2> HIDE DEF k2
  <2> QED
    BY <1>4, <1>5, Zenon
<1> QED
  BY <1>6, <1>7

LEMMA FitChannel ==
  ASSUME NEW k, Fit(k)
  PROVE  Fit(__change_channel \o k)
<1> DEFINE p == <<Set("changing"), Inc, Lock("block")>>
           m == <<Lock("cmyth"), Unlock("cmyth")>>
           then == video_play \o m
           q == PauseAndSet(then)
           r == <<Dec, Unlock("block"), Clear("changing"), Unlock("myth")>>
           k1 == r \o k
           k2 == q \o k1
           k3 == video_clear \o (Lock("myth") ** k2)
           k4 == Inc ** (Lock("block") ** k3)
           h1 == {} \cup {"block"}
           h2 == h1 \cup {"myth"}
<1>1. Program(k) /\ IsSeq(k) /\ IsSeq(video_play) /\ IsSeq(video_clear)
  BY FitProgram, Sequences1
<1>2. Typed("gui", h2, 0 + 1, {}, k1) /\ IsSeq(r) /\ IsSeq(k1)
  BY TypedChannelEnd, TypedGood
<1>3. Typed("gui", h2, 0 + 1, {}, then \o k1)
  <2> HIDE DEF k1
  <2>1. Typed("gui", h2, 0 + 1, {}, Lock("cmyth") ** (Unlock("cmyth") ** k1))
    <3>1. "cmyth" \notin h2 /\ MayLock("gui", h2, {}, "cmyth") /\ Relies("gui", h2, {})
      BY DEF MayLock, Mutexes, Relies
    <3> HIDE DEF h2
    <3>2. Typed("gui", h2 \cup {"cmyth"}, 0 + 1, {}, Unlock("cmyth") ** k1)
      BY <1>2, <3>1, RuleUnlock DEF Mutexes
    <3> QED
      BY <3>1, <3>2, RuleLock
  <2>2. m \o k1 = Lock("cmyth") ** (Unlock("cmyth") ** k1) /\ IsSeq(m)
    BY <1>2, Tuple2
  <2>3. then \o k1 = video_play \o (m \o k1)
    <3>1. IsSeq(m)
      BY <2>2
    <3> HIDE DEF m
    <3>2. Associative(video_play, m, k1)
      BY <1>1, <1>2, <3>1, Regroup, Zenon
    <3> QED
      BY ONLY <3>2 DEF Associative
  <2>4. Typed("gui", h2, 0 + 1, {}, m \o k1)
    BY <2>1, <2>2
  <2>5. Typed("gui", h2, 0 + 1, {}, video_play \o (m \o k1))
    BY <2>4, TypedPlay
  <2> QED
    BY <2>3, <2>5
<1>4. Typed("gui", h2, 0 + 1, {}, k2) /\ IsSeq(q)
  <2> HIDE DEF k1, then
  <2> QED
    BY <1>2, <1>3, TypedPause
<1>5. Program(k2) /\ IsSeq(k2)
  BY <1>4, TypedGood
<1> HIDE DEF k2
<1>6. Typed("gui", {}, 0, {}, k4)
  <2>1. MayLock("gui", h1, {}, "myth") /\ Relies("gui", h1, {}) /\ "myth" \notin h1
        /\ MayLock("gui", {}, {}, "block") /\ Relies("gui", {}, {})
    BY DEF MayLock, Mutexes, Relies
  <2>2. Typed("gui", h1, 0 + 1, {}, Lock("myth") ** k2)
    BY <1>4, <2>1, RuleLock
  <2>3. Typed("gui", h1, 0 + 1, {}, k3)
    BY <2>2, TypedVideoClear
  <2>4. Typed("gui", {}, 0 + 1, {}, Lock("block") ** k3)
    BY <2>1, <2>3, RuleLock
  <2> QED
    BY <2>4, RuleInc DEF Bound
<1>7. Typed("gui", {"myth"}, 0, {"leaked"}, k4)
  <2>1. Typed("gui", {"myth"} \cup {"block"}, 0 + 1, {"leaked"}, k3)
    BY <1>5, LeakedStuck, TypedVideoClear
  <2> QED
    BY <2>1, LeakedBlock
<1>8. Fit(Set("changing") ** k4)
  BY <1>6, <1>7, FitSet DEF Fit, Flags
<1>9. p \o k3 = Set("changing") ** k4 /\ IsSeq(p)
  <2>1. IsSeq(k3)
    BY <1>1, <1>5, SeqJoin, SeqFirst
  <2> HIDE DEF k3
  <2> QED
    BY <2>1, Tuple3
<1>10. __change_channel \o k = p \o k3
  <2> DEFINE l == <<Lock("myth")>>
             a == p \o video_clear \o l
  <2>1. IsSeq(p) /\ IsSeq(q) /\ IsSeq(r) /\ IsSeq(l) /\ IsSeq(k2)
    BY <1>2, <1>4, <1>5, <1>9, Tuple1
  <2>2. __change_channel = p \o video_clear \o l \o q \o r
    BY Zenon DEF __change_channel
  <2>3. IsSeq(a) /\ a \o k2 = p \o (video_clear \o (l \o k2))
    <3> HIDE DEF p, l
    <3>1. Joined3(p, video_clear, l, k2)
      BY <1>1, <2>1, Regroup3, Zenon
    <3> QED
      BY <3>1, Zenon DEF Joined3
  <2>4. (a \o q \o r) \o k = a \o (q \o (r \o k))
    <3> HIDE DEF a, q, r
    <3>1. Joined3(a, q, r, k)
      BY <1>1, <2>1, <2>3, Regroup3, Zenon
    <3> QED
      BY <3>1, Zenon DEF Joined3
  <2> QED
    BY <2>2, <2>3, <2>4, Zenon DEF **, k2
<1> QED
  BY <1>8, <1>9, <1>10, Zenon

LEMMA FitSelectChannel ==
  ASSUME NEW k, Fit(k)
  PROVE  Fit(livetv_select_callback \o k) /\ Fit(mythtv_livetv_select \o k)
<1> DEFINE x == Choose(<<>>, mythtv_livetv_stop)
           y == If("livetv", ChangeChannel, mythtv_livetv_start(ChangeChannel))
<1>1. Program(k) /\ IsSeq(k)
  BY FitProgram
<1>2. Fit(ChangeChannel \o k) /\ IsSeq(ChangeChannel)
  BY FitChangeChannel
<1>3. Fit(mythtv_livetv_start(ChangeChannel) \o k)
  BY <1>2, FitLivetvStart
<1>4. Fit(y ** k)
  BY <1>1, <1>2, <1>3, FitIf
<1> HIDE DEF y
<1>5. Fit(x ** (y ** k))
  <2>1. Program(y ** k) /\ Fit(<<>> \o (y ** k))
    BY <1>4, FitProgram, SeqEmpty
  <2> QED
    BY <1>4, <2>1, FitLivetvStop, FitChoose
<1> HIDE DEF x
<1>6. Fit(Set("livefn") ** (x ** (y ** k)))
  BY <1>5, FitSet DEF Flags
<1>7. <<Set("livefn"), x, y>> \o k = Set("livefn") ** (x ** (y ** k))
  BY <1>1, Tuple3
<1>8. livetv_select_callback = <<Set("livefn"), x, y>>
  BY Zenon DEF livetv_select_callback, x, y
<1> QED
  BY <1>3, <1>6, <1>7, <1>8, Zenon DEF mythtv_livetv_select

LEMMA FitAwait ==
  ASSUME NEW k, Fit(k)
  PROVE  Fit(AwaitNot("reading") ** k)
<1>1. MayAwait("gui", {}, {}, "reading") /\ MayAwait("gui", {"myth"}, {"leaked"}, "reading")
  BY DEF MayAwait
<1> QED
  BY <1>1, RuleAwaitNot DEF Fit

\* Close the file, with myth_mutex locked.
LEMMA FitLockedClose ==
  ASSUME NEW k, Fit(k)
  PROVE  Fit((<<Lock("myth")>> \o mythtv_close_file \o <<Unlock("myth")>>) \o k)
<1>1. InMyth(mythtv_close_file \o (Unlock("myth") ** k))
  BY MythUnlock, MythCloseFile
<1>2. Fit(Lock("myth") ** (mythtv_close_file \o (Unlock("myth") ** k)))
  BY <1>1, FitLock
<1>3. IsSeq(<<Lock("myth")>>) /\ IsSeq(mythtv_close_file) /\ IsSeq(<<Unlock("myth")>>)
      /\ IsSeq(k)
  BY Sequences1, Tuple1, FitProgram
<1>4. (<<Lock("myth")>> \o mythtv_close_file \o <<Unlock("myth")>>) \o k =
        <<Lock("myth")>> \o (mythtv_close_file \o (<<Unlock("myth")>> \o k))
  BY <1>3, Join3
<1> QED
  BY <1>2, <1>4, Zenon DEF **

LEMMA FitShow ==
  ASSUME NEW k, Fit(k)
  PROVE  Fit(show_select_callback \o k)
<1> DEFINE p == <<Lock("myth")>> \o mythtv_close_file \o <<Unlock("myth")>>
           x == If("livetv", mythtv_livetv_stop, p)
           k1 == video_play \o k
           k2 == Rpc ** (AwaitNot("reading") ** k1)
           q == <<Clear("livefn"), x, Rpc, AwaitNot("reading")>>
<1>1. IsSeq(k) /\ IsSeq(video_play)
  BY FitProgram, Sequences1
<1>2. Fit(k2) /\ Program(k2)
  BY FitVideo, FitAwait, FitRpc, FitProgram
<1>3. Fit(x ** k2)
  <2>1. Fit(p \o k2)
    BY <1>2, FitLockedClose
  <2> HIDE DEF p, k2
  <2> QED
    BY <1>2, <2>1, FitLivetvStop, FitIf
<1> HIDE DEF x
<1>4. Fit(Clear("livefn") ** (x ** k2))
  BY <1>3, FitClear
<1>5. q \o k1 = Clear("livefn") ** (x ** k2) /\ IsSeq(q)
  <2>1. IsSeq(k1)
    BY <1>1, SeqJoin
  <2> HIDE DEF k1
  <2> QED
    BY <2>1, Tuple4
<1>6. (q \o video_play) \o k = q \o (video_play \o k)
  <2>1. IsSeq(q)
    BY <1>5
  <2> HIDE DEF q
  <2> QED
    BY <1>1, <2>1, SeqAssociative
<1>7. show_select_callback = q \o video_play
  BY Zenon DEF show_select_callback, x
<1> QED
  BY <1>4, <1>5, <1>6, <1>7, Zenon

LEMMA FitThumbnail ==
  ASSUME NEW k, Fit(k)
  PROVE  Fit(mythtv_start_thumbnail \o k)
<1> DEFINE q == <<Unlock("myth"), AwaitNot("reading")>>
           l == <<Lock("myth")>>
           p == l \o mythtv_close_file \o q \o video_play
           x == If("livetv", livetv_select_callback, p)
           k1 == video_play \o k
           k2 == Unlock("myth") ** (AwaitNot("reading") ** k1)
           k3 == mythtv_close_file \o k2
<1>1. Program(k) /\ IsSeq(k) /\ IsSeq(video_play) /\ IsSeq(mythtv_close_file) /\ IsSeq(l)
  BY FitProgram, Sequences1, Tuple1
<1>2. Fit(Lock("myth") ** k3) /\ IsSeq(k1)
  <2>1. Fit(k1)
    BY FitVideo
  <2>2. InMyth(k2)
    BY <2>1, FitAwait, MythUnlock
  <2> QED
    BY <2>1, <2>2, FitProgram, MythCloseFile, FitLock
<1>3. q \o k1 = k2 /\ IsSeq(q)
  <2> HIDE DEF k1
  <2> QED
    BY <1>2, Tuple2
<1>4. p \o k = l \o (mythtv_close_file \o (q \o (video_play \o k)))
  <2>1. IsSeq(q)
    BY <1>3
  <2> HIDE DEF q, l
  <2>2. Joined4(l, mythtv_close_file, q, video_play, k)
    BY <1>1, <2>1, Regroup4, Zenon
  <2> QED
    BY <2>2, Zenon DEF Joined4
<1>5. Fit(p \o k)
  BY <1>2, <1>3, <1>4, Zenon DEF **
<1>6. Fit(x ** k)
  <2> HIDE DEF p
  <2> QED
    BY <1>1, <1>5, FitSelectChannel, FitIf
<1> HIDE DEF x
<1>7. Fit(Clear("livefn") ** (x ** k))
  BY <1>6, FitClear
<1>8. <<Clear("livefn"), x>> \o k = Clear("livefn") ** (x ** k)
  BY <1>1, Tuple2
<1>9. mythtv_start_thumbnail = <<Clear("livefn"), x>>
  BY Zenon DEF mythtv_start_thumbnail, x
<1> QED
  BY <1>7, <1>8, <1>9, Zenon

LEMMA LivetvStoppedProgram ==
  ASSUME NEW k, Program(k)
  PROVE  Program(LivetvStopped(k))
<1> DEFINE x == Try("rpc", <<Clear("recorder")>>, <<>>)
           k1 == Unlock("myth") ** (Dec ** (Unlock("block") ** k))
           k2 == Rpc ** (x ** k1)
<1>1. Program(k1)
  BY ProgramStep DEF Unlock, Dec, Opcodes
<1> HIDE DEF k1
<1>2. Program(k2)
  <2>1. x[1] \in Opcodes /\ Rpc[1] \in Opcodes
    BY DEF Try, Rpc, Opcodes
  <2> HIDE DEF x
  <2> QED
    BY <1>1, <2>1, ProgramStep
<1> HIDE DEF k2
<1>3. Program(video_clear)
  <2>1. Program(<<>>) /\ Clear("playing")[1] \in Opcodes /\ Idle[1] \in Opcodes
    BY Sequences1, EmptySeq DEF Program, Clear, Idle, Opcodes
  <2>2. Program(Clear("playing") ** (Idle ** <<>>))
    BY <2>1, ProgramStep
  <2>3. video_clear = Clear("playing") ** (Idle ** <<>>)
    BY DEF video_clear, Idle, **
  <2> QED
    BY <2>2, <2>3
<1>4. Program(video_clear \o k2)
  BY <1>2, <1>3, ProgramJoin
<1>5. Program(Clear("via") ** (Clear("livetv") ** (video_clear \o k2)))
  BY <1>4, ProgramStep DEF Clear, Opcodes
<1> QED
  BY <1>5 DEF LivetvStopped, k2, k1

\* mythtv_atexit keeps both mutexes; with live TV on it waits for itself.
LEMMA FitExit == Fit(mythtv_atexit)
<1> DEFINE K1 == {} \cup {"exiting"}
           K2 == {"leaked"} \cup {"exiting"}
           h1 == {} \cup {"seek"}
           h2 == h1 \cup {"myth"}
           k1 == Set("exited") ** <<>>
           k2 == mythtv_close \o k1
           k3 == mythtv_livetv_stop \o k2
<1>1. Typed("gui", h2, 0, K1, k1)
  <2>1. Relies("gui", h2, K1 \cup {"exited"}) /\ Relies("gui", h2, K1)
        /\ 0 \in 0..Bound("gui")
    BY DEF Relies, Facts, Mutexes, Bound
  <2>2. Returned("gui", h2, 0, K1 \cup {"exited"})
    BY DEF Returned
  <2>3. Typed("gui", h2, 0, K1 \cup {"exited"}, <<>>)
    BY <2>1, <2>2, TypedEnd
  <2> QED
    BY <2>1, <2>3, RuleSetLearn
<1>2. Typed("gui", h2, 0, K1, k2) /\ IsSeq(k1)
  BY <1>1, TypedGood, TypedClose
<1>3. Program(k2) /\ IsSeq(k2) /\ Program(LivetvStopped(k2))
  BY <1>2, TypedGood, LivetvStoppedProgram
<1> HIDE DEF k2
<1>4. Typed("gui", h2, 0, K1 \cup {"livetv"}, LivetvStop \o k2)
  <2> DEFINE h3 == h2 \cup {"block"}
             KK == K1 \cup {"livetv"}
             k4 == Lock("myth") ** LivetvStopped(k2)
  <2>1. MayLock("gui", h3, KK, "myth") /\ Relies("gui", h3, KK) /\ Stuck(KK)
        /\ 0 + 1 \in 0..Bound("gui") /\ "myth" \in h3
    BY DEF MayLock, Relies, Facts, Mutexes, Stuck, Bound
  <2>2. Typed("gui", h3, 0 + 1, KK, k4)
    BY <1>3, <2>1, RuleStuck
  <2>3. MayLock("gui", h2, KK, "block") /\ Relies("gui", h2, KK) /\ "block" \notin h2
    BY DEF MayLock, Relies, Facts, Mutexes
  <2>4. Typed("gui", h2, 0 + 1, KK, Lock("block") ** k4)
    BY <2>2, <2>3, RuleLock
  <2>5. Typed("gui", h2, 0, KK, Inc ** (Lock("block") ** k4))
    BY <2>4, RuleInc DEF Bound
  <2> QED
    BY <1>3, <2>5, LivetvStopProgram
<1>5. Typed("gui", h2, 0, K1, k3)
  <2>1. Typed("gui", h2, 0, K1, <<>> \o k2)
    BY <1>2, <1>3, SeqEmpty
  <2>2. Typed("gui", h2, 0, K1, If("livetv", LivetvStop, <<>>) ** k2)
    BY <1>3, <1>4, <2>1, RuleIfExiting
  <2> QED
    BY <1>3, <2>2, LivetvStopProgram DEF **
<1>6. Program(k3) /\ IsSeq(k3)
  BY <1>5, TypedGood
<1> HIDE DEF k3
<1>7. Typed("gui", {}, 0, {}, Set("exiting") ** (Lock("seek") ** (Lock("myth") ** k3)))
  <2>1. MayLock("gui", h1, K1, "myth") /\ Relies("gui", h1, K1) /\ "myth" \notin h1
        /\ MayLock("gui", {}, K1, "seek") /\ Relies("gui", {}, K1) /\ Relies("gui", {}, {})
    BY DEF MayLock, Relies, Facts, Mutexes
  <2>2. Typed("gui", h1, 0, K1, Lock("myth") ** k3)
    BY <1>5, <2>1, RuleLock
  <2>3. Typed("gui", {}, 0, K1, Lock("seek") ** (Lock("myth") ** k3))
    BY <2>1, <2>2, RuleLock
  <2> QED
    BY <2>1, <2>3, RuleSetLearn
<1>8. Typed("gui", {"myth"}, 0, {"leaked"},
            Set("exiting") ** (Lock("seek") ** (Lock("myth") ** k3)))
  <2> DEFINE h4 == {"myth"} \cup {"seek"}
  <2>1. MayLock("gui", h4, K2, "myth") /\ Relies("gui", h4, K2) /\ Stuck(K2)
        /\ 0 \in 0..Bound("gui") /\ "myth" \in h4
    BY DEF MayLock, Relies, Facts, Mutexes, Stuck, Bound
  <2>2. Typed("gui", h4, 0, K2, Lock("myth") ** k3)
    BY <1>6, <2>1, RuleStuck
  <2>3. MayLock("gui", {"myth"}, K2, "seek") /\ Relies("gui", {"myth"}, K2)
        /\ Relies("gui", {"myth"}, {"leaked"}) /\ "seek" \notin {"myth"}
    BY DEF MayLock, Relies, Facts, Mutexes
  <2>4. Typed("gui", {"myth"}, 0, K2, Lock("seek") ** (Lock("myth") ** k3))
    BY <2>2, <2>3, RuleLock
  <2> QED
    BY <2>3, <2>4, RuleSetLearn
<1>9. mythtv_atexit = Set("exiting") ** (Lock("seek") ** (Lock("myth") ** k3))
  <2> DEFINE p == <<Set("exiting"), Lock("seek"), Lock("myth")>>
             e == <<Set("exited")>>
  <2>1. p \o k3 = Set("exiting") ** (Lock("seek") ** (Lock("myth") ** k3)) /\ IsSeq(p)
    BY <1>6, Tuple3
  <2>2. IsSeq(mythtv_livetv_stop) /\ IsSeq(mythtv_close) /\ IsSeq(p) /\ IsSeq(<<>>) /\ IsSeq(e)
    BY <2>1, Sequences1, Tuple1 DEF mythtv_livetv_stop
  <2>3. (p \o mythtv_livetv_stop \o mythtv_close) \o e =
          p \o (mythtv_livetv_stop \o (mythtv_close \o e))
    <3> HIDE DEF p, e
    <3> QED
      BY <2>2, Join3
  <2>4. e = k1
    BY SeqEmpty, <2>2 DEF **
  <2>5. mythtv_atexit = p \o mythtv_livetv_stop \o mythtv_close \o e
    BY Zenon DEF mythtv_atexit
  <2>6. mythtv_atexit = p \o k3
    BY <2>3, <2>4, <2>5, Zenon DEF k3, k2
  <2> QED
    BY <2>1, <2>6, Zenon
<1> QED
  BY <1>7, <1>8, <1>9, Zenon DEF Fit

Ops == {"select", "thumbnail", "stop", "delete", "update", "size", "jump", "livetv",
        "tuner", "new_livetv", "channel", "exit"}

LEMMA FitOp ==
  ASSUME NEW o \in Ops
  PROVE  Fit(Op(o))
<1>1. Fit(<<>>) /\ IsSeq(<<>>) /\ Program(<<>>)
  BY FitEnd, FitProgram
<1> DEFINE k == <<>>
<1>2. k \o k = k
  BY <1>1, SeqEmpty
<1> HIDE DEF k
<1>3. Fit(k) /\ IsSeq(k) /\ Program(k)
  BY <1>1 DEF k
<1>4. ASSUME NEW p, IsSeq(p), Fit(p \o k)
      PROVE  Fit(p)
  BY <1>4, SeqEmpty DEF k
<1>5. IsSeq(show_select_callback) /\ IsSeq(mythtv_start_thumbnail)
      /\ IsSeq(mythtv_delete_prog) /\ IsSeq(mythtv_update) /\ IsSeq(mythtv_size)
      /\ IsSeq(livetv_select_callback) /\ IsSeq(mythtv_livetv_select)
  <2>1. IsSeq(mythtv_start_thumbnail) /\ IsSeq(mythtv_delete_prog) /\ IsSeq(mythtv_size)
        /\ IsSeq(livetv_select_callback) /\ IsSeq(mythtv_update)
    BY <1>3, FitUpdate, Tuple1, Tuple2, Tuple3, Tuple4
       DEF mythtv_start_thumbnail, mythtv_delete_prog, mythtv_size, livetv_select_callback
  <2>2. IsSeq(show_select_callback)
    BY <1>3, Tuple4, Sequences1, SeqJoin DEF show_select_callback
  <2>3. IsSeq(mythtv_livetv_select)
    BY <1>3, FitChangeChannel, FitLivetvStart DEF mythtv_livetv_select
  <2> QED
    BY <2>1, <2>2, <2>3
<1>6. CASE o = "select"
  BY <1>3, <1>4, <1>5, <1>6, FitShow DEF Op
<1>7. CASE o = "thumbnail"
  BY <1>3, <1>4, <1>5, <1>7, FitThumbnail DEF Op
<1>8. CASE o = "stop"
  <2>1. Fit(If("livetv", mythtv_livetv_stop, mythtv_stop) ** k)
    BY <1>3, FitStop, FitLivetvStop, FitIf
  <2> QED
    BY <1>4, <1>8, <2>1, Tuple1 DEF Op, **
<1>9. CASE o = "delete"
  BY <1>3, <1>4, <1>5, <1>9, FitDelete DEF Op
<1>10. CASE o = "update"
  BY <1>3, <1>4, <1>5, <1>10, FitUpdate DEF Op
<1>11. CASE o = "size"
  BY <1>3, <1>4, <1>5, <1>11, FitSize DEF Op
<1>12. CASE o = "jump"
  <2>1. Fit(<<Set("jumping")>> \o k) /\ Fit(<<>> \o k)
    BY <1>2, <1>3, FitSet, SeqEmpty DEF Flags, **
  <2>2. Fit(If("playing", <<Set("jumping")>>, <<>>) ** k)
    BY <1>3, <2>1, FitIf
  <2> QED
    BY <1>4, <1>12, <2>2, Tuple1 DEF Op, **
<1>13. CASE o = "livetv"
  BY <1>3, <1>4, <1>5, <1>13, FitSelectChannel DEF Op
<1>14. CASE o = "tuner"
  BY <1>3, <1>4, <1>5, <1>14, FitSelectChannel DEF Op
<1>15. CASE o = "new_livetv"
  BY <1>15, FitNewLivetv DEF Op
<1>16. CASE o = "channel"
  <2>1. Fit(__change_channel \o k) /\ Fit(<<>> \o k)
    BY <1>3, FitChannel, SeqEmpty
  <2>2. Fit(If("livetv", __change_channel, <<>>) ** k)
    BY <1>3, <2>1, FitIf
  <2> QED
    BY <1>4, <1>16, <2>2, Tuple1 DEF Op, **
<1>17. CASE o = "exit"
  BY <1>17, FitExit DEF Op
<1> QED
  BY <1>6, <1>7, <1>8, <1>9, <1>10, <1>11, <1>12, <1>13, <1>14, <1>15, <1>16, <1>17 DEF Ops

-----------------------------------------------------------------------------
(* The event thread.                                                        *)

LEMMA EventEnd == Typed("event", {}, 0, {}, <<>>)
<1>1. Relies("event", {}, {}) /\ 0 \in 0..Bound("event") /\ Returned("event", {}, 0, {})
  BY DEF Relies, Bound, Returned
<1> QED
  BY <1>1, TypedEnd

LEMMA TypedChainUpdate == Typed("event", {}, 0, {}, mythtv_livetv_chain_update)
<1> DEFINE h == {} \cup {"myth"}
           p == <<Rpc, Lock("cmyth"), Unlock("cmyth")>>
           x == If("recorder", p, <<>>)
           k1 == Unlock("myth") ** <<>>
<1>1. Typed("event", h, 0, {}, k1)
  BY EventEnd, RuleUnlock DEF Mutexes
<1> HIDE DEF k1
<1>2. Program(k1) /\ IsSeq(k1) /\ Typed("event", h, 0, {}, <<>> \o k1)
  BY <1>1, TypedGood, SeqEmpty
<1>3. Typed("event", h, 0, {}, p \o k1)
  <2>1. MayLock("event", h, {}, "cmyth") /\ Relies("event", h, {}) /\ "cmyth" \notin h
    BY DEF MayLock, Relies, Mutexes
  <2>2. Typed("event", h \cup {"cmyth"}, 0, {}, Unlock("cmyth") ** k1)
    BY <1>1, <2>1, RuleUnlock DEF Mutexes
  <2>3. Typed("event", h, 0, {}, Rpc ** (Lock("cmyth") ** (Unlock("cmyth") ** k1)))
    BY <2>1, <2>2, RuleLock, RuleRpc
  <2>4. p \o k1 = Rpc ** (Lock("cmyth") ** (Unlock("cmyth") ** k1))
    BY <1>2, Tuple3
  <2> QED
    BY <2>3, <2>4
<1>4. Typed("event", h, 0, {}, x ** k1)
  <2> HIDE DEF p
  <2> QED
    BY <1>2, <1>3, RuleIf
<1> HIDE DEF x
<1>5. Typed("event", {}, 0, {}, Lock("myth") ** (x ** k1))
  <2>1. MayLock("event", {}, {}, "myth") /\ Relies("event", {}, {})
    BY DEF MayLock, Relies, Mutexes
  <2> QED
    BY <1>4, <2>1, RuleLock
<1>6. mythtv_livetv_chain_update = Lock("myth") ** (x ** k1)
  <2> DEFINE k == <<>>
             s == <<Lock("myth"), x, Unlock("myth")>>
  <2>1. IsSeq(k)
    BY Sequences1
  <2>2. s \o k = Lock("myth") ** (x ** (Unlock("myth") ** k)) /\ IsSeq(s)
    <3> HIDE DEF k
    <3> QED
      BY <2>1, Tuple3
  <2>3. s \o k = s
    <3>1. IsSeq(s)
      BY <2>2
    <3> HIDE DEF s
    <3> QED
      BY <3>1, SeqEmpty
  <2>4. mythtv_livetv_chain_update = s
    BY Zenon DEF mythtv_livetv_chain_update, x
  <2> QED
    BY <2>2, <2>3, <2>4, Zenon DEF k1
<1> QED
  BY <1>5, <1>6

LEMMA TypedEvent ==
  ASSUME NEW e \in {"close", "quit", "chain"}
  PROVE  Typed("event", {}, 0, {}, event_start(e))
<1>1. Typed("event", {}, 0, {}, mythtv_shutdown)
  <2>1. Typed("event", {}, 0, {}, mythtv_close \o <<>>)
    BY EventEnd, TypedClose
  <2> QED
    BY <2>1, Sequences1, SeqEmpty DEF mythtv_shutdown
<1>2. Typed("event", {}, 0, {}, mythtv_livetv_stop \o mythtv_shutdown)
  BY <1>1, TypedLivetvStop
<1> QED
  BY <1>1, <1>2, TypedChainUpdate DEF event_start

-----------------------------------------------------------------------------
(* The read thread.  It is fit for k when it may execute it between two     *)
(* operations, after a seek that was refused too.                           *)

ReadFit(k) ==
  Typed("read", {}, 0, {}, k) /\ Typed("read", {"seek", "block"}, 1, {"leaked"}, k)

\* The same while it opens a stream.
Opening == {} \cup {"reopen"}
OpeningLeaked == {"leaked"} \cup {"reopen"}
OpenFit(k) ==
  /\ Typed("read", {}, 0, Opening, k)
  /\ Typed("read", {"seek", "block"}, 1, OpeningLeaked, k)

LEMMA OpeningFacts ==
  /\ {"lost", "exiting", "livetv", "holds", "marked", "destroys"} \cap Opening = {}
  /\ {"lost", "exiting", "livetv", "holds", "marked", "destroys"} \cap OpeningLeaked = {}
  /\ "reopen" \in Opening /\ "reopen" \in OpeningLeaked /\ "leaked" \in OpeningLeaked
  /\ Otherwise(Opening) /\ Otherwise(OpeningLeaked) /\ Stuck(OpeningLeaked)
  /\ Relies("read", {}, Opening) /\ Relies("read", {"seek", "block"}, OpeningLeaked)
BY DEF Opening, OpeningLeaked, Otherwise, Stuck, Relies, Facts, Mutexes

LEMMA ReadEnd == ReadFit(<<>>) /\ OpenFit(<<>>)
<1>1. Relies("read", {}, {}) /\ Relies("read", {"seek", "block"}, {"leaked"})
      /\ 0 \in 0..Bound("read") /\ 1 \in 0..Bound("read")
  BY DEF Relies, Bound, Facts, Mutexes
<1>2. Returned("read", {}, 0, {}) /\ Returned("read", {"seek", "block"}, 1, {"leaked"})
      /\ Returned("read", {}, 0, Opening)
      /\ Returned("read", {"seek", "block"}, 1, OpeningLeaked)
  BY DEF Returned, Opening, OpeningLeaked
<1> QED
  BY <1>1, <1>2, OpeningFacts, TypedEnd DEF ReadFit, OpenFit

LEMMA ReadProgram ==
  ASSUME NEW k, ReadFit(k) \/ OpenFit(k)
  PROVE  Program(k) /\ IsSeq(k)
BY TypedGood DEF ReadFit, OpenFit

LEMMA OpenSet ==
  ASSUME NEW k, NEW f \in Flags \ {"lost", "exiting", "exited", "closing"}, OpenFit(k)
  PROVE  OpenFit(Set(f) ** k)
BY RuleSet DEF OpenFit

LEMMA OpenClear ==
  ASSUME NEW k, OpenFit(k)
  PROVE  OpenFit(Clear("playing") ** k)
BY TypedClear DEF OpenFit, Facts

LEMMA OpenEnd ==
  ASSUME NEW k, ReadFit(k)
  PROVE  OpenFit(Clear("reopen") ** k)
BY RuleClearOwn DEF OpenFit, ReadFit, Opening, OpeningLeaked

LEMMA OpenTry ==
  ASSUME NEW k, NEW f, NEW p, NEW q, Program(k), OpenFit(p \o k), OpenFit(q \o k)
  PROVE  OpenFit(Try(f, p, q) ** k)
BY RuleTry DEF OpenFit

LEMMA ReadLivetvOpen == OpenFit(livetv_open)
<1> DEFINE k == <<>>
           s == <<Set("via"), Set("jumping"), Clear("reopen")>>
<1>1. ReadFit(k) /\ IsSeq(k)
  BY ReadEnd, ReadProgram
<1>2. s \o k = Set("via") ** (Set("jumping") ** (Clear("reopen") ** k)) /\ IsSeq(s)
  <2> HIDE DEF k
  <2> QED
    BY <1>1, Tuple3
<1>3. OpenFit(Set("via") ** (Set("jumping") ** (Clear("reopen") ** k)))
  <2> HIDE DEF k
  <2> QED
    BY <1>1, OpenSet, OpenEnd DEF Flags
<1>4. s \o k = s
  <2>1. IsSeq(s)
    BY <1>2
  <2> HIDE DEF s
  <2> QED
    BY <2>1, SeqEmpty
<1>5. livetv_open = s
  BY DEF livetv_open
<1> QED
  BY <1>2, <1>3, <1>4, <1>5, Zenon

LEMMA ReadOpen == OpenFit(mythtv_open)
<1> DEFINE k == <<>>
           p == <<Inc, Lock("block"), Set("file"), Dec, Unlock("block"), Set("jumping"),
                  Clear("reopen")>>
           x == Try("connect", p, video_clear)
           r == <<Set("via"), x>>
           c == <<Clear("playing")>>
           q == mythtv_shutdown \o c
           y == Try("connect", r, q)
<1>1. ReadFit(k) /\ OpenFit(k) /\ IsSeq(k) /\ Program(k)
  BY ReadEnd, ReadProgram
<1> HIDE DEF k
<1>2. OpenFit(p \o k)
  <2> DEFINE k1 == Set("jumping") ** (Clear("reopen") ** k)
             k2 == Set("file") ** (Dec ** (Unlock("block") ** k1))
  <2>1. OpenFit(k1) /\ Program(k1)
    BY <1>1, OpenEnd, OpenSet, ReadProgram DEF Flags
  <2> HIDE DEF k1
  <2>2. Typed("read", {} \cup {"block"}, 0, Opening, Unlock("block") ** k1)
    BY <2>1, RuleUnlock DEF OpenFit, Mutexes
  <2>3. Typed("read", {} \cup {"block"}, 0 + 1, Opening, k2)
    <3>1. Typed("read", {} \cup {"block"}, 0 + 1, Opening, Dec ** (Unlock("block") ** k1))
      BY <2>2, RuleDec DEF Bound
    <3> QED
      BY <3>1, RuleSet DEF Flags
  <2>4. Program(k2)
    BY <2>3, TypedGood
  <2> HIDE DEF k2
  <2>5. Typed("read", {}, 0, Opening, Inc ** (Lock("block") ** k2))
    <3>1. MayLock("read", {}, Opening, "block") /\ Relies("read", {}, Opening)
      BY OpeningFacts DEF MayLock, Mutexes
    <3>2. Typed("read", {}, 0 + 1, Opening, Lock("block") ** k2)
      BY <2>3, <3>1, RuleLock
    <3> QED
      BY <3>2, RuleInc DEF Bound
  <2>6. Typed("read", {"seek", "block"}, 1, OpeningLeaked, Inc ** (Lock("block") ** k2))
    <3>1. MayLock("read", {"seek", "block"}, OpeningLeaked, "block") /\ Stuck(OpeningLeaked)
          /\ Relies("read", {"seek", "block"}, OpeningLeaked) /\ 1 + 1 \in 0..Bound("read")
      BY OpeningFacts DEF MayLock, Mutexes, Bound
    <3>2. Typed("read", {"seek", "block"}, 1 + 1, OpeningLeaked, Lock("block") ** k2)
      BY <2>4, <3>1, RuleStuck
    <3> QED
      BY <3>2, RuleInc DEF Bound
  <2>7. p \o k = Inc ** (Lock("block") ** k2)
    BY <1>1, Tuple7 DEF k1, k2
  <2> QED
    BY <2>5, <2>6, <2>7, Zenon DEF OpenFit
<1>3. OpenFit(x ** k)
  <2>1. OpenFit(video_clear \o k)
    BY <1>1, TypedVideoClear DEF OpenFit
  <2> HIDE DEF p
  <2> QED
    BY <1>1, <1>2, <2>1, OpenTry
<1> HIDE DEF x
<1>4. OpenFit(r \o k)
  <2>1. OpenFit(Set("via") ** (x ** k))
    BY <1>3, OpenSet DEF Flags
  <2>2. r \o k = Set("via") ** (x ** k)
    BY <1>1, Tuple2
  <2> QED
    BY <2>1, <2>2
<1>5. OpenFit(q \o k)
  <2>1. OpenFit(Clear("playing") ** k)
    BY <1>1, OpenClear
  <2>2. OpenFit(mythtv_shutdown \o (Clear("playing") ** k))
    BY <2>1, OpeningFacts, TypedClose DEF OpenFit, mythtv_shutdown
  <2>3. q \o k = mythtv_shutdown \o (c \o k)
    <3>1. IsSeq(mythtv_shutdown) /\ IsSeq(c)
      BY Sequences1, Tuple1
    <3> HIDE DEF c
    <3> QED
      BY <1>1, <3>1, SeqAssociative
  <2> QED
    BY <2>2, <2>3, Zenon DEF **
<1>6. OpenFit(y ** k) /\ IsSeq(<<y>>)
  <2> HIDE DEF r, q
  <2> QED
    BY <1>1, <1>4, <1>5, OpenTry, Tuple1
<1> HIDE DEF y
<1>7. OpenFit(mythtv_close_just_file \o (y ** k))
  <2> DEFINE kk == y ** k
  <2>1. Typed("read", {}, 0, Opening, kk) /\ Typed("read", {"seek", "block"}, 1, OpeningLeaked, kk)
    BY <1>6 DEF OpenFit
  <2> HIDE DEF kk
  <2>2. 0 < Bound("read") /\ 1 < Bound("read")
    BY DEF Bound
  <2>3. Typed("read", {}, 0, Opening, mythtv_close_just_file \o kk)
    BY <2>1, <2>2, OpeningFacts, TypedCloseFile
  <2>4. Typed("read", {"seek", "block"}, 1, OpeningLeaked, mythtv_close_just_file \o kk)
    BY <2>1, <2>2, OpeningFacts, TypedCloseFile
  <2> QED
    BY <2>3, <2>4 DEF OpenFit, kk
<1>8. mythtv_open = mythtv_close_just_file \o (y ** k)
  <2>1. <<y>> \o k = <<y>>
    <3> DEFINE s == <<y>>
    <3>1. IsSeq(s)
      BY <1>6
    <3>2. s \o <<>> = s
      <4> HIDE DEF s
      <4> QED
        BY <3>1, SeqEmpty
    <3> QED
      BY <3>2, Zenon DEF k
  <2>2. mythtv_open = mythtv_close_just_file \o <<y>>
    BY Zenon DEF mythtv_open, y, x
  <2> QED
    BY <2>1, <2>2, Zenon DEF **
<1> QED
  BY <1>7, <1>8

LEMMA ReadRead == ReadFit(mythtv_read)
<1> DEFINE K == {} \cup {"holds"}
           h == {} \cup {"seek"}
           k == <<>>
           k1 == Release ** (Unlock("seek") ** k)
           k2 == Take ** k1
<1>1. ReadFit(k) /\ IsSeq(k)
  BY ReadEnd, ReadProgram
<1> HIDE DEF k
<1>2. Typed("read", h, 0, K, k1)
  <2>1. Typed("read", h, 0, {}, Unlock("seek") ** k)
    BY <1>1, RuleUnlock DEF ReadFit, Mutexes
  <2> QED
    BY <2>1, RuleRelease
<1>3. Typed("read", h, 0, K, k2)
  BY <1>2, RuleIdle
<1>4. Program(k2)
  BY <1>3, TypedGood
<1> HIDE DEF k2
<1>5. Typed("read", {}, 0, {}, Hold ** (Lock("seek") ** k2))
  <2>1. MayLock("read", {}, K, "seek") /\ Relies("read", {}, K) /\ Relies("read", {}, {})
    BY DEF MayLock, Relies, Mutexes, Facts, Otherwise
  <2>2. Typed("read", {}, 0, K, Lock("seek") ** k2)
    BY <1>3, <2>1, RuleLock
  <2> QED
    BY <2>1, <2>2, RuleHold
<1>6. Typed("read", {"seek", "block"}, 1, {"leaked"}, Hold ** (Lock("seek") ** k2))
  <2> DEFINE KK == {"leaked"} \cup {"holds"}
             hh == {"seek", "block"}
  <2>1. MayLock("read", hh, KK, "seek") /\ Relies("read", hh, KK)
        /\ Relies("read", hh, {"leaked"}) /\ Stuck(KK) /\ 1 \in 0..Bound("read")
    BY DEF MayLock, Relies, Mutexes, Facts, Stuck, Bound, Otherwise
  <2>2. Typed("read", hh, 1, KK, Lock("seek") ** k2)
    BY <1>4, <2>1, RuleStuck
  <2> QED
    BY <2>1, <2>2, RuleHold
<1>7. mythtv_read = Hold ** (Lock("seek") ** k2)
  <2> DEFINE s == <<Hold, Lock("seek"), Take, Release, Unlock("seek")>>
  <2>1. s \o k = Hold ** (Lock("seek") ** k2) /\ IsSeq(s)
    BY <1>1, Tuple5 DEF k2
  <2>2. s \o <<>> = s
    <3>1. IsSeq(s)
      BY <2>1
    <3> HIDE DEF s
    <3> QED
      BY <3>1, SeqEmpty
  <2>3. mythtv_read = s
    BY Zenon DEF mythtv_read, Hold, Take, Release
  <2> QED
    BY <2>1, <2>2, <2>3, Zenon DEF k
<1> QED
  BY <1>5, <1>6, <1>7, Zenon DEF ReadFit

SeekDone == <<Dec, Unlock("block"), Unlock("myth"), Unlock("seek"), Release>>

SeekRange == Try("range", <<Lock("myth"), Rpc>> \o SeekDone, SeekRefused)

SeekBody ==
  If("livetv", cmyth_livetv_seek \o SeekDone, <<Unlock("myth")>> \o mythtv_size \o <<SeekRange>>)

LEMMA SeekProgram ==
  mythtv_seek = <<Hold, Inc, Lock("seek"), Lock("myth"), Drain, Lock("block"), SeekBody>>
BY Zenon DEF mythtv_seek, Hold, Drain, SeekBody, SeekRange, SeekDone, Release

\* The last instruction of a jump.
JumpEnd == <<Clear("jumping")>>

SeekSeek == {} \cup {"seek"}
SeekMyth == SeekSeek \cup {"myth"}
SeekBlock == SeekMyth \cup {"block"}
SeekFacts == {} \cup {"jumping"} \cup {"holds"}

LEMMA JumpEndTyped ==
  /\ Typed("read", {}, 0, {} \cup {"jumping"}, JumpEnd)
  /\ Typed("read", {"seek", "block"}, 1, {"leaked"} \cup {"jumping"}, JumpEnd)
  /\ Program(JumpEnd) /\ IsSeq(JumpEnd)
<1> DEFINE k == <<>>
<1>1. ReadFit(k) /\ IsSeq(k)
  BY ReadEnd, ReadProgram
<1> HIDE DEF k
<1>2. Typed("read", {}, 0, {} \cup {"jumping"}, Clear("jumping") ** k)
      /\ Typed("read", {"seek", "block"}, 1, {"leaked"} \cup {"jumping"}, Clear("jumping") ** k)
  BY <1>1, RuleClearOwn DEF ReadFit
<1>3. JumpEnd = Clear("jumping") ** k
  <2>1. IsSeq(JumpEnd)
    BY Tuple1 DEF JumpEnd
  <2>2. JumpEnd \o <<>> = JumpEnd
    BY <2>1, SeqEmpty
  <2> QED
    BY <2>2, Zenon DEF k, JumpEnd, **
<1> QED
  BY <1>2, <1>3, TypedGood

LEMMA SeekDoneTyped ==
  Typed("read", SeekBlock, 0 + 1, SeekFacts, SeekDone \o JumpEnd) /\ IsSeq(SeekDone)
<1> DEFINE k == JumpEnd
           K == {} \cup {"jumping"}
           k1 == Release ** k
<1>1. IsSeq(k) /\ Typed("read", {}, 0, K, k)
  BY JumpEndTyped
<1> HIDE DEF k
<1>2. Typed("read", {}, 0, SeekFacts, k1)
  BY <1>1, RuleRelease DEF SeekFacts
<1>3. Typed("read", SeekSeek, 0, SeekFacts, Unlock("seek") ** k1)
  BY <1>2, RuleUnlock DEF Mutexes, SeekSeek
<1>4. Typed("read", SeekMyth, 0, SeekFacts, Unlock("myth") ** (Unlock("seek") ** k1))
  <2>1. "myth" \notin SeekSeek
    BY DEF SeekSeek
  <2> QED
    BY <1>3, <2>1, RuleUnlock DEF Mutexes, SeekMyth
<1>5. Typed("read", SeekBlock, 0, SeekFacts,
            Unlock("block") ** (Unlock("myth") ** (Unlock("seek") ** k1)))
  <2>1. "block" \notin SeekMyth
    BY DEF SeekSeek, SeekMyth
  <2> QED
    BY <1>4, <2>1, RuleUnlock DEF Mutexes, SeekBlock
<1>6. Typed("read", SeekBlock, 0 + 1, SeekFacts,
            Dec ** (Unlock("block") ** (Unlock("myth") ** (Unlock("seek") ** k1))))
  BY <1>5, RuleDec DEF Bound
<1>7. SeekDone \o k = Dec ** (Unlock("block") ** (Unlock("myth") ** (Unlock("seek") ** k1)))
      /\ IsSeq(SeekDone)
  BY <1>1, Tuple5 DEF SeekDone
<1> QED
  BY <1>6, <1>7 DEF k

\* The size is unknown, or the target out of range: seek_mutex and
\* request_block_mutex stay locked.
LEMMA SeekRefusedTyped ==
  Typed("read", SeekSeek \cup {"block"}, 0 + 1, SeekFacts, SeekRefused \o JumpEnd)
<1> DEFINE k == JumpEnd
           h == SeekSeek \cup {"block"}
           K == {"leaked"} \cup {"jumping"}
<1>1. h = {"seek", "block"} /\ 0 + 1 = 1 /\ SeekFacts \cup {"leaked"} = K \cup {"holds"}
      /\ "cmyth" \notin h /\ {"holds", "destroys", "marked"} \cap K = {}
  BY DEF SeekSeek, SeekFacts
<1>2. Typed("read", h, 0 + 1, K, k) /\ IsSeq(k)
  BY <1>1, JumpEndTyped, Zenon
<1>3. Relies("read", h, SeekFacts)
  BY DEF Relies, SeekSeek, SeekFacts, Mutexes, Facts
<1> HIDE DEF k, h, K
<1>4. Typed("read", h, 0 + 1, K \cup {"holds"}, Release ** k)
  BY <1>1, <1>2, RuleRelease
<1>5. Typed("read", h, 0 + 1, SeekFacts \cup {"leaked"}, Release ** k)
  BY <1>1, <1>4, Zenon
<1>6. Typed("read", h, 0 + 1, SeekFacts, Leak ** (Release ** k))
  BY <1>3, <1>5, RuleLeak
<1>7. SeekRefused = <<Leak, Release>>
  BY Zenon DEF SeekRefused, Release
<1>8. <<Leak, Release>> \o k = Leak ** (Release ** k)
  BY <1>2, Tuple2
<1> QED
  BY <1>6, <1>7, <1>8, Zenon DEF k, h

\* Live TV: of a chain of files, with mutex of libcmyth locked, or not.
LEMMA LivetvSeekTyped ==
  ASSUME NEW k, Typed("read", SeekBlock, 0 + 1, SeekFacts, k)
  PROVE  Typed("read", SeekBlock, 0 + 1, SeekFacts, cmyth_livetv_seek \o k)
         /\ IsSeq(cmyth_livetv_seek)
<1> DEFINE hc == SeekBlock \cup {"cmyth"}
           x == Choose(<<>>, <<Rpc>>)
           p == <<Lock("cmyth"), x, Unlock("cmyth")>>
           k1 == Unlock("cmyth") ** k
<1>1. IsSeq(k) /\ Program(k)
  BY TypedGood
<1>2. "cmyth" \notin SeekBlock /\ Otherwise(SeekFacts) /\ "jumping" \in SeekFacts
      /\ MayLock("read", SeekBlock, SeekFacts, "cmyth")
      /\ Relies("read", SeekBlock, SeekFacts)
  BY DEF SeekBlock, SeekMyth, SeekSeek, SeekFacts, Otherwise, MayLock, Relies, Mutexes, Facts
<1>3. Typed("read", hc, 0 + 1, SeekFacts, k1)
  BY <1>2, RuleUnlock DEF Mutexes
<1>4. IsSeq(k1) /\ Program(k1)
  BY <1>3, TypedGood
<1> HIDE DEF k1, hc
<1>5. Typed("read", hc, 0 + 1, SeekFacts, x ** k1)
  <2>1. Typed("read", hc, 0 + 1, SeekFacts, <<Rpc>> \o k1)
    BY <1>2, <1>3, RuleRpc DEF **
  <2>2. Typed("read", hc, 0 + 1, SeekFacts, <<>> \o k1)
    BY <1>3, <1>4, SeqEmpty
  <2> QED
    BY <1>4, <2>1, <2>2, RuleChoose
<1> HIDE DEF x
<1>6. Typed("read", SeekBlock, 0 + 1, SeekFacts, p \o k)
  <2>1. Typed("read", SeekBlock, 0 + 1, SeekFacts, Lock("cmyth") ** (x ** k1))
    BY <1>2, <1>5, RuleLock DEF hc
  <2>2. p \o k = Lock("cmyth") ** (x ** k1)
    BY <1>1, Tuple3 DEF k1
  <2> QED
    BY <2>1, <2>2
<1> HIDE DEF p
<1>7. Typed("read", SeekBlock, 0 + 1, SeekFacts, <<Choose(<<>>, p)>> \o k)
  <2>1. Typed("read", SeekBlock, 0 + 1, SeekFacts, <<>> \o k)
    BY <1>1, SeqEmpty
  <2> QED
    BY <1>1, <1>6, <2>1, RuleChoose DEF **
<1>8. Typed("read", SeekBlock, 0 + 1, SeekFacts, <<Rpc>> \o k)
  BY <1>2, RuleRpc DEF **
<1>9. cmyth_livetv_seek = IF scene.chain THEN <<Choose(<<>>, p)>> ELSE <<Rpc>>
  BY Zenon DEF cmyth_livetv_seek, p, x
<1> QED
  BY <1>7, <1>8, <1>9, Tuple1

LEMMA SeekBodyTyped ==
  Typed("read", SeekBlock, 0 + 1, SeekFacts, SeekBody ** JumpEnd)
<1> DEFINE h == SeekSeek \cup {"block"}
           k == JumpEnd
           kd == SeekDone \o k
           p == <<Lock("myth"), Rpc>> \o SeekDone
           q == cmyth_livetv_seek \o SeekDone
           u == <<Unlock("myth")>>
           r == u \o mythtv_size \o <<SeekRange>>
           k1 == SeekRange ** k
           k2 == mythtv_size \o k1
<1>1. IsSeq(k) /\ Program(k) /\ Typed("read", SeekBlock, 0 + 1, SeekFacts, kd)
      /\ IsSeq(SeekDone)
  BY JumpEndTyped, SeekDoneTyped
<1>2. Typed("read", h, 0 + 1, SeekFacts, SeekRefused \o k)
  BY SeekRefusedTyped
<1>3. h \cup {"myth"} = SeekBlock /\ "myth" \notin h /\ MayLock("read", h, SeekFacts, "myth")
      /\ Relies("read", h, SeekFacts) /\ "cmyth" \notin SeekBlock
      /\ "jumping" \in SeekFacts /\ Otherwise(SeekFacts)
  BY DEF SeekBlock, SeekMyth, SeekSeek, SeekFacts, MayLock, Relies, Mutexes, Facts, Otherwise
<1> HIDE DEF k, h
<1>4. Typed("read", h, 0 + 1, SeekFacts, p \o k)
  <2> DEFINE l == <<Lock("myth"), Rpc>>
  <2>1. Typed("read", h \cup {"myth"}, 0 + 1, SeekFacts, Rpc ** kd)
    <3> HIDE DEF kd
    <3>1. Typed("read", SeekBlock, 0 + 1, SeekFacts, Rpc ** kd)
      BY <1>1, <1>3, RuleRpc
    <3> QED
      BY <1>3, <3>1, Zenon
  <2>2. Typed("read", h, 0 + 1, SeekFacts, Lock("myth") ** (Rpc ** kd))
    BY <1>3, <2>1, RuleLock
  <2>3. IsSeq(kd)
    BY <1>1, TypedGood
  <2>4. l \o kd = Lock("myth") ** (Rpc ** kd) /\ IsSeq(l)
    <3> HIDE DEF kd
    <3> QED
      BY <2>3, Tuple2
  <2>5. (l \o SeekDone) \o k = l \o (SeekDone \o k)
    <3>1. IsSeq(l)
      BY <2>4
    <3> HIDE DEF l
    <3>2. Associative(l, SeekDone, k)
      BY <1>1, <3>1, Regroup, Zenon
    <3> QED
      BY ONLY <3>2 DEF Associative
  <2> QED
    BY <2>2, <2>4, <2>5, Zenon
<1>5. Typed("read", h, 0 + 1, SeekFacts, k1)
  <2> HIDE DEF p
  <2>1. Typed("read", h, 0 + 1, SeekFacts, Try("range", p, SeekRefused) ** k)
    BY <1>1, <1>2, <1>4, RuleTry
  <2> QED
    BY <2>1, Zenon DEF SeekRange, p
<1>6. IsSeq(k1) /\ Program(k1)
  BY <1>5, TypedGood
<1> HIDE DEF k1
<1>7. Typed("read", h, 0 + 1, SeekFacts, k2)
  <2> DEFINE k3 == Rpc ** (Unlock("myth") ** k1)
  <2>1. Typed("read", h \cup {"myth"}, 0 + 1, SeekFacts, Unlock("myth") ** k1)
    BY <1>3, <1>5, RuleUnlock DEF Mutexes
  <2>2. Typed("read", h \cup {"myth"}, 0 + 1, SeekFacts, k3)
    <3>1. "cmyth" \notin h \cup {"myth"}
      BY <1>3
    <3> QED
      BY <1>3, <2>1, <3>1, RuleRpc
  <2>3. Typed("read", h, 0 + 1, SeekFacts, Lock("myth") ** k3)
    BY <1>3, <2>2, RuleLock
  <2>4. Typed("read", h, 0 + 1, SeekFacts, mythtv_update \o k1)
    <3>1. mythtv_update \o k1 = Lock("myth") ** k3
      BY <1>6, Tuple3 DEF mythtv_update
    <3> QED
      BY <2>3, <3>1
  <2>5. Typed("read", h, 0 + 1, SeekFacts, <<>> \o k1)
    BY <1>5, <1>6, SeqEmpty
  <2>6. Typed("read", h, 0 + 1, SeekFacts, Choose(<<>>, mythtv_update) ** k1)
    BY <1>6, <2>4, <2>5, RuleChoose
  <2>7. mythtv_size \o k1 = Choose(<<>>, mythtv_update) ** k1
    BY Zenon DEF mythtv_size, mythtv_update, **
  <2> QED
    BY <2>6, <2>7
<1>8. Typed("read", SeekBlock, 0 + 1, SeekFacts, r \o k)
  <2>1. Typed("read", h \cup {"myth"}, 0 + 1, SeekFacts, Unlock("myth") ** k2)
    <3> HIDE DEF k2
    <3> QED
      BY <1>3, <1>7, RuleUnlock DEF Mutexes
  <2>2. IsSeq(u) /\ IsSeq(mythtv_size) /\ IsSeq(<<SeekRange>>)
    BY Tuple1 DEF mythtv_size
  <2>3. r \o k = u \o (mythtv_size \o (<<SeekRange>> \o k))
    <3> HIDE DEF u
    <3> QED
      BY <1>1, <2>2, Join3
  <2> QED
    BY <1>3, <2>1, <2>3, Zenon DEF **, k1
<1>9. Typed("read", SeekBlock, 0 + 1, SeekFacts, q \o k)
  <2>1. IsSeq(kd) /\ Program(kd)
    BY <1>1, TypedGood
  <2>2. Typed("read", SeekBlock, 0 + 1, SeekFacts, cmyth_livetv_seek \o kd)
        /\ IsSeq(cmyth_livetv_seek)
    <3> HIDE DEF kd
    <3> QED
      BY <1>1, <2>1, LivetvSeekTyped
  <2>3. (cmyth_livetv_seek \o SeekDone) \o k = cmyth_livetv_seek \o (SeekDone \o k)
    <3>1. Associative(cmyth_livetv_seek, SeekDone, k)
      BY <1>1, <2>2, Regroup, Zenon
    <3> QED
      BY ONLY <3>1 DEF Associative
  <2> QED
    BY <2>2, <2>3, Zenon
<1>10. "exiting" \notin SeekFacts
  BY DEF SeekFacts
<1> HIDE DEF q, r
<1>11. Typed("read", SeekBlock, 0 + 1, SeekFacts, If("livetv", q, r) ** k)
  BY <1>1, <1>8, <1>9, <1>10, RuleIf
<1> QED
  BY <1>11, Zenon DEF SeekBody, q, r, k

\* A jump starts with jumping set, and keeps it so to its end.
LEMMA ReadSeek ==
  /\ Typed("read", {}, 0, {} \cup {"jumping"}, mythtv_seek \o JumpEnd)
  /\ Typed("read", {"seek", "block"}, 1, {"leaked"} \cup {"jumping"}, mythtv_seek \o JumpEnd)
<1> DEFINE K == {} \cup {"jumping"}
           k == JumpEnd
           k1 == SeekBody ** k
           k2 == Lock("myth") ** (Drain ** (Lock("block") ** k1))
<1>1. IsSeq(k) /\ Typed("read", SeekBlock, 0 + 1, SeekFacts, k1)
  BY JumpEndTyped, SeekBodyTyped
<1> HIDE DEF k, k1
<1>2. Typed("read", SeekSeek, 0 + 1, SeekFacts, k2)
  <2>1. /\ MayLock("read", SeekMyth, SeekFacts, "block") /\ Relies("read", SeekMyth, SeekFacts)
        /\ MayLock("read", SeekSeek, SeekFacts, "myth") /\ Relies("read", SeekSeek, SeekFacts)
        /\ "block" \notin SeekMyth /\ "myth" \notin SeekSeek /\ "jumping" \in SeekFacts
    BY DEF MayLock, Relies, SeekMyth, SeekSeek, SeekFacts, Mutexes, Facts, Otherwise
  <2>2. Typed("read", SeekMyth, 0 + 1, SeekFacts, Lock("block") ** k1)
    BY <1>1, <2>1, RuleLock DEF SeekBlock
  <2>3. Typed("read", SeekMyth, 0 + 1, SeekFacts, Drain ** (Lock("block") ** k1))
    BY <2>1, <2>2, RuleDrain
  <2> QED
    BY <2>1, <2>3, RuleLock DEF SeekMyth
<1>3. Program(k2)
  BY <1>2, TypedGood
<1> HIDE DEF k2
<1>4. Typed("read", {}, 0, K, Hold ** (Inc ** (Lock("seek") ** k2)))
  <2>1. MayLock("read", {}, SeekFacts, "seek") /\ Relies("read", {}, SeekFacts)
        /\ Relies("read", {}, K)
    BY DEF MayLock, Relies, SeekFacts, Mutexes, Facts, Otherwise
  <2>2. Typed("read", {}, 0 + 1, SeekFacts, Lock("seek") ** k2)
    BY <1>2, <2>1, RuleLock DEF SeekSeek
  <2>3. Typed("read", {}, 0, SeekFacts, Inc ** (Lock("seek") ** k2))
    BY <2>2, RuleInc DEF Bound
  <2> QED
    BY <2>1, <2>3, RuleHold DEF SeekFacts
<1>5. Typed("read", {"seek", "block"}, 1, {"leaked"} \cup {"jumping"},
            Hold ** (Inc ** (Lock("seek") ** k2)))
  <2> DEFINE h == {"seek", "block"}
             KK == {"leaked"} \cup {"jumping"}
             KH == KK \cup {"holds"}
  <2>1. MayLock("read", h, KH, "seek") /\ Relies("read", h, KH) /\ Relies("read", h, KK)
        /\ Stuck(KH) /\ 1 + 1 \in 0..Bound("read")
    BY DEF MayLock, Relies, Mutexes, Facts, Stuck, Bound, Otherwise
  <2>2. Typed("read", h, 1 + 1, KH, Lock("seek") ** k2)
    BY <1>3, <2>1, RuleStuck
  <2>3. Typed("read", h, 1, KH, Inc ** (Lock("seek") ** k2))
    BY <2>2, RuleInc DEF Bound
  <2> QED
    BY <2>1, <2>3, RuleHold
<1>6. mythtv_seek \o k = Hold ** (Inc ** (Lock("seek") ** k2))
  BY <1>1, SeekProgram, Tuple7 DEF k1, k2
<1> QED
  BY <1>4, <1>5, <1>6, Zenon DEF k

-----------------------------------------------------------------------------
(* The control thread.                                                      *)

LEMMA RuleUnless ==
  ASSUME NEW t, NEW h, NEW c, NEW K, NEW k, Typed(t, h, c, K, k),
         Typed(t, h, c, K \cup {"asked"}, request_block("file") \o k),
         Typed(t, h, c, K \cup {"asked"}, request_block("recorder") \o k),
         Typed(t, h, c, K \cup {"asked", "chain"}, RequestChain \o k)
  PROVE  Typed(t, h, c, K, Unless ** k)
<1>1. PICK P : Closed(t, P) /\ <<h, c, K, k>> \in P
               /\ <<h, c, K \cup {"asked"}, request_block("file") \o k>> \in P
  BY TypedBoth
<1>2. PICK Q : Closed(t, Q) /\ <<h, c, K \cup {"asked", "chain"}, RequestChain \o k>> \in Q
               /\ <<h, c, K \cup {"asked"}, request_block("recorder") \o k>> \in Q
  BY TypedBoth
<1>3. Closed(t, P \cup Q)
  BY <1>1, <1>2, ClosedUnion
<1>4. Allowed(t, P \cup Q, h, c, K, Unless, k) /\ Unless[1] \in Opcodes
  BY <1>1, <1>2 DEF Allowed, Unless, Opcodes
<1> QED
  BY <1>3, <1>4, TypedGood, TypedStep

Afterwards == {<<>>, <<Clear("reading")>>, <<Clear("reading")>> \o mythtv_shutdown}

LEMMA RuleAnswer ==
  ASSUME NEW h, NEW c, NEW K, NEW k, "asked" \notin K, "cmyth" \notin h, "block" \in h,
         Program(k), \A after \in Afterwards : Typed("control", h, c, K, k \o after)
  PROVE  Typed("control", h \cup {"cmyth"}, c, K \cup {"asked"}, Answer ** k)
<1> DEFINE a1 == <<>>
           a2 == <<Clear("reading")>>
           a3 == <<Clear("reading")>> \o mythtv_shutdown
<1>1. Afterwards = {a1, a2, a3}
  BY DEF Afterwards
<1> HIDE DEF a1, a2, a3
<1>2. PICK P : Closed("control", P) /\ <<h, c, K, k \o a1>> \in P
               /\ <<h, c, K, k \o a2>> \in P
  BY <1>1, TypedBoth
<1>3. PICK Q : Closed("control", Q) /\ <<h, c, K, k \o a3>> \in Q
  BY <1>1 DEF Typed
<1>4. Closed("control", P \cup Q)
  BY <1>2, <1>3, ClosedUnion
<1>5. (h \cup {"cmyth"}) \ {"cmyth"} = h /\ (K \cup {"asked"}) \ {"asked"} = K
  OBVIOUS
<1>6. \A after \in Afterwards : <<h, c, K, k \o after>> \in P \cup Q
  BY <1>1, <1>2, <1>3
<1>7. Allowed("control", P \cup Q, h \cup {"cmyth"}, c, K \cup {"asked"}, Answer, k)
      /\ Answer[1] \in Opcodes
  BY <1>5, <1>6 DEF Allowed, Answer, Opcodes, Afterwards
<1>8. Typed("control", h, c, K, k \o a1)
  BY <1>1
<1>9. Relies("control", h \cup {"cmyth"}, K \cup {"asked"}) /\ c \in 0..Bound("control")
  BY <1>8, TypedGood DEF Relies, Facts, Mutexes
<1> QED
  BY <1>4, <1>7, <1>9, TypedStep

LEMMA ControlEnd == Typed("control", {}, 0, {}, <<>>)
<1>1. Relies("control", {}, {}) /\ 0 \in 0..Bound("control") /\ Returned("control", {}, 0, {})
  BY DEF Relies, Bound, Returned
<1> QED
  BY <1>1, TypedEnd

LEMMA ControlAfter ==
  ASSUME NEW after \in Afterwards
  PROVE  Typed("control", {}, 0, {}, after) /\ IsSeq(after)
<1> DEFINE s == <<Clear("reading")>>
<1>1. Typed("control", {}, 0, {}, s \o <<>>) /\ IsSeq(s)
  BY ControlEnd, TypedClear, Tuple1 DEF Facts, **
<1>2. s \o <<>> = s
  <2> HIDE DEF s
  <2> QED
    BY <1>1, SeqEmpty
<1>3. Typed("control", {}, 0, {}, mythtv_shutdown)
  <2>1. Typed("control", {}, 0, {}, mythtv_close \o <<>>)
    BY ControlEnd, TypedClose
  <2> QED
    BY <2>1, Sequences1, SeqEmpty DEF mythtv_shutdown
<1>4. Typed("control", {}, 0, {}, Clear("reading") ** mythtv_shutdown)
  BY <1>3, TypedClear DEF Facts
<1>5. Typed("control", {}, 0, {}, s \o mythtv_shutdown)
  BY <1>4 DEF **
<1>6. Typed("control", {}, 0, {}, s)
  BY <1>1, <1>2, Zenon
<1> HIDE DEF s
<1>7. after \in {<<>>, s, s \o mythtv_shutdown}
  BY DEF s, Afterwards
<1>8. Typed("control", {}, 0, {}, after)
  BY <1>5, <1>6, <1>7, ControlEnd
<1> QED
  BY <1>8, TypedGood

ControlRest == <<Clear("doing"), Unlock("block"), Lock("myth"), Unlock("myth")>>

LEMMA ControlRestTyped ==
  ASSUME NEW k, Typed("control", {}, 0, {}, k)
  PROVE  Typed("control", {} \cup {"block"}, 0, {}, ControlRest \o k) /\ IsSeq(ControlRest)
<1> DEFINE k1 == Lock("myth") ** (Unlock("myth") ** k)
           k2 == Clear("doing") ** (Unlock("block") ** k1)
<1>1. IsSeq(k)
  BY TypedGood
<1>2. MayLock("control", {}, {}, "myth") /\ Relies("control", {}, {})
  BY DEF MayLock, Relies, Mutexes
<1>3. Typed("control", {} \cup {"myth"}, 0, {}, Unlock("myth") ** k)
  BY RuleUnlock DEF Mutexes
<1>4. Typed("control", {}, 0, {}, k1)
  BY <1>2, <1>3, RuleLock
<1>5. Typed("control", {} \cup {"block"}, 0, {}, Unlock("block") ** k1)
  BY <1>4, RuleUnlock DEF Mutexes
<1>6. Typed("control", {} \cup {"block"}, 0, {}, k2)
  BY <1>5, TypedClear DEF Facts
<1>7. ControlRest \o k = k2 /\ IsSeq(ControlRest)
  BY <1>1, Tuple4 DEF ControlRest
<1> QED
  BY <1>6, <1>7

LEMMA ControlStart == Typed("control", {}, 0, {}, control_start)
<1> DEFINE h == {} \cup {"block"}
           hc == h \cup {"cmyth"}
           k == ControlRest
           K1 == {} \cup {"asked"}
           K2 == {} \cup {"asked", "chain"}
<1>1. Typed("control", h, 0, {}, k) /\ IsSeq(k) /\ Program(k)
  <2>1. Typed("control", h, 0, {}, ControlRest \o <<>>) /\ IsSeq(ControlRest)
    BY ControlEnd, ControlRestTyped
  <2> QED
    BY <2>1, SeqEmpty, TypedGood
<1>2. \A after \in Afterwards : Typed("control", h, 0, {}, k \o after)
  BY ControlAfter, ControlRestTyped
<1> HIDE DEF k
<1>3. Typed("control", hc, 0, K1, Answer ** k)
  BY <1>1, <1>2, RuleAnswer
<1>5. ASSUME NEW from
      PROVE  request_block(from) = <<Lock("cmyth"), Send(from), Answer>>
             /\ IsSeq(request_block(from))
  <2>1. request_block(from) = <<Lock("cmyth"), Send(from), Answer>>
    BY Zenon DEF request_block, Send, Answer
  <2>2. IsSeq(<<Lock("cmyth"), Send(from), Answer>>)
    BY <1>1, Tuple3
  <2> QED
    BY <2>1, <2>2, Zenon
<1>7. ASSUME NEW from \in {"file", "recorder"}
      PROVE  Typed("control", h, 0, K1, request_block(from) \o k)
  <2> DEFINE k1 == Send(from) ** (Answer ** k)
  <2>1. MayLock("control", h, K1, "cmyth") /\ Relies("control", h, K1) /\ "cmyth" \notin h
    BY DEF MayLock, Relies, Mutexes, Facts
  <2>2. Typed("control", hc, 0, K1, k1)
    BY <1>3, RuleSend
  <2>3. <<Lock("cmyth"), Send(from), Answer>> \o k = Lock("cmyth") ** k1
    BY <1>1, Tuple3
  <2> HIDE DEF k1
  <2>4. Typed("control", h, 0, K1, Lock("cmyth") ** k1)
    BY <2>1, <2>2, RuleLock
  <2> QED
    BY <1>5, <2>3, <2>4, Zenon
<1>8. Typed("control", h, 0, K2, RequestChain \o k)
  <2> DEFINE l == <<Lock("cmyth")>>
             u == <<Unlock("cmyth")>>
             b == request_block("recorder")
             ku == Unlock("cmyth") ** k
             k2 == Send("recorder") ** (Answer ** ku)
  <2>1. Program(ku) /\ IsSeq(ku)
    BY <1>1, ProgramStep, SeqFirst DEF Unlock, Opcodes
  <2>2. Program(k2)
    BY <2>1, ProgramStep DEF Send, Answer, Opcodes
  <2>3. MayLock("control", hc, K2, "cmyth") /\ Relies("control", hc, K2) /\ Stuck(K2)
        /\ MayLock("control", h, K2, "cmyth") /\ Relies("control", h, K2)
        /\ "cmyth" \notin h /\ "cmyth" \in hc /\ 0 \in 0..Bound("control")
    BY DEF MayLock, Relies, Mutexes, Facts, Stuck, Bound
  <2> HIDE DEF ku
  <2>4. <<Lock("cmyth"), Send("recorder"), Answer>> \o ku = Lock("cmyth") ** k2
    BY <2>1, Tuple3
  <2> HIDE DEF k2
  <2>5. Typed("control", hc, 0, K2, Lock("cmyth") ** k2)
    BY <2>2, <2>3, RuleStuck
  <2>6. Typed("control", h, 0, K2, Lock("cmyth") ** (Lock("cmyth") ** k2))
    BY <2>3, <2>5, RuleLock
  <2>7. IsSeq(l) /\ IsSeq(u) /\ IsSeq(b)
    BY <1>5, Tuple1
  <2>8. (l \o b \o u) \o k = l \o (b \o (u \o k))
    <3> HIDE DEF l, u, b
    <3>1. Joined3(l, b, u, k)
      BY <1>1, <2>7, Regroup3, Zenon
    <3> QED
      BY <3>1, Zenon DEF Joined3
  <2>9. b \o ku = Lock("cmyth") ** k2
    BY <1>5, <2>4, Zenon
  <2> QED
    BY <2>6, <2>8, <2>9, Zenon DEF RequestChain, **, ku, b
<1>9. Typed("control", h, 0, {}, Set("doing") ** (Unless ** k))
  <2>1. Typed("control", h, 0, {}, Unless ** k)
    BY <1>1, <1>7, <1>8, RuleUnless
  <2> QED
    BY <2>1, RuleSet DEF Flags
<1>10. Typed("control", {}, 0, {}, Lock("block") ** (Set("doing") ** (Unless ** k)))
  <2>1. MayLock("control", {}, {}, "block") /\ Relies("control", {}, {})
    BY DEF MayLock, Relies, Mutexes
  <2> QED
    BY <1>9, <2>1, RuleLock
<1>11. control_start = Lock("block") ** (Set("doing") ** (Unless ** k))
  <2> DEFINE e == <<>>
             s == <<Lock("block"), Set("doing"), Unless, Clear("doing"), Unlock("block"),
                    Lock("myth"), Unlock("myth")>>
             r == Clear("doing") ** (Unlock("block") ** (Lock("myth") ** (Unlock("myth") ** e)))
  <2>1. IsSeq(e)
    BY Sequences1
  <2>2. s \o e = Lock("block") ** (Set("doing") ** (Unless ** r)) /\ IsSeq(s)
    <3> HIDE DEF e
    <3> QED
      BY <2>1, Tuple7
  <2>3. ControlRest \o e = r /\ IsSeq(ControlRest)
    <3> HIDE DEF e
    <3> QED
      BY <2>1, Tuple4 DEF ControlRest
  <2>4. ControlRest \o e = ControlRest
    BY <2>3, SeqEmpty
  <2>5. s \o e = s
    <3>1. IsSeq(s)
      BY <2>2
    <3> HIDE DEF s
    <3> QED
      BY <3>1, SeqEmpty
  <2>6. control_start = s
    BY Zenon DEF control_start, Unless
  <2> HIDE DEF s, r, e
  <2> QED
    BY <2>2, <2>3, <2>4, <2>5, <2>6, Zenon DEF k
<1> QED
  BY <1>10, <1>11

LEMMA ControlSet ==
  Typed("control", {}, 0, {}, <<Set("reading")>>)
  /\ Typed("control", {}, 0, {}, <<Clear("reading")>>)
<1> DEFINE s == <<Set("reading")>>
<1>1. Typed("control", {}, 0, {}, s \o <<>>) /\ IsSeq(s)
  BY ControlEnd, RuleSet, Tuple1 DEF Flags, **
<1>2. s \o <<>> = s
  <2> HIDE DEF s
  <2> QED
    BY <1>1, SeqEmpty
<1>3. Typed("control", {}, 0, {}, s)
  BY <1>1, <1>2, Zenon
<1> QED
  BY <1>3, ControlAfter DEF Afterwards

-----------------------------------------------------------------------------
(* The inductive invariant: there is an abstract state of every thread in   *)
(* which it may execute what it has still to execute, what the threads rely *)
(* on is true, and prevent is what they have added to it.                   *)

Held(t) == {m \in Mutexes : owner[m] = t}

TrueFacts(K) ==
  /\ "leaked" \in K => leaked
  /\ \A f \in {"lost", "exiting", "exited", "jumping", "reopen", "livetv"} :
       f \in K => f \in flag
  /\ "marked" \in K => {"closing", "lost"} \cap flag # {}
  /\ "asked" \in K => "lost" \in flag \/ Playable
  /\ "chain" \in K => scene.chain

Places == {"none", "file", "recorder"}

Shape ==
  /\ scene \in Scenes /\ owner \in [Mutexes -> Threads \cup {"none"}]
  /\ prevent \in Int /\ flag \subseteq Flags
  /\ data \in Places /\ holder \in SUBSET {"file", "recorder"} /\ leaked \in BOOLEAN
  /\ DOMAIN todo = Threads /\ todo = [t \in Threads |-> todo[t]]

\* Thread t waits until the file is closed.
Awaits(t) == todo[t] # <<>> /\ Head(todo[t]) = AwaitNot("closing")

\* The file was dropped while the read thread held it: whoever has dropped it
\* keeps request_block_mutex and waits until it is closed.
Gone(KR) ==
  "lost" \notin flag /\ ("destroys" \in KR \/ ("file" \in holder /\ "file" \notin flag))
Awaited == "closing" \in flag /\ \E t \in Threads : "block" \in Held(t) /\ Awaits(t)

Fits(C, K) ==
  /\ C \in [Threads -> 0..2] /\ K \in [Threads -> SUBSET Facts]
  /\ prevent = C["gui"] + C["read"] + C["control"] + C["event"]
  /\ holder # {} => "holds" \in K["read"]
  /\ Gone(K["read"]) => Awaited
  /\ \A t \in Threads : Typed(t, Held(t), C[t], K[t], todo[t]) /\ TrueFacts(K[t])

IInv == Shape /\ \E C, K : Fits(C, K)

\* Thread t goes on: what has to be shown of a step.
LEMMA Advance ==
  ASSUME NEW C, NEW K, Shape, Fits(C, K), NEW t \in Threads, NEW c \in 0..2,
         NEW KK \in SUBSET Facts, NEW s, Becomes(t, s),
         scene' \in Scenes, owner' \in [Mutexes -> Threads \cup {"none"}],
         flag' \subseteq Flags, data' \in Places, leaked' \in BOOLEAN,
         holder' \in SUBSET {"file", "recorder"},
         prevent' = (prevent - C[t]) + c,
         Typed(t, Held(t)', c, KK, s), TrueFacts(KK)',
         \A u \in Threads \ {t} : Held(u)' = Held(u) /\ TrueFacts(K[u])',
         holder' # {} => IF t = "read" THEN "holds" \in KK ELSE holder # {},
         "closing" \in flag => ~Awaits(t),
         Gone(IF t = "read" THEN KK ELSE K["read"])' =>
           Awaited' \/ (Gone(K["read"]) /\ "closing" \in flag')
  PROVE  IInv'
<1> DEFINE CC == [C EXCEPT ![t] = c]
           KN == [K EXCEPT ![t] = KK]
<1>1. C \in [Threads -> 0..2] /\ K \in [Threads -> SUBSET Facts]
  BY DEF Fits
<1>2. CC \in [Threads -> 0..2] /\ KN \in [Threads -> SUBSET Facts]
  BY <1>1
<1>3. prevent' = CC["gui"] + CC["read"] + CC["control"] + CC["event"] /\ prevent' \in Int
  <2>1. C["gui"] \in Int /\ C["read"] \in Int /\ C["control"] \in Int /\ C["event"] \in Int
        /\ c \in Int
    BY <1>1 DEF Threads
  <2>2. prevent = C["gui"] + C["read"] + C["control"] + C["event"]
        /\ prevent' = (prevent - C[t]) + c
    BY DEF Fits
  <2>3. CC[t] = c /\ \A u \in Threads \ {t} : CC[u] = C[u]
    BY <1>1
  <2> HIDE DEF CC
  <2>4. CASE t = "gui"
    BY ONLY <2>1, <2>2, <2>3, <2>4 DEF Threads
  <2>5. CASE t = "read"
    BY ONLY <2>1, <2>2, <2>3, <2>5 DEF Threads
  <2>6. CASE t = "control"
    BY ONLY <2>1, <2>2, <2>3, <2>6 DEF Threads
  <2>7. CASE t = "event"
    BY ONLY <2>1, <2>2, <2>3, <2>7 DEF Threads
  <2> QED
    BY <2>4, <2>5, <2>6, <2>7 DEF Threads
<1>4. todo' = [todo EXCEPT ![t] = s] /\ DOMAIN todo = Threads
      /\ todo = [u \in Threads |-> todo[u]]
  BY DEF Becomes, Shape
<1>5. Shape'
  BY <1>3, <1>4 DEF Shape
<1>6. ASSUME NEW u \in Threads
      PROVE  Typed(u, Held(u)', CC[u], KN[u], todo'[u]) /\ TrueFacts(KN[u])'
  <2>1. CASE u = t
    <3>1. CC[u] = c /\ KN[u] = KK /\ todo'[u] = s
      BY <1>1, <1>4, <2>1
    <3> HIDE DEF CC, KN
    <3> QED
      BY <2>1, <3>1, Zenon
  <2>2. CASE u # t
    <3>1. CC[u] = C[u] /\ KN[u] = K[u] /\ todo'[u] = todo[u]
      BY <1>1, <1>4, <2>2
    <3>2. Held(u)' = Held(u) /\ TrueFacts(K[u])' /\ Typed(u, Held(u), C[u], K[u], todo[u])
      BY <2>2 DEF Fits
    <3> HIDE DEF CC, KN
    <3> QED
      BY <3>1, <3>2, Zenon
  <2> QED
    BY <2>1, <2>2
<1>7. holder' # {} => "holds" \in KN["read"]
  <2>1. holder # {} => "holds" \in K["read"]
    BY DEF Fits
  <2> QED
    BY <1>1, <2>1 DEF Threads
<1>8. Gone(KN["read"])' => Awaited'
  <2> SUFFICES ASSUME Gone(KN["read"])', ~Awaited'
               PROVE  FALSE
    OBVIOUS
  <2>1. KN["read"] = IF t = "read" THEN KK ELSE K["read"]
    BY <1>1 DEF Threads
  <2> HIDE DEF KN
  <2>2. Gone(K["read"]) /\ "closing" \in flag'
    BY <2>1, Zenon
  <2>3. Awaited
    BY <2>2 DEF Fits
  <2>4. PICK w \in Threads : "block" \in Held(w) /\ Awaits(w) /\ w # t
    BY <2>3 DEF Awaited
  <2>5. Held(w)' = Held(w) /\ todo'[w] = todo[w]
    BY <1>4, <2>4
  <2>6. Awaits(w)'
    BY <2>4, <2>5 DEF Awaits
  <2> QED
    BY <2>2, <2>4, <2>5, <2>6 DEF Awaited
<1>9. Fits(CC, KN)'
  <2> HIDE DEF CC, KN
  <2> QED
    BY <1>2, <1>3, <1>6, <1>7, <1>8 DEF Fits
<1> QED
  BY <1>5, <1>9 DEF IInv

\* Its next instruction is allowed.
LEMMA NextAllowed ==
  ASSUME NEW t, NEW h, NEW c, NEW K, NEW s, Typed(t, h, c, K, s), s # <<>>
  PROVE  \E P : Closed(t, P) /\ Allowed(t, P, h, c, K, Head(s), Tail(s))
BY DEF Typed, Closed, Good

LEMMA TypedMember ==
  ASSUME NEW t, NEW P, Closed(t, P), NEW h, NEW c, NEW K, NEW s, <<h, c, K, s>> \in P
  PROVE  Typed(t, h, c, K, s) /\ c \in 0..2 /\ K \in SUBSET Facts
<1>1. Typed(t, h, c, K, s)
  BY DEF Typed
<1> QED
  BY <1>1, TypedGood DEF Relies, Bound

\* A step that changes neither mutexes nor counters nor flags.
LEMMA QuietStep ==
  ASSUME NEW C, NEW K, Shape, Fits(C, K), NEW t \in Threads, NEW KK, NEW s, Becomes(t, s),
         UNCHANGED <<scene, owner, prevent, flag, holder, leaked>>, data' \in Places,
         Typed(t, Held(t), C[t], KK, s), TrueFacts(KK), "holds" \in K[t] => "holds" \in KK,
         "destroys" \in KK => "destroys" \in K[t], "closing" \in flag => ~Awaits(t)
  PROVE  IInv'
<1>1. C[t] \in 0..2 /\ KK \in SUBSET Facts
  BY TypedGood DEF Relies, Fits
<1>2. \A u \in Threads : Held(u)' = Held(u)
  BY DEF Held
<1>3. \A u \in Threads : TrueFacts(K[u])
  BY DEF Fits
<1>4. TrueFacts(KK)' /\ \A u \in Threads : TrueFacts(K[u])'
  BY <1>3 DEF TrueFacts, Playable
<1>5. prevent' = (prevent - C[t]) + C[t]
  BY <1>1 DEF Shape
<1>6. Typed(t, Held(t)', C[t], KK, s)
  BY <1>2
<1>7. holder' # {} => IF t = "read" THEN "holds" \in KK ELSE holder # {}
  BY DEF Fits
<1>8. Gone(IF t = "read" THEN KK ELSE K["read"])' => Gone(K["read"]) /\ "closing" \in flag'
  BY DEF Gone, Fits, Awaited
<1> QED
  BY <1>1, <1>2, <1>4, <1>5, <1>6, <1>7, <1>8, Advance DEF Shape

\* A step that locks or unlocks.
LEMMA OwnerStep ==
  ASSUME NEW C, NEW K, Shape, Fits(C, K), NEW t \in Threads, NEW KK, NEW s, Becomes(t, s),
         UNCHANGED <<scene, prevent, flag, data, holder, leaked>>,
         NEW m \in Mutexes, NEW o \in {t, "none"}, owner[m] \in {t, "none"},
         owner' = [owner EXCEPT ![m] = o],
         Typed(t, IF o = t THEN Held(t) \cup {m} ELSE Held(t) \ {m}, C[t], KK, s),
         KK \subseteq K[t], "holds" \in K[t] => "holds" \in KK,
         "closing" \in flag => ~Awaits(t)
  PROVE  IInv'
<1>1. C[t] \in 0..2 /\ KK \in SUBSET Facts
  BY TypedGood DEF Relies, Fits
<1>2. owner' \in [Mutexes -> Threads \cup {"none"}] /\ t # "none"
  BY DEF Shape, Threads
<1>3. \A u \in Threads \ {t} : Held(u)' = Held(u)
  <2>1. \A u \in Threads : u # "none"
    BY DEF Threads
  <2> QED
    BY <2>1 DEF Held, Shape
<1>4. Held(t)' = IF o = t THEN Held(t) \cup {m} ELSE Held(t) \ {m}
  BY <1>2 DEF Held, Shape
<1>5. Typed(t, Held(t)', C[t], KK, s)
  BY <1>4, Zenon
<1>6. \A u \in Threads : TrueFacts(K[u])
  BY DEF Fits
<1>7. TrueFacts(KK)' /\ \A u \in Threads : TrueFacts(K[u])'
  BY <1>6 DEF TrueFacts, Playable
<1>8. prevent' = (prevent - C[t]) + C[t]
  BY <1>1 DEF Shape
<1>9. holder' # {} => IF t = "read" THEN "holds" \in KK ELSE holder # {}
  BY DEF Fits
<1>10. Gone(IF t = "read" THEN KK ELSE K["read"])' => Gone(K["read"]) /\ "closing" \in flag'
  BY DEF Gone, Fits, Awaited
<1> QED
  BY <1>1, <1>2, <1>3, <1>5, <1>7, <1>8, <1>9, <1>10, Advance DEF Shape

\* What a thread relies on, and what the others may clear.
LEMMA FlagStep ==
  ASSUME NEW C, NEW K, Shape, Fits(C, K), NEW t \in Threads, NEW KK, NEW s, Becomes(t, s),
         UNCHANGED <<scene, owner, prevent, data, holder, leaked>>, flag' \subseteq Flags,
         Typed(t, Held(t), C[t], KK, s), TrueFacts(KK)',
         \A u \in Threads \ {t} : TrueFacts(K[u])', "holds" \in K[t] => "holds" \in KK,
         "closing" \in flag => ~Awaits(t),
         Gone(IF t = "read" THEN KK ELSE K["read"])' =>
           Awaited' \/ (Gone(K["read"]) /\ "closing" \in flag')
  PROVE  IInv'
<1>1. C[t] \in 0..2 /\ KK \in SUBSET Facts
  BY TypedGood DEF Relies, Fits
<1>2. \A u \in Threads : Held(u)' = Held(u)
  BY DEF Held
<1>3. prevent' = (prevent - C[t]) + C[t]
  BY <1>1 DEF Shape
<1>4. Typed(t, Held(t)', C[t], KK, s)
  BY <1>2
<1>5. holder' # {} => IF t = "read" THEN "holds" \in KK ELSE holder # {}
  BY DEF Fits
<1> QED
  BY <1>1, <1>2, <1>3, <1>4, <1>5, Advance DEF Shape

\* Nobody else relies on the flags that a thread may clear.
LEMMA ClearOthers ==
  ASSUME NEW C, NEW K, Shape, Fits(C, K), NEW t \in Threads, NEW u \in Threads \ {t},
         NEW f, flag' = flag \ {f}, UNCHANGED <<scene, leaked>>,
         f \notin {"lost", "exiting", "exited"},
         f \in {"file", "recorder"} => MayDrop(t, Held(t), K[t]),
         f = "livetv" => t = "gui" \/ (t = "event" /\ "myth" \in Held(t)),
         f \in {"jumping", "reopen"} => t = "read",
         f = "closing" => "block" \in Held(t) \/ {"lost", "destroys"} \cap K[t] # {}
  PROVE  TrueFacts(K[u])'
<1>1. TrueFacts(K[u]) /\ TrueFacts(K[t]) /\ Relies(u, Held(u), K[u]) /\ Relies(t, Held(t), K[t])
      /\ Typed(u, Held(u), C[u], K[u], todo[u])
  BY TypedGood DEF Fits
<1>2. ("jumping" \in K[u] => f # "jumping") /\ ("reopen" \in K[u] => f # "reopen")
  BY <1>1 DEF Relies
<1>3. "livetv" \in K[u] => f # "livetv"
  BY <1>1 DEF Relies, Held
<1>4. "asked" \in K[u] => f \notin {"file", "recorder"} \/ "lost" \in flag
  BY <1>1 DEF Relies, Held, MayDrop, TrueFacts
\* Who has set closing has request_block_mutex and does not yet wait, so that
\* the read thread has nothing to destroy.
<1>5. ASSUME "marked" \in K[u], f = "closing", "lost" \notin flag
      PROVE  FALSE
  <2>1. "block" \in Held(u) /\ "block" \notin Held(t)
    BY <1>1, <1>5 DEF Relies, Held
  <2>2. "destroys" \in K[t]
    BY <1>1, <1>5, <2>1 DEF TrueFacts
  <2>3. t = "read"
    BY <1>1, <2>2 DEF Relies
  <2>4. Awaited
    BY <1>5, <2>2, <2>3 DEF Fits, Gone
  <2>5. PICK w \in Threads : "block" \in Held(w) /\ Awaits(w)
    BY <2>4 DEF Awaited
  <2>6. w = u
    BY <2>1, <2>5 DEF Held
  <2>7. todo[u] # <<>> /\ Head(todo[u]) = AwaitNot("closing")
    BY <2>5, <2>6 DEF Awaits
  <2>8. PICK P : Allowed(u, P, Held(u), C[u], K[u], AwaitNot("closing"), Tail(todo[u]))
    BY <1>1, <2>7, NextAllowed
  <2>9. MayAwait(u, Held(u), K[u], "closing")
    BY <2>8 DEF Allowed, AwaitNot
  <2> QED
    BY <1>5, <2>9 DEF MayAwait
<1> QED
  BY <1>1, <1>2, <1>3, <1>4, <1>5 DEF TrueFacts, Playable

LEMMA CountStep ==
  ASSUME NEW C, NEW K, Shape, Fits(C, K), NEW t \in Threads, NEW c \in 0..2, NEW s,
         Becomes(t, s), UNCHANGED <<scene, owner, flag, data, holder, leaked>>,
         prevent' = (prevent - C[t]) + c, Typed(t, Held(t), c, K[t], s),
         "closing" \in flag => ~Awaits(t)
  PROVE  IInv'
<1>1. K[t] \in SUBSET Facts
  BY DEF Fits
<1>2. \A u \in Threads : Held(u)' = Held(u)
  BY DEF Held
<1>3. \A u \in Threads : TrueFacts(K[u])
  BY DEF Fits
<1>4. \A u \in Threads : TrueFacts(K[u])'
  BY <1>3 DEF TrueFacts, Playable
<1>5. Typed(t, Held(t)', c, K[t], s)
  BY <1>2
<1>6. holder' # {} => IF t = "read" THEN "holds" \in K[t] ELSE holder # {}
  BY DEF Fits
<1>7. Gone(IF t = "read" THEN K[t] ELSE K["read"])' => Gone(K["read"]) /\ "closing" \in flag'
  BY DEF Gone, Fits, Awaited
<1> QED
  BY <1>1, <1>2, <1>4, <1>5, <1>6, <1>7, Advance DEF Shape

\* holder and leaked, which only the thread itself changes.
LEMMA HolderStep ==
  ASSUME NEW C, NEW K, Shape, Fits(C, K), NEW t \in Threads, NEW KK, NEW s, Becomes(t, s),
         UNCHANGED <<scene, owner, prevent, flag, data>>,
         holder' \in SUBSET {"file", "recorder"},
         leaked' \in BOOLEAN, leaked => leaked', Typed(t, Held(t), C[t], KK, s),
         TrueFacts(KK)', holder' # {} => IF t = "read" THEN "holds" \in KK ELSE holder # {},
         "closing" \in flag => ~Awaits(t),
         Gone(IF t = "read" THEN KK ELSE K["read"])' => Gone(K["read"])
  PROVE  IInv'
<1>1. C[t] \in 0..2 /\ KK \in SUBSET Facts
  BY TypedGood DEF Relies, Fits
<1>2. \A u \in Threads : Held(u)' = Held(u)
  BY DEF Held
<1>3. \A u \in Threads : TrueFacts(K[u])
  BY DEF Fits
<1>4. \A u \in Threads : TrueFacts(K[u])'
  BY <1>3 DEF TrueFacts, Playable
<1>5. prevent' = (prevent - C[t]) + C[t]
  BY <1>1 DEF Shape
<1>6. Typed(t, Held(t)', C[t], KK, s)
  BY <1>2
<1>7. Gone(K["read"]) => "closing" \in flag'
  BY DEF Fits, Awaited
<1> QED
  BY <1>1, <1>2, <1>4, <1>5, <1>6, <1>7, Advance DEF Shape

\* A thread that executes its next instruction.
LEMMA RunInv ==
  ASSUME IInv, NEW t \in Threads, todo[t] # <<>>, Run(t, Head(todo[t]), Tail(todo[t]))
  PROVE  IInv'
<1> DEFINE i == Head(todo[t])
           rest == Tail(todo[t])
<1>1. PICK C, K : Fits(C, K)
  BY DEF IInv
<1>2. Typed(t, Held(t), C[t], K[t], todo[t]) /\ TrueFacts(K[t]) /\ Relies(t, Held(t), K[t])
      /\ Program(todo[t]) /\ C[t] \in 0..Bound(t) /\ IsSeq(todo[t])
  BY <1>1, TypedGood DEF Fits
<1>3. PICK P : Closed(t, P) /\ Allowed(t, P, Held(t), C[t], K[t], i, rest)
  BY <1>2, NextAllowed
<1>4. Shape /\ Run(t, i, rest)
  BY DEF IInv
<1>5. todo[t] = <<i>> \o rest
  BY <1>2, SeqSplit DEF **
<1>6. ASSUME NEW hh, NEW cc, NEW KK, NEW ss, <<hh, cc, KK, ss>> \in P
      PROVE  Typed(t, hh, cc, KK, ss) /\ cc \in 0..2 /\ KK \in SUBSET Facts
  BY <1>3, <1>6, TypedMember
<1>0. i[1] # "awaitnot" => ~Awaits(t)
  BY DEF Awaits, AwaitNot
<1> HIDE DEF i, rest
<1>7. CASE i[1] = "lock"
  <2>1. owner[i[2]] = "none" /\ owner' = [owner EXCEPT ![i[2]] = t] /\ Becomes(t, rest)
        /\ UNCHANGED <<scene, prevent, flag, data, holder, leaked>>
    BY <1>4, <1>7 DEF Run
  <2>2. MayLock(t, Held(t), K[t], i[2])
        /\ (i[2] \notin Held(t) => <<Held(t) \cup {i[2]}, C[t], K[t], rest>> \in P)
    BY <1>3, <1>7 DEF Allowed
  <2>3. i[2] \in Mutexes /\ i[2] \notin Held(t)
    BY <2>1, <2>2 DEF MayLock, Held, Threads
  <2>4. Typed(t, Held(t) \cup {i[2]}, C[t], K[t], rest)
    BY <1>6, <2>2, <2>3
  <2> QED
    BY <1>0, <1>7, <1>1, <1>4, <2>1, <2>3, <2>4, OwnerStep
<1>8. CASE i[1] = "unlock"
  <2>1. owner' = [owner EXCEPT ![i[2]] = "none"] /\ Becomes(t, rest)
        /\ UNCHANGED <<scene, prevent, flag, data, holder, leaked>>
    BY <1>4, <1>8 DEF Run
  <2>2. i[2] \in Held(t) /\ <<Held(t) \ {i[2]}, C[t], K[t], rest>> \in P
    BY <1>3, <1>8 DEF Allowed
  <2>3. i[2] \in Mutexes /\ owner[i[2]] = t /\ t # "none"
    BY <2>2 DEF Held, Threads
  <2>4. Typed(t, Held(t) \ {i[2]}, C[t], K[t], rest)
    BY <1>6, <2>2
  <2> QED
    BY <1>0, <1>8, <1>1, <1>4, <2>1, <2>3, <2>4, OwnerStep
<1>9. CASE i[1] = "inc"
  <2>1. prevent' = prevent + 1 /\ Becomes(t, rest)
        /\ UNCHANGED <<scene, owner, flag, data, holder, leaked>>
    BY <1>4, <1>9 DEF Run
  <2>2. <<Held(t), C[t] + 1, K[t], rest>> \in P
    BY <1>3, <1>9 DEF Allowed
  <2>3. Typed(t, Held(t), C[t] + 1, K[t], rest) /\ C[t] + 1 \in 0..2
    BY <1>6, <2>2
  <2>4. prevent' = (prevent - C[t]) + (C[t] + 1)
    BY <1>1, <1>4, <2>1 DEF Shape, Fits
  <2> QED
    BY <1>0, <1>9, <1>1, <1>4, <2>1, <2>3, <2>4, CountStep
<1>10. CASE i[1] = "dec"
  <2>1. prevent' = prevent - 1 /\ Becomes(t, rest)
        /\ UNCHANGED <<scene, owner, flag, data, holder, leaked>>
    BY <1>4, <1>10 DEF Run
  <2>2. <<Held(t), C[t] - 1, K[t], rest>> \in P
    BY <1>3, <1>10 DEF Allowed
  <2>3. Typed(t, Held(t), C[t] - 1, K[t], rest) /\ C[t] - 1 \in 0..2
    BY <1>6, <2>2
  <2>4. prevent' = (prevent - C[t]) + (C[t] - 1)
    BY <1>1, <1>4, <2>1 DEF Shape, Fits
  <2> QED
    BY <1>0, <1>10, <1>1, <1>4, <2>1, <2>3, <2>4, CountStep
<1>11. CASE i[1] = "set"
  <2>0. PICK f : f = i[2]
    OBVIOUS
  <2> DEFINE KK == K[t] \cup LearntSet(f)
  <2>1. flag' = flag \cup {f} /\ Becomes(t, rest)
        /\ UNCHANGED <<scene, owner, prevent, data, holder, leaked>>
    BY <1>4, <1>11, <2>0 DEF Run
  <2>2. f \in Flags /\ <<Held(t), C[t], KK, rest>> \in P
    BY <1>3, <1>11, <2>0 DEF Allowed
  <2>3. Typed(t, Held(t), C[t], KK, rest)
    BY <1>6, <2>2
  <2>4. TrueFacts(KK)'
    BY <1>2, <2>1 DEF TrueFacts, Playable, LearntSet
  <2>5. \A u \in Threads \ {t} : TrueFacts(K[u])'
    <3>1. \A u \in Threads : TrueFacts(K[u])
      BY <1>1 DEF Fits
    <3> QED
      BY <2>1, <3>1 DEF TrueFacts, Playable
  <2>6. flag' \subseteq Flags /\ ("holds" \in K[t] => "holds" \in KK)
    BY <1>4, <2>1, <2>2 DEF Shape
  <2>7. Gone(IF t = "read" THEN KK ELSE K["read"])' => Gone(K["read"]) /\ "closing" \in flag'
    <3>1. "destroys" \in KK => "destroys" \in K[t]
      BY DEF LearntSet
    <3>2. Gone(IF t = "read" THEN KK ELSE K["read"])' => Gone(K["read"])
      BY <2>1, <3>1 DEF Gone
    <3> QED
      BY <1>1, <2>1, <3>2 DEF Fits, Awaited
  <2> HIDE DEF KK
  <2> QED
    BY <1>0, <1>11, <1>1, <1>4, <2>1, <2>3, <2>4, <2>5, <2>6, <2>7, FlagStep
<1>12. CASE i[1] = "clear"
  <2>0. PICK f : f = i[2]
    OBVIOUS
  <2> DEFINE KK == K[t] \ Forgotten(f)
  <2>1. flag' = flag \ {f} /\ Becomes(t, rest)
        /\ UNCHANGED <<scene, owner, prevent, data, holder, leaked>>
    BY <1>4, <1>12, <2>0 DEF Run
  <2>2. MayClear(t, Held(t), K[t], f) /\ <<Held(t), C[t], KK, rest>> \in P
    BY <1>3, <1>12, <2>0 DEF Allowed
  <2>3. Typed(t, Held(t), C[t], KK, rest)
    BY <1>6, <2>2
\* A thread clears closing for another one, or when it waits for it no longer.
  <2>8. "marked" \in K[t] => f # "closing"
    BY <2>2 DEF MayClear
  <2>4. TrueFacts(KK)'
    <3>1. "asked" \in K[t] /\ f = "recorder" => "lost" \in flag
      BY <1>2, <2>2 DEF MayClear, MayDrop, Relies, TrueFacts
    <3>2. f \notin {"file", "lost", "exiting", "exited"}
      BY <2>2 DEF MayClear
    <3>4. ("jumping" \in KK => f # "jumping") /\ ("livetv" \in KK => f # "livetv")
          /\ ("reopen" \in KK => f # "reopen")
      BY DEF Forgotten
    <3>5. KK \subseteq K[t]
      OBVIOUS
    <3> HIDE DEF KK
    <3>6. \A g \in {"lost", "exiting", "exited", "jumping", "reopen", "livetv"} :
            g \in KK => g \in flag'
      BY <1>2, <2>1, <3>2, <3>4, <3>5 DEF TrueFacts
    <3>7. "asked" \in KK => "lost" \in flag' \/ Playable'
      BY <1>2, <2>1, <3>1, <3>2, <3>5 DEF TrueFacts, Playable
    <3>8. ("leaked" \in KK => leaked') /\ ("chain" \in KK => scene.chain')
      BY <1>2, <2>1, <3>5 DEF TrueFacts
    <3>9. "marked" \in KK => {"closing", "lost"} \cap flag' # {}
      BY <1>2, <2>1, <2>8, <3>2, <3>5 DEF TrueFacts
    <3> QED
      BY <3>6, <3>7, <3>8, <3>9 DEF TrueFacts
  <2>5. \A u \in Threads \ {t} : TrueFacts(K[u])'
    BY <1>1, <1>4, <2>1, <2>2, ClearOthers DEF MayClear
  <2>6. flag' \subseteq Flags /\ ("holds" \in K[t] => "holds" \in KK)
    BY <1>4, <2>1 DEF Shape, Forgotten
  <2>7. Gone(IF t = "read" THEN KK ELSE K["read"])' => Gone(K["read"]) /\ "closing" \in flag'
    <3> SUFFICES ASSUME Gone(IF t = "read" THEN KK ELSE K["read"])'
                 PROVE  Gone(K["read"]) /\ "closing" \in flag'
      OBVIOUS
    <3>1. f \notin {"file", "lost"}
      BY <2>2 DEF MayClear
    <3>2. Gone(K["read"]) /\ "lost" \notin flag
      BY <2>1, <3>1 DEF Gone
    <3>3. PICK w \in Threads : "block" \in Held(w) /\ Awaits(w) /\ "closing" \in flag
      BY <1>1, <3>2 DEF Fits, Awaited
    <3>4. w # t
      BY <1>0, <1>12, <3>3
    <3>5. "block" \notin Held(t)
      BY <3>3, <3>4 DEF Held
    <3>6. ASSUME f = "closing" PROVE FALSE
      <4>1. "destroys" \in K[t] /\ t = "read" /\ "holds" \notin K[t]
        BY <1>2, <2>2, <3>2, <3>5, <3>6 DEF MayClear, TrueFacts, Relies
      <4>2. holder = {} /\ "destroys" \notin KK
        BY <1>1, <3>6, <4>1 DEF Fits, Forgotten
      <4> QED
        BY <2>1, <4>1, <4>2 DEF Gone
    <3> QED
      BY <2>1, <3>2, <3>3, <3>6
  <2> HIDE DEF KK
  <2> QED
    BY <1>0, <1>12, <1>1, <1>4, <2>1, <2>3, <2>4, <2>5, <2>6, <2>7, FlagStep
<1>13. CASE i[1] = "awaitnot"
  <2>1. Becomes(t, rest) /\ UNCHANGED <<scene, owner, prevent, flag, data, holder, leaked>>
        /\ i[2] \notin flag
    BY <1>4, <1>13 DEF Run
  <2>4. "closing" \in flag => ~Awaits(t)
    BY <2>1 DEF Awaits, AwaitNot, i
  <2>2. <<Held(t), C[t], K[t], rest>> \in P
    BY <1>3, <1>13 DEF Allowed
  <2>3. Typed(t, Held(t), C[t], K[t], rest) /\ data' \in Places
    BY <1>4, <1>6, <2>1, <2>2 DEF Shape
  <2> QED
    BY <1>1, <1>2, <1>4, <2>1, <2>3, <2>4, QuietStep
<1>14. CASE i[1] = "if"
  <2>1. Becomes(t, (IF i[2] \in flag THEN i[3] ELSE i[4]) \o rest)
        /\ UNCHANGED <<scene, owner, prevent, flag, data, holder, leaked>>
    BY <1>4, <1>14 DEF Run
  <2>2. <<Held(t), C[t], K[t] \cup LearntIf(t, Held(t), K[t], i[2]), i[3] \o rest>> \in P
        /\ <<Held(t), C[t], K[t], i[4] \o rest>> \in P
    BY <1>3, <1>14 DEF Allowed
  <2>3. data' \in Places
    BY <1>4, <2>1 DEF Shape
  <2>4. CASE i[2] \in flag
    <3> DEFINE KK == K[t] \cup LearntIf(t, Held(t), K[t], i[2])
    <3>1. Becomes(t, i[3] \o rest)
      BY <2>1, <2>4
    <3>2. Typed(t, Held(t), C[t], KK, i[3] \o rest)
      BY <1>6, <2>2
    <3>3. TrueFacts(KK)
      BY <1>2, <2>4 DEF TrueFacts, LearntIf
    <3>4. ("holds" \in K[t] => "holds" \in KK) /\ ("destroys" \in KK => "destroys" \in K[t])
      BY DEF LearntIf
    <3> HIDE DEF KK
    <3> QED
      BY <1>0, <1>14, <1>1, <1>4, <2>1, <2>3, <3>1, <3>2, <3>3, <3>4, QuietStep
  <2>5. CASE i[2] \notin flag
    <3>1. Becomes(t, i[4] \o rest)
      BY <2>1, <2>5
    <3>2. Typed(t, Held(t), C[t], K[t], i[4] \o rest)
      BY <1>6, <2>2
    <3> QED
      BY <1>0, <1>14, <1>1, <1>2, <1>4, <2>1, <2>3, <3>1, <3>2, QuietStep
  <2> QED
    BY <2>4, <2>5
<1>15. CASE i[1] = "choose"
  <2>1. (Becomes(t, i[2] \o rest) \/ Becomes(t, i[3] \o rest))
        /\ UNCHANGED <<scene, owner, prevent, flag, data, holder, leaked>>
    BY <1>4, <1>15 DEF Run
  <2>2. <<Held(t), C[t], K[t], i[2] \o rest>> \in P
        /\ <<Held(t), C[t], K[t], i[3] \o rest>> \in P
    BY <1>3, <1>15 DEF Allowed
  <2>3. Typed(t, Held(t), C[t], K[t], i[2] \o rest)
        /\ Typed(t, Held(t), C[t], K[t], i[3] \o rest) /\ data' \in Places
    BY <1>4, <1>6, <2>1, <2>2 DEF Shape
  <2> QED
    BY <1>0, <1>15, <1>1, <1>2, <1>4, <2>1, <2>3, QuietStep
<1>16. CASE i[1] = "try"
  <2>1. (Becomes(t, i[3] \o rest) \/ Becomes(t, i[4] \o rest))
        /\ UNCHANGED <<scene, owner, prevent, flag, data, holder, leaked>>
    BY <1>4, <1>16 DEF Run
  <2>2. <<Held(t), C[t], K[t], i[3] \o rest>> \in P
        /\ <<Held(t), C[t], K[t], i[4] \o rest>> \in P
    BY <1>3, <1>16 DEF Allowed
  <2>3. Typed(t, Held(t), C[t], K[t], i[3] \o rest)
        /\ Typed(t, Held(t), C[t], K[t], i[4] \o rest) /\ data' \in Places
    BY <1>4, <1>6, <2>1, <2>2 DEF Shape
  <2> QED
    BY <1>0, <1>16, <1>1, <1>2, <1>4, <2>1, <2>3, QuietStep
<1>17. CASE i[1] = "rpc"
  <2>1. Becomes(t, rest) /\ UNCHANGED <<scene, owner, prevent, flag, data, holder, leaked>>
    BY <1>4, <1>17 DEF Run
  <2>2. <<Held(t), C[t], K[t], rest>> \in P
    BY <1>3, <1>17 DEF Allowed
  <2>3. Typed(t, Held(t), C[t], K[t], rest) /\ data' \in Places
    BY <1>4, <1>6, <2>1, <2>2 DEF Shape
  <2> QED
    BY <1>0, <1>17, <1>1, <1>2, <1>4, <2>1, <2>3, QuietStep
<1>18. CASE i[1] = "drop"
  <2> DEFINE KK == K[t] \ {"marked"}
  <2>1. flag' = flag \ {"file"}
        /\ (\/ Becomes(t, cmyth_file_destroy \o rest) /\ "file" \notin holder
            \/ Becomes(t, rest))
        /\ UNCHANGED <<scene, owner, prevent, data, holder, leaked>>
    BY <1>4, <1>18 DEF Run
  <2>2. <<Held(t), C[t], KK, rest>> \in P
        /\ <<Held(t), C[t], KK, cmyth_file_destroy \o rest>> \in P
        /\ \/ "lost" \in K[t]
           \/ "marked" \in K[t] /\ rest # <<>> /\ Head(rest) = AwaitNot("closing")
    BY <1>3, <1>18 DEF Allowed
  <2>3. Typed(t, Held(t), C[t], KK, rest)
        /\ Typed(t, Held(t), C[t], KK, cmyth_file_destroy \o rest)
    BY <1>6, <2>2
  <2>4. MayDrop(t, Held(t), K[t])
    BY <1>2, <2>2 DEF MayDrop, Relies
  <2>5. TrueFacts(KK)'
    <3>1. "asked" \in K[t] => "lost" \in flag
      BY <1>2, <2>4 DEF MayDrop, Relies, TrueFacts
    <3> QED
      BY <1>2, <2>1, <3>1 DEF TrueFacts, Playable
  <2>6. \A u \in Threads \ {t} : TrueFacts(K[u])'
    BY <1>1, <1>4, <2>1, <2>4, ClearOthers
  <2>7. flag' \subseteq Flags /\ ("holds" \in K[t] => "holds" \in KK)
    BY <1>4, <2>1 DEF Shape
  <2>8. Gone(IF t = "read" THEN KK ELSE K["read"])' =>
          Awaited' \/ (Gone(K["read"]) /\ "closing" \in flag')
    <3> SUFFICES ASSUME Gone(IF t = "read" THEN KK ELSE K["read"])', ~Gone(K["read"])
                 PROVE  Awaited'
      BY <1>1, <2>1 DEF Fits, Awaited
    <3>1. "lost" \notin flag /\ "file" \in holder /\ "lost" \notin K[t]
      BY <1>2, <2>1 DEF Gone, TrueFacts
    <3>2. "marked" \in K[t] /\ rest # <<>> /\ Head(rest) = AwaitNot("closing") /\ Becomes(t, rest)
      BY <2>1, <2>2, <3>1
    <3>3. "closing" \in flag' /\ "block" \in Held(t)
      BY <1>2, <2>1, <3>1, <3>2 DEF TrueFacts, Relies
    <3>4. todo'[t] = rest /\ Held(t)' = Held(t)
      BY <1>4, <2>1, <3>2 DEF Becomes, Shape, Held
    <3> QED
      BY <3>2, <3>3, <3>4 DEF Awaited, Awaits
  <2> HIDE DEF KK
  <2> QED
    BY <1>0, <1>18, <1>1, <1>4, <2>1, <2>3, <2>5, <2>6, <2>7, <2>8, FlagStep
<1>19. CASE i[1] = "hold"
  <2> DEFINE KK == K[t] \cup {"holds"}
  <2>1. holder' = flag \cap {"file", "recorder"} /\ Becomes(t, rest)
        /\ UNCHANGED <<scene, owner, prevent, flag, data, leaked>>
    BY <1>4, <1>19 DEF Run
  <2>2. t = "read" /\ <<Held(t), C[t], KK, rest>> \in P
    BY <1>3, <1>19 DEF Allowed
  <2>3. Typed(t, Held(t), C[t], KK, rest)
    BY <1>6, <2>2
  <2>4. TrueFacts(KK)'
    BY <1>2, <2>1 DEF TrueFacts, Playable
  <2>5. holder' \in SUBSET {"file", "recorder"} /\ leaked' \in BOOLEAN /\ (leaked => leaked')
        /\ (holder' # {} => IF t = "read" THEN "holds" \in KK ELSE holder # {})
    BY <1>4, <2>1, <2>2 DEF Shape
  <2>6. ~Gone(KK)'
    <3>1. "destroys" \notin KK
      BY <2>3, TypedGood DEF Relies
    <3> QED
      BY <2>1, <3>1 DEF Gone
  <2> HIDE DEF KK
  <2> QED
    BY <1>0, <1>19, <1>1, <1>4, <2>1, <2>2, <2>3, <2>4, <2>5, <2>6, HolderStep
<1>20. CASE i[1] = "release"
  <2> DEFINE KK == K[t] \ {"holds"}
             KD == KK \cup {"destroys"}
  <2>1. holder' = {} /\ UNCHANGED <<scene, owner, prevent, flag, data, leaked>>
        /\ (\/ Becomes(t, cmyth_file_destroy \o rest) /\ "file" \in holder /\ "file" \notin flag
            \/ Becomes(t, rest))
    BY <1>4, <1>20 DEF Run
  <2>2. t = "read" /\ <<Held(t), C[t], KK, rest>> \in P
        /\ <<Held(t), C[t], KD, cmyth_file_destroy \o rest>> \in P
    BY <1>3, <1>20 DEF Allowed
  <2>3. Typed(t, Held(t), C[t], KK, rest)
        /\ Typed(t, Held(t), C[t], KD, cmyth_file_destroy \o rest)
    BY <1>6, <2>2
  <2>4. TrueFacts(KK)' /\ TrueFacts(KD)'
    BY <1>2, <2>1 DEF TrueFacts, Playable
  <2>5. holder' \in SUBSET {"file", "recorder"} /\ leaked' \in BOOLEAN /\ (leaked => leaked')
        /\ holder' = {}
    BY <1>4, <2>1 DEF Shape
  <2>6. Gone(KK)' => Gone(K["read"])
    BY <2>1, <2>2 DEF Gone
  <2>7. Gone(KD)' /\ "file" \in holder /\ "file" \notin flag => Gone(K["read"])
    BY <2>1 DEF Gone
  <2> HIDE DEF KK, KD
  <2>8. CASE Becomes(t, cmyth_file_destroy \o rest) /\ "file" \in holder /\ "file" \notin flag
    BY <1>0, <1>20, <1>1, <1>4, <2>1, <2>2, <2>3, <2>4, <2>5, <2>7, <2>8, HolderStep
  <2>9. CASE Becomes(t, rest)
    BY <1>0, <1>20, <1>1, <1>4, <2>1, <2>2, <2>3, <2>4, <2>5, <2>6, <2>9, HolderStep
  <2> QED
    BY <2>1, <2>8, <2>9
<1>21. CASE i[1] = "leak"
  <2> DEFINE KK == K[t] \cup {"leaked"}
  <2>1. leaked' = TRUE /\ Becomes(t, rest)
        /\ UNCHANGED <<scene, owner, prevent, flag, data, holder>>
    BY <1>4, <1>21 DEF Run
  <2>2. <<Held(t), C[t], KK, rest>> \in P
    BY <1>3, <1>21 DEF Allowed
  <2>3. Typed(t, Held(t), C[t], KK, rest)
    BY <1>6, <2>2
  <2>4. TrueFacts(KK)'
    BY <1>2, <2>1 DEF TrueFacts, Playable
  <2>5. holder' \in SUBSET {"file", "recorder"} /\ leaked' \in BOOLEAN /\ (leaked => leaked')
        /\ (holder' # {} => IF t = "read" THEN "holds" \in KK ELSE holder # {})
    BY <1>1, <1>4, <2>1 DEF Shape, Fits
  <2>6. Gone(IF t = "read" THEN KK ELSE K["read"])' => Gone(K["read"])
    BY <2>1 DEF Gone
  <2> HIDE DEF KK
  <2> QED
    BY <1>0, <1>21, <1>1, <1>4, <2>1, <2>3, <2>4, <2>5, <2>6, HolderStep
<1>22. CASE i[1] = "idle"
  <2>1. flag' = flag \ {"busy"} /\ Becomes(t, rest)
        /\ UNCHANGED <<scene, owner, prevent, data, holder, leaked>>
    BY <1>4, <1>22 DEF Run
  <2>2. <<Held(t), C[t], K[t], rest>> \in P
    BY <1>3, <1>22 DEF Allowed
  <2>3. Typed(t, Held(t), C[t], K[t], rest)
    BY <1>6, <2>2
  <2>4. \A u \in Threads : TrueFacts(K[u])'
    <3>1. \A u \in Threads : TrueFacts(K[u])
      BY <1>1 DEF Fits
    <3> QED
      BY <2>1, <3>1 DEF TrueFacts, Playable
  <2>5. flag' \subseteq Flags
    BY <1>4, <2>1 DEF Shape
  <2>6. Gone(IF t = "read" THEN K[t] ELSE K["read"])' => Gone(K["read"]) /\ "closing" \in flag'
    BY <1>1, <2>1 DEF Gone, Fits, Awaited
  <2> QED
    BY <1>0, <1>22, <1>1, <1>4, <2>1, <2>3, <2>4, <2>5, <2>6, FlagStep
<1>23. CASE i[1] \in {"take", "send"}
  <2>0. i[1] = "send" => i[2] \in {"file", "recorder"}
    BY <1>3 DEF Allowed
  <2>1. data' \in Places /\ Becomes(t, rest)
        /\ UNCHANGED <<scene, owner, prevent, flag, holder, leaked>>
    BY <1>4, <1>23, <2>0 DEF Run, Shape, Places
  <2>2. <<Held(t), C[t], K[t], rest>> \in P
    BY <1>3, <1>23 DEF Allowed
  <2>3. Typed(t, Held(t), C[t], K[t], rest)
    BY <1>6, <2>2
  <2> QED
    BY <1>0, <1>23, <1>1, <1>2, <1>4, <2>1, <2>3, QuietStep
<1>24. CASE i[1] = "drain"
  <2>1. data' \in Places /\ (Becomes(t, <<i>> \o rest) \/ Becomes(t, rest))
        /\ UNCHANGED <<scene, owner, prevent, flag, holder, leaked>>
    BY <1>4, <1>24 DEF Run, Shape, Places
  <2>2. <<Held(t), C[t], K[t], rest>> \in P
    BY <1>3, <1>24 DEF Allowed
  <2>3. Typed(t, Held(t), C[t], K[t], rest) /\ data' \in Places
    BY <1>6, <2>1, <2>2
  <2>4. Becomes(t, todo[t]) \/ Becomes(t, rest)
    BY <1>5, <2>1, Zenon
  <2> QED
    BY <1>0, <1>24, <1>1, <1>2, <1>4, <2>1, <2>3, <2>4, QuietStep
<1>25. CASE i[1] = "unlessprevented"
  <2> DEFINE ask(from) == request_block(from) \o rest
  <2>1. UNCHANGED <<scene, owner, prevent, flag, data, holder, leaked>>
    BY <1>4, <1>25 DEF Run
  <2>2. \/ Becomes(t, rest)
        \/ Becomes(t, cmyth_livetv_request_block \o rest) /\ "recorder" \in flag
        \/ Becomes(t, ask("file")) /\ "file" \in flag
    BY <1>4, <1>25 DEF Run, cmyth_file_request_block
  <2>3. \/ Becomes(t, rest)
        \/ Becomes(t, RequestChain \o rest) /\ "recorder" \in flag /\ scene.chain
        \/ Becomes(t, ask("recorder")) /\ "recorder" \in flag
        \/ Becomes(t, ask("file")) /\ "file" \in flag
    BY <2>2, Zenon DEF cmyth_livetv_request_block, RequestChain
  <2>4. <<Held(t), C[t], K[t], rest>> \in P
        /\ <<Held(t), C[t], K[t] \cup {"asked"}, ask("file")>> \in P
        /\ <<Held(t), C[t], K[t] \cup {"asked"}, ask("recorder")>> \in P
        /\ <<Held(t), C[t], K[t] \cup {"asked", "chain"}, RequestChain \o rest>> \in P
    BY <1>3, <1>25 DEF Allowed
  <2>5. data' \in Places
    BY <1>4, <2>1 DEF Shape
  <2>6. CASE Becomes(t, rest)
    <3>1. Typed(t, Held(t), C[t], K[t], rest)
      BY <1>6, <2>4
    <3> QED
      BY <1>0, <1>25, <1>1, <1>2, <1>4, <2>1, <2>5, <2>6, <3>1, QuietStep
  <2>7. CASE Becomes(t, RequestChain \o rest) /\ "recorder" \in flag /\ scene.chain
    <3> DEFINE KK == K[t] \cup {"asked", "chain"}
    <3>1. Typed(t, Held(t), C[t], KK, RequestChain \o rest)
      BY <1>6, <2>4
    <3>2. TrueFacts(KK) /\ ("holds" \in K[t] => "holds" \in KK)
          /\ ("destroys" \in KK => "destroys" \in K[t])
      BY <1>2, <2>7 DEF TrueFacts, Playable
    <3> HIDE DEF KK
    <3> QED
      BY <1>0, <1>25, <1>1, <1>4, <2>1, <2>5, <2>7, <3>1, <3>2, QuietStep
  <2>8. ASSUME NEW from \in {"file", "recorder"}, Becomes(t, ask(from)), from \in flag
        PROVE  IInv'
    <3> DEFINE KK == K[t] \cup {"asked"}
    <3>1. Typed(t, Held(t), C[t], KK, ask(from))
      BY <1>6, <2>4
    <3>2. TrueFacts(KK) /\ ("holds" \in K[t] => "holds" \in KK)
          /\ ("destroys" \in KK => "destroys" \in K[t])
      BY <1>2, <2>8 DEF TrueFacts, Playable
    <3> HIDE DEF KK
    <3> QED
      BY <1>0, <1>25, <1>1, <1>4, <2>1, <2>5, <2>8, <3>1, <3>2, QuietStep
  <2> QED
    BY <2>3, <2>6, <2>7, <2>8
<1>26. CASE i[1] = "answer"
  <2> DEFINE KK == K[t] \ {"asked"}
  <2>1. PICK after \in Afterwards : Becomes(t, rest \o after)
    <3>1. Becomes(t, rest) \/ \E after \in Afterwards : Becomes(t, rest \o after)
      BY <1>4, <1>26 DEF Run, Afterwards
    <3>2. rest \o <<>> = rest
      BY <1>2, SeqSplit, SeqEmpty DEF rest
    <3>3. <<>> \in Afterwards
      BY DEF Afterwards
    <3> QED
      BY <3>1, <3>2, <3>3, Zenon
  <2>2. owner' = [owner EXCEPT !["cmyth"] = "none"]
        /\ UNCHANGED <<scene, prevent, flag, data, holder, leaked>>
    BY <1>4, <1>26 DEF Run
  <2>3. "cmyth" \in Held(t)
        /\ \A a \in Afterwards : <<Held(t) \ {"cmyth"}, C[t], KK, rest \o a>> \in P
    BY <1>3, <1>26 DEF Allowed, Afterwards
  <2>4. Typed(t, Held(t) \ {"cmyth"}, C[t], KK, rest \o after)
    BY <1>6, <2>3
  <2>5. owner["cmyth"] = t /\ "cmyth" \in Mutexes /\ t # "none"
    BY <2>3 DEF Held, Threads
  <2>6. KK \subseteq K[t] /\ ("holds" \in K[t] => "holds" \in KK)
    OBVIOUS
  <2> HIDE DEF KK
  <2> QED
    BY <1>0, <1>26, <1>1, <1>4, <2>1, <2>2, <2>4, <2>5, <2>6, OwnerStep
<1>27. i[1] \in Opcodes
  BY <1>4 DEF Run, Opcodes
<1> QED
  BY <1>7, <1>8, <1>9, <1>10, <1>11, <1>12, <1>13, <1>14, <1>15, <1>16, <1>17, <1>18, <1>19,
     <1>20, <1>21, <1>22, <1>23, <1>24, <1>25, <1>26, <1>27 DEF Opcodes

\* A thread that has nothing to do is between two functions.
LEMMA Between ==
  ASSUME NEW C, NEW K, Fits(C, K), NEW t \in Threads, todo[t] = <<>>, "exited" \notin flag
  PROVE  /\ "holds" \notin K[t] /\ TrueFacts({})
         /\ \/ Held(t) = {} /\ C[t] = 0
            \/ t = "read" /\ leaked /\ Held(t) = {"seek", "block"} /\ C[t] = 1
            \/ t = "gui" /\ leaked /\ Held(t) = {"myth"} /\ C[t] = 0
<1>1. Typed(t, Held(t), C[t], K[t], todo[t]) /\ TrueFacts(K[t])
  BY DEF Fits
<1>2. Returned(t, Held(t), C[t], K[t])
  BY <1>1 DEF Typed, Closed, Good
<1>3. TrueFacts({})
  BY DEF TrueFacts
<1>4. ("exited" \notin K[t]) /\ ("leaked" \in K[t] => leaked)
  BY <1>1 DEF TrueFacts
<1> QED
  BY <1>2, <1>3, <1>4 DEF Returned

LEMMA StartInv ==
  ASSUME NEW C, NEW K, Shape, Fits(C, K), NEW t \in Threads, NEW KK, NEW s, Start(t, s),
         Typed(t, Held(t), C[t], KK, s), TrueFacts(KK), "destroys" \notin KK
  PROVE  IInv'
<1>1. todo[t] = <<>> /\ "exited" \notin flag /\ Becomes(t, s)
      /\ UNCHANGED <<scene, owner, prevent, flag, data, holder, leaked>>
  BY DEF Start
<1>2. "holds" \notin K[t] /\ data' \in Places /\ ~Awaits(t)
  BY <1>1, Between DEF Shape, Awaits
<1> QED
  BY <1>1, <1>2, QuietStep

LEMMA GuiInv ==
  ASSUME IInv, GuiNext
  PROVE  IInv'
<1>1. PICK C, K : Fits(C, K)
  BY DEF IInv
<1>2. PICK o \in scene.ops : Start("gui", Op(o))
  BY DEF GuiNext
<1>3. Shape /\ "gui" \in Threads
  BY DEF IInv, Threads
<1>4. o \in Ops
  <2>1. scene \in Scenes
    BY <1>3 DEF Shape
  <2> QED
    BY <1>2, <2>1, MythAssumption DEF Ops
<1>5. Typed("gui", {}, 0, {}, Op(o)) /\ Typed("gui", {"myth"}, 0, {"leaked"}, Op(o))
  BY <1>4, FitOp DEF Fit
<1>6. todo["gui"] = <<>> /\ "exited" \notin flag
  BY <1>2 DEF Start
<1>7. TrueFacts({})
      /\ \/ Held("gui") = {} /\ C["gui"] = 0
         \/ leaked /\ Held("gui") = {"myth"} /\ C["gui"] = 0
  BY <1>1, <1>3, <1>6, Between
<1>8. CASE Held("gui") = {} /\ C["gui"] = 0
  <2>1. Typed("gui", Held("gui"), C["gui"], {}, Op(o))
    BY <1>5, <1>8, Zenon
  <2> QED
    BY <1>1, <1>2, <1>3, <1>7, <2>1, StartInv
<1>9. CASE leaked /\ Held("gui") = {"myth"} /\ C["gui"] = 0
  <2>1. Typed("gui", Held("gui"), C["gui"], {"leaked"}, Op(o))
    BY <1>5, <1>9, Zenon
  <2>2. TrueFacts({"leaked"})
    BY <1>9 DEF TrueFacts
  <2> QED
    BY <1>1, <1>2, <1>3, <2>1, <2>2, StartInv
<1> QED
  BY <1>7, <1>8, <1>9

LEMMA EventInv ==
  ASSUME IInv, EventNext
  PROVE  IInv'
<1>1. PICK C, K : Fits(C, K)
  BY DEF IInv
<1>2. PICK e \in scene.events : Becomes("event", event_start(e))
  BY DEF EventNext
<1>3. todo["event"] = <<>> /\ "exited" \notin flag /\ flag' = flag \cup {"event"}
      /\ UNCHANGED <<scene, owner, prevent, data, holder, leaked>>
  BY DEF EventNext
<1>4. Shape /\ "event" \in Threads
  BY DEF IInv, Threads
<1>5. e \in {"close", "quit", "chain"}
  <2>1. scene \in Scenes
    BY <1>4 DEF Shape
  <2> QED
    BY <1>2, <2>1, MythAssumption
<1>6. Held("event") = {} /\ C["event"] = 0 /\ "holds" \notin K["event"]
  BY <1>1, <1>3, <1>4, Between
<1>7. Typed("event", Held("event"), C["event"], {}, event_start(e))
  BY <1>5, <1>6, TypedEvent
<1>8. TrueFacts({})' /\ \A u \in Threads \ {"event"} : TrueFacts(K[u])'
  <2>1. \A u \in Threads : TrueFacts(K[u])
    BY <1>1 DEF Fits
  <2> QED
    BY <1>3, <2>1 DEF TrueFacts, Playable
<1>9. flag' \subseteq Flags
  BY <1>3, <1>4 DEF Shape, Flags
<1>10. ~Awaits("event") /\ (Gone(K["read"])' => Gone(K["read"]) /\ "closing" \in flag')
  BY <1>1, <1>3 DEF Awaits, Gone, Fits, Awaited
<1> QED
  BY <1>1, <1>2, <1>3, <1>4, <1>6, <1>7, <1>8, <1>9, <1>10, FlagStep

LEMMA ReadInv ==
  ASSUME IInv, ReadNext
  PROVE  IInv'
<1>1. PICK C, K : Fits(C, K)
  BY DEF IInv
<1>2. Shape /\ "read" \in Threads
  BY DEF IInv, Threads
<1>3. todo["read"] = <<>> /\ "exited" \notin flag
  BY DEF ReadNext, Start
<1>4. TrueFacts({})
      /\ \/ Held("read") = {} /\ C["read"] = 0
         \/ leaked /\ Held("read") = {"seek", "block"} /\ C["read"] = 1
  BY <1>1, <1>2, <1>3, Between
<1>5. ASSUME NEW s, ReadFit(s), Start("read", s)
      PROVE  IInv'
  <2>1. CASE Held("read") = {} /\ C["read"] = 0
    <3>1. Typed("read", Held("read"), C["read"], {}, s)
      BY <1>5, <2>1, Zenon DEF ReadFit
    <3> QED
      BY <1>1, <1>2, <1>4, <1>5, <3>1, StartInv
  <2>2. CASE leaked /\ Held("read") = {"seek", "block"} /\ C["read"] = 1
    <3>1. Typed("read", Held("read"), C["read"], {"leaked"}, s)
      BY <1>5, <2>2, Zenon DEF ReadFit
    <3>2. TrueFacts({"leaked"})
      BY <2>2 DEF TrueFacts
    <3> QED
      BY <1>1, <1>2, <1>5, <3>1, <3>2, StartInv
  <2> QED
    BY <1>4, <2>1, <2>2
<1> DEFINE s == mythtv_seek \o JumpEnd
<1>6. \/ (Start("read", livetv_open) \/ Start("read", mythtv_open)) /\ "reopen" \in flag
      \/ Start("read", mythtv_read) \/ (Start("read", s) /\ "jumping" \in flag)
  BY Zenon DEF ReadNext, JumpEnd
<1>7. CASE Start("read", mythtv_read)
  BY <1>5, <1>7, ReadRead
<1>9. ASSUME NEW o, OpenFit(o), Start("read", o), "reopen" \in flag
      PROVE  IInv'
  <2>1. CASE Held("read") = {} /\ C["read"] = 0
    <3>1. Typed("read", Held("read"), C["read"], Opening, o)
      BY <1>9, <2>1, Zenon DEF OpenFit
    <3>2. TrueFacts(Opening) /\ "destroys" \notin Opening
      BY <1>9 DEF TrueFacts, Opening
    <3> QED
      BY <1>1, <1>2, <1>9, <3>1, <3>2, StartInv
  <2>2. CASE leaked /\ Held("read") = {"seek", "block"} /\ C["read"] = 1
    <3>1. Typed("read", Held("read"), C["read"], OpeningLeaked, o)
      BY <1>9, <2>2, Zenon DEF OpenFit
    <3>2. TrueFacts(OpeningLeaked) /\ "destroys" \notin OpeningLeaked
      BY <1>9, <2>2 DEF TrueFacts, OpeningLeaked
    <3> QED
      BY <1>1, <1>2, <1>9, <3>1, <3>2, StartInv
  <2> QED
    BY <1>4, <2>1, <2>2
<1>8. CASE Start("read", s) /\ "jumping" \in flag
  <2>1. CASE Held("read") = {} /\ C["read"] = 0
    <3> DEFINE KK == {} \cup {"jumping"}
    <3>1. Typed("read", Held("read"), C["read"], KK, s)
      BY ReadSeek, <2>1, Zenon
    <3>2. TrueFacts(KK) /\ "destroys" \notin KK
      BY <1>8 DEF TrueFacts
    <3> HIDE DEF KK, s
    <3> QED
      BY <1>1, <1>2, <1>8, <3>1, <3>2, StartInv
  <2>2. CASE leaked /\ Held("read") = {"seek", "block"} /\ C["read"] = 1
    <3> DEFINE KK == {"leaked"} \cup {"jumping"}
    <3>1. Typed("read", Held("read"), C["read"], KK, s)
      BY ReadSeek, <2>2, Zenon
    <3>2. TrueFacts(KK) /\ "destroys" \notin KK
      BY <1>8, <2>2 DEF TrueFacts
    <3> HIDE DEF KK, s
    <3> QED
      BY <1>1, <1>2, <1>8, <3>1, <3>2, StartInv
  <2> QED
    BY <1>4, <2>1, <2>2
<1> QED
  BY <1>6, <1>7, <1>8, <1>9, ReadLivetvOpen, ReadOpen

LEMMA ControlInv ==
  ASSUME IInv, ControlNext
  PROVE  IInv'
<1>1. PICK C, K : Fits(C, K)
  BY DEF IInv
<1>2. Shape /\ "control" \in Threads
  BY DEF IInv, Threads
<1>3. todo["control"] = <<>> /\ "exited" \notin flag
  BY DEF ControlNext, Start
<1>4. TrueFacts({}) /\ Held("control") = {} /\ C["control"] = 0
  BY <1>1, <1>2, <1>3, Between
<1>5. ASSUME NEW s, Typed("control", {}, 0, {}, s), Start("control", s)
      PROVE  IInv'
  <2>1. Typed("control", Held("control"), C["control"], {}, s)
    BY <1>4, <1>5, Zenon
  <2> QED
    BY <1>1, <1>2, <1>4, <1>5, <2>1, StartInv
<1>6. Start("control", <<Set("reading")>>) \/ Start("control", control_start)
      \/ Start("control", <<Clear("reading")>>)
  BY Zenon DEF ControlNext
<1> DEFINE p == <<Set("reading")>>
           q == <<Clear("reading")>>
<1>7. Typed("control", {}, 0, {}, p) /\ Typed("control", {}, 0, {}, q)
  BY ControlSet
<1> HIDE DEF p, q
<1>8. Start("control", p) \/ Start("control", control_start) \/ Start("control", q)
  BY <1>6, Zenon DEF p, q
<1> QED
  BY <1>5, <1>7, <1>8, ControlStart

LEMMA BusyInv ==
  ASSUME IInv, WritersBusy
  PROVE  IInv'
<1>1. PICK C, K : Fits(C, K)
  BY DEF IInv
<1>2. flag' = flag \cup {"busy"}
      /\ UNCHANGED <<scene, owner, prevent, data, holder, todo, leaked>>
  BY DEF WritersBusy
<1>3. Shape'
  BY <1>2 DEF IInv, Shape, Flags
<1>4. ASSUME NEW u \in Threads
      PROVE  Typed(u, Held(u)', C[u], K[u], todo'[u]) /\ TrueFacts(K[u])'
  <2>1. Typed(u, Held(u), C[u], K[u], todo[u]) /\ TrueFacts(K[u])
    BY <1>1 DEF Fits
  <2>2. Held(u)' = Held(u) /\ todo'[u] = todo[u]
    BY <1>2 DEF Held
  <2>3. TrueFacts(K[u])'
    BY <1>2, <2>1 DEF TrueFacts, Playable
  <2> QED
    BY <2>1, <2>2, <2>3, Zenon
<1>5. Awaited => Awaited'
  BY <1>2 DEF Awaited, Awaits, Held
<1>6. Gone(K["read"])' => Gone(K["read"])
  BY <1>2 DEF Gone
<1>7. Fits(C, K)'
  BY <1>1, <1>2, <1>4, <1>5, <1>6 DEF Fits
<1> QED
  BY <1>3, <1>7 DEF IInv

LEMMA InitInv ==
  ASSUME Init
  PROVE  IInv
<1> DEFINE C == [t \in Threads |-> 0]
           K == [t \in Threads |-> {}]
<1>1. Shape
  <2>1. DOMAIN todo = Threads /\ todo = [t \in Threads |-> todo[t]]
    BY DEF Init
  <2>2. owner \in [Mutexes -> Threads \cup {"none"}] /\ flag \subseteq Flags
    BY DEF Init
  <2>3. scene \in Scenes /\ prevent \in Int
    BY DEF Init
  <2>4. data \in Places /\ holder \in SUBSET {"file", "recorder"} /\ leaked \in BOOLEAN
    BY DEF Init, Places
  <2> QED
    BY <2>1, <2>2, <2>3, <2>4, Zenon DEF Shape
<1>2. \A t \in Threads : Typed(t, {}, 0, {}, <<>>)
  BY FitEnd, ReadEnd, ControlEnd, EventEnd DEF Threads, Fit, ReadFit
<1>3. ASSUME NEW t \in Threads
      PROVE  Typed(t, Held(t), C[t], K[t], todo[t]) /\ TrueFacts(K[t])
  <2>1. Held(t) = {}
    BY DEF Init, Held, Threads, Mutexes
  <2>2. C[t] = 0 /\ K[t] = {} /\ todo[t] = <<>>
    BY DEF Init
  <2>3. TrueFacts({})
    BY DEF TrueFacts
  <2> HIDE DEF C, K
  <2> QED
    BY <1>2, <2>1, <2>2, <2>3, Zenon
<1>4. C \in [Threads -> 0..2] /\ K \in [Threads -> SUBSET Facts]
  OBVIOUS
<1>5. prevent = C["gui"] + C["read"] + C["control"] + C["event"] /\ holder = {}
      /\ ~Gone(K["read"])
  BY DEF Init, Threads, Gone
<1> HIDE DEF C, K
<1>6. Fits(C, K)
  BY <1>3, <1>4, <1>5 DEF Fits
<1> QED
  BY <1>1, <1>6 DEF IInv

LEMMA NextInv ==
  ASSUME IInv, [Next]_vars
  PROVE  IInv'
<1>1. CASE \E t \in Threads : "exited" \notin flag /\ Step(t)
  BY <1>1, RunInv DEF Step
<1>2. CASE UNCHANGED vars
  <2>1. PICK C, K : Fits(C, K)
    BY DEF IInv
  <2>2. Shape' /\ \A u : Held(u)' = Held(u)
    BY <1>2 DEF IInv, Shape, Held, vars
  <2>3. ASSUME NEW u \in Threads
        PROVE  Typed(u, Held(u)', C[u], K[u], todo'[u]) /\ TrueFacts(K[u])'
    <3>1. Typed(u, Held(u), C[u], K[u], todo[u]) /\ TrueFacts(K[u])
      BY <2>1 DEF Fits
    <3>2. Held(u)' = Held(u) /\ todo'[u] = todo[u]
      BY <1>2, <2>2 DEF vars
    <3>3. TrueFacts(K[u])'
      BY <1>2, <3>1 DEF TrueFacts, Playable, vars
    <3> QED
      BY <3>1, <3>2, <3>3, Zenon
  <2>5. (Awaited => Awaited') /\ (Gone(K["read"])' => Gone(K["read"]))
    BY <1>2, <2>2 DEF Awaited, Awaits, Gone, vars
  <2>4. Fits(C, K)'
    BY <1>2, <2>1, <2>3, <2>5 DEF Fits, vars
  <2> QED
    BY <2>2, <2>4 DEF IInv
<1> QED
  BY <1>1, <1>2, GuiInv, EventInv, ReadInv, ControlInv, BusyInv DEF Next

\* The inductive invariant holds: no thread ever meets an instruction that its
\* state does not allow.
THEOREM Inductive == Spec => []IInv
<1>1. Init => IInv
  BY InitInv
<1>2. IInv /\ [Next]_vars => IInv'
  BY NextInv
<1> QED
  BY <1>1, <1>2, PTL DEF Spec

-----------------------------------------------------------------------------
(* What follows from it.                                                    *)

LEMMA InvTypes ==
  ASSUME IInv
  PROVE  TypeOK
<1>1. PICK C, K : Fits(C, K)
  BY DEF IInv
<1>2. \A t \in Threads : C[t] \in 0..Bound(t) /\ Program(todo[t]) /\ IsSeq(todo[t])
  BY <1>1, TypedGood DEF Fits
<1>3. prevent \in 0..4
  <2>1. C["gui"] \in 0..1 /\ C["read"] \in 0..2 /\ C["control"] \in 0..0 /\ C["event"] \in 0..1
    BY <1>2 DEF Bound, Threads
  <2>2. prevent = C["gui"] + C["read"] + C["control"] + C["event"]
    BY <1>1 DEF Fits
  <2> QED
    BY <2>1, <2>2
<1>4. ASSUME NEW t \in Threads, NEW j \in DOMAIN todo[t]
      PROVE  todo[t][j][1] \in Opcodes
  <2>1. DOMAIN todo[t] = 1..Len(todo[t])
    <3>1. PICK U : todo[t] \in Seq(U)
      BY <1>2 DEF IsSeq
    <3> QED
      BY <3>1
  <2> QED
    BY <1>2, <2>1 DEF Program
<1> QED
  BY <1>3, <1>4 DEF IInv, Shape, TypeOK, Opcodes, Places

LEMMA InvReader ==
  ASSUME IInv
  PROVE  RequestHasReader
<1> SUFFICES ASSUME Waiting("control"), "lost" \notin flag
             PROVE  Playable
  BY DEF RequestHasReader
<1>1. PICK C, K : Fits(C, K)
  BY DEF IInv
<1>2. todo["control"] # <<>> /\ Head(todo["control"])[1] = "answer" /\ "control" \in Threads
  BY DEF Waiting, Threads
<1>3. Typed("control", Held("control"), C["control"], K["control"], todo["control"])
      /\ TrueFacts(K["control"])
  BY <1>1, <1>2 DEF Fits
<1>4. PICK P : Allowed("control", P, Held("control"), C["control"], K["control"],
                       Head(todo["control"]), Tail(todo["control"]))
  BY <1>2, <1>3, NextAllowed
<1>5. "asked" \in K["control"]
  BY <1>2, <1>4 DEF Allowed
<1> QED
  BY <1>3, <1>5 DEF TrueFacts

LEMMA InvNothingLeaked ==
  ASSUME IInv
  PROVE  NothingLeaked
<1> SUFFICES ASSUME \A t \in Threads : todo[t] = <<>>, ~leaked, "exiting" \notin flag
             PROVE  prevent = 0 /\ \A m \in Mutexes : owner[m] = "none"
  BY DEF NothingLeaked
<1>1. PICK C, K : Fits(C, K)
  BY DEF IInv
<1>2. ASSUME NEW t \in Threads
      PROVE  Held(t) = {} /\ C[t] = 0
  <2>1. Typed(t, Held(t), C[t], K[t], todo[t]) /\ TrueFacts(K[t])
    BY <1>1 DEF Fits
  <2>2. Returned(t, Held(t), C[t], K[t]) /\ Relies(t, Held(t), K[t])
    BY <2>1, TypedGood DEF Typed, Closed, Good
  <2>3. "leaked" \notin K[t] /\ "exited" \notin K[t]
    BY <2>1, <2>2 DEF TrueFacts, Relies
  <2> QED
    BY <2>2, <2>3 DEF Returned
<1>3. prevent = 0
  BY <1>1, <1>2 DEF Fits, Threads
<1>4. \A m \in Mutexes : owner[m] = "none"
  BY <1>2 DEF Held, IInv, Shape
<1> QED
  BY <1>3, <1>4

\* What a blocked thread waits for.
LEMMA BlockedCases ==
  ASSUME NEW t, BlockedBy(t) # {}
  PROVE  \/ t = "read" /\ todo[t] = <<>>
         \/ /\ todo[t] # <<>>
            /\ LET i == Head(todo[t]) IN
               \/ i[1] = "lock" /\ BlockedBy(t) = {owner[i[2]]} \ {"none"}
               \/ i[1] = "rpc" /\ BlockedBy(t) = {owner["cmyth"]} \ {"none"}
               \/ i = AwaitNot("closing") /\ BlockedBy(t) \in {{"read"}, Destroying}
               \/ i = AwaitNot("reading") /\ BlockedBy(t) = {"control"}
               \/ i[1] = "idle" /\ "jumping" \in flag /\ BlockedBy(t) = {"read"}
               \/ i[1] = "drain"
               \/ i[1] = "answer" /\ BlockedBy(t) = {"read"}
<1>1. CASE todo[t] = <<>>
  BY <1>1 DEF BlockedBy
<1>2. CASE todo[t] # <<>>
  <2> DEFINE i == Head(todo[t])
             A == i[1] = "lock"
             B == i[1] = "rpc"
             D == i = AwaitNot("closing") /\ "closing" \in flag
             E == i = AwaitNot("reading") /\ "reading" \in flag
             F == i[1] = "idle" /\ {"jumping", "busy"} \subseteq flag
             G == i[1] = "drain" /\ "doing" \in flag /\ ~Readable
             H == i[1] = "answer" /\ data # "none"
             X == IF "file" \in holder THEN {"read"} ELSE Destroying
  <2>1. BlockedBy(t) = CASE A -> {owner[i[2]]} \ {"none"}
                         [] B -> {owner["cmyth"]} \ {"none"}
                         [] D -> X
                         [] E -> {"control"}
                         [] F -> {"read"}
                         [] G -> {"control"}
                         [] H -> {"read"}
                         [] OTHER -> {}
    BY <1>2, Zenon DEF BlockedBy
  <2>2. X \in {{"read"}, Destroying}
    OBVIOUS
  <2>3. \/ A /\ BlockedBy(t) = {owner[i[2]]} \ {"none"}
        \/ B /\ BlockedBy(t) = {owner["cmyth"]} \ {"none"}
        \/ D /\ BlockedBy(t) = X
        \/ E /\ BlockedBy(t) = {"control"}
        \/ F /\ BlockedBy(t) = {"read"}
        \/ G /\ BlockedBy(t) = {"control"}
        \/ H /\ BlockedBy(t) = {"read"}
    <3> HIDE DEF A, B, D, E, F, G, H, X
    <3> QED
      BY <2>1, Zenon
  <2>4. F => "jumping" \in flag
    OBVIOUS
  <2> HIDE DEF X
  <2>5. D /\ BlockedBy(t) = X => i = AwaitNot("closing") /\ BlockedBy(t) \in {{"read"}, Destroying}
    BY <2>2, Zenon
  <2> QED
    BY <1>2, <2>3, <2>4, <2>5, Zenon
<1> QED
  BY <1>1, <1>2

\* A circle that LockOrder does not allow.
Circle(S) ==
  /\ ~leaked /\ S \in SUBSET Threads /\ Deadlocked(S)
  /\ ~("read" \in S /\ ({"jumping", "reopen"} \cap flag # {} \/ todo["read"] = <<>>))
  /\ ~({"read", "control"} \subseteq S /\ "lost" \in flag)
  /\ ~("gui" \in S /\ "exiting" \in flag)
  /\ ~({"gui", "event"} \subseteq S)
  /\ ~(scene.chain /\ "control" \in S)

\* What a thread in it waits for:  a mutex that it does not have, or the file
\* to be closed, or the end of a round of the control thread, which waits for
\* an answer, or not.
LEMMA CircleThread ==
  ASSUME NEW C, NEW K, Shape, Fits(C, K), NEW S, Circle(S), NEW t \in S
  PROVE  /\ t = "read" => ~Otherwise(K[t])
         /\ \/ \E m \in Mutexes :
                 /\ "cmyth" \notin Held(t)
                 /\ owner[m] \in S /\ m \in Held(owner[m]) /\ m \notin Held(t)
                 /\ t = "control" => m = "cmyth" \/ Held(t) = {}
                 /\ t = "read" => \/ m = "seek"
                                  \/ m = "cmyth" /\ "destroys" \in K[t]
            \/ t # "read" /\ "cmyth" \notin Held(t) /\ Destroying # {} /\ Destroying \subseteq S
            \/ t = "gui" /\ "cmyth" \notin Held(t) /\ Held(t) = {} /\ "control" \in S
            \/ t # "read" /\ "cmyth" \notin Held(t) /\ "read" \in S
            \/ t = "control" /\ "read" \in S /\ "block" \in Held(t) /\ ~Awaits(t)
<1> DEFINE i == Head(todo[t])
           h == Held(t)
<1>1. t \in Threads /\ t # "none" /\ BlockedBy(t) # {} /\ BlockedBy(t) \subseteq S
  BY DEF Threads, Circle, Deadlocked
<1>2. Typed(t, h, C[t], K[t], todo[t]) /\ TrueFacts(K[t]) /\ Relies(t, h, K[t])
  BY <1>1, TypedGood DEF Fits
<1>3. todo[t] # <<>>
      /\ \/ i[1] = "lock" /\ BlockedBy(t) = {owner[i[2]]} \ {"none"}
         \/ i[1] = "rpc" /\ BlockedBy(t) = {owner["cmyth"]} \ {"none"}
         \/ i = AwaitNot("closing") /\ BlockedBy(t) \in {{"read"}, Destroying}
         \/ i = AwaitNot("reading") /\ BlockedBy(t) = {"control"}
         \/ i[1] = "idle" /\ "jumping" \in flag /\ BlockedBy(t) = {"read"}
         \/ i[1] = "drain"
         \/ i[1] = "answer" /\ BlockedBy(t) = {"read"}
  <2>1. ~(t = "read" /\ todo[t] = <<>>)
    BY DEF Circle
  <2> QED
    BY <1>1, <2>1, BlockedCases, Zenon
<1>4. PICK P : Allowed(t, P, h, C[t], K[t], i, Tail(todo[t]))
  BY <1>2, <1>3, NextAllowed
<1>5. ~Otherwise(K[t]) /\ "leaked" \notin K[t] /\ "jumping" \notin K[t]
  BY <1>2 DEF TrueFacts, Relies, Circle, Otherwise
<1>6. ~Stuck(K[t])
  <2>1. "livetv" \notin K[t] /\ "chain" \notin K[t]
    BY <1>2 DEF TrueFacts, Relies, Circle
  <2> QED
    BY <1>5, <2>1 DEF Stuck
<1>7. ASSUME NEW m \in Mutexes, BlockedBy(t) = {owner[m]} \ {"none"}
      PROVE  owner[m] \in S /\ m \in Held(owner[m])
  BY <1>1, <1>7 DEF Held
<1> DEFINE Waits == \E m \in Mutexes :
                 /\ "cmyth" \notin Held(t)
                 /\ owner[m] \in S /\ m \in Held(owner[m]) /\ m \notin Held(t)
                 /\ t = "control" => m = "cmyth" \/ Held(t) = {}
                 /\ t = "read" => \/ m = "seek"
                                  \/ m = "cmyth" /\ "destroys" \in K[t]
<1>14. ASSUME i[1] = "awaitnot" PROVE Awaits(t) \/ i # AwaitNot("closing")
  BY <1>3 DEF Awaits
<1>15. i[1] = "answer" => ~Awaits(t)
  BY DEF Awaits, AwaitNot
<1> HIDE DEF i, h
<1>8. CASE i[1] = "lock" /\ BlockedBy(t) = {owner[i[2]]} \ {"none"}
  <2>1. MayLock(t, h, K[t], i[2]) /\ i[2] \notin h
    BY <1>4, <1>6, <1>8 DEF Allowed
  <2>2. i[2] \in Mutexes /\ "cmyth" \notin h
    BY <2>1 DEF MayLock
  <2>3. owner[i[2]] \in S /\ i[2] \in Held(owner[i[2]])
    BY <1>7, <1>8, <2>2
  <2>4. t = "control" => i[2] = "cmyth" \/ h = {}
    BY <2>1 DEF MayLock
  <2>5. t = "read" => i[2] = "seek" \/ (i[2] = "cmyth" /\ "destroys" \in K[t])
    BY <1>5, <2>1 DEF MayLock
  <2>6. Waits
    BY <2>1, <2>2, <2>3, <2>4, <2>5 DEF h
  <2> QED
    BY <1>5, <2>6
<1>9. CASE i[1] = "rpc" /\ BlockedBy(t) = {owner["cmyth"]} \ {"none"}
  <2>1. "cmyth" \notin h /\ "cmyth" \in Mutexes /\ t # "read"
    BY <1>4, <1>5, <1>9 DEF Allowed, Mutexes
  <2>2. owner["cmyth"] \in S /\ "cmyth" \in Held(owner["cmyth"])
    BY <1>7, <1>9, <2>1
  <2>3. Waits
    BY <2>1, <2>2 DEF h
  <2> QED
    BY <1>5, <2>3
<1>10. CASE i = AwaitNot("closing") /\ BlockedBy(t) \in {{"read"}, Destroying}
  <2>1. i[1] = "awaitnot" /\ i[2] = "closing"
    BY <1>10 DEF AwaitNot
  <2>2. MayAwait(t, h, K[t], "closing")
    BY <1>4, <2>1 DEF Allowed
  <2>3. t # "read" /\ "cmyth" \notin h
    BY <1>5, <2>2 DEF MayAwait
  <2> QED
    BY <1>1, <1>5, <1>10, <2>3 DEF h
<1>11. CASE i = AwaitNot("reading") /\ BlockedBy(t) = {"control"}
  <2>1. i[1] = "awaitnot" /\ i[2] = "reading"
    BY <1>11 DEF AwaitNot
  <2>2. MayAwait(t, h, K[t], "reading")
    BY <1>4, <2>1 DEF Allowed
  <2> QED
    BY <1>1, <1>5, <1>11, <2>2 DEF MayAwait, h
<1>12. CASE i[1] = "idle" /\ "jumping" \in flag /\ BlockedBy(t) = {"read"}
  BY <1>1, <1>12 DEF Circle
<1>13. CASE i[1] = "drain"
  BY <1>4, <1>5, <1>13 DEF Allowed
<1>16. CASE i[1] = "answer" /\ BlockedBy(t) = {"read"}
  <2>1. "asked" \in K[t]
    BY <1>4, <1>16 DEF Allowed
  <2>2. t = "control" /\ "block" \in h
    BY <1>2, <2>1 DEF Relies
  <2> QED
    BY <1>1, <1>5, <1>15, <1>16, <2>2 DEF h
<1> QED
  BY <1>3, <1>8, <1>9, <1>10, <1>11, <1>12, <1>13, <1>16

\* The read thread is not in it.
LEMMA CircleWithoutRead ==
  ASSUME NEW C, NEW K, Shape, Fits(C, K), NEW S, Circle(S)
  PROVE  "read" \notin S
<1> SUFFICES ASSUME "read" \in S
             PROVE  FALSE
  OBVIOUS
<1>1. PICK m \in Mutexes :
         /\ owner[m] \in S /\ m \in Held(owner[m]) /\ m \notin Held("read")
         /\ m = "seek" \/ (m = "cmyth" /\ "destroys" \in K["read"])
  BY CircleThread
<1>2. owner[m] \in Threads /\ owner[m] # "read"
  BY <1>1 DEF Circle, Held
<1>3. Relies(owner[m], Held(owner[m]), K[owner[m]]) /\ TrueFacts(K[owner[m]])
  BY <1>2, TypedGood DEF Fits
<1>4. CASE m = "seek"
  <2>1. owner[m] = "gui" /\ "exiting" \in flag
    BY <1>1, <1>2, <1>3, <1>4 DEF Relies, TrueFacts
  <2> QED
    BY <1>1, <2>1 DEF Circle
<1>5. CASE m = "cmyth" /\ "destroys" \in K["read"]
  <2>1. owner[m] = "control" /\ "block" \in Held("control") /\ ~Awaits("control")
    BY <1>1, <1>2, <1>5, CircleThread
  <2>2. "lost" \notin flag
    BY <1>1, <2>1 DEF Circle
  <2>3. Awaited
    BY <1>5, <2>2 DEF Fits, Gone
  <2> QED
    BY <2>1, <2>3 DEF Awaited, Held
<1> QED
  BY <1>1, <1>4, <1>5

LEMMA InvLockOrder ==
  ASSUME IInv
  PROVE  LockOrder
<1> SUFFICES ASSUME NEW S, Circle(S)
             PROVE  FALSE
  BY DEF LockOrder, Circle
<1>1. PICK C, K : Shape /\ Fits(C, K)
  BY DEF IInv
<1>2. "read" \notin S
  BY <1>1, CircleWithoutRead
<1> DEFINE Locked(t) == \E m \in Mutexes :
             /\ owner[m] \in S /\ m \in Held(owner[m]) /\ m \notin Held(t)
             /\ t = "control" => m = "cmyth" \/ Held(t) = {}
           Closing == Destroying # {} /\ Destroying \subseteq S
           Reading == Held("gui") = {} /\ "control" \in S
<1>3. ASSUME NEW t \in S
      PROVE  /\ "cmyth" \notin Held(t)
             /\ Locked(t) \/ Closing \/ (t = "gui" /\ Reading)
  BY <1>1, <1>2, CircleThread
\* The mutex that a thread waits for is not that of libcmyth, which nobody
\* has, so the control thread has none, and another thread, the GUI or the
\* event thread, has it.
<1>4. ASSUME NEW t \in S, Locked(t), ~Closing
      PROVE  \E u \in S \cap {"gui", "event"} :
               u # t /\ Held(u) # {} /\ (t = "control" => Held(t) = {})
  <2>1. PICK m \in Mutexes : /\ owner[m] \in S /\ m \in Held(owner[m]) /\ m \notin Held(t)
                             /\ t = "control" => m = "cmyth" \/ Held(t) = {}
    BY <1>4
  <2>2. m # "cmyth" /\ owner[m] # t
    BY <1>3, <2>1
  <2>3. owner[m] # "control"
    <3> SUFFICES ASSUME owner[m] = "control"
                 PROVE  FALSE
      OBVIOUS
    <3>1. Locked("control") /\ "control" \in S
      BY <1>3, <1>4, <2>1
    <3>2. PICK n \in Mutexes : owner[n] \in S /\ n \in Held(owner[n])
                               /\ (n = "cmyth" \/ Held("control") = {})
      BY <3>1
    <3>3. n # "cmyth"
      BY <1>3, <3>2
    <3> QED
      BY <2>1, <3>2, <3>3
  <2> QED
    BY <1>2, <2>1, <2>2, <2>3 DEF Circle, Threads
\* A thread that destroys the file waits for libcmyth's mutex.
<1>5. ~Closing
  <2> SUFFICES ASSUME Closing
               PROVE  FALSE
    OBVIOUS
  <2>1. PICK t \in Destroying : t \in S
    OBVIOUS
  <2>2. t \in Threads /\ Len(todo[t]) >= 3 /\ SubSeq(todo[t], 1, 3) = cmyth_file_destroy
    BY <2>1 DEF Destroying, cmyth_file_destroy
  <2>3. IsSeq(todo[t])
    BY <1>1, <2>2, TypedGood DEF Fits
  <2>4. PICK U : todo[t] \in Seq(U)
    BY <2>3 DEF IsSeq
  <2>5. Len(todo[t]) \in Nat /\ SubSeq(todo[t], 1, 3)[1] = todo[t][1]
    BY <2>2, <2>4
  <2>6. Head(todo[t]) = Lock("cmyth") /\ todo[t] # <<>>
    <3>1. cmyth_file_destroy[1] = Lock("cmyth")
      BY DEF cmyth_file_destroy
    <3>2. todo[t][1] = Lock("cmyth")
      BY <2>2, <2>5, <3>1, Zenon
    <3>3. todo[t] # <<>> /\ Head(todo[t]) = todo[t][1]
      BY <2>2, <2>4, <2>5
    <3> QED
      BY <3>2, <3>3
  <2>7. BlockedBy(t) = {owner["cmyth"]} \ {"none"}
    <3> DEFINE i == Head(todo[t])
    <3>1. i[1] = "lock" /\ i[2] = "cmyth"
      BY <2>6 DEF Lock
    <3> QED
      BY <2>6, <3>1 DEF BlockedBy, AwaitNot
  <2>8. BlockedBy(t) # {} /\ BlockedBy(t) \subseteq S
    BY <2>1 DEF Circle, Deadlocked
  <2>9. owner["cmyth"] \in S /\ "cmyth" \in Mutexes
    BY <2>7, <2>8 DEF Mutexes
  <2>10. "cmyth" \in Held(owner["cmyth"])
    BY <2>9 DEF Held
  <2> QED
    BY <1>3, <2>9, <2>10
<1>6. ~Reading
  <2> SUFFICES ASSUME Reading
               PROVE  FALSE
    OBVIOUS
  <2>1. Locked("control") /\ "control" \in S
    BY <1>3, <1>5
  <2>2. PICK u \in S \cap {"gui", "event"} : Held(u) # {}
    BY <1>4, <1>5, <2>1
  <2>3. u = "event"
    BY <2>2
  <2> QED
    BY <1>3, <1>4, <1>5, <2>3 DEF Circle
<1>7. PICK t \in S : Locked(t)
  BY <1>3, <1>5, <1>6 DEF Circle, Deadlocked
<1> HIDE DEF Locked
<1>8. PICK u \in S \cap {"gui", "event"} : u # t
  BY <1>4, <1>5, <1>7
<1>9. PICK v \in S \cap {"gui", "event"} : v # u
  BY <1>3, <1>4, <1>5, <1>6, <1>8
<1> QED
  BY <1>9 DEF Circle

\* The variables keep their types: prevent, mythtv_prevent_request_block, to
\* which each function adds one and from which it subtracts one, is never
\* negative and never more than four, and no thread meets an instruction
\* that there is not.
THEOREM TypeCorrect == Spec => []TypeOK
<1>1. IInv => TypeOK
  BY InvTypes
<1> QED
  BY <1>1, Inductive, PTL

\* Threads wait for each other in a circle in the cases of LockOrder alone,
\* whatever the user does, the backend announces and fails to answer:  the
\* order in which mythtv.c and mythtv_livetv.c take seek_mutex,
\* request_block_mutex and myth_mutex, and wait for mythtv_close_file_state,
\* video_reading and the backend, whose answer waits for the read thread,
\* admits no other.
THEOREM LockOrderHolds == Spec => []LockOrder
<1>1. IInv => LockOrder
  BY InvLockOrder
<1> QED
  BY <1>1, Inductive, PTL

\* What control_start waits for can be read: mythtv_close_file and
\* mythtv_livetv_stop, which take request_block_mutex, do not close the file
\* or the recorder during a request, only mythtv_close does.
THEOREM RequestHasReaderHolds == Spec => []RequestHasReader
<1>1. IInv => RequestHasReader
  BY InvReader
<1> QED
  BY <1>1, Inductive, PTL

\* Every path through the functions of mythtv.c and mythtv_livetv.c unlocks
\* what it has locked and allows the requests that it has prevented, but for
\* the refused seek of mythtv_seek, the missing tuner of mythtv_new_livetv
\* and mythtv_atexit.
THEOREM NothingLeakedHolds == Spec => []NothingLeaked
<1>1. IInv => NothingLeaked
  BY InvNothingLeaked
<1> QED
  BY <1>1, Inductive, PTL
=============================================================================
