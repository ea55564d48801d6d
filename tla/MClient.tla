------------------------------ MODULE MClient ------------------------------
(***************************************************************************)
(* The music client (src/mclient.c, src/mclient_mvpmc.c): the slimserver   *)
(* sends the audio data in datagrams, and says in each where in the        *)
(* client's ring it goes and whether to play, pause or stop.  The client   *)
(* answers each one with its pointers.  One thread receives the datagrams  *)
(* and writes the ring to the audio device.                                *)
(*                                                                         *)
(* Datagrams are lost, come twice, late and out of order.  The server is   *)
(* external: it sends the next datagram when the last one is answered, and *)
(* the last one again when it is not.  A byte is its number.               *)
(***************************************************************************)
EXTENDS Integers, Sequences, FiniteSets

CONSTANTS
  Size,        \* OUT_BUF_SIZE
  Chunk,       \* most bytes of a datagram
  Seqs,        \* sequence numbers, 2^16
  Bytes,       \* bound: bytes the server has
  InFlight,    \* bound: datagrams on their way
  Troubles     \* bound: stops, pauses and troubles of the audio device

Play == 0
Pause == 1
Stop == 3

VARIABLES
  head, tail, buf, playmode,   \* outbuf
  seq_history,
  pc,                          \* the loop: "select" or "send"
  last, acked,                 \* the server: the last datagram, is it answered?
  rptr,                        \* the server: where the client reads
  net, ack,                    \* on their way: datagrams, the last answer
  troubles,
  played,                      \* ghost: the last byte the device got
  base,                        \* ghost: bytes before the last datagram's
  newest,                      \* ghost: the newest datagram that came
  astray                       \* ghost: the ring is out of step, see InOrder

vars == <<head, tail, buf, playmode, seq_history, pc, last, acked, rptr, net,
          ack, troubles, played, base, newest, astray>>

ring == <<head, tail, buf, playmode, seq_history>>
server == <<last, acked, rptr>>
ghosts == <<played, base, newest, astray>>

NoAck == [id |-> 0, rptr |-> 0]

Init ==
  /\ head = 0 /\ tail = 0 /\ buf = [i \in 0..(Size - 1) |-> 0]
  /\ playmode = Stop /\ seq_history = 0 /\ pc = "select"
  /\ last = [id |-> 0, wptr |-> 0, n |-> 0, first |-> 1, control |-> Stop]
  /\ acked = TRUE /\ rptr = 0 /\ net = {} /\ ack = NoAck /\ troubles = 0
  /\ played = 0 /\ base = 0 /\ newest = 0 /\ astray = FALSE

-----------------------------------------------------------------------------
\* The server and the network, external.
wptr == (last.wptr + last.n) % Size
sent == last.first + last.n - 1

\* A datagram is not under way for so long that its sequence number comes again.
Lifetime == Seqs - 3

Emit(n, w, c) ==
  /\ acked /\ acked' = FALSE /\ Cardinality(net) < InFlight
  /\ last' = [id |-> last.id + 1, wptr |-> w, n |-> n, first |-> sent + 1, control |-> c]
  /\ net' = {m \in net : last'.id - m.id <= Lifetime} \cup {last'}
  /\ UNCHANGED <<ring, pc, rptr, ack, ghosts>>

Send ==
  /\ \E n \in 1..Chunk :
       /\ n <= (rptr - wptr - 1) % Size /\ sent + n <= Bytes
       /\ Emit(n, wptr, Play)
  /\ UNCHANGED troubles

\* An empty datagram: pause, or stop and begin anew at the start of the ring.
Command ==
  /\ last.control = Play
  /\ troubles < Troubles /\ troubles' = troubles + 1
  /\ Emit(0, wptr, Pause) \/ Emit(0, 0, Stop)

SendAgain ==
  /\ ~acked /\ last \notin net /\ Cardinality(net) < InFlight
  /\ net' = net \cup {last}
  /\ UNCHANGED <<ring, pc, server, ack, troubles, ghosts>>

GetAck ==
  /\ ack # NoAck /\ ack' = NoAck
  /\ IF ~acked /\ ack.id = last.id THEN acked' = TRUE /\ rptr' = ack.rptr
                                   ELSE UNCHANGED <<acked, rptr>>
  /\ UNCHANGED <<ring, pc, last, troubles, net, ghosts>>

Lose ==
  /\ \/ \E m \in net : net' = net \ {m} /\ UNCHANGED ack
     \/ ack # NoAck /\ ack' = NoAck /\ UNCHANGED net
  /\ UNCHANGED <<ring, pc, server, troubles, ghosts>>

-----------------------------------------------------------------------------
\* Fault: the data that does not fit before the end is cut off.
CopyEnd(m) ==
  [i \in 0..(Size - 1) |-> IF i - m.wptr \in 0..(m.n - 1) THEN m.first + i - m.wptr ELSE buf[i]]

\* The data goes to its place, and on at the start of the ring.
Copy(m) ==
  [i \in 0..(Size - 1) |->
     LET k == (i - m.wptr) % Size IN IF k < m.n THEN m.first + k ELSE buf[i]]

\* seq_history after the datagram with this sequence number.
History(s) == IF seq_history > s THEN -1 ELSE seq_history

\* receive_mpeg_data.  A datagram may stay in the network: it comes again.  head is
\* ntohs(wptr << 1), which is the server's position only where ntohs does nothing:
\* the MediaMVP is big endian.
Receive ==
  /\ pc = "select" /\ pc' = "send"
  /\ \E m \in net :
       LET s == m.id % Seqs
           new == m.n # 0 /\ History(s) < s
       IN /\ net' \in {net, net \ {m}}
          /\ head' = IF new THEN (m.wptr + m.n) % Size ELSE m.wptr
          /\ buf' = IF new THEN Copy(m) ELSE buf
          /\ playmode' = m.control
          /\ seq_history' = IF new THEN s ELSE History(s)
          /\ ack' = IF seq_history' <= s THEN [id |-> m.id, rptr |-> tail % Size] ELSE ack
          /\ base' = m.first - 1
          /\ newest' = IF m.id > newest THEN m.id ELSE newest
          /\ astray' = \/ m.id < newest
                       \/ m.id = newest /\ (astray \/ (m.n > 0 /\ played >= m.first))
                       \/ m.id > newest /\ astray /\ m.control # Stop
  /\ UNCHANGED <<tail, server, troubles, played>>

\* 100 ms without a datagram.
SelectTimeout ==
  /\ pc = "select" /\ pc' = "send"
  /\ UNCHANGED <<ring, server, troubles, net, ack, ghosts>>

\* The last byte the device has got when it takes k bytes of the ring.  What
\* lies before the ring is not a byte of the stream.
Written(from, k) ==
  IF k = 0 THEN played ELSE IF from + k <= 0 THEN 0 ELSE buf[from + k - 1]

\* send_mpeg_data, playing.
WriteDevice ==
  \/ /\ head < tail
     /\ \E k \in 0..(Size - tail) :
          IF k < Size - tail
          THEN tail' = tail + k /\ played' = Written(tail, k)
          ELSE \E j \in 0..head :
                 tail' = j /\ played' = IF j > 0 THEN Written(0, j) ELSE Written(tail, k)
  \/ /\ head >= tail
     /\ \E k \in 0..(head - tail) : tail' = tail + k /\ played' = Written(tail, k)

\* The device cannot be opened, or a write returns -1, which is added too; the
\* last case is the second write, after the end of the ring was written.
DeviceFails ==
  /\ troubles < Troubles /\ troubles' = troubles + 1
  /\ astray' = TRUE
  /\ \/ head' = 0 /\ tail' = 0
     \/ tail' = tail - 1 /\ UNCHANGED head
     \/ head < tail /\ tail' = -1 /\ UNCHANGED head
  /\ UNCHANGED played

send_mpeg_data ==
  /\ pc = "send" /\ pc' = "select"
  /\ \/ playmode = Play /\ WriteDevice /\ UNCHANGED <<head, troubles, astray>>
     \/ playmode = Play /\ DeviceFails
     \/ playmode = Pause /\ UNCHANGED <<head, tail, troubles, played, astray>>
     \/ /\ playmode = Stop
        /\ tail' = 0 /\ played' = base
        /\ UNCHANGED <<head, troubles, astray>>
  /\ UNCHANGED <<buf, playmode, seq_history, server, net, ack, base, newest>>

Next == Send \/ Command \/ SendAgain \/ GetAck \/ Lose \/ Receive \/ SelectTimeout \/ send_mpeg_data

Spec == Init /\ [][Next]_vars

-----------------------------------------------------------------------------
TypeOK ==
  /\ {head, rptr} \subseteq 0..(Size - 1) /\ tail \in (-Troubles)..(Size - 1)
  /\ buf \in [0..(Size - 1) -> 0..Bytes] /\ playmode \in {Play, Pause, Stop}
  /\ seq_history \in -1..(Seqs - 1) /\ pc \in {"select", "send"}
  /\ played \in 0..Bytes /\ base \in 0..Bytes /\ troubles \in 0..Troubles
  /\ {acked, astray} \subseteq BOOLEAN

\* Whatever datagrams and answers are lost, and when the last datagram comes
\* twice, the bytes that wait in the ring are the ones that follow what the
\* device has got ("Don't procees ... if it has already been buffered").  The
\* ring goes astray, until the next stop, when the last datagram comes again
\* after the device has got some of it, which puts head behind tail, when an
\* older one comes late, and when the device fails.
InOrder ==
  ~astray /\ playmode # Stop =>
    \A i \in 0..(((head - tail) % Size) - 1) : buf[(tail + i) % Size] = played + 1 + i
=============================================================================
