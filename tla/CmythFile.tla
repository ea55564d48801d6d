----------------------------- MODULE CmythFile -----------------------------
(***************************************************************************)
(* The transfer of a file from a MythTV backend (libs/libcmyth/file.c), as *)
(* src/mythtv.c uses it.  The control thread asks for blocks on one        *)
(* connection; the bytes come on another one, from which the read thread   *)
(* takes them.  The answer to a request comes when the backend has sent    *)
(* the block: some of it may not have arrived yet.  To seek, the read      *)
(* thread has to get everything out of the data connection first.          *)
(*                                                                         *)
(* A byte is its number in the file.  The mutexes are those of MythTV, of  *)
(* which only request_block_mutex, held during a request, matters here.    *)
(***************************************************************************)
EXTENDS Integers, Sequences

CONSTANTS
  FileSize,    \* bytes of the file
  Block,       \* bytes the control thread asks for
  Window,      \* bytes the data connection holds that nobody has read
  Width,       \* positions are modulo this, 2^64
  Hangups      \* may the backend close the data connection?

VARIABLES
  file_pos, file_req,  \* of the file: bytes read, bytes answered for
  net, arrived,        \* the data connection: on its way, ready to be read
  backend_pos,         \* the backend's place in the file
  left, asked,         \* of the request being served: bytes left, bytes sent
  control,             \* "idle", "asked" or "answered"
  prevent,             \* mythtv_prevent_request_block
  reader,              \* "read", or what mythtv_seek is doing
  target,              \* offset and whence of the seek
  closed,              \* has the backend closed the data connection?
  outside              \* ghost: a seek went outside the file

vars == <<file_pos, file_req, net, arrived, backend_pos, left, asked, control,
          prevent, reader, target, closed, outside>>

data == <<net, arrived, file_pos>>
seek == <<prevent, reader, target, outside>>
request == <<backend_pos, left, asked, control, file_req>>

Init ==
  /\ file_pos = 0 /\ file_req = 0 /\ backend_pos = 0
  /\ net = <<>> /\ arrived = <<>> /\ closed = FALSE
  /\ left = 0 /\ asked = 0 /\ control = "idle" /\ prevent = FALSE
  /\ reader = "read" /\ target = <<0, "SEEK_SET">> /\ outside = FALSE

-----------------------------------------------------------------------------
(* The control thread.                                                     *)

Least(a, b) == IF a < b THEN a ELSE b

doing_request_block == control # "idle"

\* control_start and cmyth_file_request_block: the message.
RequestBlock ==
  /\ control = "idle" /\ ~prevent
  /\ control' = "asked" /\ asked' = 0
  /\ left' = Least(Block, FileSize - backend_pos)
  /\ UNCHANGED <<data, file_req, backend_pos, seek, closed>>

\* The answer.
BlockAnswered ==
  /\ control = "answered"
  /\ file_req' = (file_req + asked) % Width
  /\ control' = "idle"
  /\ UNCHANGED <<data, backend_pos, left, asked, seek, closed>>

-----------------------------------------------------------------------------
(* The backend and the network.                                            *)

Send ==
  /\ control = "asked" /\ left > 0 /\ ~closed
  /\ Len(net) + Len(arrived) < Window
  /\ net' = Append(net, backend_pos) /\ backend_pos' = backend_pos + 1
  /\ left' = left - 1 /\ asked' = asked + 1
  /\ UNCHANGED <<arrived, file_pos, file_req, control, seek, closed>>

\* What the backend could not send it does not answer for.
Answer ==
  /\ control = "asked" /\ (left = 0 \/ closed)
  /\ control' = "answered"
  /\ UNCHANGED <<data, backend_pos, left, asked, file_req, seek, closed>>

Arrive ==
  /\ net # <<>>
  /\ arrived' = Append(arrived, Head(net)) /\ net' = Tail(net)
  /\ UNCHANGED <<file_pos, request, seek, closed>>

\* The backend closes the data connection; what it has sent is lost.
Hangup ==
  /\ Hangups /\ ~closed
  /\ closed' = TRUE /\ net' = <<>>
  /\ UNCHANGED <<arrived, file_pos, request, seek>>

-----------------------------------------------------------------------------
(* The read thread.                                                        *)

\* cmyth_file_get_block with a buffer of at least n bytes.
GetBlock(n) ==
  /\ n \in 1..Len(arrived)
  /\ arrived' = SubSeq(arrived, n + 1, Len(arrived))
  /\ file_pos' = (file_pos + n) % Width
  /\ UNCHANGED net

\* mythtv_read: cmyth_file_select says that there is something.
Read ==
  /\ reader = "read" /\ \E n \in 1..Len(arrived) : GetBlock(n)
  /\ UNCHANGED <<request, seek, closed>>

\* mythtv_seek.  A seek by nothing only asks for the position.  A seek behind
\* the end is refused (see MythTV), but the test uses the position before the
\* data connection is read empty, and there is no test for the beginning.
\* Bound: nothing is asked after a seek outside the file.
SeekStart ==
  /\ reader = "read" /\ ~outside
  /\ \/ \E offset \in 0..FileSize : target' = <<offset, "SEEK_SET">>
     \/ \E offset \in (-FileSize..FileSize) \ {0} :
          file_pos + offset <= FileSize /\ target' = <<offset, "SEEK_CUR">>
  /\ prevent' = TRUE /\ reader' = "drain"
  /\ UNCHANGED <<data, request, closed, outside>>

\* Fault: the loop waits for the request to end before it reads.
DrainAfter ==
  /\ reader = "drain" /\ ~doing_request_block /\ GetBlock(Len(arrived))
  /\ UNCHANGED <<request, seek, closed>>

\* The loop that reads until nothing comes and no request is under way.
Drain ==
  /\ reader = "drain" /\ GetBlock(Len(arrived))
  /\ UNCHANGED <<request, seek, closed>>

DrainEnd ==
  /\ reader = "drain" /\ arrived = <<>> /\ ~doing_request_block
  /\ reader' = "lock"
  /\ UNCHANGED <<data, request, prevent, target, outside, closed>>

\* request_block_mutex, mythtv_size, and the start of cmyth_file_seek: nothing
\* is to be done when the position is the right one.
SeekLocked ==
  /\ reader = "lock" /\ ~doing_request_block
  /\ IF target = <<file_pos, "SEEK_SET">>
       THEN reader' = "read" /\ prevent' = FALSE
       ELSE reader' = "flush" /\ UNCHANGED prevent
  /\ UNCHANGED <<data, request, target, outside, closed>>

\* The loop in cmyth_file_seek: recv waits, or returns 0 for ever when the
\* connection is closed.
Flush ==
  /\ reader = "flush" /\ file_pos < file_req
  /\ \E n \in 1..(file_req - file_pos) : GetBlock(n)
  /\ UNCHANGED <<request, seek, closed>>

\* The message and its answer.  The backend stays where it is when it cannot
\* seek, and what it answers is not looked at.
SeekTo(pos) ==
  /\ file_pos' = pos % Width /\ file_req' = pos % Width
  /\ backend_pos' = IF pos \in 0..FileSize THEN pos ELSE backend_pos
  /\ outside' = (outside \/ pos \notin 0..FileSize)
  /\ prevent' = FALSE /\ reader' = "read"
  /\ UNCHANGED <<net, arrived, left, asked, control, target, closed>>

\* Where the seek goes: from where the drain has left off.
Target == IF target[2] = "SEEK_SET" THEN target[1] ELSE file_pos + target[1]

\* Fault: the message is sent with data on its way.
SeekMessageEarly == reader = "flush" /\ SeekTo(Target)

SeekMessage == reader = "flush" /\ file_pos >= file_req /\ SeekTo(Target)

-----------------------------------------------------------------------------
ControlStep == RequestBlock \/ BlockAnswered
BackendStep == Send \/ Answer
ReaderStep == Read \/ Drain \/ DrainEnd \/ SeekLocked \/ Flush \/ SeekMessage

Next == ControlStep \/ BackendStep \/ Arrive \/ Hangup \/ ReaderStep \/ SeekStart

Spec == Init /\ [][Next]_vars

\* Threads are scheduled, the backend serves, and what was sent arrives.
Fairness ==
  /\ WF_vars(BlockAnswered) /\ WF_vars(BackendStep) /\ WF_vars(Arrive)
  /\ WF_vars(ReaderStep)

FairSpec == Spec /\ Fairness

-----------------------------------------------------------------------------
TypeOK ==
  /\ {file_pos, file_req} \subseteq 0..(Width - 1) /\ backend_pos \in 0..FileSize
  /\ \A i \in DOMAIN net : net[i] \in 0..FileSize
  /\ \A i \in DOMAIN arrived : arrived[i] \in 0..FileSize
  /\ left \in 0..Block /\ asked \in 0..Block
  /\ control \in {"idle", "asked", "answered"} /\ {prevent, outside} \subseteq BOOLEAN
  /\ reader \in {"read", "drain", "lock", "flush"} /\ closed \in BOOLEAN

\* Whatever is under way when the user seeks, the bytes the player gets are
\* the ones file_pos says: no byte from before a seek comes after it.  After a
\* seek outside the file the two sides no longer agree.
BytesInPlace ==
  LET coming == arrived \o net
  IN ~outside => \A i \in DOMAIN coming : coming[i] = file_pos + i - 1

\* The two loops that empty the data connection end, the one of mythtv_seek although
\* the control thread holds request_block_mutex until somebody has read the block,
\* unless the backend closes the data connection: then the loop in cmyth_file_seek
\* has no end.  Whether mythtv_seek gets the mutexes before and after the loops is
\* the subject of MythTV.
Emptying == reader \in {"drain", "flush"}
Emptied == ~Emptying \/ closed
DrainEnds == Emptying ~> Emptied
=============================================================================
