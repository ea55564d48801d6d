--------------------------- MODULE ReplayTVProofs ---------------------------
(***************************************************************************)
(* Proofs about the queue of the ReplayTV client, for every size of the    *)
(* queue, length of a show and number of streams: the semaphores account   *)
(* for every buffer, and the player gets the chunks in order, however the  *)
(* GUI thread, the stream thread and the read thread interleave.           *)
(***************************************************************************)
EXTENDS ReplayTV, TLAPS

\* RTV_VID_Q_SZ is positive.
Sizes == QSize \in Nat \ {0} /\ Chunks \in Nat /\ Streams \in Nat

Types ==
  /\ play_state \in {"stopped", "playing", "abort"} /\ video_playing \in BOOLEAN
  /\ gpc \in {"idle", "reset", "abort", "lock1", "flush1", "join", "lock2",
              "flush2", "poison", "waitidle"}
  /\ spc \in {"none", "init", "fetch", "put", "store", "post", "done"}
  /\ rpc \in {"asleep", "top", "read", "take", "give", "parse"}
  /\ lock \in {"none", "gui"}
  /\ not_empty \in Nat /\ not_full \in Nat /\ idle_sem \in Nat
  /\ then \in {"stop", "jump"} /\ streams \in 0..Streams
QueueTypes ==
  /\ buffer \in [Slots -> Nothing..Chunks] /\ write_pos \in Slots
  /\ read_pos \in Slots
  /\ last_read_buf \in Nothing..Chunks /\ tsbuf \in Nothing..Chunks
  /\ chunk \in 0..Chunks /\ taken \in 0..Chunks
  /\ spc \in {"put", "store", "post"} => chunk \in 1..Chunks
GhostTypes == forgotten \in BOOLEAN /\ early \in BOOLEAN /\ notified \in BOOLEAN

\* Where rtv_abort_read has got to, and what that says of the other threads.
Aborts ==
  /\ gpc # "idle" => ~video_playing
  /\ gpc = "idle" => play_state \in {"stopped", "playing"}
  /\ gpc \in {"reset", "abort"} => play_state = "playing"
  /\ gpc \notin {"idle", "reset", "abort"} => play_state = "abort"
  /\ gpc \in {"lock2", "flush2", "poison", "waitidle"} => spc = "none"
  /\ play_state = "stopped" => ~video_playing /\ rpc = "asleep"
  /\ play_state = "playing" => spc # "none"

\* The semaphore tells the truth: a read thread that posted it stays asleep
\* until the next stream.
IdleMeansAsleep == gpc \notin {"idle", "reset"} /\ idle_sem > 0 => rpc = "asleep"

\* A stream that is about to reset the queue has a read thread that sleeps,
\* or else came too early.
Fresh == spc = "init" /\ ~early => rpc = "asleep" /\ taken = 0 /\ chunk = 0

Running == spc \in {"fetch", "put", "store", "post", "done"} /\ ~early

\* The buffers that hold a chunk.
Filled ==
  not_empty + (IF spc = "post" THEN 1 ELSE 0) + (IF rpc = "take" THEN 1 ELSE 0)

\* How far a slot is from the one that is read next.
Dist(c) == (c - read_pos + QSize) % QSize

\* They follow each other from read_pos on, and hold the chunks that were
\* fetched and not yet taken.
Content ==
  Running /\ play_state = "playing" =>
    /\ write_pos = (read_pos + Filled) % QSize
    /\ taken + Filled = IF spc \in {"put", "store"} THEN chunk - 1 ELSE chunk
    /\ \A c \in Slots : Dist(c) < Filled => buffer[c] = taken + 1 + Dist(c)

Control == Types /\ GhostTypes /\ Aborts /\ IdleMeansAsleep
IInv == Control /\ QueueTypes /\ Fresh /\ QueueAccounted /\ Content

-----------------------------------------------------------------------------
(* Control: the threads' places.                                           *)

LEMMA InitControl == ASSUME Sizes, Init PROVE Control
<1>1. 0 \in 0..Streams
  BY DEF Sizes
<1>2. Types
  BY <1>1 DEF Init, Types
<1>3. GhostTypes /\ Aborts /\ IdleMeansAsleep
  BY DEF Init, GhostTypes, Aborts, IdleMeansAsleep
<1> QED
  BY <1>2, <1>3 DEF Control

\* A stream is started while the read thread sleeps.
LEMMA StartControl ==
  ASSUME Sizes, Control, StartStream, rpc = "asleep", rpc' = rpc, lock' = lock,
         not_empty' \in Nat, not_full' \in Nat, idle_sem' \in Nat, then' = then,
         UNCHANGED <<forgotten, notified>>
  PROVE  Control'
<1>1. /\ spc' = "init" /\ play_state' = "playing" /\ video_playing' = TRUE
      /\ gpc' = "idle" /\ early' = FALSE
  BY DEF StartStream
<1>2. streams' \in 0..Streams
  BY DEF StartStream, Sizes, Control, Types
<1>3. Types'
  BY <1>1, <1>2 DEF Control, Types
<1>4. GhostTypes' /\ Aborts' /\ IdleMeansAsleep'
  BY <1>1 DEF Control, GhostTypes, Aborts, IdleMeansAsleep
<1> QED
  BY <1>3, <1>4 DEF Control

\* The GUI thread starts, and aborts step by step.
LEMMA GuiControl ==
  ASSUME Sizes, Control, PlayShow \/ Stop \/ Jump \/ AbortReset \/ AbortState \/ FlushLock \/ FlushOne \/ FlushEnd \/ Join \/ WritePoison \/ AbortEnd
  PROVE  Control'
<1> USE DEF Sizes, Control, Types, GhostTypes, Aborts, IdleMeansAsleep, gui, queue,
            read, sems, ghosts
<1>1. CASE PlayShow
  <2>1. /\ StartStream /\ rpc = "asleep" /\ not_empty' = 0 /\ not_full' = 0
        /\ UNCHANGED <<rpc, lock, idle_sem, forgotten, then, notified>>
    BY <1>1 DEF PlayShow
  <2> QED
    BY <2>1, StartControl
<1>2. CASE Stop
  BY <1>2 DEF Stop, Abort
<1>3. CASE Jump
  BY <1>3 DEF Jump, Abort
<1>4. CASE AbortReset
  BY <1>4 DEF AbortReset
<1>5. CASE AbortState
  BY <1>5 DEF AbortState
<1>6. CASE FlushLock
  BY <1>6 DEF FlushLock
<1>7. CASE FlushOne
  BY <1>7 DEF FlushOne
<1>8. CASE FlushEnd
  BY <1>8 DEF FlushEnd
<1>9. CASE Join
  BY <1>9 DEF Join
<1>10. CASE WritePoison
  BY <1>10 DEF WritePoison, Store
<1>11. CASE AbortEnd
  <2>1. /\ gpc = "waitidle" /\ idle_sem' \in Nat /\ rpc = "asleep"
        /\ UNCHANGED <<rpc, lock, not_empty, not_full, forgotten, then, notified>>
    BY <1>11 DEF AbortEnd
  <2>2. CASE then = "jump"
    BY <1>11, <2>1, <2>2, StartControl DEF AbortEnd
  <2>3. CASE then # "jump"
    BY <1>11, <2>1, <2>3 DEF AbortEnd
  <2> QED
    BY <2>2, <2>3
<1> QED
  BY <1>1, <1>2, <1>3, <1>4, <1>5, <1>6, <1>7, <1>8, <1>9, <1>10, <1>11

\* The stream thread.
LEMMA StreamControl ==
  ASSUME Sizes, Control, StreamInit \/ Fetch \/ PutWait \/ PutStore \/ PutPost
  PROVE  Control'
<1> USE DEF Sizes, Control, Types, GhostTypes, Aborts, IdleMeansAsleep, gui, queue,
            read, sems, ghosts
<1>1. CASE StreamInit
  BY <1>1 DEF StreamInit
<1>2. CASE Fetch
  BY <1>2 DEF Fetch
<1>3. CASE PutWait
  BY <1>3 DEF PutWait
<1>4. CASE PutStore
  BY <1>4 DEF PutStore, Store
<1>5. CASE PutPost
  BY <1>5 DEF PutPost
<1> QED
  BY <1>1, <1>2, <1>3, <1>4, <1>5

\* The read thread: it posts the semaphore and sleeps, in this order.
LEMMA ReaderControl ==
  ASSUME Sizes, Control, ReaderWake \/ ReaderIdle \/ ReaderAgain \/ TakeWait \/ Take \/ Give \/ Parsed
  PROVE  Control'
<1> USE DEF Sizes, Control, Types, GhostTypes, Aborts, IdleMeansAsleep, gui, queue,
            read, sems, ghosts
<1>1. CASE ReaderWake
  BY <1>1 DEF ReaderWake
<1>2. CASE ReaderIdle
  BY <1>2 DEF ReaderIdle
<1>3. CASE ReaderAgain
  BY <1>3 DEF ReaderAgain
<1>4. CASE TakeWait
  BY <1>4 DEF TakeWait
<1>5. CASE Take
  BY <1>5 DEF Take
<1>6. CASE Give
  BY <1>6 DEF Give
<1>7. CASE Parsed
  BY <1>7 DEF Parsed
<1> QED
  BY <1>1, <1>2, <1>3, <1>4, <1>5, <1>6, <1>7

LEMMA NextControl == ASSUME Sizes, Control, [Next]_vars PROVE Control'
<1>1. CASE UNCHANGED vars
  BY <1>1 DEF vars, Control, Types, GhostTypes, Aborts, IdleMeansAsleep
<1> QED
  BY <1>1, GuiControl, StreamControl, ReaderControl
     DEF Next, GuiStep, StreamStep, ReaderStep

-----------------------------------------------------------------------------
(* The queue.                                                              *)

\* An index that moves on by at most one turn.
LEMMA Around ==
  ASSUME Sizes, NEW r \in Slots, NEW k \in 0..QSize
  PROVE  /\ (r + k) % QSize = IF r + k < QSize THEN r + k ELSE r + k - QSize
         /\ (r + k) % QSize \in Slots
<1>1. QSize \in Nat \ {0} /\ r \in 0..(QSize - 1) /\ k \in 0..QSize
  BY DEF Sizes, Slots
<1> DEFINE x == r + k
<1>2. x \in Nat /\ x < 2 * QSize
  BY <1>1
<1> HIDE DEF x
<1>3. x % QSize = IF x < QSize THEN x ELSE x - QSize
  <2>1. CASE x < QSize
    BY <1>1, <1>2, <2>1
  <2>2. CASE x >= QSize
    BY <1>1, <1>2, <2>2
  <2> QED
    BY <1>1, <1>2, <2>1, <2>2
<1> QED
  BY <1>1, <1>2, <1>3 DEF x, Slots

\* The distance of two slots.
LEMMA Between ==
  ASSUME Sizes, NEW r \in Slots, NEW c \in Slots
  PROVE  /\ (c - r + QSize) % QSize = IF c >= r THEN c - r ELSE c - r + QSize
         /\ (c - r + QSize) % QSize \in 0..(QSize - 1)
<1>1. QSize \in Nat \ {0} /\ c \in 0..(QSize - 1) /\ r \in 0..(QSize - 1)
  BY DEF Sizes, Slots
<1> DEFINE x == c - r + QSize
<1>2. x \in Nat /\ x < 2 * QSize
  BY <1>1
<1> HIDE DEF x
<1>3. x % QSize = IF x < QSize THEN x ELSE x - QSize
  <2>1. CASE x < QSize
    BY <1>1, <1>2, <2>1
  <2>2. CASE x >= QSize
    BY <1>1, <1>2, <2>2
  <2> QED
    BY <1>1, <1>2, <2>1, <2>2
<1> QED
  BY <1>1, <1>3 DEF x

LEMMA DistValue ==
  ASSUME Sizes, read_pos \in Slots, NEW c \in Slots
  PROVE  /\ Dist(c) = IF c >= read_pos THEN c - read_pos ELSE c - read_pos + QSize
         /\ Dist(c) \in 0..(QSize - 1)
BY Between DEF Dist

\* The types of the queue and of what passes through it.
LEMMA InitQueueTypes == ASSUME Sizes, Init PROVE QueueTypes
<1>1. 0 \in Slots /\ Nothing \in Nothing..Chunks /\ 0 \in 0..Chunks
  BY DEF Sizes, Slots, Nothing
<1> QED
  BY <1>1 DEF Init, QueueTypes

LEMMA NextQueueTypes ==
  ASSUME Sizes, Types, QueueTypes, [Next]_vars PROVE QueueTypes'
<1> USE DEF gui, queue, read, sems, ghosts
<1>1. /\ Nothing \in Nothing..Chunks /\ Poison \in Nothing..Chunks
      /\ 0 \in 0..Chunks /\ 0 \in Slots /\ 1 \in 0..QSize /\ Chunks \in Nat
  BY DEF Sizes, Slots, Nothing, Poison
<1>2. (read_pos + 1) % QSize \in Slots /\ (write_pos + 1) % QSize \in Slots
  BY <1>1, Around DEF QueueTypes
<1>3. [i \in Slots |-> Nothing] \in [Slots -> Nothing..Chunks]
  BY <1>1
<1>4. ASSUME NEW b \in Nothing..Chunks, Store(b)
      PROVE  buffer' \in [Slots -> Nothing..Chunks] /\ write_pos' \in Slots
  BY <1>2, <1>4 DEF Store, QueueTypes
<1>5. CASE PlayShow
  BY <1>1, <1>3, <1>5 DEF PlayShow, StartStream, QueueTypes
<1>6. CASE Stop \/ Jump \/ AbortReset \/ AbortState \/ FlushEnd \/ Join
  BY <1>6 DEF Stop, Jump, Abort, AbortReset, AbortState, FlushEnd, Join, QueueTypes
<1>7. CASE FlushLock
  BY <1>1, <1>7 DEF FlushLock, QueueTypes
<1>8. CASE FlushOne
  BY <1>2, <1>8 DEF FlushOne, QueueTypes
<1>9. CASE WritePoison
  BY <1>1, <1>4, <1>9 DEF WritePoison, QueueTypes
<1>10. CASE AbortEnd
  <2>1. CASE then = "jump"
    BY <1>1, <1>10, <2>1 DEF AbortEnd, StartStream, QueueTypes
  <2>2. CASE then # "jump"
    BY <1>10, <2>2 DEF AbortEnd, QueueTypes
  <2> QED
    BY <2>1, <2>2
<1>11. CASE StreamInit
  BY <1>1, <1>3, <1>11 DEF StreamInit, QueueTypes
<1>12. CASE Fetch
  <2>1. CASE spc' = "done" /\ UNCHANGED chunk
    BY <1>12, <2>1 DEF Fetch, QueueTypes
  <2>2. CASE chunk # Chunks /\ spc' = "put" /\ chunk' = chunk + 1
    <3>1. chunk' \in 0..Chunks /\ chunk' \in 1..Chunks
      BY <1>1, <2>2 DEF QueueTypes
    <3> QED
      BY <1>12, <2>2, <3>1 DEF Fetch, QueueTypes
  <2> QED
    BY <1>12, <2>1, <2>2 DEF Fetch
<1>13. CASE PutWait
  BY <1>13 DEF PutWait, QueueTypes
<1>14. CASE PutStore
  <2>1. chunk \in Nothing..Chunks
    BY <1>1 DEF QueueTypes, Nothing
  <2> QED
    BY <1>4, <1>14, <2>1 DEF PutStore, QueueTypes
<1>15. CASE PutPost
  BY <1>15 DEF PutPost, QueueTypes
<1>16. CASE ReaderWake \/ ReaderIdle \/ ReaderAgain \/ TakeWait \/ Give \/ Parsed
  BY <1>16 DEF ReaderWake, ReaderIdle, ReaderAgain, TakeWait, Give, Parsed, QueueTypes
<1>17. CASE Take
  <2>1. buffer[read_pos] \in Nothing..Chunks
    BY DEF QueueTypes
  <2>2. taken' \in 0..Chunks
    BY <1>1, <1>17, <2>1 DEF Take, QueueTypes, Nothing
  <2>3. buffer' \in [Slots -> Nothing..Chunks]
    BY <1>1, <1>17 DEF Take, QueueTypes
  <2> QED
    BY <1>2, <1>17, <2>1, <2>2, <2>3 DEF Take, QueueTypes
<1>18. CASE UNCHANGED vars
  BY <1>18 DEF vars, QueueTypes
<1> QED
  BY <1>5, <1>6, <1>7, <1>8, <1>9, <1>10, <1>11, <1>12, <1>13, <1>14, <1>15,
     <1>16, <1>17, <1>18 DEF Next, GuiStep, StreamStep, ReaderStep

\* A stream begins with a read thread that sleeps: rtv_abort_read has waited
\* for it.
LEMMA NextFresh ==
  ASSUME Sizes, Control, Fresh, [Next]_vars PROVE Fresh'
<1> USE DEF gui, queue, read, sems, ghosts, Fresh
<1>1. CASE PlayShow
  BY <1>1 DEF PlayShow, StartStream, Control, Aborts
<1>2. CASE Stop \/ Jump \/ AbortReset \/ AbortState \/ FlushEnd \/ Join \/ FlushLock
           \/ FlushOne \/ WritePoison
  BY <1>2 DEF Stop, Jump, Abort, AbortReset, AbortState, FlushEnd, Join, FlushLock,
     FlushOne, WritePoison
<1>3. CASE AbortEnd
  BY <1>3 DEF AbortEnd, StartStream, Control, IdleMeansAsleep
<1>4. CASE StreamInit \/ Fetch \/ PutWait \/ PutStore \/ PutPost
  BY <1>4 DEF StreamInit, Fetch, PutWait, PutStore, PutPost
<1>5. CASE ReaderWake \/ ReaderIdle \/ ReaderAgain \/ TakeWait \/ Give \/ Parsed \/ Take
  BY <1>5 DEF ReaderWake, ReaderIdle, ReaderAgain, TakeWait, Give, Parsed, Take
<1>6. CASE UNCHANGED vars
  BY <1>6 DEF vars
<1> QED
  BY <1>1, <1>2, <1>3, <1>4, <1>5, <1>6 DEF Next, GuiStep, StreamStep, ReaderStep

\* The semaphores: what one thread takes from one of them it gives to the
\* other, and the poison is written only after the stream thread has ended.
LEMMA NextAccounted ==
  ASSUME Sizes, Control, QueueAccounted, [Next]_vars PROVE QueueAccounted'
<1> USE DEF gui, queue, read, sems, ghosts, QueueAccounted
<1>t. not_empty \in Nat /\ not_full \in Nat /\ QSize \in Nat
  BY DEF Control, Types, Sizes
<1>1. CASE PlayShow \/ AbortEnd
  BY <1>1 DEF PlayShow, AbortEnd, StartStream, Control, Aborts
<1>2. CASE Stop \/ Jump \/ AbortReset \/ AbortState \/ FlushEnd \/ Join \/ FlushLock
  BY <1>2 DEF Stop, Jump, Abort, AbortReset, AbortState, FlushEnd, Join, FlushLock
<1>3. CASE FlushOne
  BY <1>t, <1>3 DEF FlushOne
<1>4. CASE WritePoison
  BY <1>4 DEF WritePoison, Control, Aborts
<1>5. CASE StreamInit
  <2>1. /\ not_empty' = 0 /\ not_full' = QSize /\ spc' = "fetch" /\ rpc' = rpc
        /\ early' = (early \/ rpc \in {"read", "take", "give"})
    BY <1>5 DEF StreamInit
  <2>2. ~early' => rpc' \notin {"take", "give"}
    BY <2>1
  <2> QED
    BY <1>t, <2>1, <2>2
<1>6. CASE Fetch \/ PutStore
  BY <1>6 DEF Fetch, PutStore
<1>7. CASE PutWait
  BY <1>t, <1>7 DEF PutWait
<1>8. CASE PutPost
  BY <1>t, <1>8 DEF PutPost
<1>9. CASE ReaderWake \/ ReaderIdle \/ ReaderAgain \/ Parsed \/ Take
  BY <1>9 DEF ReaderWake, ReaderIdle, ReaderAgain, Parsed, Take
<1>10. CASE TakeWait
  BY <1>t, <1>10 DEF TakeWait
<1>11. CASE Give
  BY <1>t, <1>11 DEF Give
<1>12. CASE UNCHANGED vars
  BY <1>12 DEF vars
<1> QED
  BY <1>1, <1>2, <1>3, <1>4, <1>5, <1>6, <1>7, <1>8, <1>9, <1>10, <1>11, <1>12
     DEF Next, GuiStep, StreamStep, ReaderStep

-----------------------------------------------------------------------------
(* The contents of the queue.                                              *)

\* There are never more chunks in the queue than there are buffers, and while
\* one is being stored there is a buffer for it.
LEMMA FilledBound ==
  ASSUME Sizes, Control, QueueAccounted, Running
  PROVE  /\ Filled \in 0..QSize /\ not_empty \in Nat
         /\ spc = "store" => Filled < QSize
<1>1. /\ not_empty \in Nat /\ not_full \in Nat /\ QSize \in Nat
  BY DEF Control, Types, Sizes
<1>2. not_empty + not_full + (IF spc \in {"store", "post"} THEN 1 ELSE 0)
        + (IF rpc \in {"take", "give"} THEN 1 ELSE 0) = QSize
  BY DEF QueueAccounted, Running
<1> QED
  BY <1>1, <1>2 DEF Filled

\* A step that leaves the queue and the number of its chunks alone.
LEMMA ContentSame ==
  ASSUME Content, UNCHANGED <<buffer, write_pos, read_pos, taken>>,
         Running' /\ play_state' = "playing" =>
           /\ Running /\ play_state = "playing" /\ Filled' = Filled
           /\ (IF spc \in {"put", "store"} THEN chunk - 1 ELSE chunk)'
                = IF spc \in {"put", "store"} THEN chunk - 1 ELSE chunk
  PROVE  Content'
BY DEF Content, Dist

\* The stream thread stores a chunk behind the others.
LEMMA StoreContent ==
  ASSUME Sizes, Control, QueueTypes, QueueAccounted, Content, PutStore
  PROVE  Content'
<1> USE DEF gui, queue, read, sems, ghosts
<1>1. /\ spc = "store" /\ spc' = "post"
      /\ buffer' = [buffer EXCEPT ![write_pos] = chunk]
      /\ write_pos' = (write_pos + 1) % QSize
      /\ UNCHANGED <<read_pos, rpc, not_empty, chunk, taken, early, play_state>>
  BY DEF PutStore, Store
<1> SUFFICES ASSUME ~early, play_state = "playing" PROVE Content'
  BY <1>1 DEF Content, Running
<1>2. Running
  BY <1>1 DEF Running
<1> DEFINE n == Filled
<1>3. n \in 0..QSize /\ n < QSize /\ not_empty \in Nat /\ QSize \in Nat \ {0}
  BY <1>1, <1>2, FilledBound DEF Sizes
<1>4. Filled' = n + 1
  BY <1>1, <1>3 DEF Filled
<1>5. /\ write_pos = (read_pos + n) % QSize /\ taken + n = chunk - 1
      /\ \A c \in Slots : Dist(c) < n => buffer[c] = taken + 1 + Dist(c)
  BY <1>1, <1>2 DEF Content
<1>6. /\ write_pos \in Slots /\ read_pos \in Slots /\ chunk \in Int /\ taken \in Int
      /\ buffer \in [Slots -> Nothing..Chunks]
  BY DEF QueueTypes
<1> HIDE DEF n
<1>7. /\ write_pos = IF read_pos + n < QSize THEN read_pos + n ELSE read_pos + n - QSize
      /\ read_pos \in 0..(QSize - 1) /\ write_pos \in 0..(QSize - 1)
  BY <1>3, <1>5, <1>6, Around DEF Slots
<1>8. write_pos' = (read_pos' + (n + 1)) % QSize
  <2>1. n + 1 \in 0..QSize /\ 1 \in 0..QSize
    BY <1>3
  <2>2. (read_pos + (n + 1)) % QSize
          = IF read_pos + (n + 1) < QSize THEN read_pos + (n + 1)
            ELSE read_pos + (n + 1) - QSize
    BY <1>6, <2>1, Around
  <2>3. (write_pos + 1) % QSize
          = IF write_pos + 1 < QSize THEN write_pos + 1 ELSE write_pos + 1 - QSize
    BY <1>6, <2>1, Around
  <2> QED
    BY <1>1, <1>3, <1>7, <2>2, <2>3
<1>9. ASSUME NEW c \in Slots, Dist(c) < n + 1
      PROVE  buffer'[c] = taken + 1 + Dist(c)
  <2>1. /\ Dist(c) = IF c >= read_pos THEN c - read_pos ELSE c - read_pos + QSize
        /\ Dist(c) \in 0..(QSize - 1) /\ c \in 0..(QSize - 1)
    BY <1>6, DistValue DEF Slots
  <2>2. CASE c = write_pos
    <3>1. Dist(c) = n
      BY <1>3, <1>7, <2>1, <2>2
    <3> QED
      BY <1>1, <1>3, <1>5, <1>6, <2>2, <3>1
  <2>3. CASE c # write_pos
    <3>1. Dist(c) # n
      BY <1>3, <1>7, <2>1, <2>3
    <3>2. Dist(c) < n
      BY <1>3, <1>9, <2>1, <3>1
    <3> QED
      BY <1>1, <1>5, <1>6, <2>3, <3>2
  <2> QED
    BY <2>2, <2>3
<1>10. \A c \in Slots : Dist(c)' = Dist(c)
  BY <1>1 DEF Dist
<1>11. taken' + Filled' = chunk'
  BY <1>1, <1>3, <1>4, <1>5, <1>6
<1>12. \A c \in Slots : Dist(c)' < Filled' => buffer'[c] = taken' + 1 + Dist(c)'
  BY <1>1, <1>4, <1>9, <1>10
<1> QED
  BY <1>1, <1>4, <1>8, <1>11, <1>12 DEF Content

\* The read thread takes the chunk that follows the one it took last.
LEMMA TakeNext ==
  ASSUME Sizes, Control, QueueTypes, QueueAccounted, Content, Running,
         play_state = "playing", rpc = "take"
  PROVE  buffer[read_pos] = taken + 1 /\ Filled \in 1..QSize
<1>1. Filled \in 0..QSize /\ not_empty \in Nat /\ QSize \in Nat \ {0}
  BY FilledBound DEF Sizes
<1>2. Filled >= 1
  BY <1>1 DEF Filled
<1>3. read_pos \in Slots /\ read_pos \in Int /\ taken \in Int
  BY <1>1 DEF QueueTypes, Slots
<1>4. Dist(read_pos) = 0
  BY <1>3, DistValue
<1>5. buffer[read_pos] = taken + 1 + Dist(read_pos)
  BY <1>1, <1>2, <1>3, <1>4 DEF Content
<1> QED
  BY <1>1, <1>2, <1>3, <1>4, <1>5

LEMMA TakeContent ==
  ASSUME Sizes, Control, QueueTypes, QueueAccounted, Content, Take
  PROVE  Content'
<1> USE DEF gui, queue, read, sems, ghosts
<1>1. /\ rpc = "take" /\ rpc' = "give"
      /\ tsbuf' = buffer[read_pos]
      /\ buffer' = [buffer EXCEPT ![read_pos] = Nothing]
      /\ read_pos' = (read_pos + 1) % QSize
      /\ taken' = (IF tsbuf' > 0 THEN tsbuf' ELSE taken)
      /\ UNCHANGED <<write_pos, spc, not_empty, chunk, early, play_state>>
  BY DEF Take
<1> SUFFICES ASSUME Running, play_state = "playing" PROVE Content'
  BY <1>1 DEF Content, Running
<1> DEFINE n == Filled
<1>3. buffer[read_pos] = taken + 1 /\ n \in 1..QSize
  BY <1>1, TakeNext
<1>4. not_empty \in Nat /\ QSize \in Nat \ {0}
  BY DEF Control, Types, Sizes
<1>5. Filled' = n - 1
  BY <1>1, <1>4 DEF Filled
<1>6. /\ write_pos = (read_pos + n) % QSize
      /\ taken + n = IF spc \in {"put", "store"} THEN chunk - 1 ELSE chunk
      /\ \A c \in Slots : Dist(c) < n => buffer[c] = taken + 1 + Dist(c)
  BY DEF Content
<1>7. /\ read_pos \in Slots /\ read_pos \in 0..(QSize - 1)
      /\ taken \in Nat /\ chunk \in Nat
      /\ buffer \in [Slots -> Nothing..Chunks]
  BY DEF QueueTypes, Slots
<1> HIDE DEF n
<1>8. taken' = taken + 1
  BY <1>1, <1>3, <1>7
<1>9. /\ read_pos' = IF read_pos + 1 < QSize THEN read_pos + 1 ELSE read_pos + 1 - QSize
      /\ read_pos' \in Slots
  BY <1>1, <1>4, <1>7, Around
<1>10. write_pos = (read_pos' + (n - 1)) % QSize
  <2>1. n \in 0..QSize /\ n - 1 \in 0..QSize
    BY <1>3, <1>4
  <2>2. (read_pos + n) % QSize
          = IF read_pos + n < QSize THEN read_pos + n ELSE read_pos + n - QSize
    BY <1>7, <2>1, Around
  <2>3. (read_pos' + (n - 1)) % QSize
          = IF read_pos' + (n - 1) < QSize THEN read_pos' + (n - 1)
            ELSE read_pos' + (n - 1) - QSize
    BY <1>9, <2>1, Around
  <2> QED
    BY <1>3, <1>4, <1>6, <1>7, <1>9, <2>2, <2>3
<1>11. ASSUME NEW c \in Slots, Dist(c)' < n - 1
       PROVE  buffer'[c] = taken' + 1 + Dist(c)'
  <2>1. /\ Dist(c) = IF c >= read_pos THEN c - read_pos ELSE c - read_pos + QSize
        /\ c \in 0..(QSize - 1)
    BY <1>7, DistValue DEF Slots
  <2>2. Dist(c)' = IF c >= read_pos' THEN c - read_pos' ELSE c - read_pos' + QSize
    <3>1. Dist(c)' = (c - read_pos' + QSize) % QSize
      BY DEF Dist
    <3> QED
      BY <1>9, <3>1, Between
  <2> DEFINE d == Dist(c)'
             e == Dist(c)
  <2>6. /\ d < n - 1 /\ d = IF c >= read_pos' THEN c - read_pos' ELSE c - read_pos' + QSize
        /\ e = IF c >= read_pos THEN c - read_pos ELSE c - read_pos + QSize
    BY <1>11, <2>1, <2>2
  <2> HIDE DEF d, e
  <2>7. c # read_pos /\ e = d + 1 /\ e \in Nat /\ d \in Nat
    BY <1>3, <1>4, <1>7, <1>9, <2>1, <2>6
  <2>3. c # read_pos /\ Dist(c) = Dist(c)' + 1 /\ Dist(c) \in Nat /\ Dist(c)' \in Nat
    BY <2>7 DEF d, e
  <2>4. Dist(c) < n
    BY <1>3, <1>11, <2>3
  <2>5. buffer[c] = taken + 1 + Dist(c) /\ buffer'[c] = buffer[c]
    BY <1>1, <1>6, <1>7, <2>3, <2>4
  <2> QED
    BY <1>7, <1>8, <2>3, <2>5
<1>12. taken' + Filled' = IF spc \in {"put", "store"} THEN chunk - 1 ELSE chunk
  BY <1>3, <1>5, <1>6, <1>7, <1>8
<1> QED
  BY <1>1, <1>5, <1>10, <1>11, <1>12 DEF Content

LEMMA NextContent ==
  ASSUME Sizes, Control, QueueTypes, Fresh, QueueAccounted, Content, [Next]_vars
  PROVE  Content'
<1> USE DEF gui, queue, read, sems, ghosts
<1>t. not_empty \in Nat /\ QSize \in Nat \ {0} /\ chunk \in Int
  BY DEF Control, Types, Sizes, QueueTypes
<1>1. CASE PlayShow
  BY <1>1 DEF PlayShow, StartStream, Content, Running
<1>2. CASE AbortEnd
  BY <1>2 DEF AbortEnd, StartStream, Content, Running, Control, Aborts
<1>3. CASE Stop \/ Jump \/ AbortReset \/ AbortState \/ FlushEnd \/ Join \/ FlushLock
  <2>1. /\ UNCHANGED <<buffer, write_pos, read_pos, taken, chunk, not_empty, rpc, early>>
        /\ play_state' = "playing" => play_state = "playing"
        /\ spc' = spc \/ spc' = "none"
    BY <1>3 DEF Stop, Jump, Abort, AbortReset, AbortState, FlushEnd, Join, FlushLock
  <2> QED
    BY <2>1, ContentSame DEF Running, Filled
<1>4. CASE FlushOne
  <2>1. play_state' # "playing"
    BY <1>4 DEF FlushOne, Control, Aborts
  <2> QED
    BY <2>1 DEF Content
<1>5. CASE WritePoison
  <2>1. play_state' # "playing"
    BY <1>5 DEF WritePoison, Control, Aborts
  <2> QED
    BY <2>1 DEF Content
<1>6. CASE StreamInit
  <2>1. /\ write_pos' = 0 /\ read_pos' = 0 /\ not_empty' = 0 /\ spc' = "fetch"
        /\ spc = "init" /\ rpc' = rpc /\ UNCHANGED <<chunk, taken>>
        /\ early' = (early \/ rpc \in {"read", "take", "give"})
    BY <1>6 DEF StreamInit
  <2> SUFFICES ASSUME ~early' PROVE Content'
    BY DEF Content, Running
  <2>2. ~early /\ rpc # "take"
    BY <2>1
  <2>3. taken' = 0 /\ chunk' = 0
    BY <2>1, <2>2 DEF Fresh
  <2>4. Filled' = 0
    BY <2>1, <2>2 DEF Filled
  <2>5. 0 = (0 + 0) % QSize
    <3>1. 0 \in Slots /\ 0 \in 0..QSize
      BY <1>t DEF Slots
    <3> QED
      BY <1>t, <3>1, Around
  <2>6. \A c \in Slots : ~(Dist(c)' < 0)
    <3> SUFFICES ASSUME NEW c \in Slots PROVE ~(Dist(c)' < 0)
      OBVIOUS
    <3>1. Dist(c)' = (c - 0 + QSize) % QSize /\ c \in Int
      BY <2>1 DEF Dist, Slots
    <3>2. (c - 0 + QSize) % QSize \in Nat
      BY <1>t, <3>1
    <3> QED
      BY <3>1, <3>2
  <2> QED
    BY <2>1, <2>3, <2>4, <2>5, <2>6 DEF Content
<1>7. CASE Fetch
  <2>1. /\ UNCHANGED <<buffer, write_pos, read_pos, taken, not_empty, rpc, early, play_state>>
        /\ spc = "fetch"
        /\ \/ spc' = "done" /\ chunk' = chunk
           \/ spc' = "put" /\ chunk' = chunk + 1
    BY <1>7 DEF Fetch
  <2>2. Filled' = Filled
    BY <2>1 DEF Filled
  <2>3. (IF spc \in {"put", "store"} THEN chunk - 1 ELSE chunk)'
          = IF spc \in {"put", "store"} THEN chunk - 1 ELSE chunk
    BY <1>t, <2>1
  <2> QED
    BY <2>1, <2>2, <2>3, ContentSame DEF Running
<1>8. CASE PutWait \/ PutPost
  <2>1. /\ UNCHANGED <<buffer, write_pos, read_pos, taken, rpc, early, play_state, chunk>>
        /\ \/ spc = "put" /\ spc' = "store" /\ not_empty' = not_empty
           \/ spc = "post" /\ spc' \in {"fetch", "done"} /\ not_empty' = not_empty + 1
    BY <1>8 DEF PutWait, PutPost
  <2>2. Filled' = Filled
    BY <1>t, <2>1 DEF Filled
  <2> QED
    BY <2>1, <2>2, ContentSame DEF Running
<1>9. CASE ReaderWake \/ ReaderIdle \/ ReaderAgain \/ Parsed \/ Give
  <2>1. /\ UNCHANGED <<buffer, write_pos, read_pos, taken, play_state, chunk, spc, not_empty>>
        /\ rpc # "take" /\ rpc' # "take"
    BY <1>9 DEF ReaderWake, ReaderIdle, ReaderAgain, Parsed, Give
  <2>2. Filled' = Filled
    BY <2>1 DEF Filled
  <2>3. ~early' => ~early
    BY <1>9 DEF ReaderWake, ReaderIdle, ReaderAgain, Parsed, Give
  <2> QED
    BY <2>1, <2>2, <2>3, ContentSame DEF Running
<1>10. CASE TakeWait
  <2>1. /\ UNCHANGED <<buffer, write_pos, read_pos, taken, play_state, chunk, spc, early>>
        /\ rpc = "read" /\ rpc' = "take" /\ not_empty' = not_empty - 1
    BY <1>10 DEF TakeWait
  <2>2. Filled' = Filled
    BY <1>t, <2>1 DEF Filled
  <2> QED
    BY <2>1, <2>2, ContentSame DEF Running
<1>11. CASE UNCHANGED vars
  <2>1. UNCHANGED <<buffer, write_pos, read_pos, taken, play_state, chunk, spc, early,
                    not_empty, rpc>>
    BY <1>11 DEF vars
  <2> QED
    BY <2>1, ContentSame DEF Running, Filled
<1> QED
  BY <1>1, <1>2, <1>3, <1>4, <1>5, <1>6, <1>7, <1>8, <1>9, <1>10, <1>11,
     StoreContent, TakeContent DEF Next, GuiStep, StreamStep, ReaderStep

-----------------------------------------------------------------------------
LEMMA Invariance == ASSUME Sizes PROVE Spec => []IInv
<1>1. Init => IInv
  <2> SUFFICES ASSUME Init PROVE IInv
    OBVIOUS
  <2>1. Control /\ QueueTypes
    BY InitControl, InitQueueTypes
  <2>2. Fresh /\ QueueAccounted /\ Content
    BY DEF Init, Fresh, QueueAccounted, Content, Running
  <2> QED
    BY <2>1, <2>2 DEF IInv
<1>2. IInv /\ [Next]_vars => IInv'
  BY NextControl, NextQueueTypes, NextFresh, NextAccounted, NextContent
     DEF IInv, Control
<1> QED
  BY <1>1, <1>2, PTL DEF Spec

\* Every variable keeps its type; in particular no semaphore is taken that
\* was not posted, and no index leaves the queue.
THEOREM TypeCorrect == ASSUME Sizes PROVE Spec => []TypeOK
<1>1. IInv => TypeOK
  BY DEF IInv, Control, Types, QueueTypes, GhostTypes, TypeOK
<1> QED
  BY <1>1, Invariance, PTL

\* The semaphores and the threads between them account for every buffer, for
\* every size of the queue, unless the read thread came too early.
THEOREM QueueIsAccounted == ASSUME Sizes PROVE Spec => []QueueAccounted
<1>1. IInv => QueueAccounted
  BY DEF IInv
<1> QED
  BY <1>1, Invariance, PTL

\* While it plays, the player takes the chunks in the order in which the
\* device sent them, without a gap, from the first stream to the last.
THEOREM ChunksAreInOrder == ASSUME Sizes PROVE Spec => ChunksInOrder
<1>1. IInv /\ [Next]_vars =>
        [Take /\ ~early /\ play_state = "playing" => tsbuf' = taken + 1]_vars
  <2> SUFFICES ASSUME IInv, Take, ~early, play_state = "playing"
               PROVE  tsbuf' = taken + 1
    OBVIOUS
  <2>1. rpc = "take" /\ tsbuf' = buffer[read_pos]
    BY DEF Take
  <2>2. Running
    BY <2>1 DEF Running, IInv, Control, Types, Aborts, Fresh
  <2> QED
    BY <2>1, <2>2, TakeNext DEF IInv
<1> QED
  BY <1>1, Invariance, PTL DEF Spec, ChunksInOrder
=============================================================================
