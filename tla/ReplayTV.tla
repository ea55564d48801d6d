------------------------------ MODULE ReplayTV ------------------------------
(***************************************************************************)
(* Streaming from a ReplayTV (src/replaytv.c).  The stream thread fetches  *)
(* a file in chunks and puts them into a queue of RTV_VID_Q_SZ buffers,    *)
(* guarded by a mutex and two semaphores; the read thread of the player    *)
(* (src/video.c) takes them out.  The GUI thread starts a show, jumps and  *)
(* stops, for which it has to get both threads out of the queue first.     *)
(***************************************************************************)
EXTENDS Integers

CONSTANTS
  QSize,     \* RTV_VID_Q_SZ
  Chunks,    \* bound: the chunks of a show
  Streams    \* bound: how often the stream is started

Poison == 0          \* the NULL buffer of length -1; a chunk is its number
Nothing == -1         \* NULL
Slots == 0..(QSize - 1)

VARIABLES
  play_state,    \* "stopped", "playing" or "abort"
  video_playing,
  gpc, rpc, spc, \* where the GUI thread, the read thread, the stream thread is
  lock,          \* owner of queue_lock, or "none"
  not_empty, not_full, idle_sem,   \* the semaphores
  buffer, write_pos, read_pos,     \* the queue
  chunk,         \* the last chunk the stream thread has fetched
  last_read_buf, \* the buffer to be freed at the next read
  tsbuf,         \* what the read thread has got from the queue
  forgotten,     \* the read thread waits for a semaphore that has been reset
  then,          \* what the GUI thread does after rtv_abort_read
  streams,       \* streams started so far
  taken,         \* ghost: the last chunk of this stream that was read
  early,         \* ghost: the read thread came before the queue was reset
  notified       \* ghost: the read thread was idle before idle_sem was reset

vars == <<play_state, video_playing, gpc, rpc, spc, lock, not_empty, not_full,
          idle_sem, buffer, write_pos, read_pos, chunk, last_read_buf, tsbuf,
          forgotten, then, streams, taken, early, notified>>

gui == <<gpc, play_state, then, streams>>
queue == <<buffer, write_pos, read_pos>>
read == <<last_read_buf, tsbuf>>
sems == <<not_empty, not_full, idle_sem>>
ghosts == <<forgotten, taken, early, notified>>

Init ==
  /\ play_state = "stopped" /\ video_playing = FALSE
  /\ gpc = "idle" /\ rpc = "asleep" /\ spc = "none"
  /\ lock = "none"
  /\ not_empty = 0 /\ not_full = 0 /\ idle_sem = 0
  /\ buffer = [i \in Slots |-> Nothing] /\ write_pos = 0 /\ read_pos = 0
  /\ chunk = 0 /\ last_read_buf = Nothing /\ tsbuf = Nothing
  /\ forgotten = FALSE /\ then = "stop" /\ streams = 0
  /\ taken = 0 /\ early = FALSE /\ notified = FALSE

-----------------------------------------------------------------------------
(* The GUI thread.                                                         *)

\* pthread_create, play_state and video_play.
StartStream ==
  /\ spc = "none" /\ streams < Streams
  /\ spc' = "init" /\ streams' = streams + 1
  /\ play_state' = "playing" /\ video_playing' = TRUE
  /\ gpc' = "idle" /\ chunk' = 0 /\ taken' = 0 /\ early' = FALSE

\* play_show, thruput_test: the whole state is cleared first.
PlayShow ==
  /\ gpc = "idle" /\ play_state = "stopped"
  /\ StartStream
  /\ buffer' = [i \in Slots |-> Nothing] /\ write_pos' = 0 /\ read_pos' = 0
  /\ not_empty' = 0 /\ not_full' = 0 /\ last_read_buf' = Nothing
  /\ UNCHANGED <<tsbuf, rpc, lock, idle_sem, forgotten, then, notified>>

\* rtv_video_key with a jump, rtv_halt_stream, replaytv_back_from_video:
\* video_stop_play, and rtv_abort_read, which does nothing when stopped.
Abort(next) ==
  /\ gpc = "idle" /\ play_state = "playing"
  /\ next = "jump" => streams < Streams
  /\ video_playing' = FALSE /\ then' = next /\ gpc' = "reset"
  /\ UNCHANGED <<play_state, rpc, spc, lock, sems, queue, chunk, read, streams,
                 ghosts>>

\* sem_init(&sem_mvp_readthread_idle), then RTV_VID_ABORT_PLAY.
AbortReset ==
  /\ gpc = "reset"
  /\ notified' = (rpc = "asleep")
  /\ idle_sem' = 0 /\ gpc' = "abort"
  /\ UNCHANGED <<play_state, video_playing, rpc, spc, lock, not_empty, not_full,
                 queue, chunk, read, forgotten, then, streams, taken,
                 early>>

\* Fault: the queue is not flushed before the stream thread is waited for.
AbortStateNoFlush ==
  /\ gpc = "abort"
  /\ play_state' = "abort" /\ gpc' = "join"
  /\ UNCHANGED <<video_playing, rpc, spc, lock, sems, queue, chunk, read, then,
                 streams, ghosts>>

AbortState ==
  /\ gpc = "abort"
  /\ play_state' = "abort" /\ gpc' = "lock1"
  /\ UNCHANGED <<video_playing, rpc, spc, lock, sems, queue, chunk, read, then,
                 streams, ghosts>>

\* rtv_video_queue_flush, twice: before and after the join.
FlushLock ==
  /\ gpc \in {"lock1", "lock2"} /\ lock = "none"
  /\ lock' = "gui" /\ last_read_buf' = Nothing
  /\ gpc' = IF gpc = "lock1" THEN "flush1" ELSE "flush2"
  /\ UNCHANGED <<play_state, video_playing, rpc, spc, sems, queue, chunk, tsbuf,
                 then, streams, ghosts>>

FlushOne ==
  /\ gpc \in {"flush1", "flush2"} /\ not_empty > 0
  /\ not_empty' = not_empty - 1 /\ not_full' = not_full + 1
  /\ read_pos' = (read_pos + 1) % QSize
  /\ UNCHANGED <<gui, video_playing, rpc, spc, lock, idle_sem, buffer, write_pos,
                 chunk, read, ghosts>>

FlushEnd ==
  /\ gpc \in {"flush1", "flush2"} /\ not_empty = 0
  /\ lock' = "none"
  /\ gpc' = IF gpc = "flush1" THEN "join" ELSE "poison"
  /\ UNCHANGED <<play_state, video_playing, rpc, spc, sems, queue, chunk, read,
                 then, streams, ghosts>>

Join ==
  /\ gpc = "join" /\ spc = "done"
  /\ spc' = "none" /\ gpc' = "lock2"
  /\ UNCHANGED <<play_state, video_playing, rpc, lock, sems, queue, chunk, read,
                 then, streams, ghosts>>

Store(b) ==
  /\ buffer' = [buffer EXCEPT ![write_pos] = b]
  /\ write_pos' = (write_pos + 1) % QSize

\* rtv_video_queue_write(NULL, 0, -1)
WritePoison ==
  /\ gpc = "poison" /\ not_full > 0 /\ lock = "none"
  /\ not_full' = not_full - 1 /\ not_empty' = not_empty + 1
  /\ Store(Poison)
  /\ gpc' = "waitidle"
  /\ UNCHANGED <<read_pos, play_state, video_playing, rpc, spc, lock, idle_sem, chunk,
                 read, then, streams, ghosts>>

\* sem_wait(&sem_mvp_readthread_idle), video_clear, and the jump or the end.
AbortEnd ==
  /\ gpc = "waitidle" /\ idle_sem > 0
  /\ idle_sem' = idle_sem - 1
  /\ IF then = "jump"
       THEN StartStream
       ELSE /\ gpc' = "idle" /\ play_state' = "stopped"
            /\ UNCHANGED <<video_playing, spc, streams, chunk, taken, early>>
  /\ UNCHANGED <<rpc, lock, not_empty, not_full, queue, read, forgotten, then,
                 notified>>

-----------------------------------------------------------------------------
(* The stream thread.                                                      *)

\* Fault: one place more than there are buffers.
StreamInitLarge ==
  /\ spc = "init"
  /\ buffer' = [i \in Slots |-> Nothing] /\ write_pos' = 0 /\ read_pos' = 0
  /\ last_read_buf' = Nothing
  /\ not_empty' = 0 /\ not_full' = QSize + 1 /\ lock' = "none"
  /\ forgotten' \in {FALSE, rpc = "read"}
  /\ early' = (early \/ rpc \in {"read", "take", "give"})
  /\ spc' = "fetch"
  /\ UNCHANGED <<gui, video_playing, rpc, idle_sem, chunk, tsbuf, taken,
                 notified>>

\* thread_read_start initialises the mutex and the semaphores.  A read thread
\* that already waits for the semaphore may or may not be remembered.
StreamInit ==
  /\ spc = "init"
  /\ buffer' = [i \in Slots |-> Nothing] /\ write_pos' = 0 /\ read_pos' = 0
  /\ last_read_buf' = Nothing
  /\ not_empty' = 0 /\ not_full' = QSize /\ lock' = "none"
  /\ forgotten' \in {FALSE, rpc = "read"}
  /\ early' = (early \/ rpc \in {"read", "take", "give"})
  /\ spc' = "fetch"
  /\ UNCHANGED <<gui, video_playing, rpc, idle_sem, chunk, tsbuf, taken,
                 notified>>

\* get_mpeg_callback with the next chunk, or the end of the file.
Fetch ==
  /\ spc = "fetch"
  /\ IF play_state = "abort" \/ chunk = Chunks
       THEN spc' = "done" /\ UNCHANGED chunk
       ELSE spc' = "put" /\ chunk' = chunk + 1
  /\ UNCHANGED <<gui, video_playing, rpc, lock, sems, queue, read, ghosts>>

\* rtv_video_queue_write: the semaphore, the queue, the other semaphore.
PutWait ==
  /\ spc = "put" /\ not_full > 0
  /\ not_full' = not_full - 1 /\ spc' = "store"
  /\ UNCHANGED <<gui, video_playing, rpc, lock, not_empty, idle_sem, queue,
                 chunk, read, ghosts>>

PutStore ==
  /\ spc = "store" /\ lock = "none"
  /\ Store(chunk) /\ spc' = "post"
  /\ UNCHANGED <<gui, video_playing, rpc, lock, sems, read_pos, chunk, read,
                 ghosts>>

\* Fault: the other semaphore is forgotten.
PutPostNot ==
  /\ spc = "post" /\ spc' = "fetch"
  /\ UNCHANGED <<gui, video_playing, rpc, lock, sems, queue, chunk, read, ghosts>>

PutPost ==
  /\ spc = "post"
  /\ not_empty' = not_empty + 1
  /\ spc' = IF play_state = "abort" THEN "done" ELSE "fetch"
  /\ UNCHANGED <<gui, video_playing, rpc, lock, not_full, idle_sem, queue, chunk,
                 read, ghosts>>

-----------------------------------------------------------------------------
(* The read thread of the player.                                          *)

\* The thread leaves its wait: open, jump to the start, and read.
ReaderWake ==
  /\ rpc = "asleep" /\ video_playing
  /\ rpc' = "read" /\ early' = (early \/ spc = "init")
  /\ UNCHANGED <<gui, video_playing, spc, lock, sems, queue, chunk, read,
                 forgotten, taken, notified>>

\* Not playing: rtv_notify, and wait.
ReaderIdle ==
  /\ rpc = "top" /\ ~video_playing
  /\ idle_sem' = idle_sem + 1 /\ rpc' = "asleep"
  /\ UNCHANGED <<gui, video_playing, spc, lock, not_empty, not_full, queue,
                 chunk, read, ghosts>>

ReaderAgain ==
  /\ rpc = "top" /\ video_playing
  /\ rpc' = "read" /\ early' = (early \/ spc = "init")
  /\ UNCHANGED <<gui, video_playing, spc, lock, sems, queue, chunk, read,
                 forgotten, taken, notified>>

\* rtv_video_queue_read
TakeWait ==
  /\ rpc = "read" /\ not_empty > 0 /\ ~forgotten
  /\ not_empty' = not_empty - 1 /\ rpc' = "take"
  /\ UNCHANGED <<gui, video_playing, spc, lock, not_full, idle_sem, queue, chunk,
                 read, ghosts>>

Take ==
  /\ rpc = "take" /\ lock = "none"
  /\ tsbuf' = buffer[read_pos] /\ last_read_buf' = buffer[read_pos]
  /\ buffer' = [buffer EXCEPT ![read_pos] = Nothing]
  /\ read_pos' = (read_pos + 1) % QSize
  /\ taken' = (IF tsbuf' > 0 THEN tsbuf' ELSE taken)
  /\ rpc' = "give"
  /\ UNCHANGED <<gui, video_playing, spc, lock, sems, write_pos, chunk, forgotten,
                 early, notified>>

Give ==
  /\ rpc = "give"
  /\ not_full' = not_full + 1 /\ rpc' = "parse"
  /\ UNCHANGED <<gui, video_playing, spc, lock, not_empty, idle_sem, queue,
                 chunk, read, ghosts>>

\* The buffer has been parsed, or the player has been stopped.  What comes
\* with a negative length is never parsed.
Parsed ==
  /\ rpc = "parse" /\ (tsbuf # Poison \/ ~video_playing)
  /\ rpc' = "top"
  /\ UNCHANGED <<gui, video_playing, spc, lock, sems, queue, chunk, read, ghosts>>

-----------------------------------------------------------------------------
Stop == Abort("stop")
Jump == Abort("jump")

GuiStep == AbortReset \/ AbortState \/ FlushLock \/ FlushOne \/ FlushEnd \/ Join
           \/ WritePoison \/ AbortEnd
StreamStep == StreamInit \/ Fetch \/ PutWait \/ PutStore \/ PutPost
ReaderStep == ReaderWake \/ ReaderIdle \/ ReaderAgain \/ TakeWait \/ Take \/ Give
              \/ Parsed

Next == PlayShow \/ Stop \/ Jump \/ GuiStep \/ StreamStep \/ ReaderStep

Spec == Init /\ [][Next]_vars

\* Threads are scheduled, the device answers, and the player parses.
Fairness == WF_vars(GuiStep) /\ WF_vars(StreamStep) /\ WF_vars(ReaderStep)

FairSpec == Spec /\ Fairness

-----------------------------------------------------------------------------
TypeOK ==
  /\ play_state \in {"stopped", "playing", "abort"} /\ video_playing \in BOOLEAN
  /\ gpc \in {"idle", "reset", "abort", "lock1", "flush1", "join", "lock2",
              "flush2", "poison", "waitidle"}
  /\ spc \in {"none", "init", "fetch", "put", "store", "post", "done"}
  /\ rpc \in {"asleep", "top", "read", "take", "give", "parse"}
  /\ lock \in {"none", "gui"}
  /\ not_empty \in Nat /\ not_full \in Nat /\ idle_sem \in Nat
  /\ buffer \in [Slots -> Nothing..Chunks] /\ write_pos \in Slots
  /\ read_pos \in Slots /\ {last_read_buf, tsbuf} \subseteq Nothing..Chunks
  /\ chunk \in 0..Chunks /\ then \in {"stop", "jump"} /\ streams \in 0..Streams
  /\ taken \in 0..Chunks /\ {forgotten, early, notified} \subseteq BOOLEAN

\* The two semaphores and the thread that is between them account for every
\* place of the queue, unless the read thread came before the queue was reset.
QueueAccounted ==
  ~early /\ spc \in {"fetch", "put", "store", "post", "done"} =>
    not_empty + not_full + (IF spc \in {"store", "post"} THEN 1 ELSE 0)
      + (IF rpc \in {"take", "give"} THEN 1 ELSE 0) = QSize

\* While the player plays, the read thread gets the chunks in the order in
\* which the device has sent them, without a gap.
ChunksInOrder ==
  [][ Take /\ ~early /\ play_state = "playing" =>
        tsbuf' = taken + 1 ]_vars

\* rtv_abort_read gets the stream thread to end ("Flush the video queue incase
\* rtv_stream_read_thread is blocked trying to write to a full queue"), and
\* returns ("wait for the mvp read thread to idle"), unless the read thread was
\* idle before the semaphore was reset, or in the queue before the queue was.
Aborting == gpc # "idle"
Aborted == gpc = "idle" \/ (gpc = "waitidle" /\ (notified \/ early))
AbortReturns == Aborting ~> Aborted
=============================================================================
