---------------------------- MODULE VideoThreads ----------------------------
(***************************************************************************)
(* The threads of the video player (src/video.c): the read thread, which   *)
(* opens a file, reads it and feeds the demultiplexer, the video and the   *)
(* audio write thread, which pass the demultiplexed data to the hardware,  *)
(* and the GUI thread, which starts and stops them and handles the keys.   *)
(*                                                                         *)
(* They share volatile flags and one condition variable.  Each thread has  *)
(* a mutex of its own for pthread_cond_wait, so testing a flag and falling *)
(* asleep are two steps: a broadcast between them is lost.  video_clear    *)
(* waits until a semaphore shows that both write threads are idle.         *)
(***************************************************************************)
EXTENDS Integers, FiniteSets

CONSTANTS
  Keys,           \* which of "jump", "back", "seek_to", "seek_by" are used
  OpenFails       \* may video_functions->open fail?

ASSUME ModeAssumption ==
  /\ Keys \subseteq {"jump", "back", "seek_to", "seek_by"}
  /\ OpenFails \in BOOLEAN

Writers == {"video", "audio"}
Threads == Writers \cup {"read"}

VARIABLES
  video_playing, seeking, jumping, video_reopen,  \* volatile globals
  jump_target,    \* "none" (negative) or "some"
  sem,            \* write_threads_idle_sem
  idle,           \* idle of the write threads
  reset,          \* reset of the read thread
  pc,             \* where each thread is, or will be when it wakes up
  mode,           \* "run", "about" to wait or "asleep" in pthread_cond_wait, see
                  \* Modes
  gui,            \* what the GUI thread is doing
  cleared         \* ghost: video_clear has returned, video_play not been called

flags == <<video_playing, seeking, jumping, video_reopen, jump_target>>
vars == <<flags, sem, idle, reset, pc, mode, gui, cleared>>

\* The threads wait for the first broadcast.  video_init sets the semaphore.
Init ==
  /\ video_playing = FALSE /\ seeking = FALSE /\ jumping = FALSE
  /\ video_reopen = FALSE /\ jump_target = "some"
  /\ sem = 2 /\ idle = [w \in Writers |-> TRUE] /\ reset = TRUE
  /\ pc = [t \in Threads |-> "top"] /\ mode = [t \in Threads |-> "asleep"]
  /\ gui = "idle" /\ cleared = TRUE

-----------------------------------------------------------------------------
(* pthread_cond_broadcast, pthread_cond_wait and SIGURG.                   *)

\* A thread that has decided to wait is about to do so: a broadcast before it
\* does is lost.  Of the read thread the model remembers that (a ghost): it was
\* deaf to a broadcast, and sleeps too long.
Modes == {"run", "about", "asleep", "deaf", "long"}

\* The modes after a broadcast.
Broadcast(m) ==
  [t \in Threads |-> CASE m[t] \in {"asleep", "long"} -> "run"
                      [] m[t] = "about" /\ t = "read" -> "deaf"
                      [] OTHER -> m[t]]

At(t, label) == pc[t] = label /\ mode[t] = "run"
Goto(t, label) == pc' = [pc EXCEPT ![t] = label] /\ mode' = mode
WaitAt(t, label) ==
  /\ pc' = [pc EXCEPT ![t] = label]
  /\ mode' = [mode EXCEPT ![t] = "about"]
GotoBroadcast(t, label) ==
  /\ pc' = [pc EXCEPT ![t] = label]
  /\ mode' = Broadcast(mode)

Sleep(t) ==
  /\ mode[t] \in {"about", "deaf"}
  /\ mode' = [mode EXCEPT ![t] = IF mode[t] = "about" THEN "asleep" ELSE "long"]
  /\ UNCHANGED <<flags, sem, idle, reset, pc, gui, cleared>>

\* pthread_kill(SIGURG): a write thread that is inside write() gets an error,
\* and waits; on any other thread the signal has no effect.
InWrite(t) == pc[t] = "write" /\ mode[t] = "run"
Interrupted == [t \in Threads |-> IF InWrite(t) THEN "top" ELSE pc[t]]
InterruptedMode(m) ==
  [t \in Threads |-> IF InWrite(t) THEN "about" ELSE m[t]]

-----------------------------------------------------------------------------
(* video_read_start.                                                       *)

ReadTop ==
  /\ At("read", "top")
  /\ IF video_playing THEN Goto("read", "reopen") ELSE WaitAt("read", "top")
  /\ UNCHANGED <<flags, sem, idle, reset, gui, cleared>>

ReadNoReopen ==
  /\ At("read", "reopen") /\ ~video_reopen
  /\ Goto("read", "jump")
  /\ UNCHANGED <<flags, sem, idle, reset, gui, cleared>>

\* file_open, up to and including open(), whose result comes later.
OpenStart ==
  /\ At("read", "reopen") /\ video_reopen
  /\ seeking' = TRUE
  /\ pc' = [Interrupted EXCEPT !["read"] = "open"]
  /\ mode' = InterruptedMode(mode)
  /\ UNCHANGED <<video_playing, jumping, video_reopen, jump_target, sem, idle,
                 reset, gui, cleared>>

\* The file cannot be opened: file_open returns -1, and the player stops.
OpenFailed ==
  /\ At("read", "open") /\ OpenFails
  /\ video_reopen' = FALSE /\ video_playing' = FALSE
  /\ Goto("read", "top")
  /\ UNCHANGED <<seeking, jumping, jump_target, sem, idle, reset, gui, cleared>>

\* The rest of file_open, which lets the write threads go on,
OpenDone ==
  /\ At("read", "open")
  /\ seeking' = FALSE /\ jumping' = FALSE /\ video_reopen' = FALSE
  /\ GotoBroadcast("read", "opened")
  /\ UNCHANGED <<video_playing, jump_target, sem, idle, reset, gui, cleared>>

\* and the jump to the start of the new file, which stops them again.
OpenJump ==
  /\ At("read", "opened")
  /\ jump_target' = "some" /\ jumping' = TRUE /\ video_reopen' = FALSE
  /\ reset' = TRUE
  /\ Goto("read", "jump")
  /\ UNCHANGED <<video_playing, seeking, sem, idle, gui, cleared>>

NeedsReset == (seeking /\ reset) \/ jumping

ReadJump ==
  /\ At("read", "jump")
  /\ reset' = (reset /\ ~(NeedsReset /\ seeking))
  /\ Goto("read", IF NeedsReset THEN "ifjump" ELSE "read")
  /\ UNCHANGED <<flags, sem, idle, gui, cleared>>

\* "while (jump_target < 0) usleep(1000)", then video_functions->seek.
ReadTarget ==
  /\ At("read", "ifjump") /\ (jumping => jump_target = "some")
  /\ Goto("read", "endjump")
  /\ UNCHANGED <<flags, sem, idle, reset, gui, cleared>>

\* Fault: the end of the jump is not recorded.
EndJumpForgotten ==
  /\ At("read", "endjump")
  /\ Goto("read", "read")
  /\ UNCHANGED <<flags, sem, idle, reset, gui, cleared>>

EndJump ==
  /\ At("read", "endjump")
  /\ jumping' = FALSE
  /\ Goto("read", "read")
  /\ UNCHANGED <<video_playing, seeking, video_reopen, jump_target, sem, idle,
                 reset, gui, cleared>>

\* Both tests of video_playing around video_functions->read.
ReadData ==
  /\ At("read", "read")
  /\ Goto("read", IF video_playing THEN "put" ELSE "top")
  /\ UNCHANGED <<flags, sem, idle, reset, gui, cleared>>

\* demux_put has taken data, or not; the write threads are told either way.
ReadPut ==
  /\ At("read", "put") /\ ~seeking
  /\ GotoBroadcast("read", "top")
  /\ UNCHANGED <<flags, sem, idle, reset, gui, cleared>>

\* do_seek has not yet found the place.
SeekAgain ==
  /\ At("read", "put") /\ seeking
  /\ Goto("read", "top")
  /\ UNCHANGED <<flags, sem, idle, reset, gui, cleared>>

\* Fault: do_seek never gives up.
SeekDoneNever ==
  /\ At("read", "put") /\ seeking
  /\ Goto("read", "top")
  /\ UNCHANGED <<flags, sem, idle, reset, gui, cleared>>

\* do_seek is there, or gives up after two seconds.
SeekDone ==
  /\ At("read", "put") /\ seeking
  /\ seeking' = FALSE /\ reset' = TRUE
  /\ GotoBroadcast("read", "top")
  /\ UNCHANGED <<video_playing, jumping, video_reopen, jump_target, sem, idle,
                 gui, cleared>>

Read ==
  \/ ReadTop \/ ReadNoReopen \/ OpenStart \/ OpenFailed \/ OpenDone
  \/ OpenJump \/ ReadJump \/ ReadTarget \/ EndJump
  \/ ReadData \/ ReadPut \/ SeekAgain \/ SeekDone

-----------------------------------------------------------------------------
(* video_write_start and audio_write_start.                                *)

\* "while (!video_playing)": the thread is idle.
WriterStopped(w) ==
  /\ At(w, IF w = "video" THEN "top" ELSE "stopped") /\ ~video_playing
  /\ sem' = IF idle[w] THEN sem ELSE sem + 1
  /\ idle' = [idle EXCEPT ![w] = TRUE]
  /\ WaitAt(w, pc[w])
  /\ UNCHANGED <<flags, reset, gui, cleared>>

\* Fault: the audio thread does not look at video_playing.
WriterStartedAlways(w) ==
  /\ At(w, IF w = "video" THEN "top" ELSE "stopped")
  /\ video_playing \/ w = "audio"
  /\ Goto(w, "wake")
  /\ UNCHANGED <<flags, sem, idle, reset, gui, cleared>>

WriterStarted(w) ==
  /\ At(w, IF w = "video" THEN "top" ELSE "stopped") /\ video_playing
  /\ Goto(w, "wake")
  /\ UNCHANGED <<flags, sem, idle, reset, gui, cleared>>

\* Fault: the semaphore is not taken.
WriterWakeNoSem(w) ==
  /\ At(w, "wake")
  /\ idle' = [idle EXCEPT ![w] = FALSE]
  /\ Goto(w, IF w = "video" THEN "seek" ELSE "call")
  /\ UNCHANGED <<flags, sem, reset, gui, cleared>>

\* "if (idle) sem_wait": the thread is busy from now on.
WriterWake(w) ==
  /\ At(w, "wake")
  /\ idle[w] => sem > 0
  /\ sem' = IF idle[w] THEN sem - 1 ELSE sem
  /\ idle' = [idle EXCEPT ![w] = FALSE]
  /\ Goto(w, IF w = "video" THEN "seek" ELSE "call")
  /\ UNCHANGED <<flags, reset, gui, cleared>>

\* "while (seeking || jumping)": the video thread after, the audio thread
\* before it looks at video_playing.
WriterSeek(w) ==
  /\ At(w, IF w = "video" THEN "seek" ELSE "top")
  /\ IF seeking \/ jumping THEN WaitAt(w, pc[w])
     ELSE Goto(w, IF w = "video" THEN "check" ELSE "stopped")
  /\ UNCHANGED <<flags, sem, idle, reset, gui, cleared>>

\* Fault: video_playing is not looked at again.
VideoCheckNot ==
  /\ At("video", "check")
  /\ Goto("video", "call")
  /\ UNCHANGED <<flags, sem, idle, reset, gui, cleared>>

VideoCheck ==
  /\ At("video", "check")
  /\ IF video_playing THEN Goto("video", "call") ELSE WaitAt("video", "top")
  /\ UNCHANGED <<flags, sem, idle, reset, gui, cleared>>

\* The audio thread just goes round: audio_type is not known yet, or the just
\* in time writer says that it is too early.
AudioUnknown ==
  /\ At("audio", "call")
  /\ Goto("audio", "top")
  /\ UNCHANGED <<flags, sem, idle, reset, gui, cleared>>

\* The system call write() of stream_drain_fd begins,
WriteStart(w) ==
  /\ At(w, "call")
  /\ Goto(w, "write")
  /\ UNCHANGED <<flags, sem, idle, reset, gui, cleared>>

\* and ends: data was written, or there was none.
WriteEnd(w) ==
  /\ At(w, "write")
  /\ GotoBroadcast(w, "top") \/ WaitAt(w, "top")
  /\ UNCHANGED <<flags, sem, idle, reset, gui, cleared>>

Write(w) ==
  \/ WriterStopped(w) \/ WriterStarted(w) \/ WriterWake(w) \/ WriterSeek(w)
  \/ (w = "video" /\ VideoCheck) \/ (w = "audio" /\ AudioUnknown)
  \/ WriteStart(w)

-----------------------------------------------------------------------------
(* The GUI thread.                                                         *)

\* Fault: nobody is woken up.
VideoPlaySilent ==
  /\ gui = "idle" /\ ~video_playing
  /\ video_reopen' = TRUE /\ video_playing' = TRUE
  /\ cleared' = FALSE
  /\ UNCHANGED <<seeking, jumping, jump_target, sem, idle, reset, pc, mode, gui>>

VideoPlay ==
  /\ gui = "idle" /\ ~video_playing
  /\ video_reopen' = TRUE /\ video_playing' = TRUE
  /\ mode' = Broadcast(mode)
  /\ cleared' = FALSE
  /\ UNCHANGED <<seeking, jumping, jump_target, sem, idle, reset, pc, gui>>

\* The callers of video_stop_play call video_clear next.
VideoStopPlay ==
  /\ gui = "idle"
  /\ video_playing' = FALSE /\ gui' = "stopped"
  /\ UNCHANGED <<seeking, jumping, video_reopen, jump_target, sem, idle, reset,
                 pc, mode, cleared>>

ClearStart ==
  /\ gui \in {"idle", "stopped"}
  /\ video_playing' = FALSE /\ gui' = "clear"
  /\ pc' = Interrupted /\ mode' = InterruptedMode(mode)
  /\ UNCHANGED <<seeking, jumping, video_reopen, jump_target, sem, idle, reset,
                 cleared>>

\* Fault: the write threads are not woken up.
ClearSpinSilent ==
  /\ gui = "clear" /\ sem # 2
  /\ UNCHANGED vars

ClearSpin ==
  /\ gui = "clear" /\ sem # 2
  /\ mode' = Broadcast(mode)
  /\ UNCHANGED <<flags, sem, idle, reset, pc, gui, cleared>>

ClearEnd ==
  /\ gui = "clear" /\ sem = 2
  /\ gui' = "idle" /\ cleared' = TRUE
  /\ mode' = Broadcast(mode)
  /\ UNCHANGED <<flags, sem, idle, reset, pc>>

\* The keys left, right and 0 to 9 (video_callback): the target is computed
\* while the read thread already waits for it.
JumpKey ==
  /\ gui = "idle" /\ video_playing /\ Keys \cap {"jump", "back"} # {}
  /\ jump_target' = "none" /\ jumping' = TRUE
  /\ pc' = Interrupted /\ mode' = InterruptedMode(mode)
  /\ gui' = "target"
  /\ UNCHANGED <<video_playing, seeking, video_reopen, sem, idle, reset, cleared>>

\* The left key, in the first hundredth of the file, makes a negative target.
JumpTarget ==
  /\ gui = "target"
  /\ jump_target' \in (IF "back" \in Keys THEN {"none", "some"} ELSE {"some"})
  /\ mode' = Broadcast(mode)
  /\ gui' = "idle"
  /\ UNCHANGED <<video_playing, seeking, jumping, video_reopen, sem, idle,
                 reset, pc, cleared>>

SeekTo ==
  /\ gui = "idle" /\ video_playing /\ "seek_to" \in Keys
  /\ jump_target' = "some" /\ jumping' = TRUE
  /\ pc' = Interrupted /\ mode' = Broadcast(InterruptedMode(mode))
  /\ UNCHANGED <<video_playing, seeking, video_reopen, sem, idle, reset, gui,
                 cleared>>

SeekBy ==
  /\ gui = "idle" /\ video_playing /\ "seek_by" \in Keys
  /\ seeking' = TRUE
  /\ pc' = Interrupted /\ mode' = Broadcast(InterruptedMode(mode))
  /\ UNCHANGED <<video_playing, jumping, video_reopen, jump_target, sem, idle,
                 reset, gui, cleared>>

Gui ==
  \/ VideoPlay \/ VideoStopPlay \/ ClearStart \/ ClearSpin \/ ClearEnd
  \/ JumpKey \/ JumpTarget \/ SeekTo \/ SeekBy

Next ==
  \/ Read \/ Gui
  \/ \E w \in Writers : Write(w) \/ WriteEnd(w)
  \/ \E t \in Threads : Sleep(t)

Spec == Init /\ [][Next]_vars

\* Threads are scheduled, the GUI thread finishes what it began, do_seek comes
\* to an end, the read thread, which looks every millisecond, sees a target
\* between two keys, and the hardware accepts data.
FairSpec ==
  /\ Spec
  /\ WF_vars(Read)
  /\ SF_vars(SeekDone)
  /\ SF_vars(ReadTarget)
  /\ \A w \in Writers : WF_vars(Write(w))
  /\ \A w \in Writers : WF_vars(WriteEnd(w))
  /\ \A t \in Threads : WF_vars(Sleep(t))
  /\ WF_vars(ClearSpin \/ ClearEnd \/ JumpTarget \/ (gui = "stopped" /\ ClearStart))
-----------------------------------------------------------------------------
TypeOK ==
  /\ video_playing \in BOOLEAN /\ seeking \in BOOLEAN /\ jumping \in BOOLEAN
  /\ video_reopen \in BOOLEAN /\ jump_target \in {"none", "some"}
  /\ sem \in 0..2 /\ idle \in [Writers -> BOOLEAN] /\ reset \in BOOLEAN
  /\ pc["read"] \in {"top", "reopen", "open", "opened", "jump", "ifjump",
                     "endjump", "read", "put"}
  /\ pc["video"] \in {"top", "wake", "seek", "check", "call", "write"}
  /\ pc["audio"] \in {"top", "stopped", "wake", "call", "write"}
  /\ mode \in [Threads -> Modes]
  /\ gui \in {"idle", "stopped", "clear", "target"} /\ cleared \in BOOLEAN

\* Once video_clear has returned, and until video_play is called, the video
\* write thread passes nothing on to the hardware.
VideoQuiet == cleared /\ gui = "idle" => pc["video"] \notin {"call", "write"}

\* A player that stays stopped falls silent: the audio write thread, which
\* does not look at video_playing again after the semaphore, may still be
\* writing when video_clear returns, but it does not go on.
AudioFallsSilent ==
  []<>(~cleared) \/ <>[](pc["audio"] \notin {"call", "write"})

\* mvpmc.h says of halt_stream, whose implementations call video_clear, that it
\* is to "halt the stream": video_clear returns.
ClearReturns == gui = "clear" ~> gui = "idle"

\* The only thing that keeps video_clear from returning is a seek or a jump
\* that nobody ends: both write threads wait for that and never become idle.
ClearReturnsUnlessSeeking == <>[](gui = "clear") => <>[](seeking \/ jumping)

\* The read thread sleeps although the player was started: it saw the player
\* stopped, and lost the broadcast of video_play before it fell asleep.
PlayMissed == mode["read"] = "long" /\ video_playing

\* The read thread waits for a target, because the left key has made a negative one.
NoTarget == jumping /\ jump_target = "none" /\ gui # "target"

\* As long as the player is not stopped, a seek and a jump come to an end, so
\* that the write threads go on, unless the read thread has missed the start or
\* a negative target keeps it waiting for the next key.
SeekSettles == seeking ~> ~seeking \/ ~video_playing \/ PlayMissed \/ NoTarget

\* The same of a jump.
JumpSettles == jumping ~> ~jumping \/ ~video_playing \/ PlayMissed \/ NoTarget

\* video_play makes the read thread open a file, unless the player is stopped
\* before, the broadcast of video_play falls between the test of video_playing and
\* pthread_cond_wait, or the read thread still waits for the target of a jump.
PlayOpens ==
  video_reopen /\ video_playing
    ~> ~video_reopen \/ ~video_playing \/ PlayMissed \/ NoTarget
=============================================================================
