-------------------------- MODULE VideoThreadsProofs --------------------------
(* Proof that the video write thread is quiet after video_clear, and that  *)
(* every variable keeps its type, for every choice of keys and failures.   *)
EXTENDS VideoThreads, TLAPS

Label == {"top", "reopen", "open", "opened", "jump", "ifjump", "endjump", "read",
          "put", "wake", "seek", "check", "call", "write", "stopped"}

\* How many write threads are idle.
Count(f) == (IF f["video"] THEN 1 ELSE 0) + (IF f["audio"] THEN 1 ELSE 0)

\* The semaphore counts the idle write threads.
SemCounts == sem = Count(idle)

\* A video write thread that is past the semaphore is not idle.
BusyPastSem ==
  pc["video"] \in {"seek", "check", "call", "write"} => ~idle["video"]

\* What video_clear leaves behind stays until video_play.
QuietStays ==
  cleared => ~video_playing /\ pc["video"] \notin {"call", "write"}

\* The threads' places, for what the steps do with them.
Places ==
  /\ sem \in 0..2
  /\ idle \in [Writers -> BOOLEAN]
  /\ pc \in [Threads -> Label]
  /\ mode \in [Threads -> Modes]

\* While video_clear is waiting, video_playing is off.
ClearStops == gui = "clear" => ~video_playing

IInv == Places /\ SemCounts /\ BusyPastSem /\ QuietStays

\* The start of the player satisfies the invariant: all threads are idle.
LEMMA InitIInv == Init => IInv
<1> HAVE Init
<1> USE DEF Writers, Threads
<1>1. /\ pc = [t \in Threads |-> "top"] /\ mode = [t \in Threads |-> "asleep"]
      /\ idle = [w \in Writers |-> TRUE] /\ sem = 2
      /\ ~video_playing
  BY DEF Init
<1>2. pc \in [Threads -> Label] /\ mode \in [Threads -> Modes]
  BY <1>1 DEF Label, Modes
<1>3. idle \in [Writers -> BOOLEAN] /\ idle["video"] = TRUE /\ idle["audio"] = TRUE
  BY <1>1
<1>4. Places
  BY <1>1, <1>2, <1>3 DEF Places
<1>5. SemCounts
  BY <1>1, <1>3 DEF SemCounts, Count
<1>6. BusyPastSem /\ QuietStays
  BY <1>1 DEF BusyPastSem, QuietStays
<1> QED
  BY <1>4, <1>5, <1>6 DEF IInv

\* Both write threads are idle when the semaphore has its full value.
LEMMA FullMeansIdle ==
  ASSUME IInv, sem = 2 PROVE idle["video"]
  BY DEF IInv, Places, SemCounts, Count, Writers

\* Any change of places and modes keeps the invariant if it moves no video
\* write thread into the hardware, and moves it past no semaphore.
LEMMA FlagStep ==
  ASSUME IInv, UNCHANGED <<sem, idle>>,
         pc' \in [Threads -> Label], mode' \in [Threads -> Modes],
         pc'["video"] = pc["video"] \/ pc'["video"] \in {"top", "wake"}
           \/ (pc'["video"] = "check" /\ pc["video"] = "seek"),
         cleared' => cleared /\ ~video_playing'
  PROVE  IInv'
  BY DEF IInv, Places, SemCounts, BusyPastSem, QuietStays, Count

\* The places of the threads after a step that moves one of them.
LEMMA GotoPlaces ==
  ASSUME IInv, NEW t \in Threads, NEW l \in Label, Goto(t, l)
  PROVE  /\ pc' \in [Threads -> Label] /\ mode' \in [Threads -> Modes]
         /\ t # "video" => pc'["video"] = pc["video"]
         /\ t = "video" => pc'["video"] = l
  BY DEF IInv, Places, Goto, Threads, Writers

\* What a broadcast makes of a mode is a mode.
LEMMA BroadcastType ==
  ASSUME NEW m \in [Threads -> Modes]
  PROVE  Broadcast(m) \in [Threads -> Modes]
<1>1. ASSUME NEW t \in Threads
      PROVE  (CASE m[t] \in {"asleep", "long"} -> "run"
                [] m[t] = "about" /\ t = "read" -> "deaf"
                [] OTHER -> m[t]) \in Modes
  <2>1. m[t] \in Modes
    OBVIOUS
  <2> QED
    BY <2>1 DEF Modes
<1> QED
  BY <1>1 DEF Broadcast

\* The places after a step that makes a thread wait,
LEMMA WaitPlaces ==
  ASSUME IInv, NEW t \in Threads, NEW l \in Label, WaitAt(t, l)
  PROVE  /\ pc' \in [Threads -> Label] /\ mode' \in [Threads -> Modes]
         /\ t # "video" => pc'["video"] = pc["video"]
         /\ t = "video" => pc'["video"] = l
  BY DEF IInv, Places, Modes, WaitAt, Threads, Writers

\* and after one that ends with a broadcast.
LEMMA BroadcastPlaces ==
  ASSUME IInv, NEW t \in Threads, NEW l \in Label, GotoBroadcast(t, l)
  PROVE  /\ pc' \in [Threads -> Label] /\ mode' \in [Threads -> Modes]
         /\ t # "video" => pc'["video"] = pc["video"]
         /\ t = "video" => pc'["video"] = l
<1>1. mode' \in [Threads -> Modes]
  BY BroadcastType DEF IInv, Places, GotoBroadcast
<1> QED
  BY <1>1 DEF IInv, Places, GotoBroadcast, Threads, Writers

\* A signal moves a thread to the top of its loop, if at all.
LEMMA InterruptPlaces ==
  ASSUME IInv
  PROVE  /\ Interrupted \in [Threads -> Label]
         /\ InterruptedMode(mode) \in [Threads -> Modes]
         /\ Interrupted["video"] \in {pc["video"], "top"}
<1>1. ASSUME NEW t \in Threads
      PROVE  /\ (IF InWrite(t) THEN "top" ELSE pc[t]) \in Label
             /\ (IF InWrite(t) THEN "about" ELSE mode[t]) \in Modes
  <2>1. pc[t] \in Label /\ mode[t] \in Modes /\ "about" \in Modes
    BY DEF IInv, Places, Modes
  <2>2. CASE InWrite(t)
    BY <2>1, <2>2 DEF Label
  <2>3. CASE ~InWrite(t)
    BY <2>1, <2>3
  <2> QED
    BY <2>2, <2>3
<1>2. Interrupted \in [Threads -> Label]
  BY <1>1 DEF Interrupted
<1>3. InterruptedMode(mode) \in [Threads -> Modes]
  BY <1>1 DEF InterruptedMode
<1>4. Interrupted["video"] \in {pc["video"], "top"}
  <2>1. "video" \in Threads
    BY DEF Threads, Writers
  <2>2. Interrupted["video"] = IF InWrite("video") THEN "top" ELSE pc["video"]
    BY <2>1 DEF Interrupted
  <2>3. CASE InWrite("video")
    BY <2>2, <2>3
  <2>4. CASE ~InWrite("video")
    BY <2>2, <2>4
  <2> QED
    BY <2>3, <2>4
<1> QED
  BY <1>2, <1>3, <1>4

\* A step of the read thread: it moves no other thread, except out of write().
LEMMA ReadStep == ASSUME IInv, Read PROVE IInv'
<1> USE DEF flags
<1>0. "read" \in Threads /\ "read" # "video"
  BY DEF Threads, Writers
<1>1. ASSUME NEW l \in Label, Goto("read", l), UNCHANGED <<sem, idle>>,
             cleared' => cleared /\ ~video_playing'
      PROVE  IInv'
  BY <1>0, <1>1, GotoPlaces, FlagStep
<1>2. ASSUME NEW l \in Label, GotoBroadcast("read", l), UNCHANGED <<sem, idle>>,
             cleared' => cleared /\ ~video_playing'
      PROVE  IInv'
  BY <1>0, <1>2, BroadcastPlaces, FlagStep
<1>l. {"top", "reopen", "open", "opened", "jump", "ifjump", "endjump", "read",
       "put"} \subseteq Label
  BY DEF Label
<1>q. cleared => ~video_playing
  BY DEF IInv, QuietStays
<1>3. CASE ReadTop
  <2>1. CASE Goto("read", "reopen")
    BY <1>1, <1>l, <1>q, <1>3, <2>1 DEF ReadTop
  <2>2. CASE WaitAt("read", "top")
    BY <1>0, <1>l, <1>q, <1>3, <2>2, WaitPlaces, FlagStep DEF ReadTop
  <2> QED
    BY <1>3, <2>1, <2>2 DEF ReadTop
<1>4. CASE ReadNoReopen
  BY <1>1, <1>l, <1>q, <1>4 DEF ReadNoReopen
<1>5. CASE OpenStart
  <2>1. pc' = [Interrupted EXCEPT !["read"] = "open"]
        /\ mode' = InterruptedMode(mode)
    BY <1>5 DEF OpenStart
  <2>2. pc' \in [Threads -> Label] /\ mode' \in [Threads -> Modes]
    BY <1>l, <2>1, InterruptPlaces
  <2>3. pc'["video"] = Interrupted["video"]
    BY <1>0, <2>1, InterruptPlaces DEF Threads, Writers
  <2> QED
    BY <1>q, <1>5, <2>2, <2>3, InterruptPlaces, FlagStep DEF OpenStart
<1>6. CASE OpenFailed
  BY <1>1, <1>l, <1>q, <1>6 DEF OpenFailed
<1>7. CASE OpenDone
  BY <1>2, <1>l, <1>q, <1>7 DEF OpenDone
<1>15. CASE OpenJump
  BY <1>1, <1>l, <1>q, <1>15 DEF OpenJump
<1>8. CASE ReadJump
  <2>1. CASE Goto("read", "ifjump")
    BY <1>1, <1>l, <1>q, <1>8, <2>1 DEF ReadJump
  <2>2. CASE Goto("read", "read")
    BY <1>1, <1>l, <1>q, <1>8, <2>2 DEF ReadJump
  <2> QED
    BY <1>8, <2>1, <2>2 DEF ReadJump
<1>9. CASE ReadTarget
  BY <1>1, <1>l, <1>q, <1>9 DEF ReadTarget
<1>10. CASE EndJump
  BY <1>1, <1>l, <1>q, <1>10 DEF EndJump
<1>11. CASE ReadData
  <2>1. CASE Goto("read", "put")
    BY <1>1, <1>l, <1>q, <1>11, <2>1 DEF ReadData
  <2>2. CASE Goto("read", "top")
    BY <1>1, <1>l, <1>q, <1>11, <2>2 DEF ReadData
  <2> QED
    BY <1>11, <2>1, <2>2 DEF ReadData
<1>12. CASE ReadPut
  BY <1>2, <1>l, <1>q, <1>12 DEF ReadPut
<1>13. CASE SeekAgain
  BY <1>1, <1>l, <1>q, <1>13 DEF SeekAgain
<1>14. CASE SeekDone
  BY <1>2, <1>l, <1>q, <1>14 DEF SeekDone
<1> QED
  BY <1>3, <1>4, <1>5, <1>6, <1>7, <1>8, <1>9, <1>10, <1>11, <1>12, <1>13, <1>14,
     <1>15 DEF Read

\* A step of a write thread: the semaphore and idle change together, and the
\* video thread looks at video_playing before it writes.
LEMMA WriteStep ==
  ASSUME IInv, NEW w \in Writers, Write(w) \/ WriteEnd(w) PROVE IInv'
<1> USE DEF flags
<1>0. w \in Threads /\ w \in {"video", "audio"}
  BY DEF Threads, Writers
<1>l. {"top", "wake", "seek", "check", "call", "write", "stopped"} \subseteq Label
  BY DEF Label
<1>t. /\ pc \in [Threads -> Label] /\ mode \in [Threads -> Modes]
      /\ idle \in [Writers -> BOOLEAN] /\ sem = Count(idle)
      /\ pc[w] \in Label
  BY <1>0 DEF IInv, Places, SemCounts
<1>q. cleared => ~video_playing /\ pc["video"] \notin {"call", "write"}
  BY DEF IInv, QuietStays
<1>1. CASE WriterStopped(w)
  <2>1. /\ pc' \in [Threads -> Label] /\ mode' \in [Threads -> Modes]
        /\ pc'["video"] = pc["video"]
        /\ w = "video" => pc["video"] = "top"
    BY <1>0, <1>1, <1>t, WaitPlaces DEF WriterStopped, At
  <2>2. /\ idle' = [idle EXCEPT ![w] = TRUE]
        /\ sem' = IF idle[w] THEN sem ELSE sem + 1
        /\ cleared' = cleared /\ video_playing' = video_playing
    BY <1>1 DEF WriterStopped
  <2>3. idle' \in [Writers -> BOOLEAN] /\ SemCounts' /\ sem' \in 0..2
    BY <1>0, <1>t, <2>2 DEF SemCounts, Count, Writers
  <2>4. w = "audio" => idle'["video"] = idle["video"]
    BY <1>0, <1>t, <2>2 DEF Writers
  <2>5. BusyPastSem'
    BY <1>0, <2>1, <2>4 DEF BusyPastSem, IInv
  <2> QED
    BY <1>q, <2>1, <2>2, <2>3, <2>5 DEF IInv, Places, QuietStays
<1>2. CASE WriterStarted(w)
  BY <1>0, <1>l, <1>q, <1>2, GotoPlaces, FlagStep DEF WriterStarted
<1>3. CASE WriterWake(w)
  <2>1. /\ pc' \in [Threads -> Label] /\ mode' \in [Threads -> Modes]
        /\ w = "video" => pc'["video"] = "seek"
        /\ w = "audio" => pc'["video"] = pc["video"]
    <3>1. CASE w = "video"
      BY <1>0, <1>l, <1>3, <3>1, GotoPlaces DEF WriterWake
    <3>2. CASE w = "audio"
      BY <1>0, <1>l, <1>3, <3>2, GotoPlaces DEF WriterWake
    <3> QED
      BY <1>0, <3>1, <3>2
  <2>2. /\ idle' = [idle EXCEPT ![w] = FALSE]
        /\ sem' = IF idle[w] THEN sem - 1 ELSE sem
        /\ cleared' = cleared /\ video_playing' = video_playing
    BY <1>3 DEF WriterWake
  <2>3. idle' \in [Writers -> BOOLEAN] /\ SemCounts' /\ sem' \in 0..2
    BY <1>0, <1>t, <2>2 DEF SemCounts, Count, Writers
  <2>4. /\ w = "audio" => idle'["video"] = idle["video"]
        /\ w = "video" => ~idle'["video"]
    BY <1>0, <1>t, <2>2 DEF Writers
  <2>5. BusyPastSem'
    BY <1>0, <2>1, <2>4 DEF BusyPastSem, IInv
  <2>6. QuietStays'
    BY <1>0, <1>q, <2>1, <2>2 DEF QuietStays
  <2> QED
    BY <2>1, <2>3, <2>5, <2>6 DEF IInv, Places
<1>4. CASE WriterSeek(w)
  <2>1. CASE WaitAt(w, pc[w])
    BY <1>0, <1>t, <1>q, <1>4, <2>1, WaitPlaces, FlagStep DEF WriterSeek
  <2>2. CASE w = "video" /\ Goto(w, "check")
    BY <1>0, <1>l, <1>q, <1>4, <2>2, GotoPlaces, FlagStep DEF WriterSeek, At
  <2>3. CASE w = "audio" /\ Goto(w, "stopped")
    BY <1>0, <1>l, <1>q, <1>4, <2>3, GotoPlaces, FlagStep DEF WriterSeek
  <2> QED
    BY <1>0, <1>4, <2>1, <2>2, <2>3 DEF WriterSeek
<1>5. CASE w = "video" /\ VideoCheck
  <2>1. CASE video_playing
    <3>1. /\ pc' \in [Threads -> Label] /\ mode' \in [Threads -> Modes]
          /\ pc'["video"] = "call" /\ pc["video"] = "check"
          /\ UNCHANGED <<sem, idle, cleared, video_playing>>
      BY <1>0, <1>l, <1>5, <2>1, GotoPlaces DEF VideoCheck, At
    <3> QED
      BY <1>q, <2>1, <3>1
         DEF IInv, Places, SemCounts, BusyPastSem, QuietStays, Count
  <2>2. CASE ~video_playing
    BY <1>0, <1>l, <1>q, <1>5, <2>2, WaitPlaces, FlagStep DEF VideoCheck
  <2> QED
    BY <2>1, <2>2
<1>6. CASE w = "audio" /\ AudioUnknown
  BY <1>0, <1>l, <1>q, <1>6, GotoPlaces, FlagStep DEF AudioUnknown
<1>7. CASE WriteStart(w)
  <2>1. /\ pc' \in [Threads -> Label] /\ mode' \in [Threads -> Modes]
        /\ w = "video" => pc'["video"] = "write" /\ pc["video"] = "call"
        /\ w = "audio" => pc'["video"] = pc["video"]
        /\ UNCHANGED <<sem, idle, cleared, video_playing>>
    BY <1>0, <1>l, <1>7, GotoPlaces DEF WriteStart, At
  <2> QED
    BY <1>0, <1>q, <2>1 DEF IInv, Places, SemCounts, BusyPastSem, QuietStays, Count
<1>8. CASE WriteEnd(w)
  <2>1. CASE GotoBroadcast(w, "top")
    BY <1>0, <1>l, <1>q, <1>8, <2>1, BroadcastPlaces, FlagStep DEF WriteEnd
  <2>2. CASE WaitAt(w, "top")
    BY <1>0, <1>l, <1>q, <1>8, <2>2, WaitPlaces, FlagStep DEF WriteEnd
  <2> QED
    BY <1>8, <2>1, <2>2 DEF WriteEnd
<1> QED
  BY <1>1, <1>2, <1>3, <1>4, <1>5, <1>6, <1>7, <1>8 DEF Write

\* A step of the GUI thread: video_clear returns only when both write threads
\* are idle.
LEMMA GuiStep == ASSUME IInv, ClearStops, Gui PROVE IInv'
<1> USE DEF flags
<1>t. /\ pc \in [Threads -> Label] /\ mode \in [Threads -> Modes]
      /\ cleared => ~video_playing /\ pc["video"] \notin {"call", "write"}
  BY DEF IInv, Places, QuietStays
<1>b. Broadcast(mode) \in [Threads -> Modes]
  BY <1>t, BroadcastType
<1>i. /\ Interrupted \in [Threads -> Label]
      /\ InterruptedMode(mode) \in [Threads -> Modes]
      /\ Interrupted["video"] \in {pc["video"], "top"}
      /\ Broadcast(InterruptedMode(mode)) \in [Threads -> Modes]
  BY InterruptPlaces, BroadcastType
<1>1. CASE VideoPlay
  BY <1>t, <1>b, <1>1, FlagStep DEF VideoPlay
<1>2. CASE VideoStopPlay
  BY <1>t, <1>2, FlagStep DEF VideoStopPlay
<1>3. CASE ClearStart
  BY <1>t, <1>i, <1>3, FlagStep DEF ClearStart
<1>4. CASE ClearSpin
  BY <1>t, <1>b, <1>4, FlagStep DEF ClearSpin
<1>5. CASE ClearEnd
  <2>1. idle["video"]
    BY <1>5, FullMeansIdle DEF ClearEnd
  <2> QED
    BY <1>t, <1>b, <1>5, <2>1
       DEF ClearEnd, ClearStops, IInv, Places, SemCounts, BusyPastSem, QuietStays, Count
<1>6. CASE JumpKey
  BY <1>t, <1>i, <1>6, FlagStep DEF JumpKey
<1>7. CASE JumpTarget
  BY <1>t, <1>b, <1>7, FlagStep DEF JumpTarget
<1>8. CASE SeekTo
  BY <1>t, <1>i, <1>8, FlagStep DEF SeekTo
<1>9. CASE SeekBy
  BY <1>t, <1>i, <1>9, FlagStep DEF SeekBy
<1> QED
  BY <1>1, <1>2, <1>3, <1>4, <1>5, <1>6, <1>7, <1>8, <1>9 DEF Gui

\* Nobody but video_play turns video_playing on, and the GUI thread does not
\* call it inside video_clear.
LEMMA ClearStopsStep == ASSUME ClearStops, Next PROVE ClearStops'
<1> USE DEF flags, ClearStops
<1>1. CASE Read
  BY <1>1 DEF Read, ReadTop, ReadNoReopen, OpenStart, OpenFailed, OpenDone,
     OpenJump, ReadJump, ReadTarget, EndJump, ReadData, ReadPut, SeekAgain, SeekDone
<1>2. CASE Gui
  BY <1>2 DEF Gui, VideoPlay, VideoStopPlay, ClearStart, ClearSpin, ClearEnd,
     JumpKey, JumpTarget, SeekTo, SeekBy
<1>3. ASSUME NEW w \in Writers, Write(w) \/ WriteEnd(w) PROVE ClearStops'
  BY <1>3 DEF Write, WriteEnd, WriterStopped, WriterStarted, WriterWake,
     WriterSeek, VideoCheck, AudioUnknown, WriteStart
<1>4. ASSUME NEW t \in Threads, Sleep(t) PROVE ClearStops'
  BY <1>4 DEF Sleep
<1> QED
  BY <1>1, <1>2, <1>3, <1>4 DEF Next

\* Falling asleep changes no place.
LEMMA SleepStep == ASSUME IInv, NEW t \in Threads, Sleep(t) PROVE IInv'
<1>1. mode' \in [Threads -> Modes]
  BY DEF Sleep, IInv, Places, Modes
<1> QED
  BY <1>1 DEF Sleep, flags, IInv, Places, SemCounts, BusyPastSem,
     QuietStays, Count

\* The invariant that makes video_clear's wait meaningful: the semaphore counts
\* the idle write threads, and what it found stays true until video_play.
THEOREM Invariance == Spec => [](IInv /\ ClearStops)
<1>1. Init => IInv /\ ClearStops
  BY InitIInv DEF Init, ClearStops
<1>2. IInv /\ ClearStops /\ [Next]_vars => (IInv /\ ClearStops)'
  <2> SUFFICES ASSUME IInv, ClearStops, [Next]_vars
               PROVE  (IInv /\ ClearStops)'
    OBVIOUS
  <2>1. CASE UNCHANGED vars
    BY <2>1 DEF vars, flags, IInv, Places, SemCounts, BusyPastSem,
       QuietStays, Count, ClearStops
  <2>2. CASE Next
    BY <2>2, ReadStep, WriteStep, GuiStep, SleepStep, ClearStopsStep DEF Next
  <2> QED
    BY <2>1, <2>2
<1> QED
  BY <1>1, <1>2, PTL DEF Spec

\* Whatever keys are pressed, whichever files cannot be opened and whenever
\* the threads are interrupted: after video_clear the video write thread does
\* not write to the hardware until video_play is called.
THEOREM VideoIsQuiet == Spec => []VideoQuiet
<1>1. IInv => VideoQuiet
  BY DEF IInv, QuietStays, VideoQuiet
<1> QED
  BY <1>1, Invariance, PTL

-----------------------------------------------------------------------------
(* Every thread stays in its own loop.                                     *)

Lane(t) ==
  CASE t = "read"  -> {"top", "reopen", "open", "opened", "jump", "ifjump",
                       "endjump", "read", "put"}
    [] t = "video" -> {"top", "wake", "seek", "check", "call", "write"}
    [] t = "audio" -> {"top", "stopped", "wake", "call", "write"}

Lanes == \A t \in Threads : pc[t] \in Lane(t)

Flags ==
  /\ video_playing \in BOOLEAN /\ seeking \in BOOLEAN /\ jumping \in BOOLEAN
  /\ video_reopen \in BOOLEAN /\ jump_target \in {"none", "some"}
  /\ reset \in BOOLEAN /\ cleared \in BOOLEAN
  /\ gui \in {"idle", "stopped", "clear", "target"}

LEMMA LaneValues ==
  /\ Lane("read") = {"top", "reopen", "open", "opened", "jump", "ifjump",
                     "endjump", "read", "put"}
  /\ Lane("video") = {"top", "wake", "seek", "check", "call", "write"}
  /\ Lane("audio") = {"top", "stopped", "wake", "call", "write"}
  /\ Threads = {"read", "video", "audio"} /\ Writers = {"video", "audio"}
BY DEF Lane, Threads, Writers

\* A thread that goes to a place of its own loop,
LEMMA LaneMove ==
  ASSUME Places, Lanes, NEW t \in Threads, NEW l \in Lane(t),
         pc' = [pc EXCEPT ![t] = l]
  PROVE  Lanes'
BY DEF Places, Lanes

\* and one that is interrupted.
LEMMA LaneInterrupt ==
  ASSUME Places, Lanes PROVE \A t \in Threads : Interrupted[t] \in Lane(t)
<1> SUFFICES ASSUME NEW t \in Threads PROVE Interrupted[t] \in Lane(t)
  OBVIOUS
<1>1. Interrupted[t] = IF InWrite(t) THEN "top" ELSE pc[t]
  BY DEF Interrupted
<1>2. "top" \in Lane(t)
  BY LaneValues
<1> QED
  BY <1>1, <1>2 DEF Lanes

LEMMA ReadLanes == ASSUME Places, Lanes, Read PROVE Lanes'
<1>0. /\ "read" \in Threads
      /\ {"top", "reopen", "open", "opened", "jump", "ifjump", "endjump",
          "read", "put"} = Lane("read")
  BY LaneValues
<1>1. ASSUME NEW l \in Lane("read"),
             Goto("read", l) \/ WaitAt("read", l) \/ GotoBroadcast("read", l)
      PROVE  Lanes'
  BY <1>0, <1>1, LaneMove DEF Goto, WaitAt, GotoBroadcast
<1>2. CASE ReadTop
  BY <1>0, <1>1, <1>2 DEF ReadTop
<1>3. CASE ReadNoReopen \/ OpenFailed \/ OpenDone \/ OpenJump
  BY <1>0, <1>1, <1>3 DEF ReadNoReopen, OpenFailed, OpenDone, OpenJump
<1>4. CASE OpenStart
  <2>1. pc' = [Interrupted EXCEPT !["read"] = "open"]
    BY <1>4 DEF OpenStart
  <2>2. \A t \in Threads : pc'[t] = IF t = "read" THEN "open" ELSE Interrupted[t]
    BY <2>1 DEF Interrupted
  <2> QED
    BY <1>0, <2>2, LaneInterrupt DEF Lanes
<1>5. CASE ReadJump
  <2>1. CASE Goto("read", "ifjump")
    BY <1>0, <1>1, <2>1
  <2>2. CASE Goto("read", "read")
    BY <1>0, <1>1, <2>2
  <2> QED
    BY <1>5, <2>1, <2>2 DEF ReadJump
<1>6. CASE ReadTarget \/ EndJump
  BY <1>0, <1>1, <1>6 DEF ReadTarget, EndJump
<1>7. CASE ReadData
  <2>1. CASE Goto("read", "put")
    BY <1>0, <1>1, <2>1
  <2>2. CASE Goto("read", "top")
    BY <1>0, <1>1, <2>2
  <2> QED
    BY <1>7, <2>1, <2>2 DEF ReadData
<1>8. CASE ReadPut \/ SeekAgain \/ SeekDone
  BY <1>0, <1>1, <1>8 DEF ReadPut, SeekAgain, SeekDone
<1> QED
  BY <1>2, <1>3, <1>4, <1>5, <1>6, <1>7, <1>8 DEF Read

LEMMA WriteLanes ==
  ASSUME Places, Lanes, NEW w \in Writers, Write(w) \/ WriteEnd(w) PROVE Lanes'
<1>0. /\ w \in Threads /\ w \in {"video", "audio"} /\ pc[w] \in Lane(w)
      /\ {"top", "wake", "call", "write"} \subseteq Lane(w)
      /\ w = "video" => {"seek", "check"} \subseteq Lane(w)
      /\ w = "audio" => {"stopped"} \subseteq Lane(w)
  BY LaneValues DEF Lanes
<1>1. ASSUME NEW l \in Lane(w), Goto(w, l) \/ WaitAt(w, l) \/ GotoBroadcast(w, l)
      PROVE  Lanes'
  BY <1>0, <1>1, LaneMove DEF Goto, WaitAt, GotoBroadcast
<1>2. CASE WriterStopped(w) \/ WriterStarted(w)
  BY <1>0, <1>1, <1>2 DEF WriterStopped, WriterStarted
<1>3. CASE WriterWake(w)
  <2>1. CASE w = "video" /\ Goto(w, "seek")
    BY <1>0, <1>1, <2>1
  <2>2. CASE w = "audio" /\ Goto(w, "call")
    BY <1>0, <1>1, <2>2
  <2> QED
    BY <1>0, <1>3, <2>1, <2>2 DEF WriterWake
<1>4. CASE WriterSeek(w)
  <2>1. CASE WaitAt(w, pc[w])
    BY <1>0, <1>1, <2>1
  <2>2. CASE w = "video" /\ Goto(w, "check")
    BY <1>0, <1>1, <2>2
  <2>3. CASE w = "audio" /\ Goto(w, "stopped")
    BY <1>0, <1>1, <2>3
  <2> QED
    BY <1>0, <1>4, <2>1, <2>2, <2>3 DEF WriterSeek
<1>5. CASE (w = "video" /\ VideoCheck) \/ (w = "audio" /\ AudioUnknown)
  BY <1>0, <1>1, <1>5 DEF VideoCheck, AudioUnknown
<1>6. CASE WriteStart(w) \/ WriteEnd(w)
  BY <1>0, <1>1, <1>6 DEF WriteStart, WriteEnd
<1> QED
  BY <1>2, <1>3, <1>4, <1>5, <1>6 DEF Write

LEMMA NextLanes == ASSUME Places, Lanes, [Next]_vars PROVE Lanes'
<1>1. CASE Gui
  <2>1. pc' = pc \/ pc' = Interrupted
    BY <1>1 DEF Gui, VideoPlay, VideoStopPlay, ClearStart, ClearSpin, ClearEnd,
       JumpKey, JumpTarget, SeekTo, SeekBy
  <2> QED
    BY <2>1, LaneInterrupt DEF Lanes
<1>2. CASE UNCHANGED vars \/ \E t \in Threads : Sleep(t)
  BY <1>2 DEF vars, Sleep, Lanes
<1> QED
  BY <1>1, <1>2, ReadLanes, WriteLanes DEF Next

\* The flags stay flags.
LEMMA NextFlags == ASSUME Flags, [Next]_vars PROVE Flags'
<1> USE DEF Flags, flags
<1>1. CASE Read
  <2>1. CASE ReadTop \/ ReadNoReopen \/ OpenStart \/ OpenFailed \/ OpenDone \/ OpenJump
    BY <2>1 DEF ReadTop, ReadNoReopen, OpenStart, OpenFailed, OpenDone, OpenJump
  <2>2. CASE ReadJump \/ ReadTarget \/ EndJump
    <3>1. ReadJump => reset' \in BOOLEAN
      BY Zenon DEF ReadJump
    <3> QED
      BY <2>2, <3>1 DEF ReadJump, ReadTarget, EndJump
  <2>3. CASE ReadData \/ ReadPut \/ SeekAgain \/ SeekDone
    BY <2>3 DEF ReadData, ReadPut, SeekAgain, SeekDone
  <2> QED
    BY <1>1, <2>1, <2>2, <2>3 DEF Read
<1>2. CASE Gui
  BY <1>2 DEF Gui, VideoPlay, VideoStopPlay, ClearStart, ClearSpin, ClearEnd,
     JumpKey, JumpTarget, SeekTo, SeekBy
<1>3. ASSUME NEW w \in Writers, Write(w) \/ WriteEnd(w) PROVE Flags'
  BY <1>3 DEF Write, WriteEnd, WriterStopped, WriterStarted, WriterWake,
     WriterSeek, VideoCheck, AudioUnknown, WriteStart
<1>4. CASE UNCHANGED vars \/ \E t \in Threads : Sleep(t)
  BY <1>4 DEF vars, Sleep
<1> QED
  BY <1>1, <1>2, <1>3, <1>4 DEF Next

\* The semaphore never counts more than the two write threads nor less than
\* none, and no thread, interrupted or not, leaves its own loop.
THEOREM TypeCorrect == Spec => []TypeOK
<1>1. Init => Flags /\ Lanes
  <2>1. Init => Flags
    BY DEF Init, Flags
  <2>2. Init => Lanes
    BY LaneValues DEF Init, Lanes
  <2> QED
    BY <2>1, <2>2
<1>2. IInv => Places
  BY DEF IInv
<1>3. Places /\ Flags /\ Lanes /\ [Next]_vars => Flags' /\ Lanes'
  BY NextFlags, NextLanes
<1>4. Places /\ Flags /\ Lanes => TypeOK
  BY LaneValues DEF Places, Flags, Lanes, TypeOK, Modes
<1> QED
  BY <1>1, <1>2, <1>3, <1>4, Invariance, PTL DEF Spec
==============================================================================
