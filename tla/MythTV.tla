------------------------------- MODULE MythTV -------------------------------
(***************************************************************************)
(* The locks of the MythTV client (src/mythtv.c, src/mythtv_livetv.c).     *)
(*                                                                         *)
(* Four threads share them: the GUI thread, the read thread of the player  *)
(* (read), the control thread, which asks the backend for blocks of data,  *)
(* and the event thread.  The backend answers a request for a block once   *)
(* the data has been read from another socket, by the read thread.         *)
(*                                                                         *)
(* A function is the sequence of its instructions: locks, waits, calls of  *)
(* the backend, assignments to the flags below and branches.  What a       *)
(* thread still has to execute is its todo.                                *)
(***************************************************************************)
EXTENDS Integers, Sequences

CONSTANT Scenes    \* what may happen, see below

\* What the GUI thread does and what the event thread receives.  What fails: a
\* connection ("connect"), one on which blocks are asked for or sent ("answer"),
\* the search for a tuner ("tuner"), any other call of the backend ("rpc"), a
\* seek that is out of range ("range").  And whether conn_version is at least 26
\* (live TV as a chain of files).
ASSUME MythAssumption ==
  \A s \in Scenes :
    /\ s.ops \subseteq {"select", "thumbnail", "stop", "delete", "update", "size",
                       "jump", "livetv", "tuner", "new_livetv", "channel", "exit"}
    /\ s.events \subseteq {"close", "quit", "chain"}
    /\ s.faults \subseteq {"connect", "answer", "tuner", "rpc", "range"}
    /\ s.chain \in BOOLEAN

Threads == {"gui", "read", "control", "event"}

\* seek_mutex, myth_mutex, request_block_mutex, and mutex of libcmyth.
Mutexes == {"seek", "myth", "block", "cmyth"}

VARIABLES
  scene,    \* the scene, for good
  owner,    \* of each mutex, or "none"
  prevent,  \* mythtv_prevent_request_block
  flag,     \* the flags that are set, see Flags
  data,     \* where there is data of an unanswered request to be read
  holder,   \* what the read thread holds a reference to
  todo,     \* the instructions each thread has still to execute
  leaked    \* ghost: a function has returned without unlocking

vars == <<scene, owner, prevent, flag, data, holder, todo, leaked>>

\* file, recorder: mythtv_file and mythtv_recorder are not NULL.  closing is
\* mythtv_close_file_state, reading video_reading, doing
\* mythtv_doing_request_block, busy: the write threads of the player are not
\* idle, livefn: video_functions is livetv_functions, event: the event
\* thread has received something, lost: mythtv_close has been called, exiting:
\* mythtv_atexit has been called (ghosts).
Flags == {"file", "recorder", "livetv", "via", "closing", "reading", "doing",
          "changing", "playing", "reopen", "jumping", "busy", "livefn",
          "event",
          "lost", "exiting", "exited"}

Init ==
  /\ scene \in Scenes
  /\ owner = [m \in Mutexes |-> "none"]
  /\ prevent = 0 /\ flag = {} /\ data = "none" /\ holder = {}
  /\ todo = [t \in Threads |-> <<>>]
  /\ leaked = FALSE

-----------------------------------------------------------------------------
(* Instructions.                                                           *)

Lock(m) == <<"lock", m>>
Unlock(m) == <<"unlock", m>>
Inc == <<"inc">>                     \* prevent
Dec == <<"dec">>
Set(f) == <<"set", f>>
Clear(f) == <<"clear", f>>
AwaitNot(f) == <<"awaitnot", f>>
If(f, p, q) == <<"if", f, p, q>>     \* p if the flag f is set, else q
Choose(p, q) == <<"choose", p, q>>   \* one of them
Try(k, p, q) == <<"try", k, p, q>>   \* p, or q when there is a fault k
Rpc == <<"rpc">>                     \* a message to the backend and its answer
Drop == <<"drop">>                   \* CHANGE_GLOBAL_REF(mythtv_file, NULL)
Leak == <<"leak">>                   \* a return that leaves something locked

\* cmyth_file_destroy, when the last reference is gone, and its callback.
cmyth_file_destroy == <<Lock("cmyth"), Unlock("cmyth"), Clear("closing")>>

-----------------------------------------------------------------------------
(* The player, as far as it matters here; see VideoThreads.                *)

video_play == <<Set("reopen"), Set("playing")>>

\* The write threads become idle, unless they wait for the end of a jump.
video_clear == <<Clear("playing"), <<"idle">>>>

-----------------------------------------------------------------------------
(* mythtv.c                                                                *)

mythtv_close == <<Set("lost"), Drop, Clear("recorder")>>

mythtv_shutdown == mythtv_close

\* Fault: request_block_mutex is not taken.
CloseWithoutLock ==
  <<If("via", <<If("file", <<Inc, Set("closing"), Drop, AwaitNot("closing"), Dec>>,
                   <<>>)>>, <<>>)>>

mythtv_close_just_file ==
  <<If("via",
       <<If("file",
            <<Inc, Lock("block"), Set("closing"), Drop, AwaitNot("closing"),
              Dec, Unlock("block")>>,
            <<>>)>>,
       <<>>)>>

mythtv_close_file == mythtv_close_just_file

mythtv_stop ==
  <<Lock("myth")>> \o mythtv_close_file \o <<Unlock("myth")>> \o video_clear

\* The program that is being played may be the one that is deleted.
mythtv_delete_prog ==
  <<Lock("myth"), Rpc, Choose(mythtv_close_file \o video_clear, <<>>),
    Unlock("myth")>>

mythtv_update == <<Lock("myth"), Rpc, Unlock("myth")>>

\* The size is cached for thirty seconds, or for good.
mythtv_size == <<Choose(<<>>, <<Lock("myth"), Rpc, Unlock("myth")>>)>>

\* Fault: requests are not prevented before they are allowed again.
OpenWithoutInc ==
  mythtv_close_just_file \o
  <<Set("via"), Lock("block"), Set("file"), Dec, Unlock("block"),
    Set("jumping"), Clear("reopen")>>

mythtv_open ==
  mythtv_close_just_file \o
  <<Try("connect",
        <<Set("via"),
          Try("connect",
              <<Inc, Lock("block"), Set("file"), Dec, Unlock("block"),
                Set("jumping"), Clear("reopen")>>,
              video_clear)>>,
        mythtv_shutdown \o <<Clear("playing")>>)>>

\* The size of the stream is unknown, or the target is behind its end.
SeekRefused == <<Leak, <<"release">>>>

\* Fault: request_block_mutex is kept.
SeekKeepsBlock ==
  <<<<"hold">>, Inc, Lock("seek"), Lock("myth"), <<"drain">>, Lock("block"),
    If("livetv", <<Rpc, Dec, Unlock("myth"), Unlock("seek"), <<"release">>>>,
       <<Unlock("myth")>> \o mythtv_size \o
       <<Try("range", <<Lock("myth"), Rpc, Dec, Unlock("myth"), Unlock("seek"),
                        <<"release">>>>,
             SeekRefused)>>)>>

\* cmyth_livetv_chain_seek returns at once, or locks mutex and calls
\* cmyth_file_seek, which is where it wants to be or locks mutex too.
cmyth_livetv_seek ==
  IF scene.chain
    THEN <<Choose(<<>>, <<Lock("cmyth"), Choose(<<>>, <<Rpc>>), Unlock("cmyth")>>)>>
    ELSE <<Rpc>>

mythtv_seek ==
  LET done == <<Dec, Unlock("block"), Unlock("myth"), Unlock("seek"),
                <<"release">>>>
  IN <<<<"hold">>, Inc, Lock("seek"), Lock("myth"), <<"drain">>, Lock("block"),
       If("livetv", cmyth_livetv_seek \o done,
          <<Unlock("myth")>> \o mythtv_size \o
          <<Try("range", <<Lock("myth"), Rpc>> \o done, SeekRefused)>>)>>

mythtv_read ==
  <<<<"hold">>, Lock("seek"), <<"take">>, <<"release">>, Unlock("seek")>>

-----------------------------------------------------------------------------
(* mythtv_livetv.c                                                         *)

mythtv_livetv_stop ==
  <<If("livetv",
       <<Inc, Lock("block"), Lock("myth"), Clear("via"), Clear("livetv")>> \o
       video_clear \o
       <<Rpc, Try("rpc", <<Clear("recorder")>>, <<>>), Unlock("myth"), Dec,
         Unlock("block")>>,
       <<>>)>>

\* cmyth_livetv_chain_update asks for the program before it locks mutex.
mythtv_livetv_chain_update ==
  <<Lock("myth"),
    If("recorder", <<Rpc, Lock("cmyth"), Unlock("cmyth")>>, <<>>),
    Unlock("myth")>>

\* The common end of mythtv_livetv_start and mythtv_new_livetv_start.
SpawnLiveTv(then) ==
  <<Rpc,
    Try("rpc",
        <<Set("recorder")>> \o video_play \o <<Unlock("myth")>> \o then,
        <<Unlock("myth"), Clear("livetv")>>)>>

StopOther ==
  <<If("via", <<If("file", mythtv_stop, <<If("recorder", mythtv_stop, <<>>)>>)>>,
       <<>>)>>

\* then is what the caller does when the start succeeds.
mythtv_livetv_start(then) ==
  StopOther \o
  <<If("livetv", mythtv_update \o then,
       <<Lock("myth"), Set("livetv"), Set("via"), Set("livefn"), Rpc,
         Try("tuner", SpawnLiveTv(then),
             mythtv_shutdown \o <<Unlock("myth"), Clear("livetv")>>)>>)>>

mythtv_new_livetv_start ==
  StopOther \o
  <<If("livetv", mythtv_update,
       <<Lock("myth"), Set("livetv"), Set("via"), Set("livefn")>> \o
       SpawnLiveTv(<<>>))>>

\* "No tuners available for Live TV": myth_mutex stays locked.
mythtv_new_livetv ==
  <<Lock("myth"), Rpc,
    Try("tuner", <<Unlock("myth")>> \o mythtv_new_livetv_start, <<Leak>>)>>

\* cmyth_recorder_pause and cmyth_recorder_set_channel.
PauseAndSet(then) == <<Rpc, Try("rpc", then, <<>>)>>

\* channel_up, channel_down and mythtv_channel_set.
__change_channel ==
  <<Set("changing"), Inc, Lock("block")>> \o video_clear \o <<Lock("myth")>> \o
  PauseAndSet(video_play \o <<Lock("cmyth"), Unlock("cmyth")>>) \o
  <<Dec, Unlock("block"), Clear("changing"), Unlock("myth")>>

ChangeChannel ==
  <<Set("changing"), Lock("myth")>> \o PauseAndSet(video_play) \o
  <<Unlock("myth"), Clear("changing")>>

\* The channel is on the same tuner, or on another one.
livetv_select_callback ==
  <<Set("livefn"), Choose(<<>>, mythtv_livetv_stop),
    If("livetv", ChangeChannel, mythtv_livetv_start(ChangeChannel))>>

mythtv_livetv_select == mythtv_livetv_start(ChangeChannel)

-----------------------------------------------------------------------------
(* mythtv.c, continued                                                     *)

show_select_callback ==
  <<Clear("livefn"),
    If("livetv", mythtv_livetv_stop,
       <<Lock("myth")>> \o mythtv_close_file \o <<Unlock("myth")>>),
    Rpc, AwaitNot("reading")>> \o video_play

mythtv_start_thumbnail ==
  <<Clear("livefn"),
    If("livetv", livetv_select_callback,
       <<Lock("myth")>> \o mythtv_close_file \o
       <<Unlock("myth"), AwaitNot("reading")>> \o video_play)>>

mythtv_atexit ==
  <<Set("exiting"), Lock("seek"), Lock("myth")>> \o mythtv_livetv_stop \o mythtv_close \o
  <<Set("exited")>>

Op(o) ==
  CASE o = "select" -> show_select_callback
    [] o = "thumbnail" -> mythtv_start_thumbnail
    [] o = "stop" -> <<If("livetv", mythtv_livetv_stop, mythtv_stop)>>
    [] o = "delete" -> mythtv_delete_prog
    [] o = "update" -> mythtv_update
    [] o = "size" -> mythtv_size
    [] o = "jump" -> <<If("playing", <<Set("jumping")>>, <<>>)>>
    [] o = "livetv" -> livetv_select_callback
    [] o = "tuner" -> mythtv_livetv_select
    [] o = "new_livetv" -> mythtv_new_livetv
    [] o = "channel" -> <<If("livetv", __change_channel, <<>>)>>
    [] o = "exit" -> mythtv_atexit

event_start(e) ==
  CASE e = "close" -> mythtv_shutdown
    [] e = "quit" -> mythtv_livetv_stop \o mythtv_shutdown
    [] e = "chain" -> mythtv_livetv_chain_update

\* The control thread.  cmyth_livetv_chain_request_block locks mutex, and
\* calls cmyth_file_request_block, which does so too.
request_block(from) == <<Lock("cmyth"), <<"send", from>>, <<"answer">>>>

cmyth_file_request_block == request_block("file")

cmyth_livetv_request_block ==
  IF scene.chain
    THEN <<Lock("cmyth")>> \o request_block("recorder") \o <<Unlock("cmyth")>>
    ELSE request_block("recorder")

\* Fault: myth_mutex is taken before request_block_mutex is given back.
ControlNested ==
  <<Lock("block"), Set("doing"), <<"unlessprevented">>, Clear("doing"),
    Lock("myth"), Unlock("myth"), Unlock("block")>>

control_start ==
  <<Lock("block"), Set("doing"), <<"unlessprevented">>, Clear("doing"),
    Unlock("block"), Lock("myth"), Unlock("myth")>>

-----------------------------------------------------------------------------
(* What an instruction does.                                               *)

\* Can the read thread read, in mythtv_read or mythtv_seek?
Source == IF "livetv" \in flag THEN "recorder" ELSE "file"
Readable == data = Source /\ Source \in holder

Becomes(t, prog) == todo' = [todo EXCEPT ![t] = prog]

\* The instruction i of thread t, and the instructions after it.
Run(t, i, rest) ==
  LET op == i[1]
      On(f) == f \in flag
  IN
  \/ /\ op = "lock" /\ owner[i[2]] = "none"
     /\ owner' = [owner EXCEPT ![i[2]] = t] /\ Becomes(t, rest)
     /\ UNCHANGED <<scene, prevent, flag, data, holder, leaked>>
  \/ /\ op = "unlock"
     /\ owner' = [owner EXCEPT ![i[2]] = "none"] /\ Becomes(t, rest)
     /\ UNCHANGED <<scene, prevent, flag, data, holder, leaked>>
  \/ /\ op = "inc" \/ op = "dec"
     /\ prevent' = IF op = "inc" THEN prevent + 1 ELSE prevent - 1
     /\ Becomes(t, rest)
     /\ UNCHANGED <<scene, owner, flag, data, holder, leaked>>
  \/ /\ op = "set" \/ op = "clear"
     /\ flag' = IF op = "set" THEN flag \cup {i[2]} ELSE flag \ {i[2]}
     /\ Becomes(t, rest)
     /\ UNCHANGED <<scene, owner, prevent, data, holder, leaked>>
  \/ /\ op = "awaitnot" /\ ~On(i[2])
     /\ Becomes(t, rest)
     /\ UNCHANGED <<scene, owner, prevent, flag, data, holder, leaked>>
  \/ /\ op = "if"
     /\ Becomes(t, (IF On(i[2]) THEN i[3] ELSE i[4]) \o rest)
     /\ UNCHANGED <<scene, owner, prevent, flag, data, holder, leaked>>
  \/ /\ op = "choose"
     /\ \E k \in {2, 3} : Becomes(t, i[k] \o rest)
     /\ UNCHANGED <<scene, owner, prevent, flag, data, holder, leaked>>
  \/ /\ op = "try"
     /\ \/ Becomes(t, i[3] \o rest)
        \/ i[2] \in scene.faults /\ Becomes(t, i[4] \o rest)
     /\ UNCHANGED <<scene, owner, prevent, flag, data, holder, leaked>>
  \/ /\ op = "rpc" /\ owner["cmyth"] = "none"
     /\ Becomes(t, rest)
     /\ UNCHANGED <<scene, owner, prevent, flag, data, holder, leaked>>
  \/ /\ op = "drop"
     /\ flag' = flag \ {"file"}
     /\ Becomes(t, IF On("file") /\ "file" \notin holder THEN cmyth_file_destroy \o rest
                                            ELSE rest)
     /\ UNCHANGED <<scene, owner, prevent, data, holder, leaked>>
  \/ /\ op = "hold"
     /\ holder' = flag \cap {"file", "recorder"} /\ Becomes(t, rest)
     /\ UNCHANGED <<scene, owner, prevent, flag, data, leaked>>
  \/ /\ op = "release"
     /\ holder' = {}
     /\ Becomes(t, IF "file" \in holder /\ ~On("file") THEN cmyth_file_destroy \o rest
                                            ELSE rest)
     /\ UNCHANGED <<scene, owner, prevent, flag, data, leaked>>
  \/ /\ op = "leak"
     /\ leaked' = TRUE /\ Becomes(t, rest)
     /\ UNCHANGED <<scene, owner, prevent, flag, data, holder>>
  \/ /\ op = "idle" /\ ~(On("jumping") /\ On("busy"))
     /\ flag' = flag \ {"busy"} /\ Becomes(t, rest)
     /\ UNCHANGED <<scene, owner, prevent, data, holder, leaked>>
  \/ /\ op = "take"      \* what there is to read, if anything
     /\ data' = IF Readable THEN "none" ELSE data
     /\ Becomes(t, rest)
     /\ UNCHANGED <<scene, owner, prevent, flag, holder, leaked>>
  \/ /\ op = "drain"     \* until nothing comes and no request is under way
     /\ \/ Readable /\ data' = "none" /\ Becomes(t, <<i>> \o rest)
        \/ ~Readable /\ ~On("doing") /\ Becomes(t, rest) /\ UNCHANGED data
        \* the connection has failed
        \/ "answer" \in scene.faults /\ Becomes(t, rest) /\ UNCHANGED data
     /\ UNCHANGED <<scene, owner, prevent, flag, holder, leaked>>
  \/ /\ op = "unlessprevented"
     /\ Becomes(t, CASE prevent > 0 -> rest
                     [] prevent = 0 /\ On("livetv") /\ On("recorder") ->
                          cmyth_livetv_request_block \o rest
                     [] prevent = 0 /\ ~On("livetv") /\ On("file") ->
                          cmyth_file_request_block \o rest
                     [] OTHER -> rest)
     /\ UNCHANGED <<scene, owner, prevent, flag, data, holder, leaked>>
  \/ /\ op = "send"
     /\ data' = i[2] /\ Becomes(t, rest)
     /\ UNCHANGED <<scene, owner, prevent, flag, holder, leaked>>
  \/ /\ op = "answer"    \* the data has been read
     /\ data = "none"
     /\ owner' = [owner EXCEPT !["cmyth"] = "none"] /\ Becomes(t, rest)
     /\ UNCHANGED <<scene, prevent, flag, data, holder, leaked>>
  \/ /\ op = "answer" /\ "answer" \in scene.faults
     /\ owner' = [owner EXCEPT !["cmyth"] = "none"]
     /\ \E after \in {<<>>, <<Clear("reading")>>,
                      <<Clear("reading")>> \o mythtv_shutdown} :
          Becomes(t, rest \o after)
     /\ UNCHANGED <<scene, prevent, flag, data, holder, leaked>>

Step(t) == todo[t] # <<>> /\ Run(t, Head(todo[t]), Tail(todo[t]))

-----------------------------------------------------------------------------
(* What a thread does next when it has nothing to do.                      *)

Start(t, prog) ==
  /\ todo[t] = <<>> /\ "exited" \notin flag
  /\ Becomes(t, prog)
  /\ UNCHANGED <<scene, owner, prevent, flag, data, holder, leaked>>

GuiNext == \E o \in scene.ops : Start("gui", Op(o))

\* Bound: one event.
EventNext ==
  /\ todo["event"] = <<>> /\ {"event", "exited"} \cap flag = {}
  /\ \E e \in scene.events : Becomes("event", event_start(e))
  /\ flag' = flag \cup {"event"}
  /\ UNCHANGED <<scene, owner, prevent, data, holder, leaked>>

livetv_open == <<Set("via"), Set("jumping"), Clear("reopen")>>

\* video_read_start: open, jump or read.
ReadNext ==
  /\ "playing" \in flag
  /\ Start("read",
       IF "reopen" \in flag
         THEN IF "livefn" \in flag THEN livetv_open ELSE mythtv_open
         ELSE IF "jumping" \in flag THEN mythtv_seek \o <<Clear("jumping")>>
              ELSE mythtv_read)

\* The write threads of the player start to write.
WritersBusy ==
  /\ "playing" \in flag /\ "busy" \notin flag /\ "exited" \notin flag
  /\ flag' = flag \cup {"busy"}
  /\ UNCHANGED <<scene, owner, prevent, data, holder, todo, leaked>>

Playable == {"file", "recorder"} \cap flag # {}

\* The control thread starts a round, asks for a block, or ends the round.
ControlNext ==
  \/ "reading" \notin flag /\ Playable /\ Start("control", <<Set("reading")>>)
  \/ /\ "reading" \in flag /\ prevent = 0 /\ "changing" \notin flag
     /\ Playable \/ "jumping" \in flag
     /\ Start("control", control_start)
  \/ /\ "reading" \in flag
     /\ ~Playable \/ "via" \notin flag \/ prevent > 0 \/ "changing" \in flag
     /\ Start("control", <<Clear("reading")>>)

Next ==
  \/ \E t \in Threads : "exited" \notin flag /\ Step(t)
  \/ GuiNext \/ EventNext \/ ReadNext \/ ControlNext \/ WritersBusy

Spec == Init /\ [][Next]_vars

-----------------------------------------------------------------------------
TypeOK ==
  /\ scene \in Scenes /\ owner \in [Mutexes -> Threads \cup {"none"}]
  /\ prevent \in 0..4 /\ flag \subseteq Flags
  /\ data \in {"none", "file", "recorder"} /\ holder \subseteq {"file", "recorder"}
  /\ leaked \in BOOLEAN
  /\ \A t \in Threads : \A i \in DOMAIN todo[t] :
       todo[t][i][1] \in {"lock", "unlock", "inc", "dec", "set", "clear",
         "awaitnot", "if", "choose", "try", "rpc", "drop", "leak", "hold", "release",
         "idle", "take", "drain", "unlessprevented", "send", "answer"}

\* The threads that release mythtv_file and wait for mutex of libcmyth.
Destroying ==
  {t \in Threads : /\ Len(todo[t]) >= Len(cmyth_file_destroy)
                   /\ SubSeq(todo[t], 1, Len(cmyth_file_destroy)) = cmyth_file_destroy}

\* The threads that have to act before t can go on.  The backend answers a
\* request when the read thread has read the data, and a read thread that
\* sleeps waits for the GUI thread, which starts the player.
BlockedBy(t) ==
  IF todo[t] = <<>> THEN IF t = "read" /\ "playing" \notin flag THEN {"gui"} ELSE {}
  ELSE LET i == Head(todo[t]) IN
       CASE i[1] = "lock" -> {owner[i[2]]} \ {"none"}
         [] i[1] = "rpc" -> {owner["cmyth"]} \ {"none"}
         [] i = AwaitNot("closing") /\ "closing" \in flag ->
              IF "file" \in holder THEN {"read"} ELSE Destroying
         [] i = AwaitNot("reading") /\ "reading" \in flag -> {"control"}
         [] i[1] = "idle" /\ {"jumping", "busy"} \subseteq flag -> {"read"}
         [] i[1] = "drain" /\ "doing" \in flag /\ ~Readable -> {"control"}
         [] i[1] = "answer" /\ data # "none" -> {"read"}
         [] OTHER -> {}

\* None of the threads in S can ever go on.
Deadlocked(S) ==
  S # {} /\ \A t \in S : BlockedBy(t) # {} /\ BlockedBy(t) \subseteq S

\* Where threads wait for each other in a circle, outside a function that has
\* left a mutex locked, it is one of these:  the read thread opens or seeks
\* (mythtv_open and mythtv_seek wait for mutexes while nobody reads the data
\* the control thread waits for), or sleeps, and the GUI thread, which would
\* wake it, waits for the control thread;  the read thread closes a file the
\* client has given up (mythtv_close) while an answer is due;  the GUI thread is
\* in mythtv_atexit;  the event thread stops live TV while the GUI thread closes
\* a file;  the control thread, asking for a block of a chain of files, waits
\* for itself.  There is no other deadlock: none of the control or the event
\* thread with the GUI thread, and none while the read thread reads.
LockOrder ==
  ~leaked =>
    \A S \in SUBSET Threads :
      Deadlocked(S) =>
        \/ "read" \in S /\ ({"jumping", "reopen"} \cap flag # {} \/ todo["read"] = <<>>)
        \/ {"read", "control"} \subseteq S /\ "lost" \in flag
        \/ "gui" \in S /\ "exiting" \in flag
        \/ {"gui", "event"} \subseteq S
        \/ scene.chain /\ "control" \in S

Waiting(t) == todo[t] # <<>> /\ Head(todo[t])[1] = "answer"

\* While the control thread waits for a block, what it has asked for stays
\* open, so that somebody can read the data, which is what request_block_mutex
\* is for, until mythtv_close, which does not take it, gives up the backend.
RequestHasReader ==
  Waiting("control") /\ "lost" \notin flag => Playable

\* When no thread is inside a function of the client, every mutex is free and
\* requests are not prevented, unless a seek was refused or no tuner was found.
NothingLeaked ==
  (\A t \in Threads : todo[t] = <<>>) /\ ~leaked /\ "exiting" \notin flag
     => prevent = 0 /\ \A m \in Mutexes : owner[m] = "none"
=============================================================================
