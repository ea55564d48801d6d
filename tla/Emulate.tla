------------------------------ MODULE Emulate ------------------------------
(***************************************************************************)
(* The emulation mode (src/emulate.c): the player as a client of the       *)
(* Hauppauge server.  Keys go to the server, which answers with commands   *)
(* (HandleRDCMessage, the rfb thread); on a second connection the client   *)
(* asks for one thing after another and reads the answers                  *)
(* (media_read_message, the media thread).  A timer thread asks again when *)
(* nothing comes.  All threads change mvp_state and is_stopping, without a *)
(* lock.                                                                   *)
(*                                                                         *)
(* The server is external: it answers the requests in order, and a key     *)
(* with a command that fits it, or not at all.  It is one that extends the *)
(* protocol (useHauppageExtentions is 2), the picture is full screen       *)
(* (gb_scale.mode is 0), and a show has a length.  The read thread opens   *)
(* the pipe whenever it is closed.  A handler is a step up to where it     *)
(* sleeps, or writes to a socket and then changes what others look at.     *)
(***************************************************************************)
EXTENDS Integers, Sequences

CONSTANTS
  Presses,   \* bound: keys
  MaxRdc     \* bound: commands not yet handled

VARIABLES
  mvp_state,   \* what the stream is doing
  is_stopping, \* how far a stop has got
  mediatype,   \* "none", "audio", "video"
  current,     \* is there a file name?
  paused,
  resetTime,   \* is the time set at which the timer thread asks again?
  inbuf,       \* is there a block that is not yet in the pipe?
  retryZero,   \* was the end of the file asked for again?
  jumping,     \* does the read thread have to start anew?
  last_key,
  linked,      \* is there a connection for them (stream->sock)?
  requests,    \* to the server, not yet answered
  rdc,         \* commands from the server, not yet handled
  rfb,         \* where the rfb thread is
  media,       \* where the media thread is
  timer,       \* where the timer thread is
  pressed,
  missed       \* ghost: see StopUnderWay

vars == <<mvp_state, is_stopping, mediatype, current, paused, resetTime, inbuf,
          retryZero, jumping, last_key, linked, requests, rdc, rfb, media, timer,
          pressed, missed>>

States == {"RUNNING", "STEP_PENDING", "STEP_SEEK", "STEP", "STEP_TO_PLAY",
           "SEEK_TO_PLAY", "SKIP_PENDING", "SKIP_REPLAY_OK", "PERCENT_PENDING",
           "PERCENT_RUNNING", "PERCENT", "STOP_PENDING", "LIVE", "OFF"}
Stops == {"RUNNING", "STOP_PENDING", "STOPPED", "STOPPED_AGAIN", "EMPTY_BUFFER"}

Init ==
  /\ mvp_state = "RUNNING" /\ is_stopping = "RUNNING" /\ mediatype = "none"
  /\ current = FALSE /\ paused = FALSE /\ resetTime = FALSE /\ inbuf = FALSE
  /\ retryZero = FALSE /\ jumping = FALSE
  /\ last_key = "other" /\ linked = TRUE /\ requests = <<>> /\ rdc = <<>>
  /\ rfb = "idle" /\ media = "idle" /\ timer = "idle" /\ pressed = 0
  /\ missed = FALSE

To(m, s) == mvp_state' = m /\ is_stopping' = s
Same == UNCHANGED <<mvp_state, is_stopping>>

\* WriteExact fails when there is no connection, and nobody looks.
Send(s) == requests' = IF linked THEN requests \o s ELSE requests
HasStop(s) == \E i \in DOMAIN s : s[i] = "stop"

\* The first half of client_stop.
SendStop == Send(<<"stop">>) /\ missed' = ~linked

\* media_send_read does nothing while the end is pending.
ReadIn(m) == IF m = "STOP_PENDING" THEN <<>> ELSE <<"block">>

-----------------------------------------------------------------------------
(* The GUI thread: mvp_server_remote_key.                                  *)

\* The commands with which the server may answer a key.
Answers(k) ==
  CASE k = "play" -> {"play", "default"}
    [] k \in {"exit", "stop", "power"} -> {"stop"}
    [] k = "scan" -> {"step"}
    [] k = "ok" -> {"open", "preview", "menu", "other"}
    [] OTHER -> {k}

Pressed(k, heard) ==
  /\ pressed < Presses /\ pressed' = pressed + 1
  /\ last_key' = IF k \in {"stop", "exit"} THEN k ELSE "other"
  /\ rdc' \in IF heard /\ Len(rdc) < MaxRdc
                THEN {rdc} \cup {Append(rdc, c) : c \in Answers(k)} ELSE {rdc}
  /\ UNCHANGED <<mediatype, current, paused, resetTime, inbuf, retryZero, jumping,
                 linked, requests, rfb, media, timer, missed>>

\* A key in the menus; OK, EXIT and the channel keys are the same everywhere.
MenuKey ==
  \E k \in {"ok", "exit", "stop"} :
    /\ k = "stop" => mediatype = "none"
    /\ Pressed(k, TRUE)
    /\ UNCHANGED mvp_state
    /\ is_stopping' = IF mediatype = "none" /\ is_stopping = "STOPPED_AGAIN"
                        THEN "RUNNING" ELSE is_stopping

StopKey ==
  /\ mediatype # "none"
  /\ IF mvp_state \in {"RUNNING", "STEP"}
       THEN To(mvp_state, "STOP_PENDING") /\ Pressed("stop", TRUE)
       ELSE To(mvp_state, "EMPTY_BUFFER") /\ Pressed("stop", FALSE)

PlayKey ==
  /\ mediatype # "none"
  /\ To(IF mvp_state \in {"STEP", "STEP_SEEK"} THEN "STEP_TO_PLAY" ELSE mvp_state,
        is_stopping)
  /\ Pressed("play", TRUE)

PauseKey == mediatype # "none" /\ Same /\ Pressed("pause", TRUE)

\* FFWD and REWIND, SKIP and REPLAY, and the digits.
MoveKey ==
  \/ /\ mediatype = "audio" /\ is_stopping = "RUNNING" /\ Same
     /\ \E k \in {"scan", "skip"} : Pressed(k, TRUE)
  \/ \E k \in {"scan", "skip", "percent"} :
       /\ mvp_state = "RUNNING"
       /\ IF k = "percent" THEN mediatype # "none"
                           ELSE mediatype = "video" /\ is_stopping = "RUNNING"
       /\ To(CASE k = "scan" -> "STEP_PENDING" [] k = "skip" -> "SKIP_PENDING"
               [] k = "percent" -> "PERCENT_PENDING", is_stopping)
       /\ Pressed(k, TRUE)

PowerKey ==
  /\ mediatype # "none"
  /\ To("OFF", is_stopping)
  /\ Pressed("power", TRUE)

\* GO and then OK: mvp_server_reset_state.
ResetKey ==
  /\ pressed < Presses /\ pressed' = pressed + 1
  /\ mvp_state' = "RUNNING" /\ paused' = FALSE
  /\ UNCHANGED <<is_stopping, mediatype, current, resetTime, inbuf, retryZero,
                 jumping, last_key, linked, requests, rdc, rfb, media, timer,
                 missed>>

Key == MenuKey \/ StopKey \/ PlayKey \/ PauseKey \/ MoveKey \/ PowerKey \/ ResetKey

-----------------------------------------------------------------------------
(* The rfb thread: HandleRDCMessage.                                       *)

\* RDC_PLAY with and without a file name.
Play(named) ==
  /\ current' = TRUE
  /\ paused' = FALSE
  /\ UNCHANGED jumping
  /\ LET wait == rfb' = "play" /\ UNCHANGED requests
         done == rfb' = "idle"
     IN CASE paused -> Send(ReadIn(mvp_state)) /\ Same /\ done
          [] ~paused /\ mvp_state = "STEP_TO_PLAY" ->
               Send(<<"step">>) /\ To("SEEK_TO_PLAY", is_stopping) /\ done
          [] ~paused /\ mvp_state # "STEP_TO_PLAY"
               /\ (mediatype = "none" \/ mvp_state = "STOP_PENDING") -> wait /\ Same
          [] OTHER ->
               CASE ~named /\ mvp_state = "RUNNING" -> Send(<<>>) /\ Same /\ done
                 [] ~named /\ mvp_state # "RUNNING" /\ is_stopping = "RUNNING" ->
                      Send(<<"block">>) /\ Same /\ done
                 [] named /\ is_stopping = "RUNNING" ->
                      wait /\ To("LIVE", "STOP_PENDING")
                 [] OTHER -> wait /\ Same

\* RDC_STOP, up to its first sleep or socket.
Stop ==
  /\ paused' = FALSE /\ Same /\ UNCHANGED <<requests, current, jumping>>
  /\ rfb' = CASE mediatype = "none" -> "idle"
              [] mediatype # "none" /\ is_stopping = "STOPPED" -> "again"
              [] mediatype # "none" /\ is_stopping # "STOPPED"
                   /\ (is_stopping # "RUNNING" \/ mediatype = "audio"
                                                \/ last_key = "exit") -> "stop"
              [] OTHER ->
                   CASE mvp_state = "RUNNING" -> "stop"
                     [] mvp_state = "STOP_PENDING" -> "stopwait"
                     [] mvp_state = "LIVE" -> "idle"
                     [] OTHER -> "connect"

\* RDC_REWIND and RDC_FORWARD
Scan ==
  /\ UNCHANGED <<current, paused, rfb>> /\ Same
  /\ IF mvp_state = "PERCENT" THEN UNCHANGED <<requests, jumping>>
     ELSE Send(<<"seek">> \o ReadIn(mvp_state)) /\ jumping' = TRUE

\* RDC_PLAY, by the kind of play, and the commands that change no state.
Move(c) ==
  /\ current' = (current \/ c # "other")
  /\ UNCHANGED <<paused, jumping, rfb>>
  /\ CASE c = "preview" -> Send(<<"eight">>) /\ Same
       [] c = "skip" -> Send(<<"seek">>) /\ To("SKIP_REPLAY_OK", is_stopping)
       [] c = "percent" /\ mediatype # "none" ->
            Send(<<"seek">>) /\ To("PERCENT_RUNNING", is_stopping)
       [] c = "default" /\ mvp_state = "STEP_TO_PLAY" ->
            Send(<<"step">>) /\ To("SEEK_TO_PLAY", is_stopping)
       [] OTHER -> UNCHANGED requests /\ Same

\* RDC_MENU: when the menu was hidden and is restored, a stop is over.
SetDisplayState ==
  /\ mvp_state' = mvp_state /\ is_stopping' \in {is_stopping, "RUNNING"}
  /\ UNCHANGED <<current, paused, jumping, rfb, requests>>

HandleRDCMessage ==
  /\ rfb = "idle" /\ rdc # <<>> /\ rdc' = Tail(rdc)
  /\ resetTime' = FALSE
  /\ LET c == Head(rdc)
     IN CASE c = "play" -> Play(FALSE)
          [] c = "open" -> Play(TRUE)
          [] c = "stop" -> Stop
          [] c = "step" -> Scan
          [] c = "pause" -> /\ paused' = TRUE /\ Same
                            /\ UNCHANGED <<current, jumping, rfb, requests>>
          [] c = "menu" -> SetDisplayState
          [] OTHER -> Move(c)
  /\ UNCHANGED <<mediatype, inbuf, retryZero, last_key, linked, media, timer,
                 pressed, missed>>

rfbRest == <<mediatype, paused, resetTime, inbuf, retryZero, jumping, last_key,
             rdc, media, timer, pressed>>

\* After the wait until the device is empty: client_play.
PlayWaited ==
  /\ rfb = "play" /\ rfb' = "idle"
  /\ Send(<<"eight">>)
  /\ Same /\ UNCHANGED <<current, linked, missed, rfbRest>>

\* Fault: client_stop comes first, and what it sends is lost with the connection.
StopLost ==
  \/ /\ rfb = "connect" /\ rfb' = "anewsent"
     /\ linked' \in BOOLEAN /\ requests' = <<>> /\ missed' = ~linked
  \/ /\ rfb \in {"stop", "anew"} /\ SendStop /\ UNCHANGED linked
     /\ rfb' = IF rfb = "stop" THEN "sent" ELSE "anewsent"

\* media_init, which may fail: what was asked on the old connection is lost.  Then
\* client_stop sends MEDIA_STOP.
StopSent ==
  \/ /\ rfb = "connect" /\ rfb' = "anew"
     /\ linked' \in BOOLEAN /\ requests' = <<>> /\ UNCHANGED missed
  \/ /\ rfb \in {"stop", "anew"} /\ SendStop /\ UNCHANGED linked
     /\ rfb' = IF rfb = "stop" THEN "sent" ELSE "anewsent"

\* The steps of RDC_STOP after its sleep and around its sockets.
ClientStop ==
  /\ Same /\ StopSent
  /\ UNCHANGED <<current, rfbRest>>

ClientStopped ==
  /\ rfb \in {"sent", "anewsent"} /\ rfb' = "set" /\ current' = FALSE
  /\ To(IF rfb = "anewsent" THEN "RUNNING" ELSE mvp_state, is_stopping)
  /\ UNCHANGED <<linked, requests, missed, rfbRest>>

StopSet ==
  /\ rfb \in {"set", "again"} /\ rfb' = "idle"
  /\ To(mvp_state, IF rfb = "set" THEN "STOPPED" ELSE "STOPPED_AGAIN")
  /\ UNCHANGED <<current, linked, requests, missed, rfbRest>>

\* The wait for the end of the stop that the end of the file began.
StopWaited ==
  /\ rfb = "stopwait" /\ (mvp_state # "STOP_PENDING" \/ is_stopping = "STOP_PENDING")
  /\ rfb' = "idle"
  /\ Same /\ UNCHANGED <<requests, current, linked, missed, rfbRest>>

RfbStep ==
  \/ HandleRDCMessage \/ PlayWaited \/ ClientStop \/ ClientStopped \/ StopSet
  \/ StopWaited

-----------------------------------------------------------------------------
(* The media thread: media_read_message and media_queue_data.              *)

mediaRest == <<last_key, linked, rdc, rfb, timer, pressed>>

Answered == requests' = Tail(requests)
AnsweredWith(s) == requests' = Tail(requests) \o s

Message(r) ==
  /\ media = "idle" /\ requests # <<>> /\ Head(requests) = r
  /\ resetTime' = FALSE
  /\ UNCHANGED mediaRest

\* MEDIA_8.  Without a file name the program dies (strlen of NULL).
MediaEight ==
  /\ Message("eight")
  /\ media' = IF current THEN "idle" ELSE "dead"
  /\ AnsweredWith(IF current THEN <<"request">> ELSE <<>>)
  /\ Same
  /\ UNCHANGED <<mediatype, current, paused, inbuf, retryZero, jumping, missed>>

\* MEDIA_REQUEST, up to its sleep: the server has no such file, or it has.
MediaRequest ==
  /\ Message("request") /\ Answered
  /\ \/ Same /\ UNCHANGED <<mediatype, media>>
     \/ /\ mediatype' \in {"audio", "video"} /\ media' = "request"
        /\ To(mvp_state, "RUNNING")
  /\ UNCHANGED <<current, paused, inbuf, retryZero, jumping, missed>>

\* The file is opened: a new show is played after video_clear, or the one that is
\* on goes on elsewhere.
MediaOpen ==
  /\ media = "request"
  /\ IF mvp_state = "RUNNING"
       THEN /\ media' = IF mediatype = "video" THEN "open" ELSE "opened"
            /\ Same /\ UNCHANGED jumping
       ELSE /\ media' = "opened" /\ To("RUNNING", is_stopping)
            /\ jumping' = (jumping \/ mediatype = "video")
  /\ UNCHANGED <<mediatype, current, paused, resetTime, inbuf, retryZero, requests,
                 missed, mediaRest>>

\* MEDIA_SEEK
MediaSeek ==
  /\ Message("seek")
  /\ CASE mvp_state \in {"STEP_PENDING", "STEP_SEEK", "STEP"} ->
            AnsweredWith(<<"step">>) /\ media' = "seek" /\ Same /\ UNCHANGED jumping
       [] mvp_state = "SEEK_TO_PLAY" ->
            /\ AnsweredWith(<<"block">>) /\ To("RUNNING", is_stopping)
            /\ UNCHANGED <<jumping, media>>
       [] mvp_state \in {"SKIP_REPLAY_OK", "PERCENT_RUNNING"} ->
            AnsweredWith(<<"block">>) /\ media' = "skip" /\ Same /\ jumping' = TRUE
       [] OTHER ->
            AnsweredWith(ReadIn(mvp_state)) /\ Same /\ UNCHANGED <<jumping, media>>
  /\ UNCHANGED <<mediatype, current, paused, inbuf, retryZero, missed>>

\* mvp_state when a block or a step comes.
AfterStep(m) ==
  CASE m = "STEP_SEEK" -> "STEP" [] m = "SEEK_TO_PLAY" -> "RUNNING" [] OTHER -> m
AfterBlock(m) ==
  CASE m \in {"SKIP_REPLAY_OK", "PERCENT"} -> "RUNNING"
    [] m = "PERCENT_RUNNING" -> "PERCENT"
    [] OTHER -> m

\* MEDIA_BLOCK and MEDIA_STEP: with data, or at the end of the file.
MediaBlock ==
  /\ \E r \in {"block", "step"} :
       /\ Message(r) /\ Answered
       /\ To(AfterBlock(IF r = "step" THEN AfterStep(mvp_state) ELSE mvp_state),
             is_stopping)
  /\ \/ media' = "queue" /\ inbuf' = TRUE /\ retryZero' = FALSE
     \/ media' = "end" /\ UNCHANGED <<inbuf, retryZero>>
  /\ UNCHANGED <<mediatype, current, paused, jumping, missed>>

\* "Confirm EOF", or the end of the show: the first half of client_stop.
MediaEnd ==
  /\ media = "end"
  /\ \/ /\ ~retryZero /\ mvp_state = "RUNNING" /\ mediatype = "video"
        /\ media' = "confirm" /\ retryZero' = TRUE /\ UNCHANGED <<requests, missed>>
     \/ /\ IF mvp_state \in {"RUNNING", "STEP"}
             THEN SendStop /\ media' = "eof"
             ELSE media' = "idle" /\ UNCHANGED <<requests, missed>>
        /\ UNCHANGED retryZero
  /\ Same
  /\ UNCHANGED <<mediatype, current, paused, resetTime, inbuf, jumping, mediaRest>>

\* MEDIA_STOP, up to the wait until the device is empty.
MediaStop ==
  /\ Message("stop") /\ Answered
  /\ media' = "stop" /\ inbuf' = FALSE
  /\ Same /\ UNCHANGED <<mediatype, current, paused, retryZero, jumping, missed>>

\* What the media thread does after a sleep, a wait or a write: it sends s, and
\* then is at p.
Goes(s, p) ==
  /\ Send(s) /\ media' = p
  /\ UNCHANGED <<paused, resetTime, inbuf, retryZero, jumping, mediaRest>>

MediaConfirm ==
  /\ media = "confirm" /\ Goes(ReadIn(mvp_state), "idle")
  /\ Same /\ UNCHANGED <<mediatype, current, missed>>

MediaOpened ==
  /\ media = "opened" /\ Goes(<<"seek">>, "idle")
  /\ Same /\ UNCHANGED <<mediatype, current, missed>>

\* The assignments that follow the second half of client_stop, MEDIA_SEEK's
\* requests and, for a show that was not taken over by another, the device.
MediaState ==
  /\ media \in {"eof", "seek", "skip", "cleared"}
  /\ Goes(<<>>, IF media = "cleared" THEN "reset" ELSE "idle")
  /\ mvp_state' = CASE media = "eof" -> "STOP_PENDING"
                    [] media = "seek" -> "STEP_SEEK"
                    [] mediatype = "video" /\ mvp_state = "LIVE"
                         /\ media = "cleared" -> "LIVE"
                    [] OTHER -> "RUNNING"
  /\ current' = (current /\ media # "eof")
  /\ UNCHANGED <<is_stopping, mediatype, missed>>

\* The end of MEDIA_STOP, after a sleep each.
MediaReset ==
  /\ media = "reset" /\ Goes(<<>>, "ended") /\ mediatype' = "none"
  /\ Same /\ UNCHANGED <<current, missed>>

MediaEnded ==
  /\ media = "ended" /\ Goes(<<>>, "idle") /\ is_stopping' = "RUNNING"
  /\ missed' = (missed \/ (rfb \in {"again", "sent", "anewsent", "set"}
                           /\ ~HasStop(requests)))
  /\ UNCHANGED <<mvp_state, mediatype, current>>

\* MEDIA_STOP's wait for the device.
MediaEmpty ==
  /\ media = "stop" /\ Goes(<<>>, "clear")
  /\ Same /\ UNCHANGED <<mediatype, current, missed>>

\* video_clear and audio_clear return.
Clear ==
  /\ media \in {"open", "clear"}
  /\ Goes(<<>>, IF media = "open" THEN "opened" ELSE "cleared")
  /\ Same /\ UNCHANGED <<mediatype, current, missed>>

\* What media_queue_data does when a block is in the pipe.
Queued ==
  IF is_stopping # "RUNNING"
    THEN resetTime' = TRUE /\ Same /\ UNCHANGED requests
    ELSE CASE mvp_state = "RUNNING" ->
                Send(IF paused THEN <<>> ELSE <<"block">>) /\ Same /\ UNCHANGED resetTime
           [] mvp_state = "STEP" -> Send(<<"step">>) /\ Same /\ UNCHANGED resetTime
           [] mvp_state = "STEP_PENDING" ->
                resetTime' = TRUE /\ To("STEP_SEEK", is_stopping) /\ UNCHANGED requests
           [] OTHER -> resetTime' = TRUE /\ Same /\ UNCHANGED requests

\* media_queue_data: all of the block goes into the pipe (when it stops, any part
\* of it will do), a part or nothing, or a part and then nothing.  A block that has
\* just come is left where it is when the show was stopped.
QueueData ==
  /\ inbuf /\ media' = "idle"
  /\ media = "queue" \/ (media = "idle" /\ linked)
  /\ \/ /\ is_stopping = "STOPPED" => media = "idle"
        /\ \/ inbuf' = FALSE /\ Queued
           \/ /\ is_stopping = "RUNNING" /\ mvp_state # "LIVE"
              /\ inbuf' = FALSE
              /\ Send(IF mvp_state = "RUNNING" THEN <<"block">> ELSE <<>>)
              /\ Same /\ UNCHANGED resetTime
     \/ /\ mvp_state # "LIVE" \/ (is_stopping = "STOPPED" /\ media = "queue")
        /\ inbuf' = TRUE /\ Same /\ UNCHANGED <<requests, resetTime>>
  /\ UNCHANGED <<mediatype, current, paused, retryZero, jumping, missed, mediaRest>>

MediaStep ==
  \/ MediaEight \/ MediaRequest \/ MediaOpen \/ MediaSeek \/ MediaBlock \/ MediaEnd
  \/ MediaStop \/ MediaConfirm \/ MediaOpened \/ MediaState \/ MediaReset
  \/ MediaEnded \/ MediaEmpty \/ QueueData

-----------------------------------------------------------------------------
(* The timer thread, and the read thread of the player.                    *)

mvp_timer_callback ==
  /\ \/ /\ timer = "idle" /\ resetTime /\ timer' = "sent"
        /\ Send(ReadIn(mvp_state)) /\ Same /\ UNCHANGED resetTime
     \/ /\ timer = "sent" /\ timer' = "idle"
        /\ resetTime' = FALSE /\ To("RUNNING", "RUNNING") /\ UNCHANGED requests
  /\ UNCHANGED <<mediatype, current, paused, inbuf, retryZero, jumping, last_key,
                 linked, rdc, rfb, media, pressed, missed>>

\* video_read_start: a jump ends a pause.
ReadJump ==
  /\ jumping /\ jumping' = FALSE /\ paused' = FALSE
  /\ Same
  /\ UNCHANGED <<mediatype, current, resetTime, inbuf, retryZero, requests, media,
                 missed, mediaRest>>

Next ==
  /\ media # "dead"
  /\ Key \/ RfbStep \/ MediaStep \/ Clear \/ mvp_timer_callback \/ ReadJump

Spec == Init /\ [][Next]_vars

\* video_clear may spin for ever when the show is stopped while a jump is under way.
Jammed == mediatype = "video" /\ jumping

\* The threads run, the server answers requests, the device plays what it has, and
\* video_clear returns unless it cannot.
Fairness ==
  /\ WF_vars(media # "dead" /\ RfbStep)
  /\ WF_vars(media # "dead" /\ (MediaStep \/ (~Jammed /\ Clear)))

FairSpec == Spec /\ Fairness

-----------------------------------------------------------------------------
TypeOK ==
  /\ mvp_state \in States /\ is_stopping \in Stops
  /\ mediatype \in {"none", "audio", "video"}
  /\ {current, paused, resetTime, inbuf, retryZero, jumping, linked, missed}
       \subseteq BOOLEAN
  /\ last_key \in {"stop", "exit", "other"} /\ timer \in {"idle", "sent"}
  /\ rfb \in {"idle", "play", "again", "stop", "connect", "anew", "anewsent", "sent",
              "set", "stopwait"}
  /\ media \in {"idle", "queue", "end", "confirm", "eof", "seek", "skip", "request",
                "open", "opened", "stop", "clear", "cleared", "reset", "ended", "dead"}
  /\ pressed \in 0..Presses
  /\ \A i \in DOMAIN requests :
       requests[i] \in {"eight", "request", "seek", "block", "step", "stop"}

StopAsked ==
  \/ media \in {"stop", "clear", "cleared", "reset", "ended"} \/ HasStop(requests)
  \/ rfb = "anew"

\* The client believes that a show is ending (the end of the file was met:
\* mvp_state is STOP_PENDING, or RDC_STOP was obeyed: is_stopping is STOPPED) only
\* while its MEDIA_STOP is on the way or being handled.  Nothing else ends these
\* states, in which blocks are not asked for or are thrown away: media_send_read
\* returns at once, media_read_message ignores what comes, and RDC_STOP waits.  The
\* exceptions are the ways in which the code misses it: no MEDIA_STOP went out,
\* because media_init had failed, or the answer was handled to its end while the rfb
\* thread was between sending it and setting is_stopping.
Halting == mvp_state = "STOP_PENDING" \/ is_stopping \in {"STOPPED", "STOPPED_AGAIN"}
StopUnderWay == Halting /\ ~missed => StopAsked

\* The rfb thread gets out of every wait of HandleRDCMessage, and the end of a
\* file is over some time (the loop of RDC_STOP waits for the media thread, which
\* waits for the server), unless the program dies, the connection could not be made
\* again, or the media thread is in a video_clear that does not return.
Ending == rfb # "idle" \/ mvp_state = "STOP_PENDING"
Ended ==
  \/ rfb = "idle" /\ mvp_state # "STOP_PENDING"
  \/ media = "dead" \/ ~linked \/ (media \in {"open", "clear"} /\ Jammed)
CommandsEnd == Ending ~> Ended
=============================================================================
