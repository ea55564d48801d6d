--------------------------- MODULE EmulateProofs ---------------------------
(***************************************************************************)
(* Proof that the emulation mode never waits for a stop that is not under  *)
(* way, for any number of keys and of commands from the server: three      *)
(* threads set mvp_state and is_stopping without a lock, a new connection  *)
(* throws requests away, and yet a MEDIA_STOP is among the requests that   *)
(* are not yet answered, or about to be, or being handled, unless the code *)
(* missed it in one of the two ways that StopUnderWay names.               *)
(***************************************************************************)
EXTENDS Emulate, TLAPS

Request == {"eight", "request", "seek", "block", "step", "stop"}

\* Where the rfb thread is when it has sent a stop and not yet said so, and the
\* media thread when the stop is answered.
Writing == {"again", "sent", "anewsent", "set"}
Stopping == {"stop", "clear", "cleared", "reset", "ended"}

StateTypes == mvp_state \in States /\ is_stopping \in Stops
BoolTypes ==
  /\ current \in BOOLEAN /\ paused \in BOOLEAN /\ resetTime \in BOOLEAN
  /\ inbuf \in BOOLEAN /\ retryZero \in BOOLEAN /\ jumping \in BOOLEAN
  /\ linked \in BOOLEAN /\ missed \in BOOLEAN
PlaceTypes ==
  /\ mediatype \in {"none", "audio", "video"}
  /\ last_key \in {"stop", "exit", "other"} /\ timer \in {"idle", "sent"}
  /\ rfb \in {"idle", "play", "again", "stop", "connect", "anew", "anewsent", "sent",
              "set", "stopwait"}
  /\ media \in {"idle", "queue", "end", "confirm", "eof", "seek", "skip", "request",
                "open", "opened", "stop", "clear", "cleared", "reset", "ended", "dead"}
FlagTypes == BoolTypes /\ PlaceTypes

\* StopUnderWay is not inductive: a thread that has sent the stop and has not yet
\* set the state counts as well, and at the end of MEDIA_STOP the state was reset.
Awaited == Halting \/ rfb \in Writing \/ media = "eof"
Settled == Awaited /\ ~missed => StopAsked
Resetting == media \in {"reset", "ended"} => mvp_state # "STOP_PENDING"

IInv ==
  /\ StateTypes /\ FlagTypes
  /\ requests \in Seq(Request) /\ Settled /\ Resetting

-----------------------------------------------------------------------------
(* The queue of requests.                                                  *)

\* A stop that was asked for stays asked for when something is appended,
LEMMA AppendKeeps ==
  ASSUME NEW q \in Seq(Request), NEW s \in Seq(Request)
  PROVE  /\ q \o s \in Seq(Request)
         /\ HasStop(q) => HasStop(q \o s)
         /\ HasStop(s) => HasStop(q \o s)
<1>1. q \o s \in Seq(Request)
  OBVIOUS
<1>2. HasStop(q) => HasStop(q \o s)
  <2> SUFFICES ASSUME NEW i \in DOMAIN q, q[i] = "stop" PROVE HasStop(q \o s)
    BY DEF HasStop
  <2>1. i \in DOMAIN (q \o s) /\ (q \o s)[i] = q[i]
    OBVIOUS
  <2> QED
    BY <2>1 DEF HasStop
<1>3. HasStop(s) => HasStop(q \o s)
  <2> SUFFICES ASSUME NEW i \in DOMAIN s, s[i] = "stop" PROVE HasStop(q \o s)
    BY DEF HasStop
  <2>1. Len(q) + i \in DOMAIN (q \o s) /\ (q \o s)[Len(q) + i] = s[i]
    OBVIOUS
  <2> QED
    BY <2>1 DEF HasStop
<1> QED
  BY <1>1, <1>2, <1>3

\* and when something else is answered.
LEMMA TailKeeps ==
  ASSUME NEW q \in Seq(Request), q # <<>>
  PROVE  /\ Tail(q) \in Seq(Request)
         /\ HasStop(q) /\ Head(q) # "stop" => HasStop(Tail(q))
<1>1. Tail(q) \in Seq(Request)
  OBVIOUS
<1>2. HasStop(q) /\ Head(q) # "stop" => HasStop(Tail(q))
  <2> SUFFICES ASSUME NEW i \in DOMAIN q, q[i] = "stop", Head(q) # "stop"
               PROVE  HasStop(Tail(q))
    BY DEF HasStop
  <2>1. i # 1 /\ i \in 1..Len(q)
    OBVIOUS
  <2>2. i - 1 \in DOMAIN Tail(q) /\ Tail(q)[i - 1] = q[i]
    BY <2>1
  <2> QED
    BY <2>2 DEF HasStop
<1> QED
  BY <1>1, <1>2

LEMMA StopAlone == <<"stop">> \in Seq(Request) /\ HasStop(<<"stop">>)
<1>1. <<"stop">> \in Seq(Request) /\ 1 \in DOMAIN <<"stop">> /\ <<"stop">>[1] = "stop"
  BY DEF Request
<1> QED
  BY <1>1 DEF HasStop

\* The requests that the steps append.
LEMMA Sent ==
  /\ <<>> \in Seq(Request) /\ <<"block">> \in Seq(Request)
  /\ <<"step">> \in Seq(Request) /\ <<"seek">> \in Seq(Request)
  /\ <<"eight">> \in Seq(Request) /\ <<"request">> \in Seq(Request)
  /\ \A m : ReadIn(m) \in Seq(Request)
  /\ \A m : <<"seek">> \o ReadIn(m) \in Seq(Request)
<1>1. /\ <<>> \in Seq(Request) /\ <<"block">> \in Seq(Request)
      /\ <<"step">> \in Seq(Request) /\ <<"seek">> \in Seq(Request)
      /\ <<"eight">> \in Seq(Request) /\ <<"request">> \in Seq(Request)
  BY DEF Request
<1>2. ASSUME NEW m PROVE ReadIn(m) \in Seq(Request)
  BY <1>1 DEF ReadIn
<1>3. ASSUME NEW m PROVE <<"seek">> \o ReadIn(m) \in Seq(Request)
  BY <1>1, <1>2, AppendKeeps
<1> QED
  BY <1>1, <1>2, <1>3

\* A step that asks for something leaves the stop in the queue,
LEMMA SendKeeps ==
  ASSUME requests \in Seq(Request), NEW s \in Seq(Request), Send(s)
  PROVE  requests' \in Seq(Request) /\ (HasStop(requests) => HasStop(requests'))
<1>1. CASE linked
  <2>1. requests' = requests \o s
    BY <1>1 DEF Send
  <2> QED
    BY <2>1, AppendKeeps
<1>2. CASE ~linked
  <2>1. requests' = requests
    BY <1>2 DEF Send
  <2> QED
    BY <2>1 DEF HasStop
<1> QED
  BY <1>1, <1>2

\* and client_stop puts one there or misses it.
LEMMA StopKeeps ==
  ASSUME requests \in Seq(Request), linked \in BOOLEAN, SendStop
  PROVE  /\ requests' \in Seq(Request)
         /\ HasStop(requests') \/ missed'
         /\ missed' \in BOOLEAN
<1>1. requests' \in Seq(Request)
  BY SendKeeps, StopAlone DEF SendStop
<1>2. missed' = ~linked
  BY DEF SendStop
<1>3. CASE linked
  <2>1. requests' = requests \o <<"stop">>
    BY <1>3 DEF SendStop, Send
  <2>2. HasStop(requests')
    BY <2>1, AppendKeeps, StopAlone
  <2> QED
    BY <1>1, <1>2, <1>3, <2>2
<1>4. CASE ~linked
  BY <1>1, <1>2, <1>4
<1> QED
  BY <1>3, <1>4

\* An answer to something else leaves the stop there, too.
LEMMA AnswerKeeps ==
  ASSUME requests \in Seq(Request), requests # <<>>, Head(requests) # "stop",
         NEW s \in Seq(Request), requests' = Tail(requests) \o s
  PROVE  requests' \in Seq(Request) /\ (HasStop(requests) => HasStop(requests'))
<1>1. Tail(requests) \in Seq(Request) /\ (HasStop(requests) => HasStop(Tail(requests)))
  BY TailKeeps
<1> QED
  BY <1>1, AppendKeeps

\* A step that begins no stop and takes none out of the queue.
LEMMA Quiet ==
  ASSUME IInv, HasStop(requests) => HasStop(requests'),
         media \in Stopping => media' \in Stopping,
         rfb = "anew" => rfb' = "anew", missed' = missed,
         Awaited' => Awaited,
         media' \in {"reset", "ended"} => media \in {"reset", "ended"},
         mvp_state' = "STOP_PENDING" => mvp_state = "STOP_PENDING"
  PROVE  Settled' /\ Resetting'
<1>1. StopAsked => StopAsked'
  BY DEF StopAsked, Stopping
<1>2. Settled'
  BY <1>1 DEF IInv, Settled
<1>3. Resetting'
  BY DEF IInv, Resetting
<1> QED
  BY <1>2, <1>3

-----------------------------------------------------------------------------
(* The steps.                                                              *)

LEMMA InitIInv == Init => IInv
<1> HAVE Init
<1>1. requests \in Seq(Request) /\ StateTypes /\ FlagTypes
  BY Sent DEF Init, StateTypes, FlagTypes, BoolTypes, PlaceTypes, States, Stops
<1>2. Settled /\ Resetting
  BY DEF Init, Settled, Awaited, Halting, Writing, Resetting
<1> QED
  BY <1>1, <1>2 DEF IInv

\* A key changes mvp_state and is_stopping, but never to a stop under way.
LEMMA KeyStep == ASSUME IInv, Key PROVE IInv'
<1> USE DEF StateTypes, States, Stops
<1>0. StateTypes /\ FlagTypes
  BY DEF IInv
<1>1. ASSUME NEW k, NEW h, Pressed(k, h), StateTypes', Halting' => Halting,
             mvp_state' = "STOP_PENDING" => mvp_state = "STOP_PENDING"
      PROVE  IInv'
  <2>1. /\ UNCHANGED <<mediatype, current, paused, resetTime, inbuf, retryZero,
                       jumping, linked, requests, rfb, media, timer, missed>>
        /\ last_key' \in {"stop", "exit", "other"}
    BY <1>1 DEF Pressed
  <2>2. requests' \in Seq(Request) /\ (HasStop(requests) => HasStop(requests'))
    BY <2>1 DEF IInv, HasStop
  <2>3. FlagTypes'
    <3>1. BoolTypes'
      BY <1>0, <2>1 DEF FlagTypes, BoolTypes
    <3>2. PlaceTypes'
      BY <1>0, <2>1 DEF FlagTypes, PlaceTypes
    <3> QED
      BY <3>1, <3>2 DEF FlagTypes
  <2>4. Awaited' => Awaited
    BY <1>1, <2>1 DEF Awaited
  <2>5. Settled' /\ Resetting'
    BY <1>1, <2>1, <2>2, <2>4, Quiet
  <2> QED
    BY <1>1, <2>2, <2>3, <2>5 DEF IInv
<1>2. CASE MenuKey
  <2>1. PICK k \in {"ok", "exit", "stop"} :
          /\ Pressed(k, TRUE) /\ mvp_state' = mvp_state
          /\ is_stopping' = IF mediatype = "none" /\ is_stopping = "STOPPED_AGAIN"
                              THEN "RUNNING" ELSE is_stopping
    BY <1>2 DEF MenuKey
  <2>2. StateTypes' /\ (Halting' => Halting)
    BY <1>0, <2>1 DEF Halting
  <2> QED
    BY <1>1, <2>1, <2>2
<1>3. CASE StopKey
  <2>1. /\ mvp_state' = mvp_state /\ is_stopping' \in {"STOP_PENDING", "EMPTY_BUFFER"}
        /\ \E h \in BOOLEAN : Pressed("stop", h)
    BY <1>3 DEF StopKey, To
  <2>2. StateTypes' /\ (Halting' => Halting)
    BY <1>0, <2>1 DEF Halting
  <2> QED
    BY <1>1, <2>1, <2>2
<1>4. CASE PlayKey
  <2>1. /\ mvp_state' \in {mvp_state, "STEP_TO_PLAY"} /\ is_stopping' = is_stopping
        /\ Pressed("play", TRUE)
    BY <1>4 DEF PlayKey, To
  <2>2. StateTypes' /\ (Halting' => Halting)
    BY <1>0, <2>1 DEF Halting
  <2> QED
    BY <1>1, <2>1, <2>2
<1>5. CASE PauseKey
  <2>1. StateTypes' /\ (Halting' => Halting) /\ Pressed("pause", TRUE)
        /\ mvp_state' = mvp_state
    BY <1>0, <1>5 DEF PauseKey, Same, Halting
  <2> QED
    BY <1>1, <2>1
<1>6. CASE MoveKey
  <2>1. PICK k \in {"scan", "skip", "percent"} :
          /\ Pressed(k, TRUE) /\ is_stopping' = is_stopping
          /\ \/ mvp_state' = mvp_state
             \/ mvp_state' = CASE k = "scan" -> "STEP_PENDING"
                               [] k = "skip" -> "SKIP_PENDING"
                               [] k = "percent" -> "PERCENT_PENDING"
    BY <1>6 DEF MoveKey, To, Same
  <2>2. mvp_state' \in {mvp_state, "STEP_PENDING", "SKIP_PENDING", "PERCENT_PENDING"}
    BY <2>1
  <2>3. StateTypes' /\ (Halting' => Halting)
    BY <1>0, <2>1, <2>2 DEF Halting
  <2> QED
    BY <1>1, <2>1, <2>2, <2>3
<1>7. CASE PowerKey
  <2>1. StateTypes' /\ (Halting' => Halting) /\ Pressed("power", TRUE)
        /\ mvp_state' = "OFF"
    BY <1>0, <1>7 DEF PowerKey, To, Halting
  <2> QED
    BY <1>1, <2>1
<1>8. CASE ResetKey
  <2>1. /\ UNCHANGED <<is_stopping, mediatype, current, resetTime, inbuf, retryZero,
                       jumping, last_key, linked, requests, rfb, media, timer, missed>>
        /\ mvp_state' = "RUNNING" /\ paused' = FALSE
    BY <1>8 DEF ResetKey
  <2>2. StateTypes'
    BY <1>0, <2>1
  <2>3. FlagTypes'
    <3>1. BoolTypes'
      BY <1>0, <2>1 DEF FlagTypes, BoolTypes
    <3>2. PlaceTypes'
      BY <1>0, <2>1 DEF FlagTypes, PlaceTypes
    <3> QED
      BY <3>1, <3>2 DEF FlagTypes
  <2>4. Awaited' => Awaited
    BY <2>1 DEF Awaited, Halting
  <2>5. requests' \in Seq(Request) /\ (HasStop(requests) => HasStop(requests'))
    BY <2>1 DEF IInv, HasStop
  <2>6. Settled' /\ Resetting'
    BY <2>1, <2>4, <2>5, Quiet
  <2> QED
    BY <2>2, <2>3, <2>5, <2>6 DEF IInv
<1> QED
  BY <1>2, <1>3, <1>4, <1>5, <1>6, <1>7, <1>8 DEF Key

-----------------------------------------------------------------------------
(* The rfb thread.                                                         *)

\* What a command leaves: it begins no stop, and enters Writing only when a stop
\* is under way.
Handled ==
  /\ StateTypes' /\ (Halting' => Halting)
  /\ mvp_state' = "STOP_PENDING" => mvp_state = "STOP_PENDING"
  /\ requests' \in Seq(Request) /\ (HasStop(requests) => HasStop(requests'))
  /\ current' \in BOOLEAN /\ paused' \in BOOLEAN /\ jumping' \in BOOLEAN
  /\ rfb' \in {"idle", "play", "again", "stop", "connect", "stopwait"}
  /\ rfb' = "again" => Halting

\* RDC_PLAY asks for blocks, and begins no stop.
LEMMA PlayStep == ASSUME IInv, NEW named \in BOOLEAN, Play(named) PROVE Handled
<1> USE DEF StateTypes, States, Stops
<1>0. StateTypes /\ FlagTypes /\ requests \in Seq(Request)
  BY DEF IInv
<1>1. current' \in BOOLEAN /\ paused' \in BOOLEAN /\ jumping' \in BOOLEAN
  BY <1>0 DEF Play, FlagTypes, BoolTypes
<1>2. /\ rfb' \in {"idle", "play"}
      /\ \/ requests' = requests \/ Send(ReadIn(mvp_state)) \/ Send(<<"step">>)
         \/ Send(<<>>) \/ Send(<<"block">>)
      /\ \/ mvp_state' = mvp_state /\ is_stopping' = is_stopping
         \/ mvp_state' = "SEEK_TO_PLAY" /\ is_stopping' = is_stopping
         \/ mvp_state' = "LIVE" /\ is_stopping' = "STOP_PENDING"
  BY DEF Play, Same, To
<1>3. /\ StateTypes' /\ (Halting' => Halting)
      /\ mvp_state' = "STOP_PENDING" => mvp_state = "STOP_PENDING"
  BY <1>0, <1>2 DEF Halting
<1>4. requests' \in Seq(Request) /\ (HasStop(requests) => HasStop(requests'))
  BY <1>0, <1>2, SendKeeps, Sent DEF HasStop
<1> QED
  BY <1>1, <1>2, <1>3, <1>4 DEF Handled

LEMMA StopStep == ASSUME IInv, Stop PROVE Handled
<1>0. StateTypes /\ FlagTypes /\ requests \in Seq(Request)
  BY DEF IInv
<1>1. /\ paused' = FALSE /\ current' = current /\ jumping' = jumping
      /\ UNCHANGED <<requests, mvp_state, is_stopping>>
      /\ rfb' \in {"idle", "again", "stop", "connect", "stopwait"}
      /\ rfb' = "again" => is_stopping = "STOPPED"
  BY DEF Stop, Same
<1>2. current' \in BOOLEAN /\ paused' \in BOOLEAN /\ jumping' \in BOOLEAN
  BY <1>0, <1>1 DEF FlagTypes, BoolTypes
<1>3. /\ StateTypes' /\ (Halting' => Halting)
      /\ requests' \in Seq(Request) /\ (HasStop(requests) => HasStop(requests'))
  BY <1>0, <1>1 DEF StateTypes, Halting, HasStop
<1> QED
  BY <1>1, <1>2, <1>3 DEF Handled, Halting

\* The other commands.
LEMMA ScanStep == ASSUME IInv, rfb = "idle", Scan PROVE Handled
<1>0. StateTypes /\ FlagTypes /\ requests \in Seq(Request)
  BY DEF IInv
<1>1. /\ UNCHANGED <<current, paused, rfb, mvp_state, is_stopping>>
      /\ \/ requests' = requests /\ jumping' = jumping
         \/ Send(<<"seek">> \o ReadIn(mvp_state)) /\ jumping' = TRUE
  BY DEF Scan, Same
<1>2. current' \in BOOLEAN /\ paused' \in BOOLEAN /\ jumping' \in BOOLEAN
  BY <1>0, <1>1 DEF FlagTypes, BoolTypes
<1>3. StateTypes' /\ (Halting' => Halting)
  BY <1>0, <1>1 DEF StateTypes, Halting
<1>4. requests' \in Seq(Request) /\ (HasStop(requests) => HasStop(requests'))
  BY <1>0, <1>1, SendKeeps, Sent DEF HasStop
<1> QED
  BY <1>1, <1>2, <1>3, <1>4 DEF Handled

LEMMA MoveStep == ASSUME IInv, rfb = "idle", NEW c, Move(c) PROVE Handled
<1>0. StateTypes /\ FlagTypes /\ requests \in Seq(Request)
  BY DEF IInv
<1>1. /\ UNCHANGED <<jumping, paused, rfb>>
      /\ is_stopping' = is_stopping
      /\ mvp_state' \in {mvp_state, "SKIP_REPLAY_OK", "PERCENT_RUNNING", "SEEK_TO_PLAY"}
      /\ \/ requests' = requests \/ Send(<<"eight">>) \/ Send(<<"seek">>)
         \/ Send(<<"step">>)
  BY DEF Move, Same, To
<1>2. current' \in BOOLEAN
  BY Zenon DEF Move
<1>5. paused' \in BOOLEAN /\ jumping' \in BOOLEAN
  BY <1>0, <1>1 DEF FlagTypes, BoolTypes
<1>3. /\ StateTypes' /\ (Halting' => Halting)
      /\ mvp_state' = "STOP_PENDING" => mvp_state = "STOP_PENDING"
  BY <1>0, <1>1 DEF StateTypes, Halting, States
<1>4. requests' \in Seq(Request) /\ (HasStop(requests) => HasStop(requests'))
  BY <1>0, <1>1, SendKeeps, Sent DEF HasStop
<1> QED
  BY <1>1, <1>2, <1>3, <1>4, <1>5 DEF Handled

LEMMA MenuStep ==
  ASSUME IInv, rfb = "idle",
         SetDisplayState \/ (/\ paused' = TRUE /\ Same
                             /\ UNCHANGED <<current, jumping, rfb, requests>>)
  PROVE  Handled
<1>0. StateTypes /\ FlagTypes /\ requests \in Seq(Request)
  BY DEF IInv
<1>1. /\ mvp_state' = mvp_state /\ is_stopping' \in {is_stopping, "RUNNING"}
      /\ paused' \in {paused, TRUE}
      /\ UNCHANGED <<current, jumping, rfb, requests>>
  BY DEF SetDisplayState, Same
<1>2. current' \in BOOLEAN /\ paused' \in BOOLEAN /\ jumping' \in BOOLEAN
  BY <1>0, <1>1 DEF FlagTypes, BoolTypes
<1>3. StateTypes' /\ (Halting' => Halting)
  BY <1>0, <1>1 DEF StateTypes, Halting, Stops
<1>4. requests' \in Seq(Request) /\ (HasStop(requests) => HasStop(requests'))
  BY <1>0, <1>1 DEF HasStop
<1> QED
  BY <1>1, <1>2, <1>3, <1>4 DEF Handled

LEMMA RdcStep == ASSUME IInv, HandleRDCMessage PROVE IInv'
<1> DEFINE c == Head(rdc)
<1>1. /\ rfb = "idle" /\ resetTime' = FALSE
      /\ UNCHANGED <<mediatype, inbuf, retryZero, last_key, linked, media, timer,
                     missed>>
  BY DEF HandleRDCMessage
<1>2. \/ Play(FALSE) \/ Play(TRUE) \/ Stop \/ Scan \/ Move(c) \/ SetDisplayState
      \/ /\ paused' = TRUE /\ Same
         /\ UNCHANGED <<current, jumping, rfb, requests>>
  BY DEF HandleRDCMessage
<1> HIDE DEF c
<1>3. Handled
  BY <1>1, <1>2, PlayStep, StopStep, ScanStep, MoveStep, MenuStep
<1>4. FlagTypes'
  <2>1. FlagTypes
    BY DEF IInv
  <2>2. BoolTypes'
    BY <1>1, <1>3, <2>1 DEF FlagTypes, BoolTypes, Handled
  <2>3. PlaceTypes'
    BY <1>1, <1>3, <2>1 DEF FlagTypes, PlaceTypes, Handled
  <2> QED
    BY <2>2, <2>3 DEF FlagTypes
<1>5. Awaited' => Awaited
  BY <1>1, <1>3 DEF Awaited, Handled, Writing
<1>6. Settled' /\ Resetting'
  <2>1. /\ HasStop(requests) => HasStop(requests')
        /\ mvp_state' = "STOP_PENDING" => mvp_state = "STOP_PENDING"
    BY <1>3 DEF Handled
  <2> QED
    BY <1>1, <1>5, <2>1, Quiet
<1> QED
  BY <1>3, <1>4, <1>6 DEF IInv, Handled

\* The steps of the rfb thread after a sleep, and around its sockets.
LEMMA StopSentStep == ASSUME IInv, ClientStop PROVE IInv'
<1>0. StateTypes /\ FlagTypes /\ requests \in Seq(Request) /\ Resetting
  BY DEF IInv
<1>1. /\ UNCHANGED <<mvp_state, is_stopping, current>> /\ UNCHANGED rfbRest
      /\ StopSent
  BY DEF ClientStop, Same
<1>2. StateTypes' /\ Resetting'
  BY <1>0, <1>1 DEF StateTypes, Resetting, rfbRest
<1>3. CASE /\ rfb = "connect" /\ rfb' = "anew"
           /\ linked' \in BOOLEAN /\ requests' = <<>> /\ UNCHANGED missed
  <2>1. FlagTypes'
    <3>1. BoolTypes'
      BY <1>0, <1>1, <1>3 DEF FlagTypes, BoolTypes, rfbRest
    <3>2. PlaceTypes'
      BY <1>0, <1>1, <1>3 DEF FlagTypes, PlaceTypes, rfbRest
    <3> QED
      BY <3>1, <3>2 DEF FlagTypes
  <2>2. requests' \in Seq(Request)
    BY <1>3, Sent
  <2>3. Settled'
    BY <1>3 DEF Settled, StopAsked
  <2> QED
    BY <1>2, <2>1, <2>2, <2>3 DEF IInv
<1>4. CASE /\ rfb \in {"stop", "anew"} /\ SendStop /\ UNCHANGED linked
           /\ rfb' = IF rfb = "stop" THEN "sent" ELSE "anewsent"
  <2>1. /\ requests' \in Seq(Request) /\ (HasStop(requests') \/ missed')
        /\ missed' \in BOOLEAN
    BY <1>0, <1>4, StopKeeps DEF FlagTypes, BoolTypes
  <2>2. FlagTypes'
    <3>1. BoolTypes'
      BY <1>0, <1>1, <1>4, <2>1 DEF FlagTypes, BoolTypes, rfbRest
    <3>2. PlaceTypes'
      BY <1>0, <1>1, <1>4, <2>1 DEF FlagTypes, PlaceTypes, rfbRest
    <3> QED
      BY <3>1, <3>2 DEF FlagTypes
  <2>3. Settled'
    BY <2>1 DEF Settled, StopAsked
  <2> QED
    BY <1>2, <2>1, <2>2, <2>3 DEF IInv
<1> QED
  BY <1>1, <1>3, <1>4 DEF StopSent

LEMMA RfbSteps == ASSUME IInv, RfbStep PROVE IInv'
<1>0. StateTypes /\ FlagTypes /\ requests \in Seq(Request)
  BY DEF IInv
<1>1. CASE PlayWaited
  <2>1. /\ Send(<<"eight">>) /\ rfb = "play" /\ rfb' = "idle"
        /\ UNCHANGED <<mvp_state, is_stopping, current, linked, missed>>
        /\ UNCHANGED rfbRest
    BY <1>1 DEF PlayWaited, Same
  <2>2. requests' \in Seq(Request) /\ (HasStop(requests) => HasStop(requests'))
    BY <1>0, <2>1, SendKeeps, Sent
  <2>3. StateTypes' /\ FlagTypes'
    <3>1. BoolTypes'
      BY <1>0, <2>1 DEF FlagTypes, BoolTypes, rfbRest
    <3>2. PlaceTypes'
      BY <1>0, <2>1 DEF FlagTypes, PlaceTypes, rfbRest
    <3> QED
      BY <1>0, <2>1, <3>1, <3>2 DEF StateTypes, FlagTypes
  <2>4. Awaited' => Awaited
    BY <2>1 DEF Awaited, Halting, Writing, rfbRest
  <2>5. Settled' /\ Resetting'
    BY <2>1, <2>2, <2>4, Quiet DEF rfbRest
  <2> QED
    BY <2>2, <2>3, <2>5 DEF IInv
<1>2. CASE ClientStopped
  <2>1. /\ rfb \in {"sent", "anewsent"} /\ rfb' = "set" /\ current' = FALSE
        /\ mvp_state' \in {mvp_state, "RUNNING"} /\ is_stopping' = is_stopping
        /\ UNCHANGED <<linked, requests, missed>> /\ UNCHANGED rfbRest
    BY <1>2 DEF ClientStopped, To
  <2>2. requests' \in Seq(Request) /\ (HasStop(requests) => HasStop(requests'))
    BY <1>0, <2>1 DEF HasStop
  <2>3. StateTypes'
    BY <1>0, <2>1 DEF StateTypes, States
  <2>4. FlagTypes'
    <3>1. BoolTypes'
      BY <1>0, <2>1 DEF FlagTypes, BoolTypes, rfbRest
    <3>2. PlaceTypes'
      BY <1>0, <2>1 DEF FlagTypes, PlaceTypes, rfbRest
    <3> QED
      BY <3>1, <3>2 DEF FlagTypes
  <2>5. Awaited' => Awaited
    BY <2>1 DEF Awaited, Halting, Writing, rfbRest
  <2>6. Settled' /\ Resetting'
    BY <2>1, <2>2, <2>5, Quiet DEF rfbRest
  <2> QED
    BY <2>2, <2>3, <2>4, <2>6 DEF IInv
<1>3. CASE StopSet
  <2>1. /\ rfb \in {"set", "again"} /\ rfb' = "idle" /\ mvp_state' = mvp_state
        /\ is_stopping' \in {"STOPPED", "STOPPED_AGAIN"}
        /\ UNCHANGED <<current, linked, requests, missed>> /\ UNCHANGED rfbRest
    BY <1>3 DEF StopSet, To
  <2>2. requests' \in Seq(Request) /\ (HasStop(requests) => HasStop(requests'))
    BY <1>0, <2>1 DEF HasStop
  <2>3. StateTypes'
    BY <1>0, <2>1 DEF StateTypes, Stops
  <2>4. FlagTypes'
    <3>1. BoolTypes'
      BY <1>0, <2>1 DEF FlagTypes, BoolTypes, rfbRest
    <3>2. PlaceTypes'
      BY <1>0, <2>1 DEF FlagTypes, PlaceTypes, rfbRest
    <3> QED
      BY <3>1, <3>2 DEF FlagTypes
  <2>5. Awaited' => Awaited
    BY <2>1 DEF Awaited, Writing
  <2>6. Settled' /\ Resetting'
    BY <2>1, <2>2, <2>5, Quiet DEF rfbRest
  <2> QED
    BY <2>2, <2>3, <2>4, <2>6 DEF IInv
<1>4. CASE StopWaited
  <2>1. /\ rfb = "stopwait" /\ rfb' = "idle"
        /\ UNCHANGED <<mvp_state, is_stopping, requests, current, linked, missed>>
        /\ UNCHANGED rfbRest
    BY <1>4 DEF StopWaited, Same
  <2>2. requests' \in Seq(Request) /\ (HasStop(requests) => HasStop(requests'))
    BY <1>0, <2>1 DEF HasStop
  <2>3. StateTypes' /\ FlagTypes'
    <3>1. BoolTypes'
      BY <1>0, <2>1 DEF FlagTypes, BoolTypes, rfbRest
    <3>2. PlaceTypes'
      BY <1>0, <2>1 DEF FlagTypes, PlaceTypes, rfbRest
    <3> QED
      BY <1>0, <2>1, <3>1, <3>2 DEF StateTypes, FlagTypes
  <2>4. Awaited' => Awaited
    BY <2>1 DEF Awaited, Halting, Writing, rfbRest
  <2>5. Settled' /\ Resetting'
    BY <2>1, <2>2, <2>4, Quiet DEF rfbRest
  <2> QED
    BY <2>2, <2>3, <2>5 DEF IInv
<1> QED
  BY <1>1, <1>2, <1>3, <1>4, RdcStep, StopSentStep DEF RfbStep

-----------------------------------------------------------------------------
(* The media thread.                                                       *)

\* What a step of it leaves when it begins no stop and ends none.
Passed ==
  /\ StateTypes' /\ FlagTypes' /\ (Halting' => Halting)
  /\ mvp_state' = "STOP_PENDING" => mvp_state = "STOP_PENDING"
  /\ requests' \in Seq(Request) /\ (HasStop(requests) => HasStop(requests'))
  /\ rfb' = rfb /\ missed' = missed /\ media' # "eof"
  /\ media \in Stopping => media' \in Stopping
  /\ media' \in {"reset", "ended"} => media \in {"reset", "ended"}

LEMMA PassedStep == ASSUME IInv, Passed PROVE IInv'
<1>1. Awaited' => Awaited
  BY DEF Passed, Awaited
<1>2. Settled' /\ Resetting'
  BY <1>1, Quiet DEF Passed
<1> QED
  BY <1>2 DEF IInv, Passed

LEMMA MessageIs ==
  ASSUME NEW r, Message(r)
  PROVE  /\ media = "idle" /\ requests # <<>> /\ Head(requests) = r
         /\ resetTime' = FALSE /\ UNCHANGED <<last_key, linked, rdc, rfb, timer>>
BY DEF Message, mediaRest

LEMMA GoesIs ==
  ASSUME NEW s, NEW p, Goes(s, p)
  PROVE  /\ Send(s) /\ media' = p
         /\ UNCHANGED <<paused, resetTime, inbuf, retryZero, jumping, last_key, linked,
                        rdc, rfb, timer>>
BY DEF Goes, mediaRest

\* An answer other than to a stop.
LEMMA AnswerStep == ASSUME IInv, MediaEight \/ MediaRequest \/ MediaSeek PROVE Passed
<1> USE DEF StateTypes, States, Stops
<1>0. StateTypes /\ FlagTypes /\ requests \in Seq(Request)
  BY DEF IInv
<1>1. CASE MediaEight
  <2>1. Message("eight") /\ media' \in {"idle", "dead"}
        /\ UNCHANGED <<mvp_state, is_stopping, mediatype, current, paused, inbuf,
                       retryZero, jumping, missed>>
        /\ \/ requests' = Tail(requests) \o <<"request">>
           \/ requests' = Tail(requests) \o <<>>
    BY <1>1 DEF MediaEight, AnsweredWith, Same
  <2>2. /\ media = "idle" /\ requests # <<>> /\ Head(requests) = "eight"
        /\ resetTime' = FALSE /\ UNCHANGED <<last_key, linked, rdc, rfb, timer>>
    BY <2>1, MessageIs
  <2>3. requests' \in Seq(Request) /\ (HasStop(requests) => HasStop(requests'))
    BY <1>0, <2>1, <2>2, AnswerKeeps, Sent
  <2>4. FlagTypes'
    <3>1. BoolTypes'
      BY <1>0, <2>1, <2>2 DEF FlagTypes, BoolTypes
    <3>2. PlaceTypes'
      BY <1>0, <2>1, <2>2 DEF FlagTypes, PlaceTypes
    <3> QED
      BY <3>1, <3>2 DEF FlagTypes
  <2>5. StateTypes' /\ (Halting' => Halting)
    BY <1>0, <2>1 DEF Halting
  <2> QED
    BY <2>1, <2>2, <2>3, <2>4, <2>5 DEF Passed, Stopping
<1>2. CASE MediaRequest
  <2>1. /\ Message("request") /\ requests' = Tail(requests)
        /\ UNCHANGED <<mvp_state, current, paused, inbuf, retryZero, jumping, missed>>
        /\ is_stopping' \in {is_stopping, "RUNNING"}
        /\ mediatype' \in {mediatype, "audio", "video"}
        /\ media' \in {media, "request"}
    BY <1>2 DEF MediaRequest, Answered, Same, To
  <2>2. /\ media = "idle" /\ requests # <<>> /\ Head(requests) = "request"
        /\ resetTime' = FALSE /\ UNCHANGED <<last_key, linked, rdc, rfb, timer>>
    BY <2>1, MessageIs
  <2>3. requests' \in Seq(Request) /\ (HasStop(requests) => HasStop(requests'))
    BY <1>0, <2>1, <2>2, TailKeeps
  <2>4. FlagTypes'
    <3>1. BoolTypes'
      BY <1>0, <2>1, <2>2 DEF FlagTypes, BoolTypes
    <3>2. PlaceTypes'
      BY <1>0, <2>1, <2>2 DEF FlagTypes, PlaceTypes
    <3> QED
      BY <3>1, <3>2 DEF FlagTypes
  <2>5. StateTypes' /\ (Halting' => Halting)
    BY <1>0, <2>1 DEF Halting
  <2> QED
    BY <2>1, <2>2, <2>3, <2>4, <2>5 DEF Passed, Stopping
<1>3. CASE MediaSeek
  <2>1. /\ Message("seek")
        /\ UNCHANGED <<is_stopping, mediatype, current, paused, inbuf, retryZero, missed>>
        /\ mvp_state' \in {mvp_state, "RUNNING"}
        /\ jumping' \in {jumping, TRUE}
        /\ media' \in {media, "seek", "skip"}
        /\ \/ requests' = Tail(requests) \o <<"step">>
           \/ requests' = Tail(requests) \o <<"block">>
           \/ requests' = Tail(requests) \o ReadIn(mvp_state)
    BY <1>3 DEF MediaSeek, AnsweredWith, Same, To
  <2>2. /\ media = "idle" /\ requests # <<>> /\ Head(requests) = "seek"
        /\ resetTime' = FALSE /\ UNCHANGED <<last_key, linked, rdc, rfb, timer>>
    BY <2>1, MessageIs
  <2>3. requests' \in Seq(Request) /\ (HasStop(requests) => HasStop(requests'))
    BY <1>0, <2>1, <2>2, AnswerKeeps, Sent
  <2>6. jumping' \in BOOLEAN
    BY <1>0, <2>1 DEF FlagTypes, BoolTypes
  <2>4. FlagTypes'
    <3>1. BoolTypes'
      BY <1>0, <2>1, <2>2, <2>6 DEF FlagTypes, BoolTypes
    <3>2. PlaceTypes'
      BY <1>0, <2>1, <2>2, <2>6 DEF FlagTypes, PlaceTypes
    <3> QED
      BY <3>1, <3>2 DEF FlagTypes
  <2>5. StateTypes' /\ (Halting' => Halting)
    BY <1>0, <2>1 DEF Halting
  <2> QED
    BY <2>1, <2>2, <2>3, <2>4, <2>5 DEF Passed, Stopping
<1> QED
  BY <1>1, <1>2, <1>3

\* A block or a step of data, or the end of the file.
LEMMA BlockStep == ASSUME IInv, MediaBlock PROVE Passed
<1> USE DEF StateTypes, States, Stops
<1>0. StateTypes /\ FlagTypes /\ requests \in Seq(Request)
  BY DEF IInv
<1>1. PICK r \in {"block", "step"} :
        /\ Message(r) /\ Answered
        /\ To(AfterBlock(IF r = "step" THEN AfterStep(mvp_state) ELSE mvp_state),
              is_stopping)
  BY DEF MediaBlock
<1>2. /\ media' \in {"queue", "end"} /\ inbuf' \in {inbuf, TRUE}
      /\ retryZero' \in {retryZero, FALSE}
      /\ UNCHANGED <<mediatype, current, paused, jumping, missed>>
  BY DEF MediaBlock
<1>3. /\ media = "idle" /\ requests # <<>> /\ Head(requests) = r
      /\ resetTime' = FALSE /\ UNCHANGED <<last_key, linked, rdc, rfb, timer>>
  BY <1>1, MessageIs
<1>4. /\ StateTypes' /\ is_stopping' = is_stopping
      /\ mvp_state' = "STOP_PENDING" => mvp_state = "STOP_PENDING"
  BY <1>0, <1>1 DEF AfterBlock, AfterStep, To
<1>5. requests' \in Seq(Request) /\ (HasStop(requests) => HasStop(requests'))
  BY <1>0, <1>1, <1>3, TailKeeps DEF Answered
<1>6. inbuf' \in BOOLEAN /\ retryZero' \in BOOLEAN
  BY <1>0, <1>2 DEF FlagTypes, BoolTypes
<1>7. FlagTypes'
  <2>1. BoolTypes'
    BY <1>0, <1>2, <1>3, <1>6 DEF FlagTypes, BoolTypes
  <2>2. PlaceTypes'
    BY <1>0, <1>2, <1>3, <1>6 DEF FlagTypes, PlaceTypes
  <2> QED
    BY <2>1, <2>2 DEF FlagTypes
<1>8. Halting' => Halting
  BY <1>4 DEF Halting
<1> QED
  BY <1>2, <1>3, <1>4, <1>5, <1>7, <1>8 DEF Passed, Stopping

\* The end of the file asks for a stop and then begins it.
LEMMA EofStep == ASSUME IInv, MediaEnd PROVE IInv'
<1>0. StateTypes /\ FlagTypes /\ requests \in Seq(Request) /\ media = "end"
  BY DEF IInv, MediaEnd
<1>1. /\ UNCHANGED <<mvp_state, is_stopping, mediatype, current, paused, resetTime,
                     inbuf, jumping, last_key, linked, rdc, rfb, timer>>
      /\ retryZero' \in {retryZero, TRUE}
      /\ \/ media' \in {"confirm", "idle"} /\ UNCHANGED <<requests, missed>>
         \/ SendStop /\ media' = "eof"
  BY DEF MediaEnd, mediaRest, Same
<1>2. StateTypes' /\ retryZero' \in BOOLEAN /\ Resetting'
  BY <1>0, <1>1 DEF StateTypes, FlagTypes, BoolTypes, Resetting
<1>3. CASE media' \in {"confirm", "idle"} /\ UNCHANGED <<requests, missed>>
  <2>1. FlagTypes'
    <3>1. BoolTypes'
      BY <1>0, <1>1, <1>2, <1>3 DEF FlagTypes, BoolTypes
    <3>2. PlaceTypes'
      BY <1>0, <1>1, <1>2, <1>3 DEF FlagTypes, PlaceTypes
    <3> QED
      BY <3>1, <3>2 DEF FlagTypes
  <2>2. requests' \in Seq(Request) /\ (HasStop(requests) => HasStop(requests'))
    BY <1>0, <1>3 DEF HasStop
  <2>3. Halting' => Halting
    BY <1>1 DEF Halting
  <2>4. Passed
    BY <1>0, <1>1, <1>2, <1>3, <2>1, <2>2, <2>3 DEF Passed, Stopping
  <2> QED
    BY <2>4, PassedStep
<1>4. CASE SendStop /\ media' = "eof"
  <2>1. /\ requests' \in Seq(Request) /\ (HasStop(requests') \/ missed')
        /\ missed' \in BOOLEAN
    BY <1>0, <1>4, StopKeeps DEF FlagTypes, BoolTypes
  <2>2. FlagTypes'
    <3>1. BoolTypes'
      BY <1>0, <1>1, <1>2, <1>4, <2>1 DEF FlagTypes, BoolTypes
    <3>2. PlaceTypes'
      BY <1>0, <1>1, <1>2, <1>4, <2>1 DEF FlagTypes, PlaceTypes
    <3> QED
      BY <3>1, <3>2 DEF FlagTypes
  <2>3. Settled'
    BY <2>1 DEF Settled, StopAsked
  <2> QED
    BY <1>2, <2>1, <2>2, <2>3 DEF IInv
<1> QED
  BY <1>1, <1>3, <1>4

\* What follows a sleep or a wait, apart from the states.
LEMMA WaitStep ==
  ASSUME IInv, MediaOpen \/ MediaConfirm \/ MediaOpened \/ MediaEmpty \/ Clear
  PROVE  Passed
<1>0. StateTypes /\ FlagTypes /\ requests \in Seq(Request)
  BY DEF IInv
<1>1. CASE MediaOpen
  <2>1. /\ media = "request" /\ media' \in {"open", "opened"}
        /\ mvp_state' \in {mvp_state, "RUNNING"} /\ is_stopping' = is_stopping
        /\ UNCHANGED <<mediatype, current, paused, resetTime, inbuf, retryZero,
                       requests, missed, last_key, linked, rdc, rfb, timer>>
    BY <1>1 DEF MediaOpen, mediaRest, Same, To
  <2>2. jumping' = jumping \/ jumping' = (jumping \/ mediatype = "video")
    BY <1>1 DEF MediaOpen
  <2>3. jumping' \in BOOLEAN
    BY <1>0, <2>2, Zenon DEF FlagTypes, BoolTypes
  <2>4. FlagTypes'
    <3>1. BoolTypes'
      BY <1>0, <2>1, <2>3 DEF FlagTypes, BoolTypes
    <3>2. PlaceTypes'
      BY <1>0, <2>1, <2>3 DEF FlagTypes, PlaceTypes
    <3> QED
      BY <3>1, <3>2 DEF FlagTypes
  <2>5. StateTypes' /\ (Halting' => Halting)
    BY <1>0, <2>1 DEF Halting, StateTypes, States
  <2>6. requests' \in Seq(Request) /\ (HasStop(requests) => HasStop(requests'))
    BY <1>0, <2>1 DEF HasStop
  <2> QED
    BY <2>1, <2>4, <2>5, <2>6 DEF Passed, Stopping
<1>2. ASSUME NEW s \in Seq(Request), NEW p, Goes(s, p),
             p \in {"idle", "clear", "opened", "cleared"},
             media \in Stopping => p \in Stopping,
             UNCHANGED <<mvp_state, is_stopping, mediatype, current, missed>>
      PROVE  Passed
  <2>1. /\ Send(s) /\ media' = p
        /\ UNCHANGED <<paused, resetTime, inbuf, retryZero, jumping, last_key, linked,
                       rdc, rfb, timer>>
    BY <1>2, GoesIs
  <2>2. requests' \in Seq(Request) /\ (HasStop(requests) => HasStop(requests'))
    BY <1>0, <2>1, SendKeeps
  <2>3. FlagTypes'
    <3>1. BoolTypes'
      BY <1>0, <1>2, <2>1 DEF FlagTypes, BoolTypes
    <3>2. PlaceTypes'
      BY <1>0, <1>2, <2>1 DEF FlagTypes, PlaceTypes
    <3> QED
      BY <3>1, <3>2 DEF FlagTypes
  <2>4. StateTypes' /\ (Halting' => Halting)
    BY <1>0, <1>2 DEF Halting, StateTypes
  <2> QED
    BY <1>2, <2>1, <2>2, <2>3, <2>4 DEF Passed
<1>3. CASE MediaConfirm
  BY <1>2, <1>3, Sent DEF MediaConfirm, Same, Stopping
<1>4. CASE MediaOpened
  BY <1>2, <1>4, Sent DEF MediaOpened, Same, Stopping
<1>5. CASE MediaEmpty
  BY <1>2, <1>5, Sent DEF MediaEmpty, Same, Stopping
<1>6. CASE Clear
  BY <1>2, <1>6, Sent DEF Clear, Same, Stopping
<1> QED
  BY <1>1, <1>3, <1>4, <1>5, <1>6

\* The answer to a stop.
LEMMA AnswerStop == ASSUME IInv, MediaStop PROVE IInv'
<1>0. StateTypes /\ FlagTypes /\ requests \in Seq(Request)
  BY DEF IInv
<1>1. /\ media' = "stop" /\ requests' = Tail(requests) /\ requests # <<>>
      /\ inbuf' = FALSE /\ resetTime' = FALSE
      /\ UNCHANGED <<mvp_state, is_stopping, mediatype, current, paused, retryZero,
                     jumping, missed, last_key, linked, rdc, rfb, timer>>
  BY MessageIs DEF MediaStop, Answered, Same
<1>2. StateTypes'
  BY <1>0, <1>1 DEF StateTypes
<1>3. FlagTypes'
  <2>1. BoolTypes'
    BY <1>0, <1>1 DEF FlagTypes, BoolTypes
  <2>2. PlaceTypes'
    BY <1>0, <1>1 DEF FlagTypes, PlaceTypes
  <2> QED
    BY <2>1, <2>2 DEF FlagTypes
<1>4. requests' \in Seq(Request)
  BY <1>0, <1>1, TailKeeps
<1>5. Settled' /\ Resetting'
  BY <1>1 DEF Settled, StopAsked, Resetting
<1> QED
  BY <1>2, <1>3, <1>4, <1>5 DEF IInv

\* The assignments of the media thread.
LEMMA StateStep == ASSUME IInv, MediaState PROVE IInv'
<1>0. StateTypes /\ FlagTypes /\ requests \in Seq(Request) /\ Settled
  BY DEF IInv
<1>1. /\ media \in {"eof", "seek", "skip", "cleared"}
      /\ Goes(<<>>, IF media = "cleared" THEN "reset" ELSE "idle")
      /\ mvp_state' \in {"STOP_PENDING", "STEP_SEEK", "LIVE", "RUNNING"}
      /\ mvp_state' = "STOP_PENDING" => media = "eof"
      /\ UNCHANGED <<is_stopping, mediatype, missed>>
  BY DEF MediaState
<1>2. current' \in BOOLEAN
  BY Zenon DEF MediaState
<1>3. /\ Send(<<>>) /\ media' = IF media = "cleared" THEN "reset" ELSE "idle"
      /\ UNCHANGED <<paused, resetTime, inbuf, retryZero, jumping, last_key, linked,
                     rdc, rfb, timer>>
  BY <1>1, GoesIs
<1>4. requests' \in Seq(Request) /\ (HasStop(requests) => HasStop(requests'))
  BY <1>0, <1>3, SendKeeps, Sent
<1>5. StateTypes'
  BY <1>0, <1>1 DEF StateTypes, States
<1>6. FlagTypes'
  <2>1. BoolTypes'
    BY <1>0, <1>1, <1>2, <1>3 DEF FlagTypes, BoolTypes
  <2>2. PlaceTypes'
    BY <1>0, <1>1, <1>2, <1>3 DEF FlagTypes, PlaceTypes
  <2> QED
    BY <2>1, <2>2 DEF FlagTypes
<1>7. Awaited' => Awaited
  BY <1>1, <1>3 DEF Awaited, Halting
<1>8. StopAsked => StopAsked'
  BY <1>1, <1>3, <1>4 DEF StopAsked
<1>9. Settled' /\ Resetting'
  <2>1. Settled'
    BY <1>0, <1>1, <1>7, <1>8 DEF Settled
  <2>2. Resetting'
    BY <1>1, <1>3 DEF Resetting
  <2> QED
    BY <2>1, <2>2
<1> QED
  BY <1>4, <1>5, <1>6, <1>9 DEF IInv

\* The end of MEDIA_STOP: a stop that was sent meanwhile is in the queue, or has
\* been missed.
LEMMA EndStep == ASSUME IInv, MediaReset \/ MediaEnded PROVE IInv'
<1>0. StateTypes /\ FlagTypes /\ requests \in Seq(Request) /\ Resetting
  BY DEF IInv
<1>1. CASE MediaReset
  <2>1. /\ media = "reset" /\ Goes(<<>>, "ended") /\ mediatype' = "none"
        /\ UNCHANGED <<mvp_state, is_stopping, current, missed>>
    BY <1>1 DEF MediaReset, Same
  <2>2. /\ Send(<<>>) /\ media' = "ended"
        /\ UNCHANGED <<paused, resetTime, inbuf, retryZero, jumping, last_key, linked,
                       rdc, rfb, timer>>
    BY <2>1, GoesIs
  <2>3. requests' \in Seq(Request) /\ (HasStop(requests) => HasStop(requests'))
    BY <1>0, <2>2, SendKeeps, Sent
  <2>4. FlagTypes'
    <3>1. BoolTypes'
      BY <1>0, <2>1, <2>2 DEF FlagTypes, BoolTypes
    <3>2. PlaceTypes'
      BY <1>0, <2>1, <2>2 DEF FlagTypes, PlaceTypes
    <3> QED
      BY <3>1, <3>2 DEF FlagTypes
  <2>5. StateTypes' /\ (Halting' => Halting)
    BY <1>0, <2>1 DEF Halting, StateTypes
  <2>6. Passed
    BY <2>1, <2>2, <2>3, <2>4, <2>5 DEF Passed, Stopping
  <2> QED
    BY <2>6, PassedStep
<1>2. CASE MediaEnded
  <2>1. /\ media = "ended" /\ Goes(<<>>, "idle") /\ is_stopping' = "RUNNING"
        /\ UNCHANGED <<mvp_state, mediatype, current>>
        /\ missed' = (missed \/ (rfb \in Writing /\ ~HasStop(requests)))
    BY <1>2 DEF MediaEnded, Writing
  <2>2. /\ Send(<<>>) /\ media' = "idle"
        /\ UNCHANGED <<paused, resetTime, inbuf, retryZero, jumping, last_key, linked,
                       rdc, rfb, timer>>
    BY <2>1, GoesIs
  <2>3. requests' \in Seq(Request) /\ (HasStop(requests) => HasStop(requests'))
    BY <1>0, <2>2, SendKeeps, Sent
  <2>4. missed' \in BOOLEAN
    BY <2>1, Zenon
  <2>5. FlagTypes'
    <3>1. BoolTypes'
      BY <1>0, <2>1, <2>2, <2>4 DEF FlagTypes, BoolTypes
    <3>2. PlaceTypes'
      BY <1>0, <2>1, <2>2, <2>4 DEF FlagTypes, PlaceTypes
    <3> QED
      BY <3>1, <3>2 DEF FlagTypes
  <2>6. StateTypes' /\ ~Halting'
    BY <1>0, <2>1 DEF Halting, StateTypes, Stops, Resetting
  <2>7. Resetting'
    BY <2>2 DEF Resetting
  <2>8. Settled'
    <3> SUFFICES ASSUME Awaited', ~missed' PROVE StopAsked'
      BY DEF Settled
    <3>1. rfb \in Writing
      BY <2>2, <2>6 DEF Awaited
    <3>2. HasStop(requests)
      BY <2>1, <3>1
    <3> QED
      BY <2>3, <3>2 DEF StopAsked
  <2> QED
    BY <2>3, <2>5, <2>6, <2>7, <2>8 DEF IInv
<1> QED
  BY <1>1, <1>2

\* A block goes into the pipe.
LEMMA QueueStep == ASSUME IInv, QueueData PROVE Passed
<1>0. StateTypes /\ FlagTypes /\ requests \in Seq(Request)
  BY DEF IInv
<1>1. /\ media \in {"idle", "queue"} /\ media' = "idle"
      /\ UNCHANGED <<mediatype, current, paused, retryZero, jumping, missed, last_key,
                     linked, rdc, rfb, timer>>
  BY DEF QueueData, mediaRest
<1>2. inbuf' \in BOOLEAN
  BY DEF QueueData
<1>3. ASSUME Queued
      PROVE  /\ resetTime' = resetTime \/ resetTime' = TRUE
             /\ is_stopping' = is_stopping
             /\ mvp_state' = mvp_state \/ mvp_state' = "STEP_SEEK"
             /\ requests' = requests \/ Send(<<>>) \/ Send(<<"block">>) \/ Send(<<"step">>)
  BY <1>3 DEF Queued, Same, To
<1>4. /\ resetTime' = resetTime \/ resetTime' = TRUE
      /\ is_stopping' = is_stopping
      /\ mvp_state' = mvp_state \/ mvp_state' = "STEP_SEEK"
      /\ requests' = requests \/ Send(<<>>) \/ Send(<<"block">>) \/ Send(<<"step">>)
  BY <1>3 DEF QueueData, Same
<1>5. StateTypes' /\ (Halting' => Halting)
  BY <1>0, <1>4 DEF Halting, StateTypes, States
<1>6. resetTime' \in BOOLEAN
  BY <1>0, <1>4, Zenon DEF FlagTypes, BoolTypes
<1>7. FlagTypes'
  <2>1. BoolTypes'
    BY <1>0, <1>1, <1>2, <1>6 DEF FlagTypes, BoolTypes
  <2>2. PlaceTypes'
    BY <1>0, <1>1, <1>2, <1>6 DEF FlagTypes, PlaceTypes
  <2> QED
    BY <2>1, <2>2 DEF FlagTypes
<1>8. requests' \in Seq(Request) /\ (HasStop(requests) => HasStop(requests'))
  BY <1>0, <1>4, SendKeeps, Sent DEF HasStop
<1> QED
  BY <1>1, <1>4, <1>5, <1>7, <1>8 DEF Passed, Stopping

LEMMA MediaSteps == ASSUME IInv, MediaStep \/ Clear PROVE IInv'
BY PassedStep, AnswerStep, BlockStep, EofStep, WaitStep, AnswerStop, StateStep,
   EndStep, QueueStep DEF MediaStep

\* The timer thread ends a stop on its own authority: it asks again.
LEMMA TimerStep == ASSUME IInv, mvp_timer_callback \/ ReadJump PROVE IInv'
<1>0. StateTypes /\ FlagTypes /\ requests \in Seq(Request)
  BY DEF IInv
<1>1. /\ UNCHANGED <<media, mediatype, current, inbuf, retryZero, last_key, linked, rfb,
                     missed>>
      /\ paused' = paused \/ paused' = FALSE
      /\ jumping' = jumping \/ jumping' = FALSE
      /\ resetTime' = resetTime \/ resetTime' = FALSE
      /\ timer' = timer \/ timer' = "idle" \/ timer' = "sent"
      /\ requests' = requests \/ Send(ReadIn(mvp_state))
      /\ \/ UNCHANGED <<mvp_state, is_stopping>>
         \/ mvp_state' = "RUNNING" /\ is_stopping' = "RUNNING"
  BY DEF mvp_timer_callback, ReadJump, Same, To, mediaRest
<1>2. StateTypes' /\ (Halting' => Halting)
  BY <1>0, <1>1 DEF StateTypes, Halting, States, Stops
<1>3. paused' \in BOOLEAN /\ jumping' \in BOOLEAN /\ resetTime' \in BOOLEAN
  BY <1>0, <1>1, Zenon DEF FlagTypes, BoolTypes
<1>4. FlagTypes'
  <2>1. BoolTypes'
    BY <1>0, <1>1, <1>3 DEF FlagTypes, BoolTypes
  <2>2. PlaceTypes'
    BY <1>0, <1>1, <1>3 DEF FlagTypes, PlaceTypes
  <2> QED
    BY <2>1, <2>2 DEF FlagTypes
<1>5. requests' \in Seq(Request) /\ (HasStop(requests) => HasStop(requests'))
  BY <1>0, <1>1, SendKeeps, Sent DEF HasStop
<1>6. Awaited' => Awaited
  BY <1>1, <1>2 DEF Awaited
<1>7. Settled' /\ Resetting'
  BY <1>1, <1>5, <1>6, Quiet
<1> QED
  BY <1>2, <1>4, <1>5, <1>7 DEF IInv

LEMMA NextIInv == ASSUME IInv, [Next]_vars PROVE IInv'
<1>1. CASE UNCHANGED vars
  BY <1>1 DEF vars, IInv, StateTypes, FlagTypes, BoolTypes, PlaceTypes, Settled,
     Awaited, Halting, StopAsked, HasStop, Resetting
<1>2. CASE Next
  BY <1>2, KeyStep, RfbSteps, MediaSteps, TimerStep DEF Next
<1> QED
  BY <1>1, <1>2

LEMMA Invariance == Spec => []IInv
BY InitIInv, NextIInv, PTL DEF Spec

\* The client thinks that a show is ending only while its MEDIA_STOP is under
\* way or was missed, however many keys are pressed, commands come and blocks are
\* late.
THEOREM StopIsUnderWay == Spec => []StopUnderWay
<1>1. IInv => StopUnderWay
  BY DEF IInv, Settled, Awaited, StopUnderWay
<1> QED
  BY <1>1, Invariance, PTL

\* The states, the flags and the requests keep their types.
THEOREM TypeCorrect == ASSUME Presses \in Nat PROVE Spec => []TypeOK
<1> DEFINE Bounded == pressed \in 0..Presses
<1>1. Init => Bounded
  BY DEF Init
<1>2. Bounded /\ [Next]_vars => Bounded'
  <2> SUFFICES ASSUME Bounded, [Next]_vars PROVE Bounded'
    OBVIOUS
  <2>1. CASE Key
    BY <2>1 DEF Key, MenuKey, StopKey, PlayKey, PauseKey, MoveKey, PowerKey,
       ResetKey, Pressed
  <2>2. CASE RfbStep
    BY <2>2 DEF RfbStep, HandleRDCMessage, PlayWaited, ClientStop, ClientStopped,
       StopSet, StopWaited, rfbRest
  <2>3. CASE MediaStep \/ Clear
    BY <2>3 DEF MediaStep, MediaEight, MediaRequest, MediaOpen, MediaSeek, MediaBlock,
       MediaEnd, MediaStop, MediaConfirm, MediaOpened, MediaState, MediaReset,
       MediaEnded, MediaEmpty, Clear, QueueData, Message, Goes, mediaRest
  <2>4. CASE mvp_timer_callback \/ ReadJump \/ UNCHANGED vars
    BY <2>4 DEF mvp_timer_callback, ReadJump, vars, mediaRest
  <2> QED
    BY <2>1, <2>2, <2>3, <2>4 DEF Next
<1>3. IInv /\ Bounded => TypeOK
  BY DEF IInv, StateTypes, FlagTypes, BoolTypes, PlaceTypes, TypeOK, Request
<1> HIDE DEF Bounded
<1> QED
  BY <1>1, <1>2, <1>3, Invariance, PTL DEF Spec
============================================================================
