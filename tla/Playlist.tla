------------------------------ MODULE Playlist ------------------------------
(***************************************************************************)
(* The playlist (src/playlist.c), which two threads move along: the GUI    *)
(* thread with the keys of the playlist screen (src/gui.c, src/fb.c), and  *)
(* the audio thread (src/audio.c) at the end of a song.  A mutex guards    *)
(* each change of the list, but not the steps that lead to it.             *)
(*                                                                         *)
(* An item is a number, and a list a sequence of items; every list has     *)
(* items of its own, so that an old item is recognised.  Item 0 is NULL.   *)
(***************************************************************************)
EXTENDS Integers, Sequences

CONSTANTS
  Songs,     \* items of a list
  Lists,     \* bound: how many lists are made
  Keys       \* what the user does, see Key

Items == 0..(Songs * Lists)

VARIABLES
  list, made,          \* the list, and the number of lists made
  playlist,            \* the current item
  repeat,              \* playlist_repeat
  current,             \* is current a file, not NULL?
  audio_playing, audio_stop,
  apc, anext,          \* the audio thread, and the argument of playlist_change
  gpc, gnext,          \* the GUI thread, and the same
  stale,               \* ghost: an item that had been freed was used
  hasty                \* ghost: an open failed, or a list was freed without
                       \* waiting for the audio thread

vars == <<list, made, playlist, repeat, current, audio_playing, audio_stop,
          apc, anext, gpc, gnext, stale, hasty>>

audio == <<audio_playing, audio_stop>>
shared == <<list, made, playlist, repeat, current, stale, hasty>>

Init ==
  /\ list = <<>> /\ made = 0 /\ playlist = 0 /\ repeat = FALSE /\ current = FALSE
  /\ audio_playing = FALSE /\ audio_stop = FALSE
  /\ apc = "top" /\ anext = 0 /\ gpc = "idle" /\ gnext = 0
  /\ stale = FALSE /\ hasty = FALSE

-----------------------------------------------------------------------------
Live == {list[i] : i \in DOMAIN list}

At(item) == CHOOSE i \in DOMAIN list : list[i] = item

\* item->next, or the head of the list.
Following(item) ==
  IF item \notin Live THEN 0
  ELSE LET i == At(item) IN
       CASE i < Len(list) -> list[i + 1]
         [] i = Len(list) /\ repeat -> list[1]
         [] OTHER -> 0

Preceding(item) ==
  IF item \notin Live \/ At(item) = 1 THEN 0 ELSE list[At(item) - 1]

\* The item is used; it may have been freed.
Use(item) == stale' = (stale \/ (item # 0 /\ item \notin Live))

\* The end of playlist_change, with the mutex.
Change(next) ==
  /\ playlist' = next /\ current' = (next # 0) /\ Use(next)
  /\ UNCHANGED <<list, made, repeat, hasty>>

\* audio_play: pthread_cond_signal.
audio_play == apc' = IF apc = "wait" THEN "init" ELSE apc

-----------------------------------------------------------------------------
(* audio_start                                                             *)

AudioTop ==
  /\ apc = "top" /\ apc' = "drowsy"
  /\ audio_playing' = FALSE /\ audio_stop' = FALSE
  /\ UNCHANGED <<shared, anext, gpc, gnext>>

AudioWait ==
  /\ apc = "drowsy" /\ apc' = "wait"
  /\ UNCHANGED <<shared, audio, anext, gpc, gnext>>

AudioInit ==
  /\ apc = "init"
  /\ \/ apc' = "opened" /\ current /\ UNCHANGED hasty
     \/ apc' = "fail" /\ hasty' = TRUE
  /\ UNCHANGED <<list, made, playlist, repeat, current, stale, audio, anext, gpc,
                 gnext>>

AudioOpened ==
  /\ apc = "opened" /\ apc' = "play"
  /\ audio_playing' = TRUE /\ audio_stop' = FALSE
  /\ UNCHANGED <<shared, anext, gpc, gnext>>

\* The loop around audio_player ends.  Streams, which then start anew, are left out.
AudioStopped ==
  /\ apc = "play" /\ (audio_stop \/ ~current)
  /\ apc' = "fail"
  /\ UNCHANGED <<shared, audio, anext, gpc, gnext>>

SongEnds ==
  /\ apc = "play" /\ apc' = "fail"
  /\ UNCHANGED <<shared, audio, anext, gpc, gnext>>

AudioFail ==
  /\ apc = "fail"
  /\ apc' = IF ~audio_stop /\ playlist # 0 THEN "next" ELSE "done"
  /\ UNCHANGED <<shared, audio, anext, gpc, gnext>>

\* playlist_next and playlist_change: playlist is read twice before the mutex
\* is locked.
AudioNext ==
  /\ apc = "next"
  /\ IF playlist = 0 THEN apc' = "again" /\ UNCHANGED <<anext, stale>>
     ELSE apc' = "change" /\ anext' = Following(playlist) /\ Use(playlist)
  /\ UNCHANGED <<list, made, playlist, repeat, current, hasty, audio, gpc, gnext>>

AudioTest ==
  /\ apc = "change" /\ apc' = IF playlist = 0 THEN "again" ELSE "set"
  /\ UNCHANGED <<shared, audio, anext, gpc, gnext>>

AudioChange ==
  /\ apc = "set" /\ apc' = "again"
  /\ Change(anext)
  /\ UNCHANGED <<audio, anext, gpc, gnext>>

AudioAgain ==
  /\ apc = "again" /\ apc' = IF playlist # 0 THEN "init" ELSE "done"
  /\ UNCHANGED <<shared, audio, anext, gpc, gnext>>

AudioDone ==
  /\ apc = "done" /\ apc' = "top"
  /\ UNCHANGED <<shared, audio, anext, gpc, gnext>>

-----------------------------------------------------------------------------
(* The GUI thread.                                                         *)

\* free_playlist and playlist_clear
Clear ==
  /\ list' = <<>>
  /\ playlist' = IF list = <<>> THEN playlist ELSE 0
  /\ repeat' = (repeat /\ list = <<>>)

\* playlist_key_callback with SKIP or REPLAY, select_callback with an item of
\* the list, and with a file in the file browser: audio_stop and SIGURG.
StopFirst(key) ==
  /\ gpc = "idle"
  /\ audio_stop' = TRUE /\ gpc' = key
  /\ current' = (current /\ key # "file")
  /\ UNCHANGED <<list, made, playlist, repeat, stale, hasty, audio_playing, apc,
                 anext, gnext>>

\* Where the GUI thread goes on from the loop of each key.
Playing(key) == IF key = "skip" THEN "skip_play" ELSE "replay_play"
Left(key) == IF key = "skip" THEN "next" ELSE "prev"

\* while (audio_playing && audio_stop), and audio_play in the loop.
SkipTest ==
  /\ gpc \in {"skip", "replay"}
  /\ gpc' = IF audio_playing /\ audio_stop THEN Playing(gpc) ELSE Left(gpc)
  /\ UNCHANGED <<shared, audio, apc, anext, gnext>>

SkipPlay ==
  /\ gpc \in {"skip_play", "replay_play"}
  /\ gpc' = IF gpc = "skip_play" THEN "skip" ELSE "replay"
  /\ audio_play
  /\ UNCHANGED <<shared, audio, anext, gnext>>

\* playlist_next and playlist_prev
GuiNext ==
  /\ gpc \in {"next", "prev"}
  /\ IF playlist = 0 THEN gpc' = "idle" /\ UNCHANGED <<gnext, stale>>
     ELSE /\ gpc' = "change" /\ Use(playlist)
          /\ gnext' = IF gpc = "next" THEN Following(playlist) ELSE Preceding(playlist)
  /\ UNCHANGED <<list, made, playlist, repeat, current, hasty, audio, apc, anext>>

\* playlist_change
GuiChange ==
  /\ gpc = "change" /\ gpc' = "idle"
  /\ IF playlist = 0 THEN UNCHANGED <<shared, apc>>
     ELSE /\ Change(gnext)
          /\ IF gnext # 0 THEN audio_play ELSE UNCHANGED apc
  /\ UNCHANGED <<audio, anext, gnext>>

\* select_callback of playlist.c: while (audio_playing).
SelectItem ==
  /\ gpc = "select" /\ ~audio_playing
  /\ gpc' = "change"
  /\ \E item \in Live :
       gnext' = item /\ playlist' = IF playlist = 0 THEN item ELSE playlist
  /\ UNCHANGED <<list, made, repeat, current, stale, hasty, audio, apc, anext>>

\* Fault: the list is freed while the audio thread plays.
SelectFileAtOnce ==
  /\ gpc = "file" /\ gpc' = "idle"
  /\ Clear /\ current' = TRUE /\ audio_play
  /\ UNCHANGED <<made, stale, hasty, audio, anext, gnext>>

\* select_callback of fb.c
SelectFile ==
  /\ gpc = "file" /\ ~audio_playing /\ gpc' = "idle"
  /\ Clear /\ current' = TRUE /\ audio_play
  /\ UNCHANGED <<made, stale, hasty, audio, anext, gnext>>

\* fb_shuffle: playlist_clear and playlist_create, without a stop.
Create ==
  /\ gpc = "idle" /\ made < Lists
  /\ list' = [i \in 1..Songs |-> made * Songs + i] /\ made' = made + 1
  /\ repeat' = TRUE /\ playlist' = list'[1]
  /\ gnext' = list'[1] /\ gpc' = "change"
  /\ hasty' = (hasty \/ list # <<>>)
  /\ UNCHANGED <<current, stale, audio, apc, anext>>

\* EXIT: the list is cleared when nothing is playing.
Exit ==
  /\ gpc = "idle" /\ ~audio_playing
  /\ Clear
  /\ UNCHANGED <<made, current, stale, hasty, audio, apc, anext, gpc, gnext>>

\* fb_exit: the list is cleared unless it is on the screen.
fb_exit ==
  /\ gpc = "idle"
  /\ audio_stop' = TRUE /\ current' = FALSE
  /\ \/ UNCHANGED <<list, playlist, repeat, hasty>>
     \/ Clear /\ hasty' = TRUE
  /\ UNCHANGED <<made, stale, audio_playing, apc, anext, gpc, gnext>>

\* playlist_randomize: the files change places, the current item is the one
\* that was highlighted.
Randomize ==
  /\ gpc = "idle" /\ list # <<>>
  /\ playlist' \in Live
  /\ UNCHANGED <<list, made, repeat, current, stale, hasty, audio, apc, anext,
                 gpc, gnext>>

Repeat ==
  /\ gpc = "idle" /\ repeat' = ~repeat
  /\ UNCHANGED <<list, made, playlist, current, stale, hasty, audio, apc, anext,
                 gpc, gnext>>

Key ==
  \/ \E key \in {"skip", "replay", "file"} \cap Keys : StopFirst(key)
  \/ "select" \in Keys /\ list # <<>> /\ StopFirst("select")
  \/ "create" \in Keys /\ Create
  \/ "exit" \in Keys /\ Exit
  \/ "stop" \in Keys /\ fb_exit
  \/ "randomize" \in Keys /\ Randomize
  \/ "repeat" \in Keys /\ Repeat

GuiStep == SkipTest \/ SkipPlay \/ GuiNext \/ GuiChange \/ SelectItem \/ SelectFile

AudioStep ==
  \/ AudioTop \/ AudioWait \/ AudioInit \/ AudioOpened \/ AudioStopped
  \/ AudioFail \/ AudioNext \/ AudioTest \/ AudioChange \/ AudioAgain \/ AudioDone

Next == Key \/ GuiStep \/ AudioStep \/ SongEnds

Spec == Init /\ [][Next]_vars

\* Both threads are scheduled.  A song may be as long as it likes.
Fairness == WF_vars(GuiStep) /\ WF_vars(AudioStep)

FairSpec == Spec /\ Fairness

-----------------------------------------------------------------------------
TypeOK ==
  /\ Live \subseteq Items /\ made \in 0..Lists
  /\ {playlist, anext, gnext} \subseteq Items
  /\ {repeat, current, audio_playing, audio_stop, stale, hasty} \subseteq BOOLEAN
  /\ apc \in {"top", "drowsy", "wait", "init", "opened", "play", "fail", "next",
              "change", "set", "again", "done"}
  /\ gpc \in {"idle", "skip", "skip_play", "replay", "replay_play", "select",
              "file", "next", "prev", "change"}

\* No thread uses an item that has been freed, unless a list was freed without
\* waiting for the audio thread, or the audio thread, which is not playing, goes
\* along a list it cannot open.
ItemsLive == stale => hasty

\* SKIP and REPLAY return, even when the audio thread goes on to the next song
\* in the same moment and clears audio_stop, and however long that song is.
Skipping == gpc \in {"skip", "skip_play", "replay", "replay_play"}
SkipReturns == Skipping ~> ~Skipping
=============================================================================
