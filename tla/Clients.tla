------------------------------ MODULE Clients ------------------------------
(***************************************************************************)
(* Parts of the player that share no state with each other, side by side:  *)
(* a behaviour is one of any of them.  The others stay as they begin.      *)
(* Names that two of them use are renamed in one.                          *)
(***************************************************************************)
EXTENDS Integers, Sequences

CONSTANT Parts   \* the parts whose behaviours there are

VARIABLE client

CONSTANTS QSize, Chunks, Streams

VARIABLES play_state, video_playing, gpc, rpc, spc, lock, not_empty, not_full,
          idle_sem, buffer, write_pos, read_pos, chunk, last_read_buf, tsbuf,
          forgotten, then, streams, taken, early, notified

rtvVars == <<play_state, video_playing, gpc, rpc, spc, lock, not_empty,
             not_full, idle_sem, buffer, write_pos, read_pos, chunk,
             last_read_buf, tsbuf, forgotten, then, streams, taken, early,
             notified>>

Rtv == INSTANCE ReplayTV

CONSTANTS Inputs, Pack, MaxChunk

VARIABLES inp, packet, off, avail, state, remain, frame_state, bufsz, headernum,
          seeking, video, audio, cut

parserVars == <<inp, packet, off, avail, state, remain, frame_state, bufsz,
                headernum, seeking, video, audio, cut>>

Parser == INSTANCE DemuxParser WITH p <- packet

CONSTANTS FileSize, Block, Window, Width, Hangups

VARIABLES file_pos, file_req, net, arrived, backend_pos, left, asked, control,
          prevent, reader, target, closed, outside

fileVars == <<file_pos, file_req, net, arrived, backend_pos, left, asked,
              control, prevent, reader, target, closed, outside>>

File == INSTANCE CmythFile

CONSTANTS Songs, Lists, Keys

VARIABLES list, made, playlist, repeat, current, audio_playing, audio_stop, apc,
          anext, list_gpc, gnext, stale, hasty

listVars == <<list, made, playlist, repeat, current, audio_playing,
              audio_stop, apc, anext, list_gpc, gnext, stale, hasty>>

List == INSTANCE Playlist WITH gpc <- list_gpc

CONSTANTS Wrap, Behind, Ahead, Soon, MaxEvents

VARIABLES ring, stc, misplaced

eventsVars == <<ring, stc, misplaced>>

Events == INSTANCE VidEvents

CONSTANTS Size, Chunk, Seqs, Bytes, InFlight, Troubles

VARIABLES head, tail, buf, playmode, seq_history, loop, last, acked, rptr,
          datagrams, ack, troubles, played, base, newest, astray

musicVars == <<head, tail, buf, playmode, seq_history, loop, last, acked,
               rptr, datagrams, ack, troubles, played, base, newest,
               astray>>

Music == INSTANCE MClient WITH pc <- loop, net <- datagrams

CONSTANTS Covers, Albums, AlbumWidth, Presses, Updates

VARIABLES cover, pending, trigger, outstanding, string, start, max, index, slot,
          album, track, browse, here, widget, wpending, pc, questions, answered,
          presses, updates, mixed

artVars == <<cover, pending, trigger, outstanding, string, start, max,
             index, slot, album, track, browse, here, widget, wpending, pc,
             questions, answered, presses, updates, mixed>>

Art == INSTANCE CoverArt
         WITH Width <- AlbumWidth, state <- cover, net <- questions, arrived <- answered

CONSTANTS EmuPresses, MaxRdc

VARIABLES mvp_state, is_stopping, mediatype, emu_current, paused, resetTime,
          inbuf, retryZero, jumping, last_key, linked, requests, rdc, rfb, media,
          timer, pressed, missed

emuVars == <<mvp_state, is_stopping, mediatype, emu_current, paused, resetTime,
             inbuf, retryZero, jumping, last_key, linked, requests, rdc, rfb,
             media, timer, pressed, missed>>

Emu == INSTANCE Emulate WITH Presses <- EmuPresses, current <- emu_current

all == <<client, rtvVars, parserVars, fileVars, listVars, eventsVars,
         musicVars, artVars, emuVars>>

Init ==
  /\ client \in Parts
  /\ Rtv!Init /\ Parser!Init /\ File!Init /\ List!Init /\ Events!Init
  /\ Music!Init /\ Art!Init /\ Emu!Init
  /\ client # "parser" => inp = (CHOOSE i \in Inputs : TRUE) /\ seeking

\* The steps of one of them leave the others alone.
Next ==
  /\ UNCHANGED client
  /\ IF client = "replaytv" THEN Rtv!Next ELSE UNCHANGED rtvVars
  /\ IF client = "parser" THEN Parser!Next ELSE UNCHANGED parserVars
  /\ IF client = "file" THEN File!Next ELSE UNCHANGED fileVars
  /\ IF client = "list" THEN List!Next ELSE UNCHANGED listVars
  /\ IF client = "events" THEN Events!Next ELSE UNCHANGED eventsVars
  /\ IF client = "music" THEN Music!Next ELSE UNCHANGED musicVars
  /\ IF client = "art" THEN Art!Next ELSE UNCHANGED artVars
  /\ IF client = "emulation" THEN Emu!Next ELSE UNCHANGED emuVars

\* The fairness of each of them, as its module states it.
Fairness ==
  /\ WF_rtvVars(client = "replaytv" /\ Rtv!GuiStep)
  /\ WF_rtvVars(client = "replaytv" /\ Rtv!StreamStep)
  /\ WF_rtvVars(client = "replaytv" /\ Rtv!ReaderStep)
  /\ WF_parserVars(client = "parser" /\ Parser!Room)
  /\ WF_fileVars(client = "file" /\ File!BlockAnswered)
  /\ WF_fileVars(client = "file" /\ File!BackendStep)
  /\ WF_fileVars(client = "file" /\ File!Arrive)
  /\ WF_fileVars(client = "file" /\ File!ReaderStep)
  /\ WF_listVars(client = "list" /\ List!GuiStep)
  /\ WF_listVars(client = "list" /\ List!AudioStep)
  /\ WF_artVars(client = "art" /\ Art!Answer)
  /\ WF_artVars(client = "art" /\ Art!LoopStep)
  /\ WF_emuVars(client = "emulation" /\ media # "dead" /\ Emu!RfbStep)
  /\ WF_emuVars(client = "emulation" /\ media # "dead"
                   /\ (Emu!MediaStep \/ (~Emu!Jammed /\ Emu!Clear)))

Spec == Init /\ [][Next]_all

FairSpec == Spec /\ Fairness

-----------------------------------------------------------------------------
TypeOK ==
  /\ Rtv!TypeOK /\ Parser!TypeOK /\ File!TypeOK /\ List!TypeOK /\ Events!TypeOK
  /\ Music!TypeOK /\ Art!TypeOK /\ Emu!TypeOK

\* The semaphores of the ReplayTV queue account for every buffer.
QueueAccounted == Rtv!QueueAccounted

\* The read thread gets the chunks of a show in order, through jumps and stops.
ChunksInOrder == Rtv!ChunksInOrder

\* However the stream is cut into chunks, the rings get whole packets.
PacketsWhole == Parser!PacketsWhole

\* No byte the backend sent before a seek is taken for one after it.
BytesInPlace == File!BytesInPlace

\* No thread uses an item of a list that was freed.
ItemsLive == List!ItemsLive

\* The search of vid_event_wait_next finds the first event that is due.
FindsFirst == Events!FindsFirst

\* The bytes in the music ring follow what the device has got.
InOrder == Music!InOrder

\* Each place of the album browser has the cover of its album.
CoversInPlace == Art!CoversInPlace

\* rtv_abort_read returns: it gets both threads out of the queue.
AbortReturns == Rtv!AbortReturns

\* The client of the Hauppauge server thinks that a show ends only while the
\* server's answer to its MEDIA_STOP is still to come, unless it missed that.
StopUnderWay == Emu!StopUnderWay

\* The other waits end: the loops of a seek that empty the data connection, the keys
\* SKIP and REPLAY, the parser at the end of the stream, the album browser after its
\* last state, and the commands of the Hauppauge server, with the exceptions that
\* DrainEnds, SkipReturns, ParserProceeds, CoversShown and CommandsEnd give.
Waiting ==
  CASE client = "parser" -> ~Parser!Parsed
    [] client = "file" -> File!Emptying
    [] client = "list" -> List!Skipping
    [] client = "art" -> Art!Browsing
    [] client = "emulation" -> Emu!Ending
    [] OTHER -> FALSE
Settled ==
  CASE client = "parser" -> Parser!Parsed
    [] client = "file" -> File!Emptied
    [] client = "list" -> ~List!Skipping
    [] client = "art" -> Art!Browsed
    [] client = "emulation" -> Emu!Ended
    [] OTHER -> TRUE
AllSettle == Waiting ~> Settled
=============================================================================
