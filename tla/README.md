# TLA+ models of mvpmc

mvpmc is the media player for the Hauppauge MediaMVP (and for a Linux host): a
GUI program that plays files and network streams from MythTV, ReplayTV, VLC,
SlimServer and others on a hardware MPEG decoder. This directory holds TLA+
modules that model its concurrent core and the clients around it, TLC configurations that check them on
small instances, and proofs checked by TLAPS. Paths below are relative to the
root of the repository.

## 1. Inventory

| Component | State | Operations | Talks to | Hard behaviour | Correct when |
|---|---|---|---|---|---|
| `libs/librefmem` | a count, a length and a destroy function per block; two global counters | `ref_alloc`, `ref_hold`, `ref_release`, `ref_set_destroy`, `ref_realloc` | every structure of libcmyth, GUI and playlist | releases by several threads, nested destroy functions | a block lives exactly as long as somebody owns a reference |
| `include/mvp_atomic.h` | a word | increment, decrement | librefmem | other threads between load and store | each call takes effect once |
| `libs/libdemux` streams | two rings with head, tail, parser tail; seek mode; a mutex for the video ring | `stream_add`, `stream_drain`, `stream_drain_fd`, `demux_reset`, `demux_flush`, `demux_seek` | read thread puts, write threads drain | no lock for head; short writes; seek hides data from the writer | bytes come out intact and in order, a full ring drains |
| `libs/libdemux` parser | position in a packet header, pending bytes, video parser state, subtitle assembly | `demux_put`, `parse_frame`, `parse_video_stream`, `parse_spu_frame` | streams, video events | headers split at any byte, rings full in the middle of a packet | the result does not depend on how the input is cut |
| `libs/libdemux` JIT audio | frame remainder, last pts | `jit_write_audio` | audio write thread | clock against pts, wrap | no deadlock between pause and data |
| `src/video.c` threads | flags `video_playing`, `seeking`, `jumping`, `video_reopen`, `jump_target`; a condition variable; a semaphore | `video_play`, `video_clear`, the three thread loops, keys | demux, file or network callbacks, hardware | flags without locks, signals, lost wakeups | a stop stops everything and returns; a seek ends |
| `src/video.c` seeking | seek start, target, rate | `seek_by`, `do_seek` | demux attributes, file position | estimate and retry, timeout | it converges or gives up |
| `libs/libav` | aspect, pause, mute state; queue of video events | `av_*`, `vid_event_add`, `vid_event_wait_next`, `vid_event_clear` | demux parser, event thread | producer and consumer against clear; pts wrap | events in order, none lost except by a clear |
| `libs/libcmyth` | sockets, file positions, request and receive offsets, live TV chain | connect, request block, read, seek, spawn live TV | MythTV backend | requests and data on two sockets, partial reads, errors in the middle | positions on both sides agree |
| `src/mythtv*.c` | current recording, tuner, several mutexes | play, stop, live TV, event loop | libcmyth, video threads | lock order, globals replaced while read | no use of a released object |
| `src/playlist.c` | list, current, mode | next, prev, stop, randomize | read thread and GUI | end of file races a key | the current item is in the list |
| `src/audio.c`, `src/http_stream.c` | decoder state, a file of buffered data | play, stop, buffering | network, pipes | a stream that stops in the middle | what is played was received |
| `src/mclient*.c` | ring buffer with sequence numbers; album browser with one question at a time | receive, ack, play; browse, page, answer | UDP server, command line interface | lost, late and repeated packets; answers without a number | bytes are played in order; a cover stands where its album is |
| `src/emulate.c`, `libs/libvnc` | protocol state, timers | media requests, acks, keys | Hauppauge server | three threads and a timer change the state without a lock | a stop ends, and so does every wait |
| `libs/libts_demux` | resync buffer, pids | transform, is_ts | read thread | packets cut anywhere | resync loses no more than a packet |
| `src/replaytv.c`, `libs/libreplaytv` | queue of buffers, two semaphores and a mutex | stream thread, read thread, jump, abort | ReplayTV, video threads | abort handshake | abort always ends |
| `libs/libwidget`, `src/gui.c`, `src/theme.c`, `src/display.c` | widget tree, timers | draw, keys | everything | one thread | - |
| `src/config.c`, `src/web_config.c`, `src/weather.c`, `src/vlc_control.c`, `src/main.c` | options | parse, save, serve | - | text | - |
| `libs/libosd`, `libs/libtiwlan`, `tools`, `dongle` | - | pixels, ioctls, build | - | - | - |

`PROJECT.json` lists the same parts under `components` with their status, and
under `hazards` what is hard to test in this code, at its line.

## 2. Plan

1. **Done**: reference counting and the atomic counters below it; the
   demultiplexer's rings and its input; the threads of the video player; the
   MythTV client's threads and mutexes; the transfer of a file from a MythTV
   backend; the playlist and the audio thread; the queue of video events; the
   ReplayTV queue; the music client's ring and its album browser; the media
   protocol of the emulation mode.
2. **Left to model**: `seek_by`/`do_seek` (rates and estimates), just in time
   audio, `http_stream.c`, transport stream
   resynchronisation, `ref_realloc`; a module that composes the player with a
   ring, so that the reset of the read thread and the drain of a write thread
   meet.
3. **Proved**: every invariant that a passing run checks, the action properties
   and the refinement (section 5). What is left to TLC is temporal.

Not planned, because there is no control to model: drawing, themes, HTML,
SQL text, option parsing, ioctl wrappers, build recipes.

## 3. Modules

| Module | What it is |
|---|---|
| `RefMem` | `libs/librefmem/alloc.c` used by several threads |
| `RefMemProofs` | its inductive invariant and theorems, the global counter included |
| `AtomicCounter` | abstract: what `include/mvp_atomic.h` promises |
| `AtomicPPC` | the PowerPC loops, refinement of `AtomicCounter`, with proof |
| `AtomicARM` | the ARM loops |
| `DemuxRing` | one stream of `libs/libdemux`, producer and consumer |
| `DemuxRingProofs` | its margin, and that the bytes come out intact, in order and not before a seek is over |
| `VideoThreads` | read, write and GUI threads of `src/video.c` |
| `VideoThreadsProofs` | that the video write thread is quiet after a stop, and type correctness |
| `DemuxParser` | `demux_put`, `add_buffer`, `parse_frame`: the program stream, cut anywhere |
| `VidEvents` | the queue of video events of `libs/libav/videvents.c` |
| `MythTV` | the four threads of `src/mythtv.c` and `src/mythtv_livetv.c`, their mutexes and flags |
| `MythTVProofs` | that these threads wait for each other only in the cases that are named, leak nothing and leave requests their reader |
| `CmythFile` | file transfer of `libs/libcmyth/file.c` between control thread, read thread and backend |
| `ReplayTV` | the queue of `src/replaytv.c` and its abort handshake |
| `ReplayTVProofs` | that the semaphores account for the queue and the chunks come in order |
| `Playlist` | `src/playlist.c` under the GUI thread and the audio thread |
| `MClient` | the audio data of the music client: datagrams, ring, device |
| `CoverArt` | the album browser of the music client, and the small machine that draws its boxes and stops it |
| `Emulate` | the media protocol of the Hauppauge server in `src/emulate.c` |
| `EmulateProofs` | that a stop that is waited for is under way, with every sleep and socket write a place of its own |
| `Clients` | composition: eight of these parts, which share no state, side by side |
| `ClientsProofs` | proofs about `Playlist`, `CoverArt`, `VidEvents`, `MClient`, `DemuxParser` and `CmythFile`, and the properties of all parts as theorems of `Clients` |
| `MC_*` | instances for TLC; each `.cfg` is one question |

Definitions whose comment begins with "Fault" are wrong variants of the
definition after them. They are not part of any specification; they exist to
show that the properties notice such a mistake (`mutants` in `PROJECT.json`).

### RefMem

A *slot* is a pointer that owns a reference: a variable of a thread, or a field
of a block. `status` says whether a block's memory is allocated and whether it
is being destroyed. Every operation on a counter is a step: `RefAlloc`,
`LoadBytes` and `AllocStore` are `__ref_alloc`; `RefHold` and `HoldTotal` are
`ref_hold`; `RefRelease`, `ReleaseDec`, `Destroy` and `FreeStore` are
`ref_release`, whose destroy function calls it again, so that `dying` is a
stack. The clients follow the rule in the comment at the top of `alloc.c`: a
thread copies only pointers it holds. `HandOver` is a client that passes a
reference to another thread. The destroy function is the common one of libcmyth: it
releases one pointer field. `ref_realloc`, the debug list and failed `malloc`
are left out.

### AtomicCounter, AtomicPPC, AtomicARM

`AtomicPPC` has the reservation as a flag per thread, cleared by a successful
store of any thread and at any time by the processor (`LoseReservation`). Its
refinement mapping takes the word for the counter and the thread's pending
change for the call. `AtomicARM` has one step per memory access of the `swp`
sequence.

### DemuxRing

`head`, `tail`, `parser_tail`, `seeking_head`, `seeking_head_valid` are the
fields of `stream_t`; `Size`, `Margin` (6), `Lookback` (5), `Low` (10) its
constants. `stream_add` is six steps (`AddStart`: choose the tail that limits;
`AddDiscard`; `AddFull` or `AddCopy`; `AddPublish`; `AddParse`; `AddCommit`) so
that a drain of the write thread may fall between any two of them. A drain is
two steps, with the copy or the `write()` between them and any number of bytes
accepted. `parse_video_stream` is abstracted to how far it moves its tail and
whether it finds the sync point that ends a seek. Bytes carry labels 0, 1, 2,
0, ... so that a lost, repeated or overwritten byte shows.

`demux_reset`, `demux_flush` and `demux_seek` are called between two adds, as
the read thread does. `ResetAnytime` says whether a write thread may be in a
drain at that moment (it may, in the program).

### VideoThreads

`pc` is the place of each thread and `mode` whether it runs, is about to wait
(has tested a flag, not yet called `pthread_cond_wait`), or sleeps. Each thread
has a mutex of its own, so nothing prevents a broadcast in between, in any run.
Of the read thread the model remembers that it has lost one: `deaf` is a thread
about to wait that was not woken, `long` the same thread asleep. SIGURG moves a thread out of `write()` and has no
effect elsewhere. `idle` and `sem` are the handshake by which `video_clear`
knows that both write threads are idle. What is read and written is left out;
`do_seek` is abstracted to "again" or "done". `video_play` is called only when
the player is stopped, as its callers do.

### MythTV

A function of the client is a sequence of instructions (lock, unlock, set or
clear a flag, wait for one, ask the backend, wait until the write threads are
idle, branch), with the name it has in the code; the functions it calls are
concatenated into it, so that the order of the locks is the order in the
source. `todo[t]` is what thread `t` still has to do, and `Run` is what an
instruction does. `GuiNext`, `EventNext`, `ReadNext` and `ControlNext` start a
function when the thread has nothing to do. A *scene* says which keys and
events a behaviour has and which calls may fail (the faults: connection,
answers, tuner, range of a seek). `holder` is the read thread's own references
to the file and the recorder; the destruction of the file is what
`mythtv_close_just_file` waits for. `data` says on which of the two there is
data of an unanswered request, and the read thread can take it only while it
holds that one and plays from it (`Readable`).

The mutexes are `myth_mutex`, `request_block_mutex`, `seek_mutex`,
and `mutex` of libcmyth ("cmyth"). The backend is external: it answers a
request for a block when somebody has read the data. `cmyth_livetv_chain_seek`
and `cmyth_livetv_chain_request_block` lock libcmyth's `mutex` and call a
function that locks it again, as they do in the source.

`BlockedBy` is who must act before a thread can go on: the owner of a mutex, the
read thread for an answer whose data has not been read, the control thread for
the loop that reads until there is no request, the holder of the file for its
destruction, and the GUI thread for a read thread that sleeps, because only it
starts the player.

### CmythFile

A byte is its number in the file. `net` and `arrived` are the data connection,
which holds at most `Window` bytes; `control` is the request on the other
connection. A seek is the steps of `mythtv_seek`: prevent new requests, read
until the outstanding one is answered, take the mutex, empty the connection,
send the message, set `file_pos`. `file_pos` and `file_req` are unsigned
(`Width`).

### DemuxParser

The input is a sequence of packets; the position in it is a packet and an
offset. A call gets `avail` bytes, any number up to `MaxChunk`, and a ring may
be full at every call. The handle's fields (`state`, `remain`, `frame_state`,
`bufsz`, `headernum`) have their own variables, so that what survives from one
call to the next is what survives in the code. A byte in a ring is the packet
and the place it comes from.

### VidEvents

`ring` is the circular list from `pNextEvent` on, `stc` the clock. The two
loops of `vid_event_add` and the two searches of `vid_event_wait_next` are
`Walk` with the condition at which each loop ends, comparing plain numbers as
the code does. How long the event thread sleeps is left out.

### ReplayTV

One step per operation on the mutex or a semaphore. `gpc`, `spc` and `rpc` are
the places of the GUI thread in `rtv_abort_read`, of the stream thread and of
the player's read thread. A chunk is its number, 0 the buffer without data by
which the threads are got out of the queue.

### Playlist

Every list has items of its own, so that an old item is recognised when it is
used. The GUI thread and the audio thread each read `playlist`, find the next
item, and change it, in separate steps; `playlist_change` holds the mutex only
for the last. `audio_playing` and `audio_stop` are the flags they share.

### MClient

The ring, its two pointers, `seq_history`, and the play mode the server sends.
The network loses, repeats, delays and reorders datagrams; `Troubles` bounds the
stops, the pauses and the failures of the device. The server is external: it
sends the next datagram when the last is answered and the last one again when
it is not. A datagram does not stay under way until its sequence number comes
again (`Lifetime`): after 65533 newer ones it is gone. Without this an old
datagram can be as far from the newest as the next one is, and `InOrder` fails
when the numbers wrap.

### CoverArt

The state machine that asks for one album after another and then for a track
of each, `pending_cli_string` and `outstanding_cli_message`, the answers, the
two second limit, and the keys that move to other albums. Album numbers are
unsigned (`Width`). The second machine (`mclient_browse_by_cover_widget`) draws
the boxes around the covers, in the same round of the loop after the first one;
it has two states, and in its idle state sets the *browser's* state to idle
(`mclient_mvpmc.c:2192`), so that an arrow key, or the start of browsing itself,
can stop the browser between two questions. `here` is `gui_state`: both machines
stand still while the user is elsewhere, and the answers go on coming in.

### Emulate

`mvp_state`, `is_stopping`, the kind of the show, the requests to the server
that are not answered and its commands that are not yet handled. The GUI thread
(`mvp_server_remote_key`), the rfb thread (`HandleRDCMessage`), the media thread
(`media_read_message`, `media_queue_data`), the timer thread
(`mvp_timer_callback`) and the read thread of the player (which ends a pause
when it jumps) are the actions. A handler is a step up to where it sleeps, or
writes to a socket and then changes what others look at: `RDC_STOP` decides
(`Stop`), connects (`media_init`, which may fail: `linked`), sends `MEDIA_STOP`
(`StopSent`), frees the file name (`ClientStopped`) and sets `is_stopping`
(`StopSet`), five steps; `MEDIA_STOP` is taken from the connection
(`MediaStop`), waits for the device (`MediaEmpty`), clears it (`Clear`), sets
`mvp_state` (`MediaState`), `mediatype` (`MediaReset`) and `is_stopping`
(`MediaEnded`), six. `video_clear` returns, except that nothing is assumed of it
while a jump of a video is under way (`Jammed`; run `player_jumpstop`). The
server is external: it answers requests in order and a key with a command that
fits it or not at all. It extends the protocol (`useHauppageExtentions` 2), the
picture is full screen and a show has a length. An answer to `MEDIA_8` after
the file name was freed ends the program.

## 4. Runs

`tlc -config X.cfg MC_Y` in this directory. Passing runs:

| Run | Checks |
|---|---|
| `refmem` | 2 threads, 2 variables each, 2 blocks that may hold one another: `NoDanglingPointer`, `RefcountExact`, `DestroyedOnce`, `TotalRefcountExact`, `DyingIsFreed` |
| `atomic_ppc` | 3 threads, a counter of 3 values, which wraps: `ReservationFresh`, `ImplementsAtomicCounter` |
| `ring_video` | a ring of 8 with margins 2/2/3, chunks up to 3: `WaitingIntact`, `InOrder`, `MarginKept`, `SeekHidesData`. Head and tails wrap several times and the ring fills |
| `ring_audio` | a ring of 17 with the code's margin of 6, chunks up to 4: the same without parser, and `AddProgress` |
| `player` | all keys, failing opens, lost wakeups: `VideoQuiet`, `AudioFallsSilent`, `ClearReturnsUnlessSeeking`, `SeekSettles`, `JumpSettles`, `PlayOpens` |
| `myth` | thirteen scenes with recordings, live TV, thumbnails, deletion, channel changes, exit, failing calls: `LockOrder`, `RequestHasReader`, `NothingLeaked` |
| `clients` | Safety. `ReplayTV`: `QueueAccounted`, `ChunksInOrder`. `DemuxParser`: `PacketsWhole`. `CmythFile`: `BytesInPlace`. `Playlist`: `ItemsLive`. `VidEvents`: `FindsFirst`. `MClient`: `InOrder`. `CoverArt`: `CoversInPlace`. `Emulate`: `StopUnderWay`, the client is in a state of stopping only while its `MEDIA_STOP` is under way |
| `settle` | Liveness. `ReplayTV`: `AbortReturns`. `AllSettle`: the parser, the loops of a seek that empty the data connection, the keys SKIP and REPLAY, the album browser and the commands of the Hauppauge server come to an end |

`clients` explores eight specifications in one go and `settle` the six of them
that wait for something: `client` is chosen among `Parts` in the first state and
never changes, and only the variables of that part move. The state space is the
sum of the parts, not their product.

Runs that end in a violation; each is a disagreement between the code and what
a comment says of it (details in `PROJECT.json`, `findings`):

| Run | What happens |
|---|---|
| `atomic_arm` | the `swpne` of a failed attempt overwrites another thread's update |
| `ring_flush` | `demux_flush` in a seek keeps `seeking_head_valid`; old bytes come out later |
| `ring_race` | `demux_reset` during a drain: the drain moves the new tail |
| `player_jumpstop` | stop while a jump is pending: `video_clear` never returns |

Other weaknesses the models have, which no run asks about, so that the
properties above are read with the right care:

* `total_bytecount` of librefmem is not atomic; `LoadBytes` and the store after
  it may be interleaved.
* With `ParserStalls = TRUE` the prodded parser's tail may leave the ring
  (`newtail++` without `%`, `stream.c:293`), and the video ring may stay full,
  because the prod needs a fill level that larger chunks never reach.
* A failed open leaves `seeking` set (`video.c:1511`).
* Without the fairness of `WriteEnd` (a paused device), `video_clear` may wait
  for the device: SIGURG just before `write()` has no effect.
* The audio write thread may still be writing when `video_clear` returns;
  `AudioFallsSilent` says that it stops.

The properties name their exceptions; each exception is something the code
does, which the run reaches:

* `PlayOpens`, `SeekSettles`, `JumpSettles`: when the broadcast of `video_play`
  falls between the read thread's test of `video_playing` (`video.c:1576`) and
  its `pthread_cond_wait` (1589), the read thread sleeps until the next
  broadcast (`PlayMissed`). Wakeups that are lost anywhere else are made good.
  And LEFT in the first hundredth of a file makes a negative target
  (`video.c:1062`), for which the read thread waits until the next key
  (`NoTarget`), also when another file is started.
* `LockOrder`: there are circles. The read thread in `mythtv_open` or
  `mythtv_seek` waits for a mutex (`mythtv_seek` takes `myth_mutex` again while
  it holds `request_block_mutex`, `mythtv.c:2579`; in live TV
  `cmyth_livetv_chain_seek` waits for itself, `livetv.c:873`) and does not read
  the data that the control thread waits for; it sleeps, and the GUI thread,
  which would wake it, waits for the control thread; it destroys the file of a
  connection that `mythtv_close` has given up; the GUI thread is in
  `mythtv_atexit`, which stops live TV with `myth_mutex` locked; the event
  thread stops live TV while the GUI thread closes a file;
  `cmyth_livetv_chain_request_block` locks a mutex that
  `cmyth_file_request_block` locks again. The property says that there is no
  other kind: none of the control or the event thread with the GUI thread alone,
  and none while the read thread reads.
* `NothingLeaked`: a refused seek jumps over its unlocks (`mythtv.c:2572`), and
  `mythtv_new_livetv` without a tuner returns with `myth_mutex` locked.
* `RequestHasReader`: `mythtv_close` does not take `request_block_mutex`.
* `AbortReturns`: `rtv_abort_read` resets the idle semaphore after the read
  thread may have posted it (`replaytv.c:1022`).
* `QueueAccounted`, `ChunksInOrder`: the new stream thread initialises the
  semaphores while the read thread may already wait for one.
* `PacketsWhole`: with a full ring the header of a video packet is left out.
* `BytesInPlace`: a seek outside the file is not refused when it goes below 0.
* `AllSettle`: the loop that empties the data connection has no end when the
  connection is closed (`file.c:442`), and whether `mythtv_seek` gets the mutexes
  around the loops is left to `LockOrder`; the parser stays where it is at an empty
  packet of a stream that is not played (`stream.c:1526`); the album browser
  may stop when answers were mixed up, and stands still while the user is
  elsewhere; `media_send_request` is given NULL when the file ended between
  `MEDIA_8` and its answer, and the program dies (`emulate.c:2525`); a
  connection that `media_init` could not make again brings no answer; and
  `video_clear` may spin while a jump is under way (`emulate.c:2465`).
* `StopUnderWay` (the ghost `missed`): no `MEDIA_STOP` went out, because the
  connection could not be made again (`emulate.c:1633`), or its answer was
  handled to the end while the rfb thread was between sending it and setting
  `is_stopping` (1609-1614), so that nothing sets `is_stopping` back.
* `ItemsLive`: `fb_exit` and `fb_shuffle` free the list without waiting for the
  audio thread, and an audio thread that cannot open its songs goes along a
  list that a key frees.
* `FindsFirst`: events that sort before `pNextEvent` are misplaced
  (`videvents.c:258`); windows that contain the wrap are searched wrongly.
* `InOrder` of `MClient`: a late old datagram, a repeated one after its data
  has been played, and a failed `write()` whose -1 is added to `tail`.
* `CoversInPlace`: any answer clears `outstanding_cli_message`, and so does the
  two second limit, so that answers and questions may shift against each other;
  and `pending_cli_string` may be taken by somebody else (the ghost `mixed`).

Weaknesses of the code that no property is about: `jumping` is cleared after
the seek, so that a key in between is forgotten (`video.c:1644`); `(4/8)` is 0
in the assumed rate (`video.c:628`); `rtv_video_queue_flush` frees the buffer
the read thread still parses (`replaytv.c:511`); a chunk larger than the
request makes `rtv_video_queue_read` return with the lock held
(`replaytv.c:656`); a position is taken modulo 0x7FFF (`replaytv.c:981`);
stuffing that a buffer cuts off is added to the audio ring (`stream.c:1425`);
`demux_put` returns 0 when a frame ends with the buffer (`demux.c:132`); the
wait in the playlist screen has no test of `audio_stop` (`playlist.c:75`);
`audio_play` may signal before the audio thread waits (`audio.c:1274`); a
library without albums divides by 0 (`mclient_mvpmc.c:1454`).

### Bounds

All state spaces are finite without constraints; the only bounds are the
constants. The ring's labels have period 3, which tells a lost or repeated byte
from the right one unless exactly three are lost; chunks of up to 3 or 4 bytes
and all drain lengths make shorter losses appear too. `UINT_VALUES` stands for
2^32; a small value makes the counters wrap.

* `MythTV`: thirteen scenes; each has the keys, events and faults that can meet in
  one use of the player, any number of keys, and one event.
* `ReplayTV`: a queue of 2, 4 chunks and 3 streams: the queue is full, empty
  and goes round, and a show is stopped and started twice.
* `DemuxParser`: four inputs that have every kind of packet, long, short and
  empty, and chunks of up to 9 bytes, so that every header is cut everywhere
  and one chunk holds several packets; a pack has 3 bytes.
* `CmythFile`: a file of 5 bytes, blocks of 3, a window of 2: a block does not
  fit into the connection, which is what makes the answer late; `Width` 16.
* `Playlist`: two lists of two songs. `VidEvents`: three events on a clock of
  12 with a window from 3 behind to 4 ahead.
* `MClient`: a ring of 3, datagrams of up to 2 bytes, 5 sequence numbers,
  so that they wrap and a datagram may be two behind, 4 bytes in all, 2 datagrams under way and one trouble. `CoverArt`: 2 places,
  3 albums, one key and one update. `Emulate`: three keys, so that a show is
  opened and then stopped, moved in or opened again while its first requests
  are under way, and two commands that wait.

### Fairness

`RefMem`: a thread inside the library is scheduled (weak fairness); nothing
makes a client call it. `DemuxRing`: the read thread offers its data again
(`video_read_start` loops with `usleep`), a write thread leaves a drain, and
the device accepts bytes again and again. `VideoThreads`: every thread is
scheduled, a thread that is about to wait does so, the GUI thread finishes what
it began; `do_seek` comes to an end (strong fairness on `SeekDone`, justified
by its two second limit); the read thread's polling for a jump target catches
one between two keys (strong fairness on `ReadTarget`); the device accepts
data.

The newer modules need weak fairness only. `ReplayTV` and `Playlist`: threads
that can take a step are scheduled; nobody has to press a key, and songs need
not end. `DemuxParser`: the write threads make room. `CmythFile`: the backend
sends and answers, bytes arrive, the read thread goes on; nothing makes the
control thread ask. `CoverArt`: the loop goes round every 100 ms and the server
answers. `Emulate`: the rfb and the media thread run, the server answers
requests (not keys), the device plays what it has, and `video_clear` returns
unless a jump of a video is under way; the timer is not needed. `MythTV`, `VidEvents` and `MClient` are checked for safety only.

## 5. Proofs

`tlapm M.tla` for `RefMemProofs`, `AtomicPPC`, `DemuxRingProofs`,
`VideoThreadsProofs`, `MythTVProofs`, `ReplayTVProofs`, `EmulateProofs` and
`ClientsProofs`. None depends on the size of the instance. The assumptions are
the `ASSUME`s of the modules, which TLC evaluates in the runs, and the
hypotheses that a theorem states itself (`ASSUME ... PROVE`), named below. Every
inductive invariant was checked with TLC, except that of `MythTV`, which
quantifies over sets of programs and cannot be evaluated.

* **RefMem**: `TypeCorrect`, `RefcountIsExact`, `PointersAreLive`,
  `DestroyedAtMostOnce`, `TotalIsExact`. `RefcountExact` alone is not
  inductive: a release in progress must know that its slot still owns the
  reference, a dying block must have no references, be on exactly one stack
  once, and what lies under it on the stack must be dying too. These are the
  conjuncts of the invariant. The total is the number of owned slots and of the
  threads between the two operations of a call; each step changes the
  cardinality of one of these sets by one, together with the counter, also for
  the release that a destroy function makes.
* **AtomicPPC**: `ReservationIsFresh` is the inductive invariant; `Refinement`
  maps a successful store to the abstract step and all else to stuttering;
  `TypeCorrect`.
* **DemuxRing**: `MarginIsKept`, `RingTypes`, `WaitingIsIntact`,
  `DeliveryInOrder`, `SeekIsHidden`. The first invariant says, for each step of
  `stream_add`, how the chosen tail relates to the real ones: a drain only
  moves the tail away from the head, so the choice stays safe; in a drain the
  bytes being drained are still there; and the seek flags agree with
  what `stream_add` remembers of them. The lemmas are the arithmetic of a ring
  (`RoomValue`, `HeadStep`, `TailStep`) and that the tests in `stream_add`
  leave the margin (`NotFull`). The second one adds what lies in the ring: from
  each tail on the labels follow each other up to the head, and up to the end
  of the copy when it is made and the head is not moved yet. It rests on the
  margin: a copy never reaches a byte between tail and head. Proved under
  `Calm`: no emptying under a drain, no flush of the video ring, no prodding of
  the parser. Without these the properties are violated (runs `ring_race` and
  `ring_flush`).
* **VideoThreads**: `VideoIsQuiet`, `TypeCorrect`. The invariant says that the
  semaphore counts the idle flags, that a video write thread past the semaphore
  is not idle, and that `video_playing` stays off from `video_clear` to
  `video_play`. That the semaphore stays between 0 and 2 rests on the same.
* **MythTV**: `TypeCorrect`, `LockOrderHolds`, `RequestHasReaderHolds`,
  `NothingLeakedHolds`, without hypotheses. A thread's state is the rest of its
  program, so the invariant types programs: `Typed(t, h, c, K, s)` says that
  thread `t` may run `s` to its end from every state in which it holds the
  mutexes `h`, has raised `prevent` `c` times and relies on the facts `K` (that
  what was asked is open, that an open or a jump is under way, that the read
  thread holds a reference or destroys the file, that the program exits, ...),
  and that each instruction on the way is allowed there. `Allowed` is the rule
  of each instruction, among them which mutexes may be held where a thread
  blocks. The relation is the greatest that the rules admit, the union of the
  `Closed` sets, because functions like `mythtv_livetv_stop` are met again on
  the way through their callers; every function is typed once, for whatever
  follows it. The invariant `IInv` says that the threads' programs are typed
  for the mutexes they own and for counts that add up to `prevent`, and that
  the facts are true. A step of one thread keeps the facts of the others,
  because the facts are the ones that a mutex protects or only their own thread
  undoes. The properties are read off: in a circle of waiting threads each must
  be at an instruction that may block, which leaves the cases of `LockOrder`;
  an empty program is typed only with no mutex and no increment, unless a fact
  says that something was leaked or the program exits.
* **CmythFile**: `FileBytesInPlace`, `FileTransferTypes`, under `FileSizes` (the
  file is shorter than the width of a position). The invariant relates the three
  positions: what is still to be read lies between `file_pos` and the backend's
  position, and the latter is `file_req` and what was sent of the request under
  way. While a seek holds the mutex none is under way.
* **ReplayTV**: `QueueIsAccounted`, `ChunksAreInOrder` (an action property),
  `TypeCorrect`, under `Sizes` (a queue of at least one buffer). The invariant
  adds where `rtv_abort_read` has got to and what that says of the two other
  threads, and which chunk lies in which buffer.
* **Emulate**: `StopIsUnderWay`, `TypeCorrect`. The property alone is not
  inductive, because the state is set some steps after the stop is sent. The
  invariant says it also of a thread that has sent a stop and not yet said so
  (`Awaited`): unless it was missed, a `MEDIA_STOP` is in the queue of requests,
  about to be sent on a new connection, or being handled; and from the middle of
  its handling on `mvp_state` is not `STOP_PENDING` (`Resetting`), so that its
  end resets all that there is. Requests are appended or the first is answered,
  so a stop leaves the queue only by its answer. The type theorem assumes that the number of keys is
  a natural number.
* **Playlist**: `ItemsAreLive`, types, under `HasSongs` (lists are not
  empty). What saves an item between `playlist_next` and `playlist_change` is
  that `audio_playing` covers that time.
* **CoverArt**: `CoversAreInPlace`, types, under `ArtSizes` (album numbers
  fit their width). As long as answers and questions have not shifted, the
  question under way is the one that the state and the index say, also after the
  other machine has set the state to idle: then nothing is claimed until browsing
  begins again, and a question still under way counts as mixed up.
* **VidEvents**: `FirstEventIsFound`, types, under `Clock` (the window
  is shorter than a turn of the clock). The circular list is sorted except at
  one place; a search from any point of such a list finds the least element
  that fits, when the window does not contain the wrap.
* **MClient**: `MusicIsInOrder`, types, under `MusicSizes` (a ring of
  at least one byte, three sequence numbers). What the client has got and the
  device has not lies in the ring from `tail` on, though `head` may be behind
  its end when the last datagram came twice; its end is where the server goes
  on; the answer by which the server computes the room is old, and the room in
  it is never more than there is; `seq_history` is one of the latest numbers
  and never the next one, so that the next datagram is taken for new.
* **DemuxParser**: `PacketsAreWhole`, types, under `ParserSizes` (the input is a sequence of packets,
  a pack header has at least two bytes). `bufsz` counts the bytes of a pack
  header in a pack and those of the length in any other frame; the invariant
  says that in the latter it is at most two until the payload begins. For the
  packets `WholeInv` adds that the handle agrees with the place in the input
  (`OnTrack`: what `remain` still counts is what lies between the byte to come
  and the end of the packet), and that each ring has got exactly those of its
  bytes that the parser has passed, in order (`Delivered`), the length bytes
  before a video payload unless the packet is in `cut` (`Headed`).
* **Clients**: a step is a step of one part and leaves the variables of the
  others alone (the lemma `PartsImplemented`, which only says how the parts are
  put together). With it the properties of the parts become theorems of
  `Clients`, whose definitions the run `clients` checks:
  `ItemsAreLive`, `CoversAreInPlace`, `FirstEventIsFound`, `MusicIsInOrder`,
  `PacketsAreWhole`, `QueueIsAccounted`, `ChunksAreInOrder`, `BytesAreInPlace`,
  `StopIsUnderWay`,
  and `ClientTypes` under all the hypotheses together (`AllSizes`, which hold in
  `MC_Clients.cfg`). The lemmas `RtvSame` and `EmuSame` say that the
  definitions that a proof module inherits from its component are those of the
  instance in `Clients`.

Only model-checked: everything temporal (`DyingIsFreed`, `AddProgress`,
`ClearReturnsUnlessSeeking`, `AudioFallsSilent`, `SeekSettles`, `JumpSettles`,
`PlayOpens`, `AbortReturns`, `AllSettle`), because liveness under fairness is
beyond the prover. The properties of the runs that expect a violation are false
of the code and have no proof.

## 6. Not modelled

See `components` in `PROJECT.json`. Inside the modelled parts: the statistics
of the streams, `demux_buffer_resize`, pausing, the restart of the player by
the playlist (`video_reopen = 2`), the choice of the audio output.

In the MythTV client: menus, the guide, schedules, the text of the protocol. In
libcmyth: connecting, the encoding of messages, ring buffers of old backends,
the contents of live TV chains. In the playlist: parsing of its files, images
and videos in a list, and streams (`http_playing`, `audio.c:1294-1299`), which
start again without the next item. In the music client: the playlist display, the remote
control protocol and discovery; and `ntohs(wptr << 1)` (`mclient_mvpmc.c:189`)
is taken for the position the server means, which it is on the big endian
MediaMVP only. In the emulation mode: pings and the keep
alive, the screen (RFB), scaling, finding a server, servers without the
extensions. In the parser: subtitles, the register of
streams, elementary streams without packets.

The largest parts of the repository that are left are drawing and fonts, menus,
and text (protocol strings, SQL, HTML, options): code of one thread with hardly
any state that the steps of another could disturb. A model would repeat it line
by line and say nothing about it.
