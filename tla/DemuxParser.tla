----------------------------- MODULE DemuxParser -----------------------------
(***************************************************************************)
(* The parser of the program stream (demux_put, add_buffer and parse_frame *)
(* of libs/libdemux).  The stream comes in chunks of any length, and a     *)
(* ring may be full at any time: the parser stops anywhere, and goes on    *)
(* from the handle's state with the next call.                             *)
(*                                                                         *)
(* The input is a sequence of packets: the start code 0 0 1, the type,     *)
(* and, but for a pack, two bytes of length n and n bytes.  A pack has     *)
(* Pack bytes, three more, and n bytes of stuffing.  What a byte is        *)
(* follows from the packet and its place in it; no payload looks like a    *)
(* start code.                                                             *)
(***************************************************************************)
EXTENDS Integers, Sequences

CONSTANTS
  Inputs,     \* sequences of packets [type, n]
  Pack,       \* bytes of a pack header the parser collects, 7 in the code
  MaxChunk    \* bound: the length of a chunk

\* current is the video stream or the audio stream that is played, other one
\* that is not, private carries AC3 audio, pad stands for every packet that is
\* skipped, end for the program end code and codes that are not known.
Types == {"video", "audio", "other", "private", "pad", "pack", "pack1", "end"}

Frame == 5

\* Bytes of a ring that are not payload, and a packet of AC3 audio.
Header == -3
LengthBytes == -2
AC3 == -1

VARIABLES
  inp,              \* the input
  p, off,           \* the packet and the place in it where the parser is
  avail,            \* bytes of the chunk that are left
  state,            \* 1..4, or Frame inside a frame
  remain, frame_state, bufsz, headernum,    \* of the handle
  seeking,
  video, audio,     \* what was added to the rings so far
  cut               \* ghost: video packets whose header did not fit

vars == <<inp, p, off, avail, state, remain, frame_state, bufsz, headernum,
          seeking, video, audio, cut>>

handle == <<remain, frame_state, bufsz, headernum>>
rings == <<seeking, video, audio, cut>>

Init ==
  /\ inp \in Inputs /\ p = 1 /\ off = 0 /\ avail = 0
  /\ state = 1 /\ remain = 0 /\ frame_state = 0 /\ bufsz = 0 /\ headernum = 0
  /\ seeking \in BOOLEAN /\ video = <<>> /\ audio = <<>> /\ cut = {}

-----------------------------------------------------------------------------
Length(k) ==
  LET k4 == inp[k] IN
  CASE k4.type = "pack" -> 4 + Pack + 3 + k4.n
    [] k4.type = "pack1" -> 4 + Pack
    [] k4.type = "end" -> 4
    [] OTHER -> 4 + 2 + k4.n

Byte == CASE off < 2 -> "0" [] off = 2 -> "1" [] off = 3 -> "type" [] OTHER -> "x"

\* The parser consumes m bytes, all of the same packet, and is done with it when
\* they are the last ones,
Consume(m) ==
  /\ avail' = avail - m
  /\ IF off + m = Length(p) THEN p' = p + 1 /\ off' = 0
                            ELSE p' = p /\ off' = off + m

\* or is to come back to it.
Stay(m) == avail' = avail - m /\ off' = off + m /\ UNCHANGED p

Least(a, b) == IF a < b THEN a ELSE b

\* m bytes of payload of the packet, from the place i bytes after off.
Payload(m, i) == [j \in 1..m |-> <<p, off + i + j - 6>>]

Ended == p > Len(inp)

\* read: the next chunk.
NextChunk ==
  /\ avail = 0 /\ ~Ended
  /\ avail' \in 1..MaxChunk
  /\ UNCHANGED <<inp, p, off, state, handle, rings>>

\* add_buffer looks for a start code.
Scan ==
  /\ avail > 0 /\ ~Ended /\ state \in 1..3
  /\ state' = CASE Byte = "0" -> Least(state + 1, 3)
                [] Byte = "1" -> (IF state = 3 THEN 4 ELSE 1)
                [] OTHER -> 1
  /\ Consume(1)
  /\ UNCHANGED <<inp, handle, rings>>

-----------------------------------------------------------------------------
(* parse_frame.  a is len-ret, c what has been consumed before, f the      *)
(* fields of the handle.  room: the ring has room for an add.              *)

Handle == [remain |-> remain, frame_state |-> frame_state, bufsz |-> bufsz,
           headernum |-> headernum]

Fresh == [remain |-> 0, frame_state |-> 0, bufsz |-> 0, headernum |-> 0]

SetHandle(f) ==
  /\ remain' = f.remain /\ frame_state' = f.frame_state
  /\ bufsz' = f.bufsz /\ headernum' = f.headernum

\* The frame is over after m bytes.
Over(m, f) == Consume(m) /\ SetHandle(f) /\ state' = 1
\* The frame goes on after m bytes.
More(m, f) == Stay(m) /\ SetHandle(f) /\ state' = Frame

\* stream_add of m bytes of payload.  An add to the video ring may end a seek.
AddVideo(m, i, headers) ==
  /\ video' = video \o headers \o Payload(m, i)
  /\ seeking' \in {FALSE, seeking} /\ UNCHANGED audio
  /\ cut' = IF headernum' < 2 THEN cut \cup {p} ELSE cut

AddAudio(m, i, headers) ==
  /\ audio' = audio \o headers \o Payload(m, i)
  /\ UNCHANGED <<seeking, video, cut>>

\* parse_ac3_frame and parse_pcm_frame, with the whole packet: "XXX: broken if
\* the demuxer fills up".
AddPrivate(room) ==
  /\ audio' = IF room THEN Append(audio, <<p, AC3>>) ELSE audio
  /\ UNCHANGED <<seeking, video, cut>>

\* The rest of a frame, by what it is a frame of.  A handle whose remain is
\* left over when the frame ends is reset with the next type.
Rest(a, room) ==
  LET n == Least(remain, a)
      m == IF frame_state \in {1, 2} /\ ~room THEN 0 ELSE n
  IN
  /\ IF remain = m THEN Over(m, Handle)
                   ELSE More(m, [Handle EXCEPT !.remain = @ - m])
  /\ CASE frame_state = 1 -> AddAudio(m, 0, <<>>)
       [] frame_state = 2 -> AddVideo(m, 0, <<>>)
       [] frame_state = 4 /\ remain = m -> AddPrivate(room)
       [] OTHER -> UNCHANGED rings

\* The pack header.  The stuffing of a pack that is cut off is taken for audio
\* (frame_state 1).
PackFrame(c, a, f) ==
  LET n == Least(Pack - f.bufsz, a)
      rest == a - n
      size == 2 + inp[p].n
  IN
  /\ UNCHANGED rings
  /\ CASE n + f.bufsz < Pack -> More(c + n, [f EXCEPT !.bufsz = @ + n])
       [] n + f.bufsz = Pack /\ inp[p].type = "pack1" ->
            Over(c + n, [f EXCEPT !.bufsz = Pack])
       [] n + f.bufsz = Pack /\ inp[p].type = "pack" /\ rest >= 3 ->
            IF rest >= size
              THEN Over(c + n + size, [f EXCEPT !.bufsz = Pack])
              ELSE More(c + a, [f EXCEPT !.bufsz = Pack, !.frame_state = 1,
                                         !.remain = size - rest])
       [] OTHER -> More(c + a, [f EXCEPT !.bufsz = rest, !.frame_state = 3,
                                         !.remain = 3 - rest])

\* The two bytes of length, of any other frame: w is what a leaves of them.
Two(f, a) == Least(2 - f.bufsz, a)

\* private_stream_1, private_stream_2, system_header_start_code, padding_stream.
OtherFrame(c, a, f, room) ==
  LET w == Two(f, a)
      n == inp[p].n
      g == [f EXCEPT !.bufsz = @ + w]
      private == inp[p].type = "private"
  IN
  IF g.bufsz < 2 THEN More(c + w, g) /\ UNCHANGED rings
  ELSE IF n <= a - w
    THEN Over(c + w + n, g) /\ (IF private THEN AddPrivate(room) ELSE UNCHANGED rings)
    ELSE /\ More(c + a, [g EXCEPT !.remain = n - (a - w),
                                  !.frame_state = IF private THEN 4 ELSE 0])
         /\ UNCHANGED rings

\* A stream that is not played is thrown away.
Unplayed(c, a, f) ==
  LET w == Two(f, a)
      g == [f EXCEPT !.bufsz = @ + w]
  IN /\ More(c + w, IF g.bufsz < 2 THEN g
                    ELSE [g EXCEPT !.remain = inp[p].n, !.frame_state = 0])
     /\ UNCHANGED rings

\* The header 0 0 1 type and the length, twice in a seek, k of them after h.
Headers(h, k) ==
  [i \in 1..(k - h) |-> <<p, IF (h + i) % 2 = 1 THEN Header ELSE LengthBytes>>]

\* Video: k headers fit.  When the ring is full the loop ends, and the payload
\* is added all the same.
VideoFrame(c, a, f, k, room) ==
  LET w == Two(f, a)
      n == inp[p].n
      m == IF room THEN Least(n, a - w) ELSE 0
      g == [f EXCEPT !.bufsz = @ + w, !.headernum = k]
  IN
  IF f.bufsz + w < 2
    THEN More(c + w, [f EXCEPT !.bufsz = @ + w]) /\ UNCHANGED rings
    ELSE /\ k \in f.headernum..(IF seeking THEN 4 ELSE 2)
         /\ IF n = m THEN Over(c + w + m, g)
                     ELSE More(c + w + m, [g EXCEPT !.remain = n - m,
                                                    !.frame_state = 2])
         /\ AddVideo(m, c + w, Headers(f.headernum, k))

\* Fault: the header starts again when the parser comes back.
AudioFrameAgain(c, a, f, k, room) ==
  LET w == Two(f, a)
      n == inp[p].n
      m == IF room THEN Least(n, a - w) ELSE 0
      g == [f EXCEPT !.bufsz = @ + w, !.headernum = k]
  IN
  IF f.bufsz + w < 2
    THEN More(c + w, [f EXCEPT !.bufsz = @ + w]) /\ UNCHANGED rings
    ELSE /\ k \in f.headernum..2
         /\ IF k < 2
              THEN More(c + w, [g EXCEPT !.headernum = 0]) /\ AddAudio(0, 0, Headers(f.headernum, k))
              ELSE /\ AddAudio(m, c + w, Headers(f.headernum, k))
                   /\ IF n = m THEN Over(c + w + m, g)
                               ELSE More(c + w + m, [g EXCEPT !.remain = n - m,
                                                              !.frame_state = 1])

\* Audio: the parser comes back until both parts of the header fit.
AudioFrame(c, a, f, k, room) ==
  LET w == Two(f, a)
      n == inp[p].n
      m == IF room THEN Least(n, a - w) ELSE 0
      g == [f EXCEPT !.bufsz = @ + w, !.headernum = k]
  IN
  IF f.bufsz + w < 2
    THEN More(c + w, [f EXCEPT !.bufsz = @ + w]) /\ UNCHANGED rings
    ELSE /\ k \in f.headernum..2
         /\ IF k < 2
              THEN More(c + w, g) /\ AddAudio(0, 0, Headers(f.headernum, k))
              ELSE /\ AddAudio(m, c + w, Headers(f.headernum, k))
                   /\ IF n = m THEN Over(c + w + m, g)
                               ELSE More(c + w + m, [g EXCEPT !.remain = n - m,
                                                              !.frame_state = 1])

Body(c, a, f, k, room) ==
  CASE inp[p].type \in {"pack", "pack1"} -> PackFrame(c, a, f)
    [] inp[p].type \in {"pad", "private"} -> OtherFrame(c, a, f, room)
    [] inp[p].type = "other" -> Unplayed(c, a, f)
    [] inp[p].type = "video" -> VideoFrame(c, a, f, k, room)
    [] inp[p].type = "audio" -> AudioFrame(c, a, f, k, room)
    [] inp[p].type = "end" -> Over(c, f) /\ UNCHANGED rings

\* parse_frame with the type byte, from add_buffer, or in the middle of a frame,
\* from demux_put.  When the frame ends with the chunk demux_put returns 0, and
\* gets the same bytes again, in which it looks for a start code: there is none.
ParseType(k, room) ==
  /\ avail > 0 /\ ~Ended /\ state = 4
  /\ Body(1, avail - 1, Fresh, k, room)
  /\ UNCHANGED inp

ParseFrame(k, room) ==
  /\ avail > 0 /\ ~Ended /\ state = Frame
  /\ IF remain > 0 THEN Rest(avail, room) ELSE Body(0, avail, Handle, k, room)
  /\ UNCHANGED inp

Parse(room) == \E k \in 0..4 : ParseType(k, room) \/ ParseFrame(k, room)

Next == NextChunk \/ Scan \/ \E room \in BOOLEAN : Parse(room)

Spec == Init /\ [][Next]_vars

\* The file has more data, and the write threads make room.
Room == Scan \/ NextChunk
        \/ (\E k \in {2, 4} : ParseType(k, TRUE) \/ ParseFrame(k, TRUE))
Fairness == WF_vars(Room)

FairSpec == Spec /\ Fairness

-----------------------------------------------------------------------------
TypeOK ==
  /\ inp \in Inputs /\ (\A i \in DOMAIN inp : inp[i].type \in Types)
  /\ p \in 1..(Len(inp) + 1) /\ off \in Nat /\ avail \in 0..MaxChunk
  /\ state \in 1..Frame /\ remain \in Nat /\ frame_state \in 0..4
  /\ bufsz \in 0..Pack /\ headernum \in 0..4 /\ seeking \in BOOLEAN
  /\ cut \subseteq 1..Len(inp)

IsPayload(b) == b[2] \notin {Header, LengthBytes}

\* The bytes of the audio packets, header and length included, and the payload
\* of the video packets.
Played(type) == {k \in 1..Len(inp) : inp[k].type = type}
AudioBytes == UNION {{k} \X ({Header, LengthBytes} \cup 1..inp[k].n) : k \in Played("audio")}
VideoBytes == UNION {{k} \X (1..inp[k].n) : k \in Played("video")}

Precedes(b, c) == b[1] < c[1] \/ (b[1] = c[1] /\ b[2] < c[2])

\* The bytes B of the ring come in their order, each once, and none is left out.
InSequence(ring, B) ==
  \A i \in {i \in DOMAIN ring : ring[i] \in B} :
    /\ \A j \in 1..(i - 1) : ring[j] \in B => Precedes(ring[j], ring[i])
    /\ \A b \in B : Precedes(b, ring[i]) => \E j \in 1..(i - 1) : ring[j] = b

\* However the stream is cut into chunks and whenever the rings are full, the
\* audio packets arrive whole and in order, and so does the payload of the video
\* packets, after the header and the length that parse_frame puts back ("Here we
\* re-construct the frame header"), unless the ring was too full for them when
\* the packet began: then parse_frame goes on without.
PacketsWhole ==
  /\ \A i \in DOMAIN audio : inp[audio[i][1]].type = "audio" => audio[i] \in AudioBytes
  /\ \A i \in DOMAIN video : IsPayload(video[i]) => video[i] \in VideoBytes
  /\ InSequence(audio, AudioBytes) /\ InSequence(video, VideoBytes)
  /\ \A i \in DOMAIN video :
       LET k == video[i][1]
       IN IsPayload(video[i]) /\ k \notin cut =>
            \E j \in 1..(i - 1) : video[j] = <<k, LengthBytes>>

\* The parser gets to the end of the stream, unless a packet that is thrown
\* away is empty: then parse_frame consumes nothing, and stays where it is.
Parsed == Ended \/ inp[p] = [type |-> "other", n |-> 0]
ParserProceeds == <>Parsed
=============================================================================
