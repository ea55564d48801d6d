------------------------------ MODULE DemuxRing ------------------------------
(***************************************************************************)
(* One media stream of libdemux (libs/libdemux/stream.c, demux.c): a ring  *)
(* buffer that the read thread fills with stream_add, that a write thread  *)
(* empties with stream_drain or stream_drain_fd, and that demux_reset and  *)
(* demux_flush empty at once.                                              *)
(*                                                                         *)
(* "tail" is the last byte consumed and "head" the next one to be written, *)
(* so the ring is empty when head is just after tail.  The video stream    *)
(* also has a parser, which follows head with a tail of its own, a seek    *)
(* mode, in which new bytes are hidden from the write thread behind        *)
(* seeking_head until the parser has found a sync point, and a mutex; the  *)
(* audio stream has none of these (its callers pass "force", which turns   *)
(* seek mode off).                                                         *)
(***************************************************************************)
EXTENDS Integers

CONSTANTS
  Size,          \* stream->size
  MaxAdd,        \* the most bytes one call of stream_add is given
  Margin,        \* bytes stream_add keeps free (6 in the code)
  Lookback,      \* bytes the parser needs to see a start code (5 in the code)
  Low,           \* free bytes at which a stuck parser is prodded (10 in the code)
  HasParser,     \* TRUE: the video stream; FALSE: the audio stream
  ParserStalls,  \* may the parser find nothing until the ring is almost full?
  Resets,        \* which of "reset", "flush" and "seek" are called
  ResetAnytime   \* are they called while a write thread is draining?

ASSUME SizeAssumption ==
  /\ Size \in Nat /\ MaxAdd \in Nat \ {0} /\ Margin \in Nat \ {0}
  /\ Lookback \in Nat \ {0} /\ Low \in Nat
  /\ MaxAdd + Margin < Size /\ Lookback + Low < Size
ASSUME ModeAssumption ==
  /\ HasParser \in BOOLEAN /\ ParserStalls \in BOOLEAN
  /\ ResetAnytime \in BOOLEAN /\ Resets \subseteq {"reset", "flush", "seek"}

VARIABLES
  head, tail, parser_tail,           \* fields of stream_t
  seeking_head, seeking_head_valid,
  seeking,                           \* handle->seeking
  mutex,                             \* holder of *ptr_tail_mutex, or "none"
  ppc, plen, pseek, ptail, pend,     \* stream_add: step, len, was_seeking, tail, end
  cpc, cn,                           \* stream_drain: step, number of bytes
  buf,                               \* ghost: what each cell holds, see below
  put, last                          \* ghost: labels of the next byte to be put,
                                     \* and of the last one delivered

index == <<head, tail, parser_tail, seeking_head, seeking_head_valid>>
producer == <<ppc, plen, pseek, ptail, pend>>
consumer == <<cpc, cn>>
vars == <<index, seeking, mutex, producer, consumer, buf, put, last>>

Cell == 0..(Size - 1)

\* The bytes of a stream are labelled 0, 1, 2, 0, 1, 2, ... in the order in
\* which they are put.  A cell that was not written since the last reset is
\* stale.
Label   == 0..2
Stale   == 3
Succ(l) == (l + 1) % 3

\* The cells of a ring whose indices are t and h: those waiting to be read,
\* and how many can still be written.
Waiting(h, t) == (h - t - 1 + Size) % Size
Room(h, t)    == (t - h + Size) % Size
At(t, k)      == (t + k) % Size

\* start_stream and demux_init, which calls demux_reset.
Init ==
  /\ head = 0 /\ tail = Size - 1 /\ parser_tail = Size - 1
  /\ seeking_head = 0 /\ seeking_head_valid = FALSE
  /\ seeking = TRUE /\ mutex = "none"
  /\ ppc = "idle" /\ plen = 0 /\ pseek = FALSE /\ ptail = 0 /\ pend = 0
  /\ cpc = "idle" /\ cn = 0
  /\ buf = [c \in Cell |-> Stale] /\ put = 0 /\ last = Stale

-----------------------------------------------------------------------------
(* stream_add, by the read thread.                                         *)

\* Fault: only the write thread's tail is respected.
LimitTailOwn == IF HasParser /\ seeking THEN parser_tail ELSE tail

\* Which tail must not be passed: in seek mode the parser's, otherwise the
\* earlier one of the two.
LimitTail ==
  IF ~HasParser THEN tail
  ELSE IF seeking \/ ((head - parser_tail + Size) % Size)
                        > ((head - tail + Size) % Size)
       THEN parser_tail ELSE tail

\* demux_empty, for this stream.
DemuxEmpty == head = (tail + 1) % Size

AddStart(len) ==
  /\ ppc = "idle"
  /\ plen' = len
  /\ pseek' = (HasParser /\ seeking)
  /\ ptail' = LimitTail
  /\ ppc' = IF HasParser /\ seeking /\ ~DemuxEmpty
            THEN "discard" ELSE "copy"
  /\ UNCHANGED <<index, seeking, mutex, pend, consumer, buf, put, last>>

\* Fault: what the write thread has not yet read stays.
AddDiscardNothing ==
  /\ ppc = "discard" /\ mutex = "none"
  /\ ppc' = "copy"
  /\ UNCHANGED <<index, seeking, mutex, plen, pseek, ptail, pend, consumer,
                 buf, put, last>>

\* Seek mode has begun: what the write thread has not yet read is dropped.
AddDiscard ==
  /\ ppc = "discard" /\ mutex = "none"
  /\ tail' = (Size + head - 1) % Size
  /\ ppc' = "copy"
  /\ last' = Stale
  /\ UNCHANGED <<head, parser_tail, seeking_head, seeking_head_valid, seeking,
                 mutex, plen, pseek, ptail, pend, consumer, buf, put>>

AddHead == IF pseek /\ seeking_head_valid THEN seeking_head ELSE head

\* Fault: the tail itself may be overwritten.
IsFullNoMargin(h, t, len) == len > Room(h, t)

\* Fault: an empty ring is taken for a full one.
IsFullWhenEmpty(h, t, len) == len + Margin > Room(h, t) \/ h = (t + 1) % Size

\* Fault: the case that the free space does not wrap is forgotten.
IsFullUnwrapped(h, t, len) ==
  LET end == (h + len + Margin) % Size
  IN  len > Size \/ h = t \/ (end < h /\ end > t)

\* The tests of stream_add: is there no room for len bytes and the margin?
IsFull(h, t, len) ==
  LET end == (h + len + Margin) % Size
  IN  \/ len > Size
      \/ h = t
      \/ IF h > t THEN end < h /\ end > t ELSE end > t \/ end < h

AddFull ==
  /\ ppc = "copy" /\ IsFull(AddHead, ptail, plen)
  /\ ppc' = "idle"
  /\ UNCHANGED <<index, seeking, mutex, plen, pseek, ptail, pend, consumer,
                 buf, put, last>>

\* Both calls of memcpy.
AddCopy ==
  /\ ppc = "copy" /\ ~IsFull(AddHead, ptail, plen)
  /\ buf' = [c \in Cell |-> LET k == (c - AddHead + Size) % Size
                            IN  IF k < plen THEN (put + k) % 3 ELSE buf[c]]
  /\ put' = (put + plen) % 3
  /\ pend' = (AddHead + plen) % Size
  /\ ppc' = "publish"
  /\ UNCHANGED <<index, seeking, mutex, plen, pseek, ptail, consumer, last>>

AddPublish ==
  /\ ppc = "publish"
  /\ IF pseek
     THEN seeking_head' = pend /\ seeking_head_valid' = TRUE /\ head' = head
     ELSE head' = pend /\ UNCHANGED <<seeking_head, seeking_head_valid>>
  /\ ppc' = IF HasParser THEN "parse" ELSE "idle"
  /\ UNCHANGED <<tail, parser_tail, seeking, mutex, plen, pseek, ptail, pend,
                 consumer, buf, put, last>>

\* parse_video_stream moves its tail over what it has parsed, not beyond the
\* last byte but one.  It stays where it is when there are too few bytes.
ParserAdvance ==
  LET avail == Waiting(pend, parser_tail)
      full  == Room(pend, parser_tail) <= Low
  IN  IF avail < Lookback THEN {0}
      ELSE {k \in 0..(avail - 1) : k = 0 /\ full => ParserStalls}

\* Where the parser's tail goes when parse_video_stream has moved it by k: a
\* parser that made no headway in a ring that is almost full skips a byte.
NewParserTail(k) ==
  LET newtail == At(parser_tail, k)
  IN  IF newtail = parser_tail /\ Room(pend, newtail) <= Low
      THEN newtail + 1 ELSE newtail

\* In seek mode the parser may find the sync point (found), which ends it.
AddParse ==
  /\ ppc = "parse"
  /\ \E k \in ParserAdvance, found \in BOOLEAN :
       /\ found => seeking /\ Waiting(pend, parser_tail) >= Lookback
       /\ parser_tail' = NewParserTail(k)
       /\ seeking' = (seeking /\ ~found)
       /\ ppc' = IF pseek /\ ~seeking' THEN "commit" ELSE "idle"
       /\ seeking_head_valid' =
            (seeking_head_valid /\ (seeking' \/ ppc' = "commit"))
  /\ UNCHANGED <<head, tail, seeking_head, mutex, plen, pseek, ptail, pend,
                 consumer, buf, put, last>>

\* Fault: the write thread restarts at the old place.
AddCommitNoTail ==
  /\ ppc = "commit" /\ mutex = "none"
  /\ head' = pend
  /\ seeking_head_valid' = (seeking_head_valid /\ seeking)
  /\ ppc' = "idle"
  /\ UNCHANGED <<tail, parser_tail, seeking_head, seeking, mutex, plen, pseek,
                 ptail, pend, consumer, buf, put, last>>

\* The seek is over: the write thread sees the bytes from the sync point on.
AddCommit ==
  /\ ppc = "commit" /\ mutex = "none"
  /\ head' = pend /\ tail' = parser_tail
  /\ seeking_head_valid' = (seeking_head_valid /\ seeking)
  /\ ppc' = "idle" /\ last' = Stale
  /\ UNCHANGED <<parser_tail, seeking_head, seeking, mutex, plen, pseek, ptail,
                 pend, consumer, buf, put>>

-----------------------------------------------------------------------------
(* stream_drain, stream_drain_fd and stream_peek, by the write thread.     *)

\* size1 + size2.
Available == IF head >= tail THEN head - tail - 1 ELSE Size - tail - 1 + head

\* The bytes are copied or written out: all there are, fewer (max, or a short
\* write), or none (an error).  The video stream's mutex is held meanwhile.
DrainStart ==
  /\ cpc = "idle" /\ mutex = "none" /\ Available > 0
  /\ cn' \in 0..Available
  /\ cpc' = "drain"
  /\ mutex' = IF HasParser THEN "consumer" ELSE "none"
  /\ UNCHANGED <<index, seeking, producer, buf, put, last>>

\* Fault: the whole of the ring counts as drained after a short write.
DrainEndAll ==
  /\ cpc = "drain"
  /\ tail' = (tail + Available) % Size
  /\ last' = IF cn = 0 THEN last ELSE buf[At(tail, cn)]
  /\ cpc' = "idle" /\ cn' = 0 /\ mutex' = "none"
  /\ UNCHANGED <<head, parser_tail, seeking_head, seeking_head_valid, seeking,
                 producer, buf, put>>

\* Fault: the tail is not wrapped.
DrainEndNoWrap ==
  /\ cpc = "drain"
  /\ tail' = tail + cn
  /\ last' = IF cn = 0 THEN last ELSE buf[At(tail, cn)]
  /\ cpc' = "idle" /\ cn' = 0 /\ mutex' = "none"
  /\ UNCHANGED <<head, parser_tail, seeking_head, seeking_head_valid, seeking,
                 producer, buf, put>>

DrainEnd ==
  /\ cpc = "drain"
  /\ tail' = (tail + cn) % Size
  /\ last' = IF cn = 0 THEN last ELSE buf[At(tail, cn)]
  /\ cpc' = "idle" /\ cn' = 0 /\ mutex' = "none"
  /\ UNCHANGED <<head, parser_tail, seeking_head, seeking_head_valid, seeking,
                 producer, buf, put>>

-----------------------------------------------------------------------------
(* demux_reset, demux_flush and demux_seek, as the read thread calls them  *)
(* between two calls of demux_put.  They take no lock.                     *)
Empty(valid) ==
  /\ ppc = "idle"
  /\ ResetAnytime \/ cpc = "idle"
  /\ head' = 0 /\ tail' = Size - 1 /\ parser_tail' = Size - 1
  /\ seeking' = TRUE
  /\ seeking_head_valid' = valid
  /\ buf' = [c \in Cell |-> Stale] /\ last' = Stale
  /\ UNCHANGED <<seeking_head, mutex, producer, consumer, put>>

DemuxReset == "reset" \in Resets /\ Empty(FALSE)
DemuxFlush == "flush" \in Resets /\ Empty(seeking_head_valid)

DemuxSeek ==
  /\ "seek" \in Resets /\ ppc = "idle" /\ ~seeking
  /\ seeking' = TRUE
  /\ UNCHANGED <<index, mutex, producer, consumer, buf, put, last>>

Next ==
  \/ \E len \in 1..MaxAdd : AddStart(len)
  \/ AddDiscard \/ AddFull \/ AddCopy \/ AddPublish \/ AddParse \/ AddCommit
  \/ DrainStart \/ DrainEnd
  \/ DemuxReset \/ DemuxFlush \/ DemuxSeek

Spec == Init /\ [][Next]_vars

\* The read thread offers the data again and again, a write thread is never
\* stopped inside a drain, and the device accepts bytes now and then.
Producer ==
  \/ \E len \in 1..MaxAdd : AddStart(len)
  \/ AddDiscard \/ AddFull \/ AddCopy \/ AddPublish \/ AddParse \/ AddCommit
FairSpec ==
  /\ Spec
  /\ WF_vars(Producer)
  /\ WF_vars(DrainEnd)
  /\ SF_vars(DrainStart /\ cn' > 0)
-----------------------------------------------------------------------------
TypeOK ==
  /\ head \in Cell /\ tail \in Cell /\ parser_tail \in 0..Size
  /\ seeking_head \in Cell /\ seeking_head_valid \in BOOLEAN
  /\ seeking \in BOOLEAN /\ mutex \in {"none", "consumer"}
  /\ ppc \in {"idle", "discard", "copy", "publish", "parse", "commit"}
  /\ plen \in 0..MaxAdd /\ pseek \in BOOLEAN
  /\ ptail \in 0..Size /\ pend \in Cell
  /\ cpc \in {"idle", "drain"} /\ cn \in Cell
  /\ buf \in [Cell -> Label \cup {Stale}]
  /\ put \in Label /\ last \in Label \cup {Stale}

\* The bytes that wait for the write thread are intact and in the order in
\* which they were put, whatever stream_add writes at the same time: none of
\* them was overwritten, skipped, or left over from before a reset.
WaitingIntact ==
  LET n == Waiting(head, tail)
  IN  /\ \A k \in 1..n : buf[At(tail, k)] # Stale
      /\ \A k \in 1..(n - 1) : buf[At(tail, k + 1)] = Succ(buf[At(tail, k)])

\* The write thread gets the bytes in order and without a gap, except where
\* a seek cuts.
InOrder ==
  Waiting(head, tail) > 0 /\ last # Stale => buf[At(tail, 1)] = Succ(last)

\* The bytes put last never reach the write thread's tail, which would make
\* a full ring look like one with -1 bytes, nor the parser's: stream_add's
\* margin is always kept to both.
MarginKept ==
  /\ Room(head, tail) >= Margin
  /\ HasParser =>
       Room(IF seeking_head_valid THEN seeking_head ELSE head, parser_tail)
         >= Margin

\* In seek mode the write thread sees nothing of what the parser is still
\* searching.
SeekHidesData ==
  seeking_head_valid => Waiting(head, tail) = 0

\* demux_flush: "flush media data from the demux buffers".  No byte that was
\* put before the flush is given to the write thread after it.
FlushDiscards ==
  \A k \in 1..Waiting(head, tail) : buf[At(tail, k)] # Stale

\* stream_add is able to add something again and again, as long as the write
\* thread keeps draining: a full ring never stays full.
AddProgress == []<>(ppc = "publish")
=============================================================================
