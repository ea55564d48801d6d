--------------------------- MODULE DemuxRingProofs ---------------------------
(***************************************************************************)
(* Proofs that stream_add keeps its margin to both tails, and from it that *)
(* the write thread gets every byte, intact, in order and not before a     *)
(* seek is over, whatever the size of the ring and of the chunks, as long  *)
(* as the ring is not emptied under the write thread's feet, the video     *)
(* ring not flushed, and the parser does not stall: without these the      *)
(* violation runs of DemuxRing apply.                                      *)
(***************************************************************************)
EXTENDS DemuxRing, TLAPS

Calm ==
  /\ ~ParserStalls /\ ~ResetAnytime
  /\ HasParser => "flush" \notin Resets

\* What % does to an index that has left the ring by less than one turn.
LEMMA Mod ==
  ASSUME NEW n \in Nat \ {0}, NEW x \in 0..(2 * n - 1)
  PROVE  x % n = IF x < n THEN x ELSE x - n
<1>1. CASE x < n
  BY <1>1
<1>2. CASE x >= n
  BY <1>2
<1> QED
  BY <1>1, <1>2

LEMMA ModSize ==
  ASSUME NEW x \in Int, 0 <= x, x < 2 * Size
  PROVE  x % Size = IF x < Size THEN x ELSE x - Size
<1>1. Size \in Nat \ {0} /\ x \in 0..(2 * Size - 1)
  BY SizeAssumption
<1> QED
  BY <1>1, Mod

\* The distances in the ring without %.
LEMMA RoomValue ==
  ASSUME NEW h \in Cell, NEW t \in Cell
  PROVE  /\ Room(h, t) = IF t >= h THEN t - h ELSE t - h + Size
         /\ Room(h, t) \in 0..(Size - 1)
         /\ Waiting(h, t) = Size - 1 - Room(h, t)
<1>1. Size \in Nat \ {0} /\ h \in 0..(Size - 1) /\ t \in 0..(Size - 1)
  BY SizeAssumption DEF Cell
<1> DEFINE x == t - h + Size
           y == h - t - 1 + Size
<1>2. x \in Int /\ 0 <= x /\ x < 2 * Size
  BY <1>1
<1>3. y \in Int /\ 0 <= y /\ y < 2 * Size
  BY <1>1
<1>4. Room(h, t) = x % Size /\ Waiting(h, t) = y % Size
  BY DEF Room, Waiting
<1> HIDE DEF x, y
<1>5. x % Size = IF x < Size THEN x ELSE x - Size
  BY <1>2, ModSize
<1>6. y % Size = IF y < Size THEN y ELSE y - Size
  BY <1>3, ModSize
<1> QED
  BY <1>1, <1>4, <1>5, <1>6 DEF x, y

\* An index that moves on by k.
LEMMA Step ==
  ASSUME NEW c \in Cell, NEW k \in 0..(Size - 1)
  PROVE  /\ (c + k) % Size = IF c + k < Size THEN c + k ELSE c + k - Size
         /\ (c + k) % Size \in Cell
<1>1. Size \in Nat \ {0} /\ c \in 0..(Size - 1) /\ k \in 0..(Size - 1)
  BY SizeAssumption DEF Cell
<1> DEFINE x == c + k
<1>2. x \in Int /\ 0 <= x /\ x < 2 * Size
  BY <1>1
<1> HIDE DEF x
<1>3. x % Size = IF x < Size THEN x ELSE x - Size
  BY <1>2, ModSize
<1>4. x % Size \in 0..(Size - 1)
  BY <1>1, <1>2, <1>3
<1> QED
  BY <1>1, <1>3, <1>4 DEF x, Cell

\* Writing k bytes takes k bytes of room,
LEMMA HeadStep ==
  ASSUME NEW h \in Cell, NEW t \in Cell, NEW k \in 0..(Size - 1), k <= Room(h, t)
  PROVE  (h + k) % Size \in Cell /\ Room((h + k) % Size, t) = Room(h, t) - k
<1> DEFINE e == (h + k) % Size
<1>1. e \in Cell /\ e = IF h + k < Size THEN h + k ELSE h + k - Size
  BY Step
<1> HIDE DEF e
<1>2. /\ Room(h, t) = IF t >= h THEN t - h ELSE t - h + Size
      /\ Room(e, t) = IF t >= e THEN t - e ELSE t - e + Size
  BY <1>1, RoomValue
<1>3. Size \in Nat \ {0} /\ h \in 0..(Size - 1) /\ t \in 0..(Size - 1)
  BY SizeAssumption DEF Cell
<1>4. Room(e, t) = Room(h, t) - k
  BY <1>1, <1>2, <1>3
<1> QED
  BY <1>1, <1>4 DEF e

\* and reading k gives k.
LEMMA TailStep ==
  ASSUME NEW h \in Cell, NEW t \in Cell, NEW k \in 0..(Size - 1),
         k + Room(h, t) <= Size - 1
  PROVE  (t + k) % Size \in Cell /\ Room(h, (t + k) % Size) = Room(h, t) + k
<1> DEFINE e == (t + k) % Size
<1>1. e \in Cell /\ e = IF t + k < Size THEN t + k ELSE t + k - Size
  BY Step
<1> HIDE DEF e
<1>2. /\ Room(h, t) = IF t >= h THEN t - h ELSE t - h + Size
      /\ Room(h, e) = IF e >= h THEN e - h ELSE e - h + Size
  BY <1>1, RoomValue
<1>3. Size \in Nat \ {0} /\ h \in 0..(Size - 1) /\ t \in 0..(Size - 1)
  BY SizeAssumption DEF Cell
<1>4. Room(h, e) = Room(h, t) + k
  BY <1>1, <1>2, <1>3
<1> QED
  BY <1>1, <1>4 DEF e

\* The tests of stream_add: a chunk that is accepted leaves the margin.
LEMMA NotFull ==
  ASSUME NEW h \in Cell, NEW t \in Cell, NEW len \in 1..MaxAdd, ~IsFull(h, t, len)
  PROVE  Room(h, t) >= len + Margin
<1>1. /\ Size \in Nat \ {0} /\ h \in 0..(Size - 1) /\ t \in 0..(Size - 1)
      /\ len \in Nat /\ Margin \in Nat /\ len + Margin < Size
  BY SizeAssumption DEF Cell
<1> DEFINE e == h + len + Margin
<1>2. e \in Int /\ 0 <= e /\ e < 2 * Size
  BY <1>1
<1>3. /\ h # t
      /\ h > t => e % Size >= h \/ e % Size <= t
      /\ ~(h > t) => e % Size <= t /\ e % Size >= h
  <2>1. e % Size \in Int
    BY <1>1, <1>2
  <2> QED
    BY <1>1, <2>1 DEF IsFull
<1>4. Room(h, t) = IF t >= h THEN t - h ELSE t - h + Size
  BY RoomValue
<1>5. e % Size = IF e < Size THEN e ELSE e - Size
  <2> HIDE DEF e
  <2> QED
    BY <1>2, ModSize
<1>6. CASE h > t
  BY <1>1, <1>3, <1>4, <1>5, <1>6
<1>7. CASE ~(h > t)
  BY <1>1, <1>3, <1>4, <1>5, <1>7
<1> QED
  BY <1>6, <1>7

\* The tail that stream_add chooses is the one it reaches first.
LEMMA LimitTailFirst ==
  ASSUME head \in Cell, tail \in Cell, parser_tail \in Cell,
         Room(head, tail) >= 1, HasParser => Room(head, parser_tail) >= 1
  PROVE  /\ LimitTail \in Cell
         /\ HasParser /\ ~seeking => /\ Room(head, LimitTail) <= Room(head, tail)
                                     /\ Room(head, LimitTail) <= Room(head, parser_tail)
         /\ HasParser /\ seeking => LimitTail = parser_tail
         /\ ~HasParser => LimitTail = tail
<1>1. ASSUME NEW t \in Cell, Room(head, t) >= 1
      PROVE  (head - t + Size) % Size = Size - Room(head, t)
  <2>1. Size \in Nat \ {0} /\ head \in 0..(Size - 1) /\ t \in 0..(Size - 1)
    BY SizeAssumption DEF Cell
  <2> DEFINE x == head - t + Size
  <2>2. x \in Int /\ 0 <= x /\ x < 2 * Size
    BY <2>1
  <2>3. x % Size = IF x < Size THEN x ELSE x - Size
    <3> HIDE DEF x
    <3> QED
      BY <2>2, ModSize
  <2>4. Room(head, t) = IF t >= head THEN t - head ELSE t - head + Size
    BY RoomValue
  <2> QED
    BY <1>1, <2>1, <2>3, <2>4
<1>2. /\ Room(head, tail) \in Int /\ Room(head, parser_tail) \in Int
      /\ Size \in Nat
  BY RoomValue, SizeAssumption
<1>3. CASE ~HasParser
  BY <1>3 DEF LimitTail
<1>4. CASE HasParser /\ seeking
  BY <1>4 DEF LimitTail
<1>5. CASE HasParser /\ ~seeking
  <2>1. /\ (head - tail + Size) % Size = Size - Room(head, tail)
        /\ (head - parser_tail + Size) % Size = Size - Room(head, parser_tail)
    BY <1>1, <1>5
  <2>2. LimitTail = IF Size - Room(head, parser_tail) > Size - Room(head, tail)
                    THEN parser_tail ELSE tail
    BY <1>5, <2>1 DEF LimitTail
  <2> QED
    BY <1>2, <1>5, <2>2
<1> QED
  BY <1>3, <1>4, <1>5

\* Where the next byte of the parser's view goes.
End == IF seeking_head_valid THEN seeking_head ELSE head

\* The room of an empty ring.
LEMMA EmptyRoom == Size - 1 \in Cell /\ 0 \in Cell /\ Room(0, Size - 1) = Size - 1
<1>1. Size - 1 \in Cell /\ 0 \in Cell
  BY SizeAssumption DEF Cell
<1> QED
  BY <1>1, RoomValue, SizeAssumption

-----------------------------------------------------------------------------
(* The inductive invariant.                                                *)

Types ==
  /\ head \in Cell /\ tail \in Cell /\ parser_tail \in Cell
  /\ seeking_head \in Cell /\ seeking_head_valid \in BOOLEAN
  /\ seeking \in BOOLEAN /\ pseek \in BOOLEAN
  /\ ptail \in Cell /\ pend \in Cell /\ plen \in 0..MaxAdd
  /\ ppc \in {"discard", "copy", "publish"} => plen \in 1..MaxAdd
  /\ ppc \in {"idle", "discard", "copy", "publish", "parse", "commit"}

\* What the write thread is draining is there, and nobody takes it away.
Draining ==
  cpc = "drain" => /\ cn \in 0..(Size - 1)
                   /\ cn + Room(head, tail) <= Size - 1
                   /\ HasParser => mutex = "consumer"

\* The flags of seek mode agree with what stream_add remembers of them.
SeekFlags ==
  /\ ppc \in {"discard", "copy", "publish", "parse"} =>
       (pseek <=> HasParser /\ seeking)
  /\ seeking_head_valid => HasParser /\ (seeking \/ ppc = "commit")
  /\ ppc \in {"discard", "commit"} => pseek
  /\ ppc \in {"parse", "commit"} => HasParser /\ pend = End
  /\ ppc = "parse" /\ pseek => seeking_head_valid
  /\ ppc = "commit" => seeking_head_valid /\ ~seeking

\* The tail that was chosen is still not behind either tail, and the bytes
\* that are copied leave the margin.
Limits ==
  /\ ppc \in {"discard", "copy"} /\ HasParser =>
       Room(End, ptail) <= Room(End, parser_tail)
  /\ ppc = "copy" /\ ~pseek => Room(head, ptail) <= Room(head, tail)
  /\ ppc = "publish" /\ HasParser => Room(pend, parser_tail) >= Margin
  /\ ppc = "publish" /\ ~pseek => /\ Room(pend, tail) >= Margin
                                  /\ Room(pend, tail) <= Room(head, tail)

Margins ==
  /\ Room(head, tail) >= Margin
  /\ HasParser => Room(End, parser_tail) >= Margin

IInv == Types /\ Draining /\ SeekFlags /\ Limits /\ Margins

\* The empty ring of demux_init satisfies the invariant.
LEMMA InitIInv == Init => IInv
<1> HAVE Init
<1>1. Size - 1 \in Cell /\ 0 \in Cell /\ Room(0, Size - 1) = Size - 1
  BY EmptyRoom
<1>2. Size - 1 >= Margin /\ 0 \in 0..MaxAdd
  BY SizeAssumption
<1> QED
  BY <1>1, <1>2
     DEF Init, IInv, Types, Draining, SeekFlags, Limits, Margins, End

\* stream_add: choosing the tail that limits it.
LEMMA StartStep == ASSUME IInv, NEW len \in 1..MaxAdd, AddStart(len) PROVE IInv'
<1> USE DEF index, producer, consumer
<1>1. /\ UNCHANGED <<head, tail, parser_tail, seeking_head, seeking_head_valid,
                      seeking, mutex, pend, cpc, cn>>
      /\ ppc = "idle" /\ plen' = len /\ pseek' = (HasParser /\ seeking)
      /\ ptail' = LimitTail
      /\ ppc' \in {"discard", "copy"}
      /\ ppc' = "discard" => HasParser /\ seeking
  BY DEF AddStart
<1>2. /\ head \in Cell /\ tail \in Cell /\ parser_tail \in Cell
      /\ seeking \in BOOLEAN /\ seeking_head_valid \in BOOLEAN
  BY DEF IInv, Types
<1>3. ~seeking => ~seeking_head_valid
  BY <1>1 DEF IInv, SeekFlags
<1>4. Room(head, tail) >= 1
  BY <1>2, RoomValue, SizeAssumption DEF IInv, Margins
<1>5. HasParser /\ ~seeking => Room(head, parser_tail) >= 1
  BY <1>2, <1>3, RoomValue, SizeAssumption DEF IInv, Margins, End
<1>6. /\ LimitTail \in Cell
      /\ HasParser /\ ~seeking => /\ Room(head, LimitTail) <= Room(head, tail)
                                  /\ Room(head, LimitTail) <= Room(head, parser_tail)
      /\ HasParser /\ seeking => LimitTail = parser_tail
      /\ ~HasParser => LimitTail = tail
  <2>1. CASE HasParser /\ seeking
    BY <1>2, <2>1 DEF LimitTail
  <2>2. CASE ~(HasParser /\ seeking)
    BY <1>2, <1>4, <1>5, <2>2, LimitTailFirst
  <2> QED
    BY <2>1, <2>2
<1>7. Types'
  BY <1>1, <1>2, <1>6, SizeAssumption DEF IInv, Types
<1>8. Draining' /\ Margins'
  BY <1>1 DEF IInv, Draining, Margins, End
<1>9. SeekFlags'
  BY <1>1, <1>3 DEF IInv, SeekFlags
<1>10. Limits'
  <2>1. End' = End
    BY <1>1 DEF End
  <2>2. HasParser => Room(End, LimitTail) <= Room(End, parser_tail)
    <3>1. CASE seeking
      <4>1. End \in Cell
        BY DEF End, IInv, Types
      <4>2. Room(End, parser_tail) \in Int
        BY <1>2, <4>1, RoomValue
      <4> QED
        BY <1>6, <3>1, <4>2
    <3>2. CASE ~seeking
      BY <1>3, <1>6, <3>2 DEF End
    <3> QED
      BY <3>1, <3>2
  <2>3. ~(HasParser /\ seeking) => Room(head, LimitTail) <= Room(head, tail)
    <3>1. Room(head, tail) \in Int
      BY <1>2, RoomValue
    <3> QED
      BY <1>6, <3>1
  <2> QED
    BY <1>1, <2>1, <2>2, <2>3 DEF Limits
<1> QED
  BY <1>7, <1>8, <1>9, <1>10 DEF IInv

\* stream_add in seek mode: what was not read is dropped.
LEMMA DiscardStep == ASSUME IInv, AddDiscard PROVE IInv'
<1> USE DEF index, producer, consumer
<1>1. /\ UNCHANGED <<head, parser_tail, seeking_head, seeking_head_valid,
                      seeking, mutex, plen, pseek, ptail, pend, cpc, cn>>
      /\ ppc = "discard" /\ mutex = "none" /\ ppc' = "copy"
      /\ tail' = (Size + head - 1) % Size
  BY DEF AddDiscard
<1>2. head \in Cell /\ HasParser /\ pseek
  BY <1>1 DEF IInv, Types, SeekFlags
<1>3. tail' \in Cell /\ Room(head, tail') = Size - 1
  <2>1. Size \in Nat \ {0, 1} /\ head \in 0..(Size - 1)
    BY <1>2, SizeAssumption DEF Cell
  <2> DEFINE x == Size + head - 1
  <2>2. x \in Int /\ 0 <= x /\ x < 2 * Size
    BY <2>1
  <2>3. x % Size = IF x < Size THEN x ELSE x - Size
    <3> HIDE DEF x
    <3> QED
      BY <2>2, ModSize
  <2>4. /\ tail' = IF head = 0 THEN Size - 1 ELSE head - 1
        /\ tail' \in Cell
    BY <1>1, <2>1, <2>3 DEF Cell
  <2>5. Room(head, tail') = IF tail' >= head THEN tail' - head ELSE tail' - head + Size
    BY <1>2, <2>4, RoomValue
  <2> QED
    BY <2>1, <2>4, <2>5
<1>4. End' = End
  BY <1>1 DEF End
<1>5. cpc # "drain"
  BY <1>1, <1>2 DEF IInv, Draining
<1>6. Types' /\ Draining' /\ SeekFlags'
  BY <1>1, <1>3, <1>4, <1>5 DEF IInv, Types, Draining, SeekFlags
<1>7. Limits'
  BY <1>1, <1>2, <1>4 DEF IInv, Limits
<1>8. Margins'
  BY <1>1, <1>3, <1>4, SizeAssumption DEF IInv, Margins
<1> QED
  BY <1>6, <1>7, <1>8 DEF IInv

\* stream_add finds no room.
LEMMA FullStep == ASSUME IInv, AddFull PROVE IInv'
<1> USE DEF index, producer, consumer
<1>1. /\ UNCHANGED <<head, tail, parser_tail, seeking_head, seeking_head_valid,
                      seeking, mutex, plen, pseek, ptail, pend, cpc, cn>>
      /\ ppc = "copy" /\ ppc' = "idle"
  BY DEF AddFull
<1> QED
  BY <1>1 DEF IInv, Types, Draining, SeekFlags, Limits, Margins, End

\* In the middle of stream_add, its head is the end of the parser's view.
LEMMA AddHeadIsEnd ==
  ASSUME IInv, ppc \in {"copy", "publish"}
  PROVE  /\ AddHead = End /\ End \in Cell
         /\ ~pseek => End = head
         /\ pseek => HasParser
<1>1. pseek <=> HasParser /\ seeking
  BY DEF IInv, SeekFlags
<1>2. seeking_head_valid => HasParser /\ seeking
  BY DEF IInv, SeekFlags
<1>3. head \in Cell /\ seeking_head \in Cell
  BY DEF IInv, Types
<1> QED
  BY <1>1, <1>2, <1>3 DEF AddHead, End

\* stream_add copies: the chunk and the margin fit in front of both tails.
LEMMA CopyStep == ASSUME IInv, AddCopy PROVE IInv'
<1> USE DEF index, producer, consumer
<1>1. /\ UNCHANGED <<head, tail, parser_tail, seeking_head, seeking_head_valid,
                      seeking, mutex, plen, pseek, ptail, cpc, cn>>
      /\ ppc = "copy" /\ ppc' = "publish"
      /\ ~IsFull(AddHead, ptail, plen)
      /\ pend' = (AddHead + plen) % Size
  BY DEF AddCopy
<1>2. /\ tail \in Cell /\ parser_tail \in Cell /\ ptail \in Cell
      /\ plen \in 1..MaxAdd
  BY <1>1 DEF IInv, Types
<1>3. /\ AddHead = End /\ End \in Cell
      /\ ~pseek => End = head
      /\ pseek => HasParser
  BY <1>1, AddHeadIsEnd
<1>4. Room(End, ptail) >= plen + Margin
  BY <1>1, <1>2, <1>3, NotFull
<1>5. plen \in 0..(Size - 1) /\ plen \in Nat /\ Margin \in Nat
  BY <1>2, SizeAssumption
<1>6. ASSUME NEW t \in Cell, Room(End, ptail) <= Room(End, t)
      PROVE  /\ pend' \in Cell
             /\ Room(pend', t) >= Margin
             /\ Room(pend', t) <= Room(End, t)
  <2>1. Room(End, t) \in Int /\ Room(End, ptail) \in Int
    BY <1>2, <1>3, RoomValue
  <2>2. plen <= Room(End, t)
    BY <1>4, <1>5, <1>6, <2>1
  <2>3. pend' \in Cell /\ Room(pend', t) = Room(End, t) - plen
    BY <1>1, <1>3, <1>5, <2>2, HeadStep
  <2> QED
    BY <1>4, <1>5, <1>6, <2>1, <2>3
<1>7. Room(End, ptail) <= Room(End, ptail)
  BY <1>2, <1>3, RoomValue
<1>8. pend' \in Cell
  BY <1>2, <1>6, <1>7
<1>9. End' = End
  BY <1>1 DEF End
<1>10. Types' /\ Draining' /\ SeekFlags' /\ Margins'
  BY <1>1, <1>2, <1>8, <1>9 DEF IInv, Types, Draining, SeekFlags, Margins
<1>11. HasParser => Room(pend', parser_tail) >= Margin
  <2>1. HasParser => Room(End, ptail) <= Room(End, parser_tail)
    BY <1>1 DEF IInv, Limits
  <2> QED
    BY <1>2, <1>6, <2>1
<1>12. ~pseek => Room(pend', tail) >= Margin /\ Room(pend', tail) <= Room(head, tail)
  <2>1. ~pseek => Room(End, ptail) <= Room(End, tail)
    BY <1>1, <1>3 DEF IInv, Limits
  <2> QED
    BY <1>2, <1>3, <1>6, <2>1
<1>13. Limits'
  BY <1>1, <1>11, <1>12 DEF Limits
<1> QED
  BY <1>10, <1>13 DEF IInv

\* stream_add publishes the bytes, to the write thread or to the parser only.
LEMMA PublishStep == ASSUME IInv, AddPublish PROVE IInv'
<1> USE DEF index, producer, consumer
<1>1. /\ UNCHANGED <<tail, parser_tail, seeking, mutex, plen, pseek, ptail,
                      pend, cpc, cn>>
      /\ ppc = "publish"
      /\ ppc' = IF HasParser THEN "parse" ELSE "idle"
  BY DEF AddPublish
<1>2. /\ pseek <=> HasParser /\ seeking
      /\ seeking_head_valid => HasParser /\ seeking
      /\ pseek \in BOOLEAN /\ HasParser \in BOOLEAN
  BY <1>1, ModeAssumption DEF IInv, SeekFlags, Types
<1>3. /\ HasParser => Room(pend, parser_tail) >= Margin
      /\ ~pseek => Room(pend, tail) >= Margin /\ Room(pend, tail) <= Room(head, tail)
  BY <1>1 DEF IInv, Limits
<1>4. /\ tail \in Cell /\ head \in Cell /\ pend \in Cell
      /\ Room(head, tail) \in Int /\ Room(pend, tail) \in Int
  BY RoomValue DEF IInv, Types
<1>5. CASE pseek
  <2>1. /\ head' = head /\ seeking_head' = pend /\ seeking_head_valid' = TRUE
        /\ HasParser /\ seeking
        /\ End' = pend /\ ppc' = "parse"
    BY <1>1, <1>2, <1>5 DEF AddPublish, End
  <2>2. Types' /\ Draining' /\ SeekFlags'
    BY <1>1, <2>1, <1>2 DEF IInv, Types, Draining, SeekFlags
  <2>3. Limits' /\ Margins'
    BY <1>1, <1>3, <2>1 DEF IInv, Limits, Margins
  <2> QED
    BY <2>2, <2>3 DEF IInv
<1>6. CASE ~pseek
  <2>1. /\ head' = pend /\ UNCHANGED <<seeking_head, seeking_head_valid>>
        /\ ~seeking_head_valid /\ End' = pend
    BY <1>1, <1>2, <1>6 DEF AddPublish, End
  <2>2. Types'
    BY <1>1, <2>1 DEF IInv, Types
  <2>3. Draining'
    <3> SUFFICES ASSUME cpc = "drain"
                 PROVE  /\ cn \in 0..(Size - 1)
                        /\ cn + Room(pend, tail) <= Size - 1
                        /\ HasParser => mutex = "consumer"
      BY <1>1, <2>1 DEF Draining
    <3>1. /\ cn \in 0..(Size - 1)
          /\ cn + Room(head, tail) <= Size - 1
          /\ HasParser => mutex = "consumer"
      BY DEF IInv, Draining
    <3> QED
      BY <1>3, <1>4, <1>6, <3>1, SizeAssumption
  <2>4. SeekFlags'
    BY <1>1, <1>2, <1>6, <2>1 DEF IInv, SeekFlags
  <2>5. Limits' /\ Margins'
    BY <1>1, <1>3, <1>6, <2>1 DEF IInv, Limits, Margins
  <2> QED
    BY <2>2, <2>3, <2>4, <2>5 DEF IInv
<1> QED
  BY <1>5, <1>6

\* A parser that does not stall is never prodded: it only gains room.
LEMMA ParserTail ==
  ASSUME Calm, IInv, ppc = "parse", NEW k \in ParserAdvance
  PROVE  /\ NewParserTail(k) \in Cell
         /\ Room(End, NewParserTail(k)) >= Room(End, parser_tail)
<1>1. /\ parser_tail \in Cell /\ pend \in Cell /\ pend = End
  BY DEF IInv, Types, SeekFlags
<1> DEFINE room == Room(pend, parser_tail)
           avail == Waiting(pend, parser_tail)
<1>2. /\ room \in 0..(Size - 1) /\ avail = Size - 1 - room
      /\ Size \in Nat /\ Lookback \in Nat /\ Low \in Nat /\ Lookback + Low < Size
      /\ Lookback > 0
  BY <1>1, RoomValue, SizeAssumption
<1>3. /\ avail < Lookback => k = 0
      /\ avail >= Lookback => k \in 0..(avail - 1) /\ (k = 0 => ~(room <= Low))
  BY <1>2 DEF ParserAdvance, Calm
<1> HIDE DEF room, avail
<1>4. /\ k \in 0..(Size - 1) /\ k + room <= Size - 1
      /\ k = 0 => ~(room <= Low)
  BY <1>2, <1>3
<1>5. /\ At(parser_tail, k) \in Cell
      /\ Room(pend, At(parser_tail, k)) = room + k
  BY <1>1, <1>4, TailStep DEF At, room
<1>6. At(parser_tail, k) = parser_tail => k = 0
  BY <1>2, <1>4, <1>5 DEF room
<1>7. NewParserTail(k) = At(parser_tail, k)
  BY <1>2, <1>4, <1>5, <1>6 DEF NewParserTail
<1> QED
  BY <1>1, <1>2, <1>4, <1>5, <1>7 DEF room

\* stream_add calls the parser, which may end seek mode.
LEMMA ParseStep == ASSUME Calm, IInv, AddParse PROVE IInv'
<1> USE DEF index, producer, consumer
<1>1. PICK k \in ParserAdvance, found \in BOOLEAN :
        /\ found => seeking
        /\ parser_tail' = NewParserTail(k)
        /\ seeking' = (seeking /\ ~found)
        /\ ppc' = IF pseek /\ ~seeking' THEN "commit" ELSE "idle"
        /\ seeking_head_valid' =
             (seeking_head_valid /\ (seeking' \/ ppc' = "commit"))
  BY Zenon DEF AddParse
<1>2. /\ UNCHANGED <<head, tail, seeking_head, mutex, plen, pseek, ptail, pend,
                     cpc, cn>>
      /\ ppc = "parse"
  BY DEF AddParse
<1>3. /\ pseek <=> HasParser /\ seeking
      /\ seeking_head_valid => HasParser /\ seeking
      /\ pseek => seeking_head_valid
      /\ HasParser /\ pend = End
      /\ seeking \in BOOLEAN /\ pseek \in BOOLEAN /\ seeking_head_valid \in BOOLEAN
  BY <1>2 DEF IInv, SeekFlags, Types
<1>4. /\ seeking_head_valid' = seeking_head_valid
      /\ End' = End
      /\ seeking' \in BOOLEAN
      /\ ppc' \in {"commit", "idle"}
      /\ ppc' = "commit" => pseek /\ ~seeking' /\ seeking_head_valid
      /\ seeking_head_valid => seeking' \/ ppc' = "commit"
  BY <1>1, <1>2, <1>3 DEF End
<1>5. /\ parser_tail' \in Cell
      /\ Room(End, parser_tail') >= Room(End, parser_tail)
  BY <1>1, <1>2, ParserTail
<1>6. Types' /\ Draining'
  BY <1>2, <1>4, <1>5 DEF IInv, Types, Draining
<1>7. SeekFlags' /\ Limits'
  BY <1>2, <1>3, <1>4 DEF SeekFlags, Limits
<1>8. Margins'
  <2>1. /\ End \in Cell /\ parser_tail \in Cell
        /\ Room(End, parser_tail) \in Int
    BY RoomValue DEF IInv, Types, End
  <2>2. Room(End, parser_tail') \in Int
    BY <1>5, <2>1, RoomValue
  <2>3. Room(head, tail) >= Margin /\ Room(End, parser_tail) >= Margin
    BY <1>3 DEF IInv, Margins
  <2>4. Room(End, parser_tail') >= Margin
    BY <1>5, <2>1, <2>2, <2>3, SizeAssumption
  <2> QED
    BY <1>2, <1>4, <2>3, <2>4 DEF Margins
<1> QED
  BY <1>6, <1>7, <1>8 DEF IInv

\* stream_add gives the write thread the bytes from the sync point on.
LEMMA CommitStep == ASSUME IInv, AddCommit PROVE IInv'
<1> USE DEF index, producer, consumer
<1>1. /\ UNCHANGED <<parser_tail, seeking_head, seeking, mutex, plen, pseek,
                      ptail, pend, cpc, cn>>
      /\ ppc = "commit" /\ ppc' = "idle" /\ mutex = "none"
      /\ head' = pend /\ tail' = parser_tail
      /\ seeking_head_valid' = (seeking_head_valid /\ seeking)
  BY DEF AddCommit
<1>2. HasParser /\ pend = End /\ ~seeking
  BY <1>1 DEF IInv, SeekFlags
<1>3. ~seeking_head_valid' /\ End' = End /\ seeking_head_valid' \in BOOLEAN
  BY <1>1, <1>2 DEF End
<1>4. cpc # "drain"
  BY <1>1, <1>2 DEF IInv, Draining
<1>5. Types' /\ Draining' /\ SeekFlags' /\ Limits'
  BY <1>1, <1>3, <1>4 DEF IInv, Types, Draining, SeekFlags, Limits
<1>6. Margins'
  BY <1>1, <1>2, <1>3 DEF IInv, Margins
<1> QED
  BY <1>5, <1>6 DEF IInv

\* A drain takes no more than there is.
LEMMA DrainStartStep == ASSUME IInv, DrainStart PROVE IInv'
<1> USE DEF index, producer, consumer
<1>1. /\ UNCHANGED <<head, tail, parser_tail, seeking_head, seeking_head_valid,
                      seeking, ppc, plen, pseek, ptail, pend>>
      /\ cn' \in 0..Available
      /\ mutex' = IF HasParser THEN "consumer" ELSE "none"
  BY DEF DrainStart
<1>2. /\ head \in Cell /\ tail \in Cell
      /\ head \in 0..(Size - 1) /\ tail \in 0..(Size - 1)
      /\ Room(head, tail) >= 1 /\ Size \in Nat
  <2>1. head \in Cell /\ tail \in Cell /\ Room(head, tail) >= Margin
    BY DEF IInv, Types, Margins
  <2> QED
    BY <2>1, RoomValue, SizeAssumption DEF Cell
<1>3. Available = Size - 1 - Room(head, tail)
  BY <1>2, RoomValue DEF Available
<1>4. Room(head, tail) \in 0..(Size - 1)
  BY <1>2, RoomValue
<1>5. cn' \in 0..(Size - 1) /\ cn' + Room(head, tail) <= Size - 1
  BY <1>1, <1>2, <1>3, <1>4
<1>6. Draining'
  BY <1>1, <1>5 DEF Draining
<1>7. Types' /\ SeekFlags' /\ Limits' /\ Margins'
  BY <1>1 DEF IInv, Types, SeekFlags, Limits, Margins, End
<1> QED
  BY <1>6, <1>7 DEF IInv

\* When it ends, the write thread's tail has gained room, so that the choice
\* of stream_add stays a safe one.
LEMMA DrainEndStep == ASSUME IInv, DrainEnd PROVE IInv'
<1> USE DEF index, producer, consumer
<1>1. /\ UNCHANGED <<head, parser_tail, seeking_head, seeking_head_valid,
                      seeking, ppc, plen, pseek, ptail, pend>>
      /\ cpc = "drain" /\ cpc' = "idle"
      /\ tail' = (tail + cn) % Size
  BY DEF DrainEnd
<1>2. /\ head \in Cell /\ tail \in Cell /\ ptail \in Cell /\ pend \in Cell
      /\ cn \in 0..(Size - 1) /\ cn + Room(head, tail) <= Size - 1
  BY <1>1 DEF IInv, Types, Draining
<1>3. tail' \in Cell /\ Room(head, tail') = Room(head, tail) + cn
  BY <1>1, <1>2, TailStep
<1>4. /\ Room(head, tail) \in Int /\ Room(head, ptail) \in Int
      /\ cn \in Nat /\ Margin \in Nat /\ Size \in Nat
  BY <1>2, RoomValue, SizeAssumption
<1>5. End' = End
  BY <1>1 DEF End
<1>6. Types' /\ Draining' /\ SeekFlags'
  BY <1>1, <1>3, <1>5 DEF IInv, Types, Draining, SeekFlags
<1>7. Margins'
  <2>1. Room(head, tail') >= Margin
    BY <1>3, <1>4 DEF IInv, Margins
  <2> QED
    BY <1>1, <1>5, <2>1 DEF IInv, Margins
<1>8. ppc = "copy" /\ ~pseek => Room(head, ptail) <= Room(head, tail')
  <2>1. ppc = "copy" /\ ~pseek => Room(head, ptail) <= Room(head, tail)
    BY DEF IInv, Limits
  <2> QED
    BY <1>3, <1>4, <2>1
<1>9. ppc = "publish" /\ ~pseek => /\ Room(pend, tail') >= Margin
                                   /\ Room(pend, tail') <= Room(head, tail')
  <2> SUFFICES ASSUME ppc = "publish", ~pseek
               PROVE  /\ Room(pend, tail') >= Margin
                      /\ Room(pend, tail') <= Room(head, tail')
    OBVIOUS
  <2>1. Room(pend, tail) >= Margin /\ Room(pend, tail) <= Room(head, tail)
    BY DEF IInv, Limits
  <2>2. Room(pend, tail) \in Int
    BY <1>2, RoomValue
  <2>3. cn + Room(pend, tail) <= Size - 1
    BY <1>2, <1>4, <2>1, <2>2
  <2>4. Room(pend, tail') = Room(pend, tail) + cn
    BY <1>1, <1>2, <2>3, TailStep
  <2> QED
    BY <1>3, <1>4, <2>1, <2>2, <2>4
<1>10. Limits'
  BY <1>1, <1>5, <1>8, <1>9 DEF IInv, Limits
<1> QED
  BY <1>6, <1>7, <1>10 DEF IInv

\* demux_reset and demux_flush start again with an empty ring.
LEMMA EmptyStep ==
  ASSUME Calm, IInv, DemuxReset \/ DemuxFlush
  PROVE  IInv'
<1> USE DEF index, producer, consumer
<1>1. ~seeking_head_valid'
  <2>1. CASE DemuxReset
    BY <2>1 DEF DemuxReset, Empty
  <2>2. CASE DemuxFlush
    <3>1. ~HasParser
      BY <2>2 DEF DemuxFlush, Calm
    <3> QED
      BY <2>2, <3>1 DEF DemuxFlush, Empty, IInv, SeekFlags
  <2> QED
    BY <2>1, <2>2
<1>2. /\ ppc = "idle" /\ cpc = "idle"
      /\ head' = 0 /\ tail' = Size - 1 /\ parser_tail' = Size - 1
      /\ seeking' = TRUE /\ seeking_head_valid' \in BOOLEAN
      /\ UNCHANGED <<seeking_head, mutex, ppc, plen, pseek, ptail, pend, cpc, cn>>
  BY DEF DemuxReset, DemuxFlush, Empty, Calm, IInv, Types
<1>3. /\ Size - 1 \in Cell /\ 0 \in Cell
      /\ Room(0, Size - 1) = Size - 1 /\ Size - 1 >= Margin
  BY EmptyRoom, SizeAssumption
<1>4. End' = 0
  BY <1>1, <1>2 DEF End
<1>5. Types' /\ Draining' /\ SeekFlags' /\ Limits'
  BY <1>1, <1>2, <1>3 DEF IInv, Types, Draining, SeekFlags, Limits
<1>6. Margins'
  BY <1>2, <1>3, <1>4 DEF Margins
<1> QED
  BY <1>5, <1>6 DEF IInv

\* demux_seek only sets a flag.
LEMMA SeekStep == ASSUME IInv, DemuxSeek PROVE IInv'
<1> USE DEF index, producer, consumer
<1>1. /\ UNCHANGED <<head, tail, parser_tail, seeking_head, seeking_head_valid,
                      mutex, ppc, plen, pseek, ptail, pend, cpc, cn>>
      /\ ppc = "idle" /\ seeking' = TRUE
  BY DEF DemuxSeek
<1> QED
  BY <1>1 DEF IInv, Types, Draining, SeekFlags, Limits, Margins, End

\* The invariant is inductive.
LEMMA NextIInv == ASSUME Calm, IInv, [Next]_vars PROVE IInv'
<1>1. CASE \E len \in 1..MaxAdd : AddStart(len)
  BY <1>1, StartStep
<1>2. CASE AddDiscard \/ AddFull \/ AddCopy \/ AddPublish
  BY <1>2, DiscardStep, FullStep, CopyStep, PublishStep
<1>3. CASE AddParse \/ AddCommit
  BY <1>3, ParseStep, CommitStep
<1>4. CASE DrainStart \/ DrainEnd
  BY <1>4, DrainStartStep, DrainEndStep
<1>5. CASE DemuxReset \/ DemuxFlush \/ DemuxSeek
  BY <1>5, EmptyStep, SeekStep
<1>6. CASE UNCHANGED vars
  BY <1>6 DEF vars, index, producer, consumer, IInv, Types, Draining,
              SeekFlags, Limits, Margins, End
<1> QED
  BY <1>1, <1>2, <1>3, <1>4, <1>5, <1>6 DEF Next

\* stream_add keeps its margin to the write thread's tail and to the
\* parser's, for every ring size, chunk size and interleaving with a drain.
THEOREM MarginIsKept == ASSUME Calm PROVE Spec => []MarginKept
<1>1. Init => IInv
  BY InitIInv
<1>2. IInv /\ [Next]_vars => IInv'
  BY NextIInv
<1>3. IInv => MarginKept
  BY DEF IInv, Margins, MarginKept, End
<1> QED
  BY <1>1, <1>2, <1>3, PTL DEF Spec

-----------------------------------------------------------------------------
(* What the ring holds.                                                    *)

\* The end of what was copied: stream_add publishes it a step later.
Written == IF ppc = "publish" THEN pend ELSE End

\* The label of the byte that has room r in front of the end of the ring; the
\* byte put last has Size - 1.
Tag(r) == (put + 2 * (Size - r)) % 3

\* The write thread sees nothing: seek mode hides what is added.
Blind == seeking_head_valid \/ (pseek /\ ppc = "publish")

DataTypes ==
  /\ mutex \in {"none", "consumer"}
  /\ cpc \in {"idle", "drain"} /\ cn \in Cell
  /\ buf \in [Cell -> Label \cup {Stale}]
  /\ put \in Label /\ last \in Label \cup {Stale}

Hidden ==
  seeking_head_valid \/ (pseek /\ ppc \in {"copy", "publish"}) =>
    Room(head, tail) = Size - 1

\* The bytes between the tail t and the end carry the labels they were put
\* with.
Holds(t) ==
  \A c \in Cell : Room(Written, c) > Room(Written, t) =>
                    buf[c] = Tag(Room(Written, c))

Parsed == HasParser => Holds(parser_tail)
Unread == ~Blind => Holds(tail)

\* The byte delivered last is the one the tail stands on.
Delivered == ~Blind /\ last # Stale => last = Tag(Room(Written, tail))

DInv == DataTypes /\ Hidden /\ Parsed /\ Unread /\ Delivered

LEMMA InitDInv == Init => DInv
<1> HAVE Init
<1>1. Size - 1 \in Cell /\ 0 \in Cell /\ Room(0, Size - 1) = Size - 1
  BY EmptyRoom
<1>2. Written = 0
  BY DEF Init, Written, End
<1>3. Holds(Size - 1)
  BY <1>1, <1>2, RoomValue, SizeAssumption DEF Holds
<1>4. DataTypes
  BY <1>1 DEF Init, DataTypes, Label, Stale
<1> QED
  BY <1>1, <1>3, <1>4 DEF Init, DInv, Hidden, Parsed, Unread, Delivered

LEMMA WrittenInRing == IInv => Written \in Cell
BY DEF IInv, Types, Written, End

\* A step that moves neither the ends of the ring nor its contents.
LEMMA QuietData ==
  ASSUME DInv, DataTypes', Hidden',
         UNCHANGED <<tail, parser_tail, buf, put, last>>,
         Written' = Written, ~Blind' => ~Blind
  PROVE  DInv'
<1>1. Holds(parser_tail)' <=> Holds(parser_tail)
  BY DEF Holds, Tag
<1>2. Holds(tail)' <=> Holds(tail)
  BY DEF Holds, Tag
<1>3. Parsed' /\ Unread' /\ Delivered'
  BY <1>1, <1>2 DEF DInv, Parsed, Unread, Delivered, Tag
<1> QED
  BY <1>3 DEF DInv

\* stream_add starts: in seek mode it goes on at once only if the write
\* thread has read everything.
LEMMA StartData ==
  ASSUME IInv, DInv, NEW len \in 1..MaxAdd, AddStart(len) PROVE DInv'
<1> USE DEF index, producer, consumer
<1>1. /\ UNCHANGED <<head, tail, parser_tail, seeking_head, seeking_head_valid,
                      seeking, mutex, pend, cpc, cn, buf, put, last>>
      /\ ppc = "idle" /\ pseek' = (HasParser /\ seeking)
      /\ ppc' = IF HasParser /\ seeking /\ ~DemuxEmpty THEN "discard" ELSE "copy"
  BY DEF AddStart
<1>2. DataTypes' /\ Written' = Written /\ (Blind' <=> Blind)
  BY <1>1 DEF DInv, DataTypes, Written, End, Blind
<1>3. head \in Cell /\ tail \in Cell
  BY DEF IInv, Types
<1>4. DemuxEmpty => Room(head, tail) = Size - 1
  <2> HAVE DemuxEmpty
  <2>1. Size \in Nat /\ Size > 1 /\ 1 \in 0..(Size - 1)
        /\ head \in 0..(Size - 1) /\ tail \in 0..(Size - 1)
    BY <1>3, SizeAssumption DEF Cell
  <2>2. head = IF tail + 1 < Size THEN tail + 1 ELSE tail + 1 - Size
    BY <1>3, <2>1, Step DEF DemuxEmpty
  <2> QED
    BY <1>3, <2>1, <2>2, RoomValue
<1>5. Hidden'
  BY <1>1, <1>4 DEF DInv, Hidden
<1> QED
  BY <1>1, <1>2, <1>5, QuietData

\* What is dropped at the start of a seek leaves an empty ring behind.
LEMMA DiscardData == ASSUME IInv, IInv', DInv, AddDiscard PROVE DInv'
<1> USE DEF index, producer, consumer
<1>1. /\ UNCHANGED <<head, parser_tail, seeking_head, seeking_head_valid,
                      mutex, pseek, pend, cpc, cn, buf, put>>
      /\ ppc = "discard" /\ ppc' = "copy" /\ last' = Stale
      /\ tail' = (Size + head - 1) % Size
  BY DEF AddDiscard
<1>2. /\ Written' = Written /\ Written = End
      /\ Written \in Cell /\ tail' \in Cell /\ head \in Cell
  BY <1>1, WrittenInRing DEF Written, End, IInv, Types
<1>3. Room(head, tail') = Size - 1
  <2>1. Size \in Nat \ {0, 1} /\ head \in 0..(Size - 1)
    BY <1>2, SizeAssumption DEF Cell
  <2> DEFINE x == Size + head - 1
  <2>2. x \in Int /\ 0 <= x /\ x < 2 * Size
    BY <2>1
  <2>3. x % Size = IF x < Size THEN x ELSE x - Size
    <3> HIDE DEF x
    <3> QED
      BY <2>2, ModSize
  <2>4. tail' = IF head = 0 THEN Size - 1 ELSE head - 1
    BY <1>1, <2>1, <2>3
  <2> QED
    BY <1>2, <2>1, <2>4, RoomValue
<1>4. DataTypes' /\ Hidden' /\ Delivered'
  BY <1>1, <1>3 DEF DInv, DataTypes, Hidden, Delivered
<1>5. Parsed'
  BY <1>1, <1>2 DEF DInv, Parsed, Holds, Tag
<1>6. Unread'
  <2> SUFFICES ASSUME ~seeking_head_valid PROVE Holds(tail)'
    BY <1>1 DEF Unread, Blind
  <2>1. Written' = head
    BY <1>2 DEF End
  <2> QED
    BY <1>2, <1>3, <2>1, RoomValue, SizeAssumption DEF Holds
<1> QED
  BY <1>4, <1>5, <1>6 DEF DInv

\* What stream_add copies goes behind what is there: a byte that waits keeps
\* its label, and the new ones continue the labels.
LEMMA CopyHolds ==
  ASSUME IInv, DInv, AddCopy, NEW t \in Cell, Holds(t),
         plen <= Room(Written, t)
  PROVE  /\ \A c \in Cell : Room(pend', c) > Room(pend', t) =>
                              buf'[c] = (put' + 2 * (Size - Room(pend', c))) % 3
         /\ (put' + 2 * (Size - Room(pend', t))) % 3 = Tag(Room(Written, t))
<1> DEFINE e == Written
           f == pend'
<1>1. /\ ppc = "copy" /\ pend' = (AddHead + plen) % Size
      /\ put' = (put + plen) % 3
      /\ buf' = [c \in Cell |-> LET k == (c - AddHead + Size) % Size
                                IN  IF k < plen THEN (put + k) % 3 ELSE buf[c]]
  BY DEF AddCopy
<1>2. AddHead = e /\ e \in Cell
  BY <1>1, AddHeadIsEnd DEF Written
<1>3. plen \in 1..MaxAdd /\ plen \in 0..(Size - 1) /\ plen \in Nat /\ Size \in Nat
  BY <1>1, SizeAssumption DEF IInv, Types
<1>4. put \in 0..2
  BY DEF DInv, DataTypes, Label
<1>5. f = (e + plen) % Size
  BY <1>1, <1>2
<1> HIDE DEF e, f
<1>6. f \in Cell /\ Room(f, t) = Room(e, t) - plen
  BY <1>2, <1>3, <1>5, HeadStep DEF e
<1>7. Room(e, t) \in 0..(Size - 1)
  BY <1>2, RoomValue
<1>8. ASSUME NEW c \in Cell, Room(f, c) > Room(f, t)
      PROVE  buf'[c] = (put' + 2 * (Size - Room(f, c))) % 3
  <2>1. Room(e, c) \in 0..(Size - 1) /\ Room(f, c) \in 0..(Size - 1)
    BY <1>2, <1>6, RoomValue
  <2>2. buf'[c] = IF Room(e, c) < plen THEN (put + Room(e, c)) % 3 ELSE buf[c]
    BY <1>1, <1>2 DEF Room
  <2>3. CASE Room(e, c) < plen
    <3>1. Room(f, c) = Room(e, c) - plen + Size
      <4>1. f = IF e + plen < Size THEN e + plen ELSE e + plen - Size
        BY <1>2, <1>3, <1>5, Step
      <4>2. e \in 0..(Size - 1) /\ c \in 0..(Size - 1)
        BY <1>2 DEF Cell
      <4>3. /\ Room(e, c) = IF c >= e THEN c - e ELSE c - e + Size
            /\ Room(f, c) = IF c >= f THEN c - f ELSE c - f + Size
        BY <1>2, <1>6, RoomValue
      <4> QED
        BY <1>3, <2>3, <4>1, <4>2, <4>3
    <3> DEFINE r == Room(e, c)
    <3>2. r \in Nat
      BY <2>1
    <3>3. buf'[c] = (put + r) % 3
      BY <2>2, <2>3
    <3>4. Size - Room(f, c) = plen - r
      BY <1>3, <3>1, <3>2
    <3> HIDE DEF r
    <3>5. (((put + plen) % 3) + 2 * (plen - r)) % 3 = (put + r) % 3
      BY <1>3, <1>4, <3>2
    <3> QED
      BY <1>1, <3>3, <3>4, <3>5
  <2>4. CASE Room(e, c) >= plen
    <3>1. Room(f, c) = Room(e, c) - plen
      BY <1>2, <1>3, <1>5, <2>4, HeadStep
    <3>2. Room(e, c) > Room(e, t)
      BY <1>3, <1>6, <1>7, <1>8, <2>1, <3>1
    <3>3. buf[c] = Tag(Room(e, c))
      BY <3>2 DEF Holds, e
    <3>4. buf'[c] = (put + 2 * (Size - Room(e, c))) % 3
      BY <1>3, <2>1, <2>2, <2>4, <3>3 DEF Tag
    <3> DEFINE r == Size - Room(e, c)
    <3>5. r \in Nat
      BY <1>3, <2>1
    <3>6. Size - Room(f, c) = r + plen
      BY <1>3, <2>1, <3>1
    <3>7. buf'[c] = (put + 2 * r) % 3
      BY <3>4
    <3> HIDE DEF r
    <3>8. (((put + plen) % 3) + 2 * (r + plen)) % 3 = (put + 2 * r) % 3
      BY <1>3, <1>4, <3>5
    <3> QED
      BY <1>1, <3>6, <3>7, <3>8
  <2> QED
    BY <1>3, <2>1, <2>3, <2>4
<1>9. (put' + 2 * (Size - Room(f, t))) % 3 = Tag(Room(e, t))
  <2> DEFINE r == Size - Room(e, t)
  <2>1. r \in Nat
    BY <1>3, <1>7
  <2>2. Size - Room(f, t) = r + plen
    BY <1>3, <1>6, <1>7
  <2>3. Tag(Room(e, t)) = (put + 2 * r) % 3
    BY DEF Tag
  <2> HIDE DEF r
  <2>4. (((put + plen) % 3) + 2 * (r + plen)) % 3 = (put + 2 * r) % 3
    BY <1>3, <1>4, <2>1
  <2> QED
    BY <1>1, <2>2, <2>3, <2>4
<1> QED
  BY <1>8, <1>9 DEF e, f

LEMMA CopyData == ASSUME IInv, IInv', DInv, AddCopy PROVE DInv'
<1> USE DEF index, producer, consumer
<1>1. /\ UNCHANGED <<head, tail, parser_tail, seeking_head, seeking_head_valid,
                      seeking, mutex, plen, pseek, ptail, cpc, cn, last>>
      /\ ppc = "copy" /\ ppc' = "publish"
      /\ ~IsFull(AddHead, ptail, plen)
      /\ put' = (put + plen) % 3
  BY DEF AddCopy
<1>2. /\ tail \in Cell /\ parser_tail \in Cell /\ ptail \in Cell
      /\ plen \in 1..MaxAdd /\ plen \in Nat /\ Margin \in Nat
  BY <1>1, SizeAssumption DEF IInv, Types
<1>3. /\ AddHead = End /\ Written = End /\ End \in Cell
      /\ ~pseek => End = head
      /\ Written' = pend'
  BY <1>1, AddHeadIsEnd DEF Written
<1>4. Room(End, ptail) >= plen + Margin
  BY <1>1, <1>2, <1>3, NotFull
<1>5. /\ Room(End, ptail) \in Int /\ Room(End, tail) \in Int
      /\ Room(End, parser_tail) \in Int
  BY <1>2, <1>3, RoomValue
<1>6. DataTypes'
  <2>1. put \in 0..2 /\ put' \in Label
    BY <1>1, <1>2 DEF DInv, DataTypes, Label
  <2>2. buf' \in [Cell -> Label \cup {Stale}]
    <3>1. ASSUME NEW c \in Cell
          PROVE  (IF (c - AddHead + Size) % Size < plen
                  THEN (put + ((c - AddHead + Size) % Size)) % 3
                  ELSE buf[c]) \in Label \cup {Stale}
      <4>1. Room(End, c) \in Nat /\ Room(End, c) = (c - AddHead + Size) % Size
        BY <1>3, RoomValue, SizeAssumption DEF Room
      <4>2. (put + Room(End, c)) % 3 \in Label
        BY <2>1, <4>1 DEF Label
      <4>3. buf[c] \in Label \cup {Stale}
        BY DEF DInv, DataTypes
      <4> QED
        BY <4>1, <4>2, <4>3
    <3> QED
      BY <3>1 DEF AddCopy
  <2> QED
    BY <1>1, <2>1, <2>2 DEF DInv, DataTypes
<1>7. Hidden'
  BY <1>1 DEF DInv, Hidden
<1>8. Parsed'
  <2> SUFFICES ASSUME HasParser PROVE Holds(parser_tail)'
    BY DEF Parsed
  <2>1. Room(End, ptail) <= Room(End, parser_tail)
    BY <1>1 DEF IInv, Limits
  <2>2. plen <= Room(Written, parser_tail) /\ Holds(parser_tail)
    BY <1>2, <1>3, <1>4, <1>5, <2>1 DEF DInv, Parsed
  <2> QED
    BY <1>1, <1>2, <1>3, <2>2, CopyHolds DEF Holds, Tag
<1>9. Unread' /\ Delivered'
  <2> SUFFICES ASSUME ~Blind'
               PROVE  Holds(tail)' /\ (last # Stale => last = Tag(Room(Written, tail))')
    BY <1>1 DEF Unread, Delivered
  <2>1. ~Blind /\ ~pseek
    BY <1>1 DEF Blind
  <2>2. Room(End, ptail) <= Room(End, tail)
    BY <1>1, <1>3, <2>1 DEF IInv, Limits
  <2>3. plen <= Room(Written, tail) /\ Holds(tail)
    BY <1>2, <1>3, <1>4, <1>5, <2>1, <2>2 DEF DInv, Unread
  <2>4. Holds(tail)'
    BY <1>1, <1>2, <1>3, <2>3, CopyHolds DEF Holds, Tag
  <2>5. Tag(Room(Written, tail))' = Tag(Room(Written, tail))
    BY <1>1, <1>2, <1>3, <2>3, CopyHolds DEF Tag
  <2> QED
    BY <2>1, <2>4, <2>5 DEF DInv, Delivered
<1> QED
  BY <1>6, <1>7, <1>8, <1>9 DEF DInv

\* Publishing shows the write thread the new end, or hides it in seek mode.
LEMMA PublishData == ASSUME IInv, IInv', DInv, AddPublish PROVE DInv'
<1> USE DEF index, producer, consumer
<1>1. /\ UNCHANGED <<tail, parser_tail, seeking, mutex, pseek, pend, cpc, cn,
                      buf, put, last>>
      /\ ppc = "publish" /\ ppc' \in {"parse", "idle"}
      /\ pseek => /\ seeking_head' = pend /\ seeking_head_valid' = TRUE
                  /\ head' = head
      /\ ~pseek => head' = pend /\ UNCHANGED <<seeking_head, seeking_head_valid>>
  BY DEF AddPublish
<1>2. ~pseek => ~seeking_head_valid
  BY <1>1 DEF IInv, SeekFlags
<1>3. Written' = Written /\ (~Blind' => ~Blind)
  BY <1>1, <1>2 DEF Written, End, Blind
<1>4. DataTypes' /\ Hidden'
  BY <1>1, <1>2 DEF DInv, DataTypes, Hidden
<1> QED
  BY <1>1, <1>3, <1>4, QuietData

\* The parser moves only its own tail.
LEMMA ParseData == ASSUME Calm, IInv, IInv', DInv, AddParse PROVE DInv'
<1> USE DEF index, producer, consumer
<1>1. PICK k \in ParserAdvance, found \in BOOLEAN :
        /\ parser_tail' = NewParserTail(k)
        /\ seeking' = (seeking /\ ~found)
        /\ ppc' = IF pseek /\ ~seeking' THEN "commit" ELSE "idle"
        /\ seeking_head_valid' =
             (seeking_head_valid /\ (seeking' \/ ppc' = "commit"))
  BY Zenon DEF AddParse
<1>2. /\ UNCHANGED <<head, tail, seeking_head, mutex, pseek, pend, cpc, cn,
                     buf, put, last>>
      /\ ppc = "parse"
  BY DEF AddParse
<1>3. /\ seeking_head_valid => pseek
      /\ seeking_head_valid \in BOOLEAN
      /\ ppc' \in {"commit", "idle"}
  BY <1>1, <1>2 DEF IInv, SeekFlags, Types
<1>4. /\ seeking_head_valid' = seeking_head_valid
      /\ Written' = Written /\ Written = End /\ (Blind' <=> Blind)
  BY <1>1, <1>2, <1>3 DEF Written, End, Blind
<1>5. DataTypes' /\ Hidden' /\ Delivered'
  BY <1>2, <1>3, <1>4 DEF DInv, DataTypes, Hidden, Delivered, Tag
<1>6. Unread'
  BY <1>2, <1>4 DEF DInv, Unread, Holds, Tag
<1>7. Parsed'
  <2> SUFFICES ASSUME HasParser PROVE Holds(parser_tail)'
    BY DEF Parsed
  <2>1. /\ parser_tail' \in Cell /\ parser_tail \in Cell /\ Written \in Cell
        /\ Room(Written, parser_tail') >= Room(Written, parser_tail)
    BY <1>1, <1>2, <1>4, ParserTail, WrittenInRing DEF IInv, Types
  <2>2. Holds(parser_tail)
    BY DEF DInv, Parsed
  <2>3. \A c \in Cell : Room(Written, c) \in Int
    BY <2>1, RoomValue, SizeAssumption
  <2>4. \A c \in Cell : Room(Written, c) > Room(Written, parser_tail') =>
                          buf[c] = Tag(Room(Written, c))
    BY <2>1, <2>2, <2>3 DEF Holds
  <2> QED
    BY <1>2, <1>4, <2>4 DEF Holds, Tag
<1> QED
  BY <1>5, <1>6, <1>7 DEF DInv

\* The end of a seek: what the parser has in front of it becomes what the
\* write thread reads.
LEMMA CommitData == ASSUME IInv, IInv', DInv, AddCommit PROVE DInv'
<1> USE DEF index, producer, consumer
<1>1. /\ UNCHANGED <<parser_tail, mutex, pseek, pend, cpc, cn, buf, put>>
      /\ ppc = "commit" /\ ppc' = "idle"
      /\ head' = pend /\ tail' = parser_tail /\ last' = Stale
      /\ seeking_head_valid' = (seeking_head_valid /\ seeking)
  BY DEF AddCommit
<1>2. HasParser /\ pend = End /\ ~seeking
  BY <1>1 DEF IInv, SeekFlags
<1>3. Written' = Written /\ ~seeking_head_valid'
  BY <1>1, <1>2 DEF Written, End
<1>4. Holds(parser_tail)
  BY <1>2 DEF DInv, Parsed
<1>5. Holds(parser_tail)' /\ Holds(tail)'
  BY <1>1, <1>3, <1>4 DEF Holds, Tag
<1>6. DataTypes' /\ Hidden' /\ Delivered'
  BY <1>1, <1>3 DEF DInv, DataTypes, Hidden, Delivered, Label
<1> QED
  BY <1>5, <1>6 DEF DInv, Parsed, Unread

\* A drain starts: nothing in the ring changes.
LEMMA DrainStartData == ASSUME IInv, IInv', DInv, DrainStart PROVE DInv'
<1> USE DEF index, producer, consumer
<1>1. /\ UNCHANGED <<head, tail, parser_tail, seeking_head, seeking_head_valid,
                      ppc, pseek, pend, buf, put, last>>
      /\ cpc' = "drain"
      /\ mutex' = IF HasParser THEN "consumer" ELSE "none"
  BY DEF DrainStart
<1>2. cn' \in Cell
  BY <1>1 DEF IInv, Draining, Cell
<1>3. Written' = Written /\ (Blind' <=> Blind) /\ DataTypes' /\ Hidden'
  BY <1>1, <1>2 DEF Written, End, Blind, DInv, DataTypes, Hidden
<1> QED
  BY <1>1, <1>3, QuietData

\* A drain ends: the byte delivered last is the one its tail now stands on.
LEMMA DrainEndData == ASSUME IInv, IInv', DInv, DrainEnd PROVE DInv'
<1> USE DEF index, producer, consumer
<1>1. /\ UNCHANGED <<head, parser_tail, seeking_head, seeking_head_valid,
                      seeking, ppc, pseek, pend, buf, put>>
      /\ cpc = "drain" /\ cpc' = "idle" /\ mutex' = "none" /\ cn' = 0
      /\ tail' = (tail + cn) % Size
      /\ last' = IF cn = 0 THEN last ELSE buf[At(tail, cn)]
  BY DEF DrainEnd
<1>2. /\ head \in Cell /\ tail \in Cell /\ pend \in Cell /\ Written \in Cell
      /\ cn \in 0..(Size - 1) /\ cn + Room(head, tail) <= Size - 1
      /\ cn \in Nat /\ Size \in Nat /\ 0 \in Cell
  BY <1>1, WrittenInRing, SizeAssumption DEF IInv, Types, Draining, Cell
<1>3. Room(head, tail) \in Int /\ Room(Written, tail) \in Int
  BY <1>2, RoomValue
<1>4. tail' \in Cell /\ Room(head, tail') = Room(head, tail) + cn
  BY <1>1, <1>2, TailStep
<1>5. Written' = Written /\ (Blind' <=> Blind)
  BY <1>1 DEF Written, End, Blind
<1>6. Hidden'
  <2>1. Room(head, tail) = Size - 1 => Room(head, tail') = Size - 1
    BY <1>2, <1>3, <1>4
  <2> QED
    BY <1>1, <2>1 DEF DInv, Hidden
<1>7. DataTypes'
  <2>1. last' \in Label \cup {Stale}
    BY <1>1, <1>4 DEF DInv, DataTypes, At
  <2> QED
    BY <1>1, <1>2, <2>1 DEF DInv, DataTypes
<1>8. Parsed'
  BY <1>1, <1>5 DEF DInv, Parsed, Holds, Tag
<1>9. Unread' /\ Delivered'
  <2> SUFFICES ASSUME ~Blind
               PROVE  Holds(tail)' /\ Delivered'
    BY <1>5 DEF Unread, Delivered
  <2>1. Room(Written, tail) <= Room(head, tail)
    <3>1. CASE ppc = "publish"
      BY <3>1 DEF Blind, Written, IInv, Limits
    <3>2. CASE ppc # "publish"
      BY <1>3, <3>2 DEF Blind, Written, End
    <3> QED
      BY <3>1, <3>2
  <2>2. cn + Room(Written, tail) <= Size - 1
    BY <1>2, <1>3, <2>1
  <2>3. Room(Written, tail') = Room(Written, tail) + cn
    BY <1>1, <1>2, <2>2, TailStep
  <2>4. Holds(tail)
    BY DEF DInv, Unread
  <2>5. \A c \in Cell : Room(Written, c) \in Int
    BY <1>2, RoomValue, SizeAssumption
  <2>6. \A c \in Cell : Room(Written, c) > Room(Written, tail') =>
                          buf[c] = Tag(Room(Written, c))
    BY <1>2, <1>3, <2>3, <2>4, <2>5 DEF Holds
  <2>7. Holds(tail)'
    BY <1>1, <1>5, <2>6 DEF Holds, Tag
  <2>8. last' # Stale => last' = Tag(Room(Written, tail'))
    <3>1. CASE cn = 0
      BY <1>1, <1>3, <2>3, <3>1 DEF DInv, Delivered
    <3>2. CASE cn # 0
      <4>1. last' = buf[tail']
        BY <1>1, <3>2 DEF At
      <4>2. Room(Written, tail') > Room(Written, tail)
        BY <1>2, <1>3, <2>3, <3>2
      <4> QED
        BY <1>4, <2>4, <4>1, <4>2 DEF Holds
    <3> QED
      BY <3>1, <3>2
  <2> QED
    BY <1>1, <1>5, <2>7, <2>8 DEF Delivered, Tag
<1> QED
  BY <1>6, <1>7, <1>8, <1>9 DEF DInv

\* demux_reset and demux_flush leave an empty ring.
LEMMA EmptyData ==
  ASSUME Calm, IInv, IInv', DInv, DemuxReset \/ DemuxFlush
  PROVE  DInv'
<1> USE DEF index, producer, consumer
<1>1. /\ head' = 0 /\ tail' = Size - 1 /\ parser_tail' = Size - 1
      /\ ppc = "idle" /\ last' = Stale
      /\ buf' = [c \in Cell |-> Stale]
      /\ UNCHANGED <<mutex, ppc, pseek, pend, cpc, cn, put>>
  BY DEF DemuxReset, DemuxFlush, Empty
<1>2. ~seeking_head_valid'
  <2>1. CASE DemuxReset
    BY <2>1 DEF DemuxReset, Empty
  <2>2. CASE DemuxFlush
    BY <2>2 DEF DemuxFlush, Empty, Calm, IInv, SeekFlags
  <2> QED
    BY <2>1, <2>2
<1>3. Size - 1 \in Cell /\ 0 \in Cell /\ Room(0, Size - 1) = Size - 1
  BY EmptyRoom
<1>4. Written' = 0
  BY <1>1, <1>2 DEF Written, End
<1>5. Holds(tail)' /\ Holds(parser_tail)'
  BY <1>1, <1>3, <1>4, RoomValue, SizeAssumption DEF Holds
<1>6. DataTypes' /\ Hidden' /\ Delivered'
  BY <1>1, <1>3 DEF DInv, DataTypes, Hidden, Delivered
<1> QED
  BY <1>5, <1>6 DEF DInv, Parsed, Unread

\* The contents of the ring are as they should be after every step.
LEMMA NextDInv == ASSUME Calm, IInv, DInv, [Next]_vars PROVE DInv'
<1> USE DEF index, producer, consumer
<1>1. IInv'
  BY NextIInv
<1>2. CASE \E len \in 1..MaxAdd : AddStart(len)
  BY <1>2, StartData
<1>3. CASE AddFull \/ DemuxSeek
  <2>1. /\ UNCHANGED <<head, tail, parser_tail, seeking_head,
                       seeking_head_valid, mutex, pseek, pend, cpc, cn, buf,
                       put, last>>
        /\ ppc \in {"copy", "idle"} /\ ppc' = "idle"
    BY <1>3 DEF AddFull, DemuxSeek
  <2>2. Written' = Written /\ (Blind' <=> Blind) /\ DataTypes' /\ Hidden'
    BY <2>1 DEF Written, End, Blind, DInv, DataTypes, Hidden
  <2> QED
    BY <2>1, <2>2, QuietData
<1>4. CASE AddDiscard \/ AddCopy \/ AddPublish
  BY <1>1, <1>4, DiscardData, CopyData, PublishData
<1>5. CASE AddParse \/ AddCommit
  BY <1>1, <1>5, ParseData, CommitData
<1>6. CASE DrainStart \/ DrainEnd
  BY <1>1, <1>6, DrainStartData, DrainEndData
<1>7. CASE DemuxReset \/ DemuxFlush
  BY <1>1, <1>7, EmptyData
<1>8. CASE UNCHANGED vars
  <2>1. UNCHANGED <<head, tail, parser_tail, seeking_head, seeking_head_valid,
                    mutex, ppc, pseek, pend, cpc, cn, buf, put, last>>
    BY <1>8 DEF vars
  <2>2. Written' = Written /\ (Blind' <=> Blind) /\ DataTypes' /\ Hidden'
    BY <2>1 DEF Written, End, Blind, DInv, DataTypes, Hidden
  <2> QED
    BY <2>1, <2>2, QuietData
<1> QED
  BY <1>2, <1>3, <1>4, <1>5, <1>6, <1>7, <1>8 DEF Next

\* Both halves of the invariant hold in every state.
LEMMA RingInvariant == ASSUME Calm PROVE Spec => [](IInv /\ DInv)
<1>1. Init => IInv /\ DInv
  BY InitIInv, InitDInv
<1>2. IInv /\ DInv /\ [Next]_vars => IInv' /\ DInv'
  BY NextIInv, NextDInv
<1> QED
  BY <1>1, <1>2, PTL DEF Spec

\* What waits for the write thread, seen from its tail.
LEMMA WaitingLabels ==
  ASSUME IInv, DInv, NEW k \in 1..Waiting(head, tail)
  PROVE  /\ ~Blind /\ At(tail, k) \in Cell
         /\ Room(Written, tail) \in 0..(Size - 1)
         /\ k + Room(Written, tail) <= Size - 1
         /\ buf[At(tail, k)] = Tag(Room(Written, tail) + k)
<1>1. /\ head \in Cell /\ tail \in Cell /\ Written \in Cell /\ Size \in Nat
  BY WrittenInRing, SizeAssumption DEF IInv, Types
<1>2. /\ Room(head, tail) \in 0..(Size - 1)
      /\ Room(Written, tail) \in 0..(Size - 1)
      /\ Waiting(head, tail) = Size - 1 - Room(head, tail)
  BY <1>1, RoomValue
<1>3. k \in 1..(Size - 1) /\ k + Room(head, tail) <= Size - 1
  BY <1>1, <1>2
<1>4. ~Blind
  BY <1>1, <1>2, <1>3 DEF Blind, DInv, Hidden
<1>5. Room(Written, tail) <= Room(head, tail)
  <2>1. CASE ppc = "publish"
    BY <1>4, <2>1 DEF Blind, Written, IInv, Limits
  <2>2. CASE ppc # "publish"
    BY <1>2, <1>4, <2>2 DEF Blind, Written, End
  <2> QED
    BY <2>1, <2>2
<1>6. k + Room(Written, tail) <= Size - 1 /\ k \in 0..(Size - 1)
  BY <1>1, <1>2, <1>3, <1>5
<1>7. /\ At(tail, k) \in Cell
      /\ Room(Written, At(tail, k)) = Room(Written, tail) + k
  BY <1>1, <1>6, TailStep DEF At
<1>8. Room(Written, At(tail, k)) > Room(Written, tail)
  BY <1>2, <1>3, <1>7
<1> QED
  BY <1>2, <1>4, <1>6, <1>7, <1>8 DEF DInv, Unread, Holds

\* Neighbours carry successive labels.
LEMMA TagSucc ==
  ASSUME put \in Label, NEW r \in 0..(Size - 1), Size \in Nat
  PROVE  Tag(r + 1) = Succ(Tag(r)) /\ Tag(r) \in Label
<1> DEFINE n == Size - r
<1>1. n \in Nat /\ n >= 1 /\ Size - (r + 1) = n - 1 /\ put \in 0..2
  BY DEF Label
<1>2. Tag(r + 1) = (put + 2 * (n - 1)) % 3 /\ Tag(r) = (put + 2 * n) % 3
  BY <1>1 DEF Tag
<1> HIDE DEF n
<1>3. (put + 2 * (n - 1)) % 3 = (((put + 2 * n) % 3) + 1) % 3
  BY <1>1
<1>4. (put + 2 * n) % 3 \in 0..2
  BY <1>1
<1> QED
  BY <1>2, <1>3, <1>4 DEF Succ, Label

\* The fields of stream_t and the locals of stream_add and stream_drain stay
\* in range: no index ever leaves the ring.
THEOREM RingTypes == ASSUME Calm PROVE Spec => []TypeOK
<1>1. IInv /\ DInv => TypeOK
  BY SizeAssumption DEF IInv, DInv, Types, DataTypes, TypeOK, Cell
<1> QED
  BY <1>1, RingInvariant, PTL

\* The write thread finds the bytes that were put, intact and in order,
\* whatever stream_add, the parser and a seek do at the same time.
THEOREM WaitingIsIntact == ASSUME Calm PROVE Spec => []WaitingIntact
<1>1. IInv /\ DInv => WaitingIntact
  <2> SUFFICES ASSUME IInv, DInv PROVE WaitingIntact
    OBVIOUS
  <2> DEFINE n == Waiting(head, tail)
             r == Room(Written, tail)
  <2>1. /\ put \in Label /\ Size \in Nat /\ n \in Int
    BY RoomValue, SizeAssumption DEF IInv, Types, DInv, DataTypes
  <2>2. ASSUME NEW k \in 1..n PROVE buf[At(tail, k)] # Stale
    <3>1. /\ buf[At(tail, k)] = Tag(r + k) /\ r \in 0..(Size - 1)
          /\ k + r <= Size - 1
      BY WaitingLabels
    <3>2. r + k \in 0..(Size - 1)
      BY <2>1, <3>1
    <3>3. Tag(r + k) \in Label
      BY <2>1, <3>2, TagSucc
    <3> QED
      BY <3>1, <3>3 DEF Label, Stale
  <2>3. ASSUME NEW k \in 1..(n - 1)
        PROVE  buf[At(tail, k + 1)] = Succ(buf[At(tail, k)])
    <3>1. k \in 1..n /\ k + 1 \in 1..n
      BY <2>1
    <3>2. /\ buf[At(tail, k)] = Tag(r + k) /\ r \in 0..(Size - 1)
          /\ k + r <= Size - 1
          /\ buf[At(tail, k + 1)] = Tag(r + (k + 1))
      BY <3>1, WaitingLabels
    <3>3. r + k \in 0..(Size - 1) /\ r + (k + 1) = (r + k) + 1
      BY <2>1, <3>2
    <3> QED
      BY <2>1, <3>2, <3>3, TagSucc
  <2> QED
    BY <2>2, <2>3 DEF WaitingIntact
<1> QED
  BY <1>1, RingInvariant, PTL

\* The bytes are delivered without a gap or a repetition, except where a
\* seek cuts.
THEOREM DeliveryInOrder == ASSUME Calm PROVE Spec => []InOrder
<1>1. IInv /\ DInv => InOrder
  <2> SUFFICES ASSUME IInv, DInv, Waiting(head, tail) > 0, last # Stale
               PROVE  buf[At(tail, 1)] = Succ(last)
    BY DEF InOrder
  <2>1. put \in Label /\ Size \in Nat /\ 1 \in 1..Waiting(head, tail)
    BY RoomValue, SizeAssumption DEF IInv, Types, DInv, DataTypes
  <2>2. /\ ~Blind /\ buf[At(tail, 1)] = Tag(Room(Written, tail) + 1)
        /\ Room(Written, tail) \in 0..(Size - 1)
    BY <2>1, WaitingLabels
  <2>3. last = Tag(Room(Written, tail))
    BY <2>2 DEF DInv, Delivered
  <2> QED
    BY <2>1, <2>2, <2>3, TagSucc
<1> QED
  BY <1>1, RingInvariant, PTL

\* In seek mode nothing reaches the write thread until the parser has found
\* the sync point.
THEOREM SeekIsHidden == ASSUME Calm PROVE Spec => []SeekHidesData
<1>1. IInv /\ DInv => SeekHidesData
  <2>1. IInv => Waiting(head, tail) = Size - 1 - Room(head, tail)
    BY RoomValue DEF IInv, Types
  <2> QED
    BY <2>1, SizeAssumption DEF DInv, Hidden, SeekHidesData
<1> QED
  BY <1>1, RingInvariant, PTL
=============================================================================
