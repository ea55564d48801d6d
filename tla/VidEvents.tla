----------------------------- MODULE VidEvents -----------------------------
(***************************************************************************)
(* The queue of video events (libs/libav/videvents.c).  The read thread    *)
(* adds events with the time stamp at which they happen; the event thread  *)
(* waits for the next one and dispatches it.  Time stamps are unsigned and *)
(* wrap around.  The queue is a circular list that is searched from        *)
(* pNextEvent, in both directions, with comparisons of the plain numbers.  *)
(*                                                                         *)
(* ring is the list from pNextEvent on; an event is its time stamp.  Every *)
(* operation holds videvents_mutex.  How long the event thread sleeps      *)
(* (pts_discontinuity_count, to_wait) is left out: it may wake at any time *)
(* and as late as it likes.                                                *)
(***************************************************************************)
EXTENDS Integers, Sequences

CONSTANTS
  Wrap,         \* 2^32
  Behind,       \* PTS_HZ*30: older events are not looked for
  Ahead,        \* PTS_HZ*40: nor are later ones
  Soon,         \* PTS_HZ/30 - 1: what is less than a frame ahead is due
  MaxEvents     \* bound: events in the queue

Times == 0..(Wrap - 1)

VARIABLES
  ring,
  stc,          \* the clock, get_pts
  misplaced     \* ghost: an event was added that sorts before pNextEvent,
                \* which the loop that goes back cannot place among several

vars == <<ring, stc, misplaced>>

Init == ring = <<>> /\ stc = 0 /\ misplaced = FALSE

-----------------------------------------------------------------------------
\* The event i places after pNextEvent, which is number 0; i may be negative.
At(i) == ring[(i % Len(ring)) + 1]

Least(S) == CHOOSE k \in S : \A j \in S : k <= j

\* The first place, going forward (d = 1) or back (d = -1) from place i, where
\* Stop holds.  Every walk goes at least one step.
Walk(i, d, Stop(_)) ==
  i + d * Least({k \in 1..Len(ring) : Stop(i + d * k) \/ k = Len(ring)})

InsertAfter(k, pts) == SubSeq(ring, 1, k) \o <<pts>> \o SubSeq(ring, k + 1, Len(ring))

\* vid_event_add: the two loops.  Going forward, the event comes before the one
\* the walk ends at; going back, after it.
vid_event_add(pts) ==
  LET Before(i) == At(i - 1) > At(i) \/ At(i) > pts
      After(i) == At(i + 1) > At(i) \/ At(i) <= pts
  IN CASE ring = <<>> -> <<pts>>
       [] ring # <<>> /\ ring[1] <= pts -> InsertAfter(Walk(0, 1, Before), pts)
       [] ring # <<>> /\ ring[1] > pts ->
            InsertAfter(Walk(0, -1, After) + Len(ring) + 1, pts)

SeekPts == (stc - Behind) % Wrap
MaxSeekPts == (stc + Ahead) % Wrap
MaxPts == (stc + Soon) % Wrap

\* Fault: the search only goes forward from pNextEvent.
CandidateForward ==
  LET Forward(i) == At(i + 1) < At(i) \/ At(i) >= SeekPts
  IN IF At(0) < SeekPts THEN Walk(0, 1, Forward) ELSE 0

\* vid_event_wait_next: back to an event before SeekPts or to the smallest one,
\* then forward to the first one that is not before SeekPts.
Candidate ==
  LET Back(i) == At(i - 1) > At(i) \/ At(i) < SeekPts
      Forward(i) == At(i + 1) < At(i) \/ At(i) >= SeekPts
      start == IF At(0) >= SeekPts THEN Walk(0, -1, Back) ELSE 0
  IN IF At(start) < SeekPts THEN Walk(start, 1, Forward) ELSE start

InWindow(pts) ==
  IF SeekPts > MaxSeekPts THEN ~(pts < SeekPts /\ pts > MaxSeekPts)
                          ELSE ~(pts < SeekPts \/ pts > MaxSeekPts)

\* The event is dispatched now.
IsNow(pts) == InWindow(pts) /\ (pts <= MaxPts \/ (SeekPts > MaxPts /\ pts >= SeekPts))

Remove(i) ==
  LET k == (i % Len(ring)) + 1
  IN SubSeq(ring, 1, k - 1) \o SubSeq(ring, k + 1, Len(ring))

Due == ring # <<>> /\ IsNow(At(Candidate))

Dispatch ==
  /\ Due
  /\ ring' = Remove(Candidate)
  /\ misplaced' = (misplaced /\ ring' # <<>>)
  /\ UNCHANGED stc

-----------------------------------------------------------------------------
Add ==
  /\ Len(ring) < MaxEvents
  /\ \E pts \in Times :
       /\ ring' = vid_event_add(pts)
       /\ misplaced' = (misplaced \/ (Len(ring) >= 2 /\ pts < ring[1]))
  /\ UNCHANGED stc

\* The clock runs on.
Tick ==
  /\ stc' = (stc + 1) % Wrap
  /\ UNCHANGED <<ring, misplaced>>

vid_event_clear ==
  /\ ring' = <<>> /\ misplaced' = FALSE
  /\ UNCHANGED stc

Next == Add \/ Tick \/ Dispatch \/ vid_event_clear

Spec == Init /\ [][Next]_vars

-----------------------------------------------------------------------------
TypeOK ==
  /\ Len(ring) <= MaxEvents /\ \A i \in DOMAIN ring : ring[i] \in Times
  /\ stc \in Times /\ misplaced \in BOOLEAN

\* How far a time stamp is ahead of the oldest one that is looked for.
Since(pts) == (pts - SeekPts) % Wrap

\* As long as no event was added before pNextEvent to a list of several, the
\* search finds the first of the events that are due, wherever in the list
\* pNextEvent points and whatever stale events lie around it, unless the window
\* of the search contains the wrap of the time stamps.
FindsFirst ==
  (ring # <<>> /\ ~misplaced /\ SeekPts <= MaxSeekPts) =>
    LET due == {i \in 0..(Len(ring) - 1) : Since(At(i)) <= Behind + Soon}
    IN due # {} => /\ IsNow(At(Candidate))
                   /\ \A i \in due : Since(At(Candidate)) <= Since(At(i))
=============================================================================
