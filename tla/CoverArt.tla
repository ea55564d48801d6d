------------------------------ MODULE CoverArt ------------------------------
(***************************************************************************)
(* The album browser of the music client (src/mclient_mvpmc.c, mclient.c,  *)
(* mclient_cli.c).  The loop thread asks the slimserver, over its command  *)
(* line interface, for one album after another and for a track of each,    *)
(* and then shows their covers.  The state machine takes a step when an    *)
(* answer has come; answers are not matched with questions.  The GUI       *)
(* thread moves to other albums and writes pending_cli_string too, without *)
(* a lock.  A second, small state machine draws the boxes around the       *)
(* covers; when it is idle it stops the first one.                         *)
(*                                                                         *)
(* A question is a record.  An album is its index, and so is its track.    *)
(* The server is external: it answers every question, in order.            *)
(***************************************************************************)
EXTENDS Integers, Sequences

CONSTANTS
  Covers,      \* albums on the screen, 6
  Albums,      \* albums of the server
  Width,       \* indices are modulo this, 2^32
  Presses,     \* bound: keys that move to other albums, leave, or give commands
  Updates      \* bound: how often the loop asks for the time

Slots == 0..(Covers - 1)

\* The states, in the order of the enumeration.
Idle == 0
GetAlbum(k) == 1 + 2 * k
GetTrack(k) == 2 + 2 * k
Display(k) == 1 + 2 * Covers + k
GetTotal == 1 + 3 * Covers
LastState == GetTotal + 1

\* The states of the other machine.
IdleWidget == 0
AdjWidget == 1
LastWidget == 2

NoString == [q |-> "none", i |-> 0]
Ask(q, i) == [q |-> q, i |-> i]

VARIABLES
  state,                   \* state_for_cover_art
  pending, trigger,        \* pending_proc_for_cover_art, trigger_proc_...
  outstanding,             \* outstanding_cli_message
  string,                  \* pending_cli_string
  start, max,              \* album_start_index_..., album_max_index_...
  index,                   \* album_index_plus_start_for_cover_art
  slot,                    \* album_index_1_of_6_for_cover_art
  album, track,            \* album_id_for_cover_art, track_id_...
  browse,                  \* local_menu_browse
  here,                    \* is gui_state MVPMC_STATE_MCLIENT?
  widget, wpending,        \* state_for_cover_art_widget, pending_proc_..._widget
  pc,                      \* the loop: "read", "send", "cover" or "widget"
  net,                     \* questions the server has not answered
  arrived,                 \* has the answer to the first one arrived?
  presses, updates,
  mixed                    \* ghost: see CoversShown

vars == <<state, pending, trigger, outstanding, string, start, max, index, slot,
          album, track, browse, here, widget, wpending, pc, net, arrived, presses,
          updates, mixed>>

machine == <<state, index, slot, album, track>>
gui == <<start, browse, here, presses>>
boxes == <<widget, wpending>>

\* The loop has just asked for the number of albums.
Init ==
  /\ state = Idle /\ pending = FALSE /\ trigger = FALSE /\ outstanding = TRUE
  /\ string = NoString /\ start = 0 /\ max = 1
  /\ index = [k \in Slots |-> 0] /\ slot = 0
  /\ album = [k \in Slots |-> 0] /\ track = [k \in Slots |-> 0]
  /\ browse = FALSE /\ here = TRUE /\ widget = IdleWidget /\ wpending = TRUE
  /\ pc = "read" /\ net = <<Ask("total", 0)>>
  /\ arrived = FALSE
  /\ presses = 0 /\ updates = 0 /\ mixed = FALSE

\* Questions of the state machine.
IsCover(m) == m.q \in {"albums", "titles", "total"}

\* Is an answer on its way, or a question about to be sent?
Busy == IsCover(string) \/ \E i \in DOMAIN net : IsCover(net[i])

-----------------------------------------------------------------------------
\* The GUI thread.

\* OK in the local menu.
Browse ==
  /\ here /\ ~browse /\ browse' = TRUE
  /\ state' = GetAlbum(0) /\ pending' = TRUE
  /\ widget' = IdleWidget /\ wpending' = TRUE
  /\ mixed' = Busy
  /\ UNCHANGED <<trigger, outstanding, string, start, max, index, slot, album,
                 track, here, pc, net, arrived, presses, updates>>

\* EXIT, and the end of the screen saver, close the menu; EXIT again leaves the
\* music client, whose loop goes on; the main menu comes back to it.
Exit ==
  /\ here /\ presses < Presses /\ presses' = presses + 1
  /\ browse' = FALSE /\ here' = browse
  /\ UNCHANGED <<machine, pending, trigger, outstanding, string, start, max, boxes,
                 pc, net, arrived, updates, mixed>>

Enter ==
  /\ ~here /\ here' = TRUE
  /\ UNCHANGED <<machine, pending, trigger, outstanding, string, start, max, browse,
                 boxes, pc, net, arrived, presses, updates, mixed>>

\* An arrow key that moves the box.  LEFT and RIGHT do not look at the state.
Move ==
  /\ here /\ widget' = AdjWidget /\ wpending' = TRUE
  /\ UNCHANGED <<machine, pending, trigger, outstanding, string, max, gui, pc, net,
                 arrived, updates, mixed>>

\* Fault: the start of the albums is not noticed.
BackBelow == start - Covers

\* A page forward or back, and a number of tenths of the way.
Forward == IF start + Covers >= max THEN (start + Covers) % max ELSE start + Covers
Back == IF start >= Covers THEN start - Covers ELSE (max - (Covers - start)) % Width
Tenth(k) == (max * k) \div 10

Page ==
  /\ here /\ presses < Presses /\ presses' = presses + 1
  /\ start' \in {Forward, Back, Tenth(5)}
  /\ trigger' = TRUE
  /\ UNCHANGED <<machine, pending, outstanding, string, max, browse, here, boxes,
                 pc, net, arrived, updates, mixed>>

\* Any other writer of pending_cli_string: OK plays an album, PLAY and the held
\* keys set the rate, the server announces a rescan.
Command ==
  /\ presses < Presses /\ presses' = presses + 1
  /\ string' = Ask("other", 0)
  /\ mixed' = (mixed \/ IsCover(string))
  /\ browse' \in {browse, FALSE}
  /\ UNCHANGED <<machine, pending, trigger, outstanding, start, max, here, boxes,
                 pc, net, arrived, updates>>

-----------------------------------------------------------------------------
\* The server answers, external.
Answer ==
  /\ net # <<>> /\ ~arrived /\ arrived' = TRUE
  /\ UNCHANGED <<machine, pending, trigger, outstanding, string, max, gui, boxes,
                 pc, net, updates, mixed>>

\* cli_decode_response, one answer.
ReadAnswer ==
  /\ pc = "read" /\ arrived /\ arrived' = FALSE /\ net' = Tail(net)
  /\ outstanding' = FALSE
  /\ LET m == Head(net)
     IN /\ album' = IF m.q = "albums" THEN [album EXCEPT ![slot] = m.i] ELSE album
        /\ track' = IF m.q = "titles" THEN [track EXCEPT ![slot] = m.i] ELSE track
        /\ max' = IF m.q = "total" THEN Albums ELSE max
        /\ pending' = (pending \/ IsCover(m))
  /\ UNCHANGED <<state, index, slot, trigger, string, gui, boxes, pc, updates,
                 mixed>>

\* A question has been outstanding for more than 2 seconds.
Timeout ==
  /\ pc = "read" /\ outstanding /\ outstanding' = FALSE
  /\ UNCHANGED <<machine, pending, trigger, string, max, gui, boxes, pc, net,
                 arrived, updates, mixed>>

ReadEnd ==
  /\ pc = "read" /\ ~arrived /\ pc' = "send"
  /\ UNCHANGED <<machine, pending, trigger, outstanding, string, max, gui, boxes,
                 net, arrived, updates, mixed>>

\* The questions that are asked every second, and pending_cli_string.
Update ==
  /\ pc = "send" /\ pc' = "cover"
  /\ updates < Updates /\ updates' = updates + 1
  /\ net' = Append(net, Ask("other", 0)) /\ outstanding' = TRUE
  /\ UNCHANGED <<machine, pending, trigger, string, max, gui, boxes, arrived, mixed>>

SendString ==
  /\ pc = "send" /\ pc' = "cover"
  /\ IF string # NoString /\ ~outstanding
     THEN net' = Append(net, string) /\ string' = NoString /\ outstanding' = TRUE
     ELSE UNCHANGED <<net, string, outstanding>>
  /\ UNCHANGED <<machine, pending, trigger, max, gui, boxes, arrived, updates,
                 mixed>>

\* The state mclient_browse_by_cover goes on to, whether or not it could do
\* anything in state s.
After(s) == IF s = Idle \/ s + 1 >= LastState THEN Idle ELSE s + 1

\* "Set up for another call here": mclient_get_browser_cover_art.
Shown(s) == \E k \in Slots : s = Display(k)

NewIndex(k) == LET i == (start + k) % Width IN IF i >= max THEN i % max ELSE i

\* Fault: a restart does not go back to the first place.
AskNextSlot(s) ==
  \/ \E k \in Slots :
       /\ s = GetAlbum(k) /\ slot' = IF k = 0 THEN slot ELSE k
       /\ index' = IF k = 0 THEN [j \in Slots |-> NewIndex(j)] ELSE index
       /\ string' = Ask("albums", index'[k])
  \/ \E k \in Slots :
       /\ s = GetTrack(k) /\ string' = Ask("titles", album[k])
       /\ UNCHANGED <<slot, index>>
  \/ /\ s = GetTotal /\ string' = Ask("total", 0)
     /\ UNCHANGED <<slot, index>>
  \/ /\ s = Idle \/ \E k \in Slots : s = Display(k)
     /\ UNCHANGED <<slot, index, string>>

AskNext(s) ==
  \/ \E k \in Slots :
       /\ s = GetAlbum(k) /\ slot' = k
       /\ index' = IF k = 0 THEN [j \in Slots |-> NewIndex(j)] ELSE index
       /\ string' = Ask("albums", index'[k])
  \/ \E k \in Slots :
       /\ s = GetTrack(k) /\ string' = Ask("titles", album[k])
       /\ UNCHANGED <<slot, index>>
  \/ /\ s = GetTotal /\ string' = Ask("total", 0)
     /\ UNCHANGED <<slot, index>>
  \/ /\ s = Idle \/ \E k \in Slots : s = Display(k)
     /\ UNCHANGED <<slot, index, string>>

\* In the state it has no case for, the boxes are to be drawn.
mclient_browse_by_cover(s) ==
  /\ state' = After(s)
  /\ IF string = NoString
     THEN /\ AskNext(s) /\ pending' = Shown(s)
          /\ IF s = Idle THEN widget' = AdjWidget /\ wpending' = TRUE
                         ELSE UNCHANGED boxes
          /\ mixed' = ((mixed /\ s # GetAlbum(0)) \/ (s # Idle /\ Busy))
     ELSE /\ UNCHANGED <<slot, index, string, boxes>> /\ pending' = FALSE
          /\ mixed' = TRUE

Cover ==
  /\ pc = "cover" /\ pc' = "widget"
  /\ \/ /\ pending /\ here /\ ~outstanding
        /\ trigger' = FALSE
        /\ mclient_browse_by_cover(IF trigger THEN GetAlbum(0) ELSE state)
     \/ /\ ~(pending /\ here /\ ~outstanding)
        /\ pending' = (pending \/ (~outstanding /\ trigger))
        /\ UNCHANGED <<state, index, slot, string, trigger, boxes, mixed>>
  /\ UNCHANGED <<album, track, outstanding, max, gui, net, arrived, updates>>

\* The boxes are drawn once more than asked for; that time the machine is idle, and
\* then it is the state of the other one that is set.
mclient_browse_by_cover_widget ==
  /\ wpending' = (string = NoString /\ widget = AdjWidget)
  /\ state' = IF string = NoString /\ widget # AdjWidget THEN Idle ELSE state
  /\ widget' = IF widget = IdleWidget \/ widget + 1 >= LastWidget
                 THEN IdleWidget ELSE widget + 1

CoverWidget ==
  /\ pc = "widget" /\ pc' = "read"
  /\ IF wpending /\ here /\ browse THEN mclient_browse_by_cover_widget
                                   ELSE UNCHANGED <<state, boxes>>
  /\ UNCHANGED <<index, slot, album, track, pending, trigger, outstanding, string,
                 max, gui, net, arrived, updates, mixed>>

LoopStep == ReadAnswer \/ ReadEnd \/ Update \/ SendString \/ Cover \/ CoverWidget

Next ==
  \/ Browse \/ Exit \/ Enter \/ Move \/ Page \/ Command
  \/ Answer \/ Timeout \/ LoopStep

Spec == Init /\ [][Next]_vars

\* The loop goes round at least every 100 ms, and the server answers.
Fairness == WF_vars(Answer) /\ WF_vars(LoopStep)

FairSpec == Spec /\ Fairness

-----------------------------------------------------------------------------
TypeOK ==
  /\ state \in Idle..GetTotal /\ widget \in {IdleWidget, AdjWidget}
  /\ {pending, trigger, outstanding, browse, here, wpending, mixed} \subseteq BOOLEAN
  /\ start \in 0..(Width - 1) /\ max \in {1, Albums} /\ slot \in Slots
  /\ \A k \in Slots : {index[k], album[k], track[k]} \subseteq 0..(Albums - 1)
  /\ pc \in {"read", "send", "cover", "widget"}
  /\ presses \in 0..Presses /\ updates \in 0..Updates

\* Each place of the screen has the cover of the album that OK plays there,
\* however the user has moved about in the meantime, unless answers and
\* questions are mixed up: a question was asked while another of its kind was
\* not answered, because an answer to anything clears outstanding_cli_message,
\* or pending_cli_string was taken by somebody else.
CoversInPlace ==
  ~mixed /\ state > Display(0) =>
    \A k \in Slots : album[k] = index[k] /\ track[k] = index[k]

\* Under the same condition the browser gets through its states, or is stopped by
\* the other machine, unless the user leaves the music client.
Browsing == state # Idle
Browsed == state = Idle \/ mixed \/ ~here
CoversShown == Browsing ~> Browsed
=============================================================================
