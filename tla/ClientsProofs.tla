---------------------------- MODULE ClientsProofs ----------------------------
(***************************************************************************)
(* Proofs about the parts of Clients, for every value of their constants:  *)
(* the playlist (Playlist), the album browser of the music client          *)
(* (CoverArt), the queue of video events (VidEvents), the ring of the      *)
(* music client (MClient), the parser (DemuxParser) and the transfer of a  *)
(* file (CmythFile); the proofs of the others are in ReplayTVProofs and    *)
(* EmulateProofs.  At the end the results of all parts are carried over to *)
(* Clients.                                                                *)
(***************************************************************************)
EXTENDS Clients, SequenceTheorems, WellFoundedInduction, TLAPS

-----------------------------------------------------------------------------
(* The playlist.                                                           *)
(*                                                                         *)
(* A list is freed by the GUI thread, and the audio thread keeps an item   *)
(* of it between playlist_next and playlist_change.  What saves it is that *)
(* audio_playing stays TRUE all the way from the song that has ended to    *)
(* the next one, so that a GUI thread that waits for it does not free the  *)
(* list in between.                                                        *)

\* Every list has songs.
HasSongs == Songs \in Nat \ {0} /\ Lists \in Nat

\* An item of the list, or NULL.
OnList(item) == item = 0 \/ item \in List!Live

\* As long as no list was freed while the audio thread was at work, every
\* thread holds only items of the list, and audio_playing covers the time in
\* which the audio thread holds one.
ItemsHeld ==
  ~hasty =>
    /\ OnList(playlist)
    /\ list_gpc = "change" => OnList(gnext)
    /\ apc \in {"change", "set"} => OnList(anext)
    /\ apc \in {"play", "fail", "next", "change", "set", "again"} => audio_playing

ListTypes ==
  /\ list \in Seq(List!Items) /\ made \in 0..Lists
  /\ playlist \in List!Items /\ anext \in List!Items /\ gnext \in List!Items

ListFlags ==
  /\ repeat \in BOOLEAN /\ current \in BOOLEAN /\ audio_playing \in BOOLEAN
  /\ audio_stop \in BOOLEAN /\ stale \in BOOLEAN /\ hasty \in BOOLEAN

ListPlaces ==
  /\ apc \in {"top", "drowsy", "wait", "init", "opened", "play", "fail", "next",
              "change", "set", "again", "done"}
  /\ list_gpc \in {"idle", "skip", "skip_play", "replay", "replay_play", "select",
              "file", "next", "prev", "change"}

ListInv ==
  ListTypes /\ ListFlags /\ ListPlaces /\ ItemsHeld /\ List!ItemsLive

LEMMA ItemRange ==
  ASSUME HasSongs
  PROVE  /\ 0 \in List!Items
         /\ \A m \in 0..(Lists - 1), i \in 1..Songs : m * Songs + i \in List!Items
<1>1. Songs \in Nat /\ Lists \in Nat
  BY DEF HasSongs
<1>2. Songs * Lists \in Nat
  BY <1>1
<1>3. ASSUME NEW m \in 0..(Lists - 1), NEW i \in 1..Songs
      PROVE  m * Songs + i \in 0..(Songs * Lists)
  <2>1. m \in Nat /\ m * Songs \in Nat
    BY <1>1
  <2>2. Songs * Lists = m * Songs + Songs + (Lists - 1 - m) * Songs
    BY <1>1, <2>1
  <2>3. (Lists - 1 - m) * Songs \in Nat
    BY <1>1, <2>1
  <2> QED BY <1>1, <2>1, <2>2, <2>3
<1> QED BY <1>2, <1>3 DEF List!Items

\* The neighbours of an item are items of the list.
LEMMA Neighbours ==
  ASSUME HasSongs, ListTypes, NEW item
  PROVE  /\ OnList(List!Following(item)) /\ List!Following(item) \in List!Items
         /\ OnList(List!Preceding(item)) /\ List!Preceding(item) \in List!Items
<1>1. 0 \in List!Items /\ list \in Seq(List!Items)
  BY ItemRange DEF ListTypes
<1>2. \A i \in DOMAIN list : list[i] \in List!Live /\ list[i] \in List!Items
  <2>1. \A i \in DOMAIN list : list[i] \in List!Items
    BY <1>1
  <2> QED BY <2>1 DEF List!Live
<1>3. CASE item \notin List!Live
  BY <1>1, <1>3 DEF OnList, List!Following, List!Preceding
<1>4. CASE item \in List!Live
  <2> DEFINE i == List!At(item)
  <2>1. i \in DOMAIN list
    BY <1>4 DEF List!At, List!Live
  <2>2. DOMAIN list = 1..Len(list) /\ Len(list) \in Nat
    BY <1>1
  <2>3. List!Following(item) \in {0} \cup {list[j] : j \in DOMAIN list}
    <3>1. CASE i < Len(list)
      BY <1>4, <2>1, <2>2, <3>1 DEF List!Following
    <3>2. CASE i = Len(list) /\ repeat
      <4>1. List!Following(item) = list[1]
        BY <1>4, <2>2, <3>2 DEF List!Following
      <4> QED BY <2>1, <2>2, <4>1
    <3>3. CASE ~(i < Len(list)) /\ ~(i = Len(list) /\ repeat)
      BY <1>4, <3>3 DEF List!Following
    <3> QED BY <3>1, <3>2, <3>3
  <2>4. List!Preceding(item) \in {0} \cup {list[j] : j \in DOMAIN list}
    <3>1. CASE i = 1
      BY <3>1 DEF List!Preceding
    <3>2. CASE i # 1
      <4>1. List!Preceding(item) = list[i - 1]
        BY <1>4, <3>2 DEF List!Preceding
      <4>2. i - 1 \in DOMAIN list
        BY <2>1, <2>2, <3>2
      <4> QED BY <4>1, <4>2
    <3> QED BY <3>1, <3>2
  <2> HIDE DEF i
  <2> QED BY <1>1, <1>2, <2>3, <2>4 DEF OnList
<1> QED BY <1>3, <1>4

LEMMA ListInit == ASSUME HasSongs, List!Init PROVE ListInv
<1>1. 0 \in List!Items
  BY ItemRange
<1>2. ListTypes
  BY <1>1 DEF HasSongs, List!Init, ListTypes
<1>3. ListFlags /\ ListPlaces
  BY DEF List!Init, ListFlags, ListPlaces
<1>4. ItemsHeld /\ List!ItemsLive
  BY DEF List!Init, ItemsHeld, OnList, List!ItemsLive
<1> QED BY <1>2, <1>3, <1>4 DEF ListInv

-----------------------------------------------------------------------------
\* The items that a step takes from the list have the type of items.
LEMMA ListTypesStep == ASSUME HasSongs, ListInv, [List!Next]_List!vars
                       PROVE  ListTypes'
<1>0. ListTypes /\ 0 \in List!Items
  BY ItemRange DEF ListInv
<1>a. ASSUME UNCHANGED <<list, made, playlist, anext, gnext>> PROVE ListTypes'
  BY <1>0, <1>a DEF ListTypes
<1>b. ASSUME NEW item \in List!Items, List!Change(item), UNCHANGED <<anext, gnext>>
      PROVE  ListTypes'
  BY <1>0, <1>b DEF ListTypes, List!Change
<1>c. ASSUME List!Clear, UNCHANGED <<made, anext, gnext>> PROVE ListTypes'
  <2>1. list' = <<>> /\ playlist' \in {playlist, 0}
    BY <1>c DEF List!Clear
  <2>2. list' \in Seq(List!Items)
    BY <2>1
  <2> QED BY <1>0, <1>c, <2>1, <2>2 DEF ListTypes
<1>d. \A item \in List!Live : item \in List!Items
  BY <1>0 DEF ListTypes, List!Live
<1>1. CASE List!AudioNext
  <2>1. /\ UNCHANGED <<list, made, playlist, gnext>>
        /\ anext' \in {anext, List!Following(playlist)}
    BY <1>1 DEF List!AudioNext
  <2> QED BY <1>0, <2>1, Neighbours DEF ListTypes
<1>2. CASE List!GuiNext
  <2>1. /\ UNCHANGED <<list, made, playlist, anext>>
        /\ gnext' \in {gnext, List!Following(playlist), List!Preceding(playlist)}
    BY <1>2 DEF List!GuiNext
  <2> QED BY <1>0, <2>1, Neighbours DEF ListTypes
<1>3. CASE List!AudioChange
  BY <1>0, <1>3, <1>b DEF List!AudioChange, ListTypes
<1>4. CASE List!GuiChange
  <2>1. CASE playlist = 0
    BY <1>4, <1>a, <2>1 DEF List!GuiChange, List!shared
  <2>2. CASE playlist # 0
    BY <1>0, <1>4, <1>b, <2>2 DEF List!GuiChange, ListTypes
  <2> QED BY <2>1, <2>2
<1>5. CASE List!SelectItem
  <2>1. PICK item \in List!Live :
          /\ gnext' = item /\ playlist' \in {item, playlist}
          /\ UNCHANGED <<list, made, anext>>
    BY <1>5 DEF List!SelectItem
  <2> QED BY <1>0, <1>d, <2>1 DEF ListTypes
<1>6. CASE List!SelectFile
  BY <1>6, <1>c DEF List!SelectFile
<1>7. CASE List!Create
  <2> DEFINE new == [i \in 1..Songs |-> made * Songs + i]
  <2>1. /\ made < Lists /\ list' = new /\ made' = made + 1 /\ anext' = anext
        /\ playlist' = new[1] /\ gnext' = new[1]
    BY <1>7 DEF List!Create
  <2>2. made \in 0..(Lists - 1) /\ made' \in 0..Lists
    BY <1>0, <2>1 DEF ListTypes, HasSongs
  <2>3. \A i \in 1..Songs : new[i] \in List!Items
    BY <2>2, ItemRange
  <2>4. new \in Seq(List!Items)
    <3> HIDE DEF new
    <3>1. new \in [1..Songs -> List!Items] /\ Songs \in Nat
      BY <2>3 DEF new, HasSongs
    <3> QED BY <3>1
  <2>5. new[1] \in List!Items
    BY <2>3 DEF HasSongs
  <2> HIDE DEF new
  <2> QED BY <1>0, <2>1, <2>2, <2>4, <2>5 DEF ListTypes
<1>8. CASE List!Exit
  BY <1>8, <1>c DEF List!Exit
<1>9. CASE List!fb_exit
  BY <1>9, <1>a, <1>c DEF List!fb_exit
<1>10. CASE List!Randomize
  BY <1>0, <1>10, <1>d DEF List!Randomize, ListTypes
<1> QED
  BY <1>a, <1>1, <1>2, <1>3, <1>4, <1>5, <1>6, <1>7, <1>8, <1>9, <1>10
     DEF List!Next, List!Key, List!GuiStep, List!AudioStep, List!SongEnds,
         List!StopFirst, List!Repeat, List!SkipTest, List!SkipPlay, List!AudioTop,
         List!AudioWait, List!AudioInit, List!AudioOpened, List!AudioStopped,
         List!AudioFail, List!AudioTest, List!AudioAgain, List!AudioDone,
         List!shared, List!vars

LEMMA ListPlacesStep == ASSUME ListInv, [List!Next]_List!vars PROVE ListPlaces'
<1>0. ListPlaces
  BY DEF ListInv
<1>1. CASE List!Key
  BY <1>0, <1>1 DEF ListPlaces, List!Key, List!StopFirst, List!Create, List!Exit,
                    List!fb_exit, List!Randomize, List!Repeat
<1>2. CASE List!GuiStep
  BY <1>0, <1>2 DEF ListPlaces, List!GuiStep, List!SkipTest, List!SkipPlay,
                    List!Playing, List!Left, List!GuiNext, List!GuiChange,
                    List!SelectItem, List!SelectFile, List!audio_play
<1>3. CASE List!AudioStep \/ List!SongEnds
  BY <1>0, <1>3 DEF ListPlaces, List!AudioStep, List!SongEnds, List!AudioTop,
                    List!AudioWait, List!AudioInit, List!AudioOpened,
                    List!AudioStopped, List!AudioFail, List!AudioNext,
                    List!AudioTest, List!AudioChange, List!AudioAgain, List!AudioDone
<1>4. CASE UNCHANGED List!vars
  BY <1>0, <1>4 DEF ListPlaces, List!vars
<1> QED BY <1>1, <1>2, <1>3, <1>4 DEF List!Next

LEMMA ListFlagsStep == ASSUME ListInv, [List!Next]_List!vars PROVE ListFlags'
<1>0. ListFlags
  BY DEF ListInv
<1>1. CASE List!Key
  BY <1>0, <1>1 DEF ListFlags, List!Key, List!StopFirst, List!Create, List!Exit,
                    List!fb_exit, List!Randomize, List!Repeat, List!Clear, List!audio
<1>2. CASE List!GuiStep
  BY <1>0, <1>2 DEF ListFlags, List!GuiStep, List!SkipTest, List!SkipPlay,
                    List!GuiNext, List!GuiChange, List!SelectItem, List!SelectFile,
                    List!Change, List!Use, List!Clear, List!audio, List!shared
<1>3. CASE List!AudioStep \/ List!SongEnds
  BY <1>0, <1>3 DEF ListFlags, List!AudioStep, List!SongEnds, List!AudioTop,
                    List!AudioWait, List!AudioInit, List!AudioOpened,
                    List!AudioStopped, List!AudioFail, List!AudioNext,
                    List!AudioTest, List!AudioChange, List!AudioAgain, List!AudioDone,
                    List!Change, List!Use, List!audio, List!shared
<1>4. CASE UNCHANGED List!vars
  BY <1>0, <1>4 DEF ListFlags, List!vars
<1> QED BY <1>1, <1>2, <1>3, <1>4 DEF List!Next

-----------------------------------------------------------------------------
Covered == {"play", "fail", "next", "change", "set", "again"}

\* A step that neither takes an item nor changes the list.
LEMMA QuietItems ==
  ASSUME ListInv, UNCHANGED <<list, playlist, anext, gnext, stale, hasty>>,
         list_gpc' = "change" => list_gpc = "change",
         apc' \in {"change", "set"} => apc \in {"change", "set"},
         ~hasty /\ apc' \in Covered => audio_playing'
  PROVE  ItemsHeld' /\ List!ItemsLive'
BY DEF ListInv, ItemsHeld, OnList, List!Live, List!ItemsLive, Covered

\* When it is freed without haste, the audio thread holds no item.
LEMMA ClearItems ==
  ASSUME ListInv, List!Clear, UNCHANGED <<stale, hasty, audio_playing, anext>>,
         ~audio_playing, list_gpc' = "idle", apc' \in {apc, "init"}
  PROVE  ItemsHeld' /\ List!ItemsLive'
<1>1. List!ItemsLive'
  BY DEF ListInv, List!ItemsLive
<1>2. ASSUME ~hasty PROVE playlist' = 0
  BY <1>2 DEF ListInv, ItemsHeld, OnList, List!Clear, List!Live
<1>3. ASSUME ~hasty PROVE apc' \notin Covered
  BY <1>3 DEF ListInv, ItemsHeld, Covered
<1> QED BY <1>1, <1>2, <1>3 DEF ItemsHeld, OnList, Covered

\* The end of playlist_change, with an item that is on the list.
LEMMA ChangeItems ==
  ASSUME ListInv, NEW item, ~hasty => OnList(item), List!Change(item),
         UNCHANGED <<audio_playing, anext, gnext>>,
         list_gpc' = "change" => list_gpc = "change",
         apc' \in {"change", "set"} => apc \in {"change", "set"},
         ~hasty /\ apc' \in Covered => audio_playing
  PROVE  ItemsHeld' /\ List!ItemsLive'
<1>1. /\ playlist' = item /\ list' = list /\ hasty' = hasty /\ List!Use(item)
  BY DEF List!Change
<1>2. List!ItemsLive'
  BY <1>1 DEF ListInv, List!ItemsLive, List!Use, OnList
<1>3. ItemsHeld'
  BY <1>1 DEF ListInv, ItemsHeld, OnList, List!Live, Covered
<1> QED BY <1>2, <1>3

LEMMA ItemsStep == ASSUME HasSongs, ListInv, [List!Next]_List!vars
                   PROVE  ItemsHeld' /\ List!ItemsLive'
<1>0. ItemsHeld /\ List!ItemsLive /\ ListTypes
  BY DEF ListInv
<1>1. CASE List!AudioTop \/ List!AudioWait \/ List!AudioOpened \/ List!AudioDone
  BY <1>1, QuietItems DEF List!AudioTop, List!AudioWait, List!AudioOpened,
       List!AudioDone, List!shared, Covered
<1>2. CASE List!AudioStopped \/ List!SongEnds \/ List!AudioFail \/ List!AudioTest
           \/ List!AudioAgain
  <2>1. /\ UNCHANGED <<list, playlist, anext, gnext, stale, hasty, list_gpc, audio_playing>>
        /\ apc' \in {"change", "set"} => apc \in {"change", "set"}
        /\ apc' \in Covered => apc \in Covered
    BY <1>2 DEF List!AudioStopped, List!SongEnds, List!AudioFail, List!AudioTest,
         List!AudioAgain, List!shared, List!audio, Covered
  <2>2. ~hasty /\ apc' \in Covered => audio_playing'
    BY <1>0, <2>1 DEF ItemsHeld, Covered
  <2> QED BY <2>1, <2>2, QuietItems
<1>3. CASE List!AudioInit
  <2>1. CASE hasty'
    BY <2>1 DEF ItemsHeld, List!ItemsLive
  <2>2. CASE ~hasty'
    <3>1. /\ UNCHANGED <<list, playlist, anext, gnext, stale, list_gpc>>
          /\ hasty' = hasty /\ apc' = "opened"
      BY <1>3, <2>2 DEF List!AudioInit
    <3> QED BY <3>1, QuietItems DEF Covered
  <2> QED BY <2>1, <2>2
<1>4. CASE List!AudioNext
  <2>1. CASE playlist = 0
    <3>1. /\ UNCHANGED <<list, playlist, anext, gnext, stale, hasty, list_gpc, audio_playing>>
          /\ apc = "next" /\ apc' = "again"
      BY <1>4, <2>1 DEF List!AudioNext, List!audio
    <3> QED BY <1>0, <3>1, QuietItems DEF ItemsHeld, Covered
  <2>2. CASE playlist # 0
    <3>1. /\ UNCHANGED <<list, playlist, gnext, hasty, list_gpc, audio_playing>>
          /\ apc = "next" /\ apc' = "change"
          /\ anext' = List!Following(playlist) /\ List!Use(playlist)
      BY <1>4, <2>2 DEF List!AudioNext, List!audio
    <3>2. OnList(List!Following(playlist))
      BY <1>0, Neighbours
    <3>3. ItemsHeld'
      BY <1>0, <3>1, <3>2 DEF ItemsHeld, OnList, List!Live
    <3>4. List!ItemsLive'
      BY <1>0, <3>1 DEF ItemsHeld, OnList, List!ItemsLive, List!Use
    <3> QED BY <3>3, <3>4
  <2> QED BY <2>1, <2>2
<1>5. CASE List!AudioChange
  <2>1. /\ apc = "set" /\ apc' = "again" /\ List!Change(anext)
        /\ UNCHANGED <<audio_playing, anext, list_gpc, gnext>>
    BY <1>5 DEF List!AudioChange, List!audio
  <2>2. ~hasty => OnList(anext) /\ audio_playing
    BY <1>0, <2>1 DEF ItemsHeld
  <2> QED BY <2>1, <2>2, ChangeItems
<1>6. CASE (\E key \in {"skip", "replay", "file"} : List!StopFirst(key))
           \/ List!StopFirst("select") \/ List!Repeat
  <2>1. /\ UNCHANGED <<list, playlist, anext, gnext, stale, hasty, audio_playing, apc>>
        /\ list_gpc' # "change"
    BY <1>6 DEF List!StopFirst, List!Repeat, List!audio
  <2> QED BY <1>0, <2>1, QuietItems DEF ItemsHeld, Covered
<1>7. CASE List!Create
  <2> DEFINE new == [i \in 1..Songs |-> made * Songs + i]
  <2>1. /\ list' = new /\ playlist' = new[1] /\ gnext' = new[1]
        /\ hasty' = (hasty \/ list # <<>>)
        /\ UNCHANGED <<stale, audio_playing, apc, anext>>
    BY <1>7 DEF List!Create, List!audio
  <2>2. List!ItemsLive'
    BY <1>0, <2>1 DEF List!ItemsLive
  <2>3. 1 \in DOMAIN new
    BY DEF HasSongs
  <2> HIDE DEF new
  <2>4. new[1] \in List!Live'
    BY <2>1, <2>3 DEF List!Live
  <2>5. ASSUME ~hasty'
        PROVE  /\ ~hasty
               /\ apc \in {"change", "set"} => anext = 0
    <3>1. list = <<>> /\ ~hasty
      BY <2>1, <2>5
    <3>2. List!Live = {}
      BY <3>1 DEF List!Live
    <3> QED BY <1>0, <3>1, <3>2 DEF ItemsHeld, OnList
  <2>6. ItemsHeld'
    BY <1>0, <2>1, <2>4, <2>5 DEF ItemsHeld, OnList
  <2> QED BY <2>2, <2>6
<1>8. CASE List!Exit
  BY <1>8, ClearItems DEF List!Exit, List!audio
<1>9. CASE List!fb_exit
  <2>1. CASE hasty'
    BY <2>1 DEF ItemsHeld, List!ItemsLive
  <2>2. CASE ~hasty'
    <3>1. UNCHANGED <<list, playlist, anext, gnext, stale, hasty, audio_playing, apc, list_gpc>>
      BY <1>9, <2>2 DEF List!fb_exit
    <3> QED BY <1>0, <3>1, QuietItems DEF ItemsHeld, Covered
  <2> QED BY <2>1, <2>2
<1>10. CASE List!Randomize
  <2>1. /\ playlist' \in List!Live
        /\ UNCHANGED <<list, stale, hasty, audio_playing, apc, anext, list_gpc, gnext>>
    BY <1>10 DEF List!Randomize, List!audio
  <2> QED BY <1>0, <2>1 DEF ItemsHeld, OnList, List!Live, List!ItemsLive
<1>11. CASE List!SkipTest \/ List!SkipPlay
  <2>1. /\ UNCHANGED <<list, playlist, anext, gnext, stale, hasty, audio_playing>>
        /\ list_gpc' # "change" /\ apc' \in {apc, "init"}
    BY <1>11 DEF List!SkipTest, List!SkipPlay, List!audio_play, List!Playing,
         List!Left, List!shared, List!audio
  <2> QED BY <1>0, <2>1, QuietItems DEF ItemsHeld, Covered
<1>12. CASE List!GuiNext
  <2>1. CASE playlist = 0
    <3>1. /\ UNCHANGED <<list, playlist, anext, gnext, stale, hasty, apc, audio_playing>>
          /\ list_gpc' = "idle"
      BY <1>12, <2>1 DEF List!GuiNext, List!audio
    <3> QED BY <1>0, <3>1, QuietItems DEF ItemsHeld, Covered
  <2>2. CASE playlist # 0
    <3>1. /\ UNCHANGED <<list, playlist, anext, hasty, apc, audio_playing>>
          /\ gnext' \in {List!Following(playlist), List!Preceding(playlist)}
          /\ List!Use(playlist)
      BY <1>12, <2>2 DEF List!GuiNext, List!audio
    <3>2. OnList(List!Following(playlist)) /\ OnList(List!Preceding(playlist))
      BY <1>0, Neighbours
    <3>3. ItemsHeld'
      BY <1>0, <3>1, <3>2 DEF ItemsHeld, OnList, List!Live
    <3>4. List!ItemsLive'
      BY <1>0, <3>1 DEF ItemsHeld, OnList, List!ItemsLive, List!Use
    <3> QED BY <3>3, <3>4
  <2> QED BY <2>1, <2>2
<1>13. CASE List!GuiChange
  <2>1. /\ list_gpc = "change" /\ list_gpc' = "idle"
        /\ UNCHANGED <<audio_playing, anext, gnext>> /\ apc' \in {apc, "init"}
    BY <1>13 DEF List!GuiChange, List!audio, List!audio_play
  <2>2. ~hasty /\ apc' \in Covered => audio_playing
    BY <1>0, <2>1 DEF ItemsHeld, Covered
  <2>3. CASE playlist = 0
    <3>1. UNCHANGED <<list, playlist, stale, hasty>>
      BY <1>13, <2>3 DEF List!GuiChange, List!shared
    <3> QED BY <2>1, <2>2, <3>1, QuietItems
  <2>4. CASE playlist # 0
    <3>1. List!Change(gnext)
      BY <1>13, <2>4 DEF List!GuiChange
    <3>2. ~hasty => OnList(gnext)
      BY <1>0, <2>1 DEF ItemsHeld
    <3> QED BY <2>1, <2>2, <3>1, <3>2, ChangeItems
  <2> QED BY <2>3, <2>4
<1>14. CASE List!SelectItem
  <2>1. PICK item \in List!Live :
          /\ gnext' = item /\ playlist' \in {item, playlist}
          /\ UNCHANGED <<list, stale, hasty, audio_playing, apc, anext>>
    BY <1>14 DEF List!SelectItem, List!audio
  <2> QED BY <1>0, <2>1 DEF ItemsHeld, OnList, List!Live, List!ItemsLive
<1>15. CASE List!SelectFile
  BY <1>15, ClearItems DEF List!SelectFile, List!audio, List!audio_play
<1>16. CASE UNCHANGED List!vars
  BY <1>0, <1>16, QuietItems DEF List!vars, ItemsHeld, Covered
<1> QED
  BY <1>1, <1>2, <1>3, <1>4, <1>5, <1>6, <1>7, <1>8, <1>9, <1>10, <1>11, <1>12,
     <1>13, <1>14, <1>15, <1>16
     DEF List!Next, List!Key, List!GuiStep, List!AudioStep

LEMMA ListInvariance == ASSUME HasSongs PROVE List!Spec => []ListInv
<1>1. List!Init => ListInv
  BY ListInit
<1>2. ListInv /\ [List!Next]_List!vars => ListInv'
  BY ListTypesStep, ListPlacesStep, ListFlagsStep, ItemsStep DEF ListInv
<1> QED BY <1>1, <1>2, PTL DEF List!Spec

\* The playlist keeps its types, whatever the keys and however many lists there
\* are: the current item is always an item, or NULL.
LEMMA PlaylistTypes == ASSUME HasSongs PROVE List!Spec => []List!TypeOK
<1>1. ASSUME ListInv PROVE List!TypeOK
  <2>1. List!Live \subseteq List!Items
    BY <1>1 DEF ListInv, ListTypes, List!Live
  <2>2. {playlist, anext, gnext} \subseteq List!Items
    BY <1>1 DEF ListInv, ListTypes
  <2>3. {repeat, current, audio_playing, audio_stop, stale, hasty} \subseteq BOOLEAN
    BY <1>1 DEF ListInv, ListFlags
  <2> QED BY <1>1, <2>1, <2>2, <2>3 DEF ListInv, ListTypes, ListPlaces, List!TypeOK
<1> QED BY <1>1, ListInvariance, PTL

\* No thread uses an item that was freed, for lists of any length, in any
\* interleaving of the keys with the audio thread's way from one song to the
\* next: only an open that fails, or a list freed without waiting for
\* audio_playing, leaves a thread with an item of an old list.
LEMMA PlaylistItemsLive == ASSUME HasSongs PROVE List!Spec => []List!ItemsLive
<1>1. ListInv => List!ItemsLive
  BY DEF ListInv
<1> QED BY <1>1, ListInvariance, PTL

-----------------------------------------------------------------------------
(* The album browser.                                                      *)
(*                                                                         *)
(* Answers are not matched with questions: an answer goes to the place the *)
(* state machine is at.  CoversInPlace holds because of what may be in the *)
(* air in each state, unless answers and questions are mixed up: in the    *)
(* state after a question at most that question, and nothing when it has   *)
(* been answered.                                                          *)

\* The indices of the albums fit into their width.
ArtSizes ==
  /\ Covers \in Nat \ {0} /\ Albums \in Nat \ {0} /\ AlbumWidth \in Nat
  /\ Albums <= AlbumWidth /\ Presses \in Nat /\ Updates \in Nat

AlbumIds == 0..(Albums - 1)
Question == [q : {"none", "total", "albums", "titles", "other"}, i : AlbumIds]

ArtMachine ==
  /\ cover \in 0..Art!GetTotal /\ slot \in Art!Slots
  /\ index \in [Art!Slots -> AlbumIds] /\ album \in [Art!Slots -> AlbumIds]
  /\ track \in [Art!Slots -> AlbumIds]

ArtNet ==
  /\ string \in Question /\ questions \in Seq(Question)
  /\ answered \in BOOLEAN /\ (answered => questions # <<>>)

ArtFlags ==
  /\ pending \in BOOLEAN /\ trigger \in BOOLEAN /\ outstanding \in BOOLEAN
  /\ browse \in BOOLEAN /\ here \in BOOLEAN /\ mixed \in BOOLEAN

ArtBoxes == widget \in {Art!IdleWidget, Art!AdjWidget} /\ wpending \in BOOLEAN

ArtGui ==
  /\ start \in 0..(AlbumWidth - 1) /\ max \in {1, Albums}
  /\ pc \in {"read", "send", "cover", "widget"} /\ presses \in 0..Presses
  /\ updates \in 0..Updates

\* The questions of the state machine that have not been answered.
InAir == {m \in {string} \cup {questions[i] : i \in DOMAIN questions} : Art!IsCover(m)}

Complete(k) == album[k] = index[k] /\ track[k] = index[k]

\* What is in the air, and what is in place, in each state: before the first
\* question, after a question for an album, after one for a track, and after
\* the last.
Placed ==
  /\ cover = Art!GetAlbum(0) => InAir = {}
  /\ \A k \in Art!Slots : cover = Art!GetTrack(k) =>
       /\ slot = k /\ InAir \subseteq {Art!Ask("albums", index[k])}
       /\ InAir = {} => album[k] = index[k]
       /\ \A j \in 0..(k - 1) : Complete(j)
  /\ \A k \in Art!Slots : cover = Art!GetTrack(k) + 1 =>
       /\ slot = k /\ InAir \subseteq {Art!Ask("titles", index[k])}
       /\ album[k] = index[k] /\ (InAir = {} => track[k] = index[k])
       /\ \A j \in 0..(k - 1) : Complete(j)
  /\ cover > Art!Display(0) => InAir = {} /\ \A k \in Art!Slots : Complete(k)

ArtInv ==
  /\ ArtMachine /\ ArtNet /\ ArtFlags /\ ArtBoxes /\ ArtGui
  /\ ~mixed => Placed

LEMMA BusyInAir == Art!Busy <=> InAir # {}
BY DEF Art!Busy, InAir

LEMMA ArtInit == ASSUME ArtSizes, Art!Init PROVE ArtInv
<1>1. 0 \in AlbumIds /\ 0 \in Art!Slots /\ 0 \in 0..Art!GetTotal
  BY DEF ArtSizes, AlbumIds, Art!Slots, Art!GetTotal
<1>2. ArtMachine
  BY <1>1 DEF Art!Init, Art!Idle, ArtMachine
<1>3. ArtNet
  <2>1. Art!NoString \in Question /\ Art!Ask("total", 0) \in Question
    BY <1>1 DEF Art!NoString, Art!Ask, Question
  <2>2. <<Art!Ask("total", 0)>> \in Seq(Question)
    BY <2>1
  <2> QED BY <2>1, <2>2 DEF Art!Init, ArtNet
<1>4. ArtFlags /\ ArtBoxes /\ ArtGui
  <2>1. ArtFlags /\ ArtBoxes
    BY DEF Art!Init, ArtFlags, ArtBoxes
  <2>2. 0 \in 0..(AlbumWidth - 1) /\ 0 \in 0..Presses /\ 0 \in 0..Updates
    BY DEF ArtSizes
  <2> QED BY <2>1, <2>2 DEF Art!Init, ArtGui
<1>5. Placed
  BY DEF Art!Init, ArtSizes, Placed, Art!Idle, Art!GetAlbum, Art!GetTrack,
         Art!Display, Art!Slots
<1> QED BY <1>2, <1>3, <1>4, <1>5 DEF ArtInv

-----------------------------------------------------------------------------
(* The types of the album browser.                                         *)

\* The state mclient_browse_by_cover goes on to is a state.
LEMMA AfterState ==
  ASSUME ArtSizes, NEW s \in 0..Art!GetTotal
  PROVE  Art!After(s) \in 0..Art!GetTotal
BY DEF ArtSizes, Art!After, Art!GetTotal, Art!LastState, Art!Idle

\* "i % max": the index of an album of the server.
LEMMA NewIndexType ==
  ASSUME ArtSizes, ArtGui, NEW k \in Art!Slots
  PROVE  Art!NewIndex(k) \in AlbumIds
<1> DEFINE i == (start + k) % AlbumWidth
<1>1. start + k \in Nat /\ AlbumWidth \in Nat \ {0}
  BY DEF ArtSizes, ArtGui, Art!Slots
<1>2. i \in Nat
  BY <1>1
<1> HIDE DEF i
<1>3. max \in Nat \ {0} /\ max <= Albums
  BY DEF ArtSizes, ArtGui
<1>4. i % max \in 0..(max - 1)
  BY <1>2, <1>3
<1>5. Art!NewIndex(k) = IF i >= max THEN i % max ELSE i
  BY DEF Art!NewIndex, i
<1> QED BY <1>2, <1>3, <1>4, <1>5 DEF AlbumIds, ArtSizes

\* The start of the page, after each of the keys.
LEMMA PageType ==
  ASSUME ArtSizes, ArtGui
  PROVE  {Art!Forward, Art!Back, Art!Tenth(5)} \subseteq 0..(AlbumWidth - 1)
<1>1. /\ max \in Nat \ {0} /\ max <= AlbumWidth /\ AlbumWidth \in Nat \ {0}
      /\ start \in 0..(AlbumWidth - 1) /\ Covers \in Nat \ {0}
  BY DEF ArtSizes, ArtGui
<1>2. Art!Forward \in 0..(AlbumWidth - 1)
  <2>1. (start + Covers) % max \in 0..(max - 1)
    BY <1>1
  <2> QED BY <1>1, <2>1 DEF Art!Forward
<1>3. Art!Back \in 0..(AlbumWidth - 1)
  <2>1. (max - (Covers - start)) % AlbumWidth \in 0..(AlbumWidth - 1)
    BY <1>1
  <2> QED BY <1>1, <2>1 DEF Art!Back
<1>4. Art!Tenth(5) \in 0..(AlbumWidth - 1)
  <2>1. (max * 5) \div 10 \in 0..(max - 1)
    BY <1>1
  <2> QED BY <1>1, <2>1 DEF Art!Tenth
<1> QED BY <1>2, <1>3, <1>4

LEMMA QuestionType ==
  ASSUME NEW q \in {"none", "total", "albums", "titles", "other"}, NEW i \in AlbumIds
  PROVE  Art!Ask(q, i) \in Question
BY DEF Art!Ask, Question

\* What the state machine asks in each state.
LEMMA AskNextTypes ==
  ASSUME ArtSizes, ArtInv, NEW s, Art!AskNext(s)
  PROVE  /\ slot' \in Art!Slots /\ index' \in [Art!Slots -> AlbumIds]
         /\ string' \in Question
<1>0. 0 \in AlbumIds /\ ArtMachine /\ ArtGui /\ ArtNet
  BY DEF ArtInv, AlbumIds, ArtSizes
<1>1. ASSUME NEW k \in Art!Slots, s = Art!GetAlbum(k), slot' = k,
             index' = IF k = 0 THEN [j \in Art!Slots |-> Art!NewIndex(j)] ELSE index,
             string' = Art!Ask("albums", index'[k])
      PROVE  /\ slot' \in Art!Slots /\ index' \in [Art!Slots -> AlbumIds]
             /\ string' \in Question
  <2>1. [j \in Art!Slots |-> Art!NewIndex(j)] \in [Art!Slots -> AlbumIds]
    BY <1>0, NewIndexType
  <2>2. index' \in [Art!Slots -> AlbumIds]
    BY <1>0, <1>1, <2>1 DEF ArtMachine
  <2>3. index'[k] \in AlbumIds
    BY <2>2
  <2> QED BY <1>1, <2>2, <2>3, QuestionType
<1>2. ASSUME NEW k \in Art!Slots, string' = Art!Ask("titles", album[k]),
             UNCHANGED <<slot, index>>
      PROVE  /\ slot' \in Art!Slots /\ index' \in [Art!Slots -> AlbumIds]
             /\ string' \in Question
  <2>1. album[k] \in AlbumIds
    BY <1>0 DEF ArtMachine
  <2> QED BY <1>0, <1>2, <2>1, QuestionType DEF ArtMachine
<1>3. CASE string' = Art!Ask("total", 0) /\ UNCHANGED <<slot, index>>
  BY <1>0, <1>3, QuestionType DEF ArtMachine
<1>4. CASE UNCHANGED <<slot, index, string>>
  BY <1>0, <1>4 DEF ArtMachine, ArtNet
<1> QED BY <1>1, <1>2, <1>3, <1>4 DEF Art!AskNext

\* Cover takes no step of the state machine, one that finds pending_cli_string
\* taken, or one that asks.
Skipped == UNCHANGED <<cover, index, slot, string, mixed>>
Taken == /\ mixed' = TRUE /\ UNCHANGED <<slot, index, string>>
         /\ \E s \in 0..Art!GetTotal : cover' = Art!After(s)
Asked(s) ==
  /\ s \in {cover, Art!GetAlbum(0)} /\ string = Art!NoString
  /\ cover' = Art!After(s) /\ Art!AskNext(s)
  /\ mixed' = ((mixed /\ s # Art!GetAlbum(0)) \/ (s # Art!Idle /\ Art!Busy))

LEMMA CoverCases ==
  ASSUME ArtSizes, ArtInv, Art!Cover
  PROVE  Skipped \/ Taken \/ Asked(cover) \/ Asked(Art!GetAlbum(0))
<1>1. cover \in 0..Art!GetTotal /\ Art!GetAlbum(0) \in 0..Art!GetTotal
  BY DEF ArtInv, ArtMachine, ArtSizes, Art!GetAlbum, Art!GetTotal
<1>2. CASE pending /\ here /\ ~outstanding
  <2> DEFINE s == IF trigger THEN Art!GetAlbum(0) ELSE cover
  <2>1. s \in {cover, Art!GetAlbum(0)} /\ Art!mclient_browse_by_cover(s)
    BY <1>2 DEF Art!Cover
  <2> HIDE DEF s
  <2>2. CASE string = Art!NoString
    BY <2>1, <2>2 DEF Art!mclient_browse_by_cover, Asked
  <2>3. CASE string # Art!NoString
    BY <1>1, <2>1, <2>3 DEF Art!mclient_browse_by_cover, Taken
  <2> QED BY <2>2, <2>3
<1>3. CASE ~(pending /\ here /\ ~outstanding)
  BY <1>3 DEF Art!Cover, Skipped
<1> QED BY <1>2, <1>3

LEMMA CoverTypes ==
  ASSUME ArtSizes, ArtInv, Art!Cover
  PROVE  ArtMachine' /\ string' \in Question
<1>0. ArtMachine /\ ArtNet
  BY DEF ArtInv
<1>1. album' = album /\ track' = track
  BY DEF Art!Cover
<1>2. CASE Skipped
  BY <1>0, <1>1, <1>2 DEF Skipped, ArtMachine, ArtNet
<1>3. CASE Taken
  BY <1>0, <1>1, <1>3, AfterState DEF Taken, ArtMachine, ArtNet
<1>4. ASSUME NEW s, Asked(s) PROVE ArtMachine' /\ string' \in Question
  <2>1. s \in 0..Art!GetTotal
    BY <1>0, <1>4 DEF Asked, ArtMachine, ArtSizes, Art!GetAlbum, Art!GetTotal
  <2>2. cover' \in 0..Art!GetTotal
    BY <1>4, <2>1, AfterState DEF Asked
  <2>3. /\ slot' \in Art!Slots /\ index' \in [Art!Slots -> AlbumIds]
        /\ string' \in Question
    BY <1>4, AskNextTypes DEF Asked
  <2> QED BY <1>0, <1>1, <2>2, <2>3 DEF ArtMachine
<1> QED BY <1>2, <1>3, <1>4, CoverCases

LEMMA ReadTypes ==
  ASSUME ArtSizes, ArtInv, Art!ReadAnswer
  PROVE  ArtMachine' /\ ArtNet'
<1>0. ArtMachine /\ ArtNet
  BY DEF ArtInv
<1>1. questions # <<>> /\ Head(questions) \in Question /\ Tail(questions) \in Seq(Question)
  BY <1>0 DEF Art!ReadAnswer, ArtNet
<1>2. Head(questions).i \in AlbumIds
  BY <1>1 DEF Question
<1>3. /\ questions' = Tail(questions) /\ answered' = FALSE
      /\ UNCHANGED <<cover, index, slot, string>>
      /\ album' \in {album, [album EXCEPT ![slot] = Head(questions).i]}
      /\ track' \in {track, [track EXCEPT ![slot] = Head(questions).i]}
  BY DEF Art!ReadAnswer
<1>4. ArtNet'
  BY <1>0, <1>1, <1>3 DEF ArtNet
<1>5. ArtMachine'
  BY <1>0, <1>2, <1>3 DEF ArtMachine
<1> QED BY <1>4, <1>5

LEMMA ArtTypesStep ==
  ASSUME ArtSizes, ArtInv, [Art!Next]_Art!vars
  PROVE  ArtMachine' /\ ArtNet'
<1>0. ArtMachine /\ ArtNet
  BY DEF ArtInv
<1>1. CASE Art!Browse
  <2>1. cover' \in 0..Art!GetTotal
    BY <1>1 DEF Art!Browse, Art!GetAlbum, Art!GetTotal, ArtSizes
  <2> QED BY <1>0, <1>1, <2>1 DEF Art!Browse, ArtMachine, ArtNet
<1>2. CASE Art!Command
  <2>1. Art!Ask("other", 0) \in Question
    BY QuestionType DEF AlbumIds, ArtSizes
  <2> QED BY <1>0, <1>2, <2>1 DEF Art!Command, Art!machine, ArtMachine, ArtNet
<1>3. CASE Art!Update
  <2>1. Art!Ask("other", 0) \in Question
    BY QuestionType DEF AlbumIds, ArtSizes
  <2>2. questions' = Append(questions, Art!Ask("other", 0))
    BY <1>3 DEF Art!Update
  <2>3. questions' \in Seq(Question) /\ questions' # <<>>
    BY <1>0, <2>1, <2>2 DEF ArtNet
  <2> QED BY <1>0, <1>3, <2>3 DEF Art!Update, Art!machine, ArtMachine, ArtNet
<1>4. CASE Art!SendString
  <2>1. Art!NoString \in Question
    BY DEF Art!NoString, Question, AlbumIds, ArtSizes
  <2>2. Append(questions, string) \in Seq(Question) /\ Append(questions, string) # <<>>
    BY <1>0 DEF ArtNet
  <2>3. /\ \/ questions' = Append(questions, string) /\ string' = Art!NoString
           \/ questions' = questions /\ string' = string
        /\ UNCHANGED <<Art!machine, answered>>
    BY <1>4 DEF Art!SendString
  <2>4. ArtNet'
    BY <1>0, <2>1, <2>2, <2>3 DEF ArtNet
  <2> QED BY <1>0, <2>3, <2>4 DEF Art!machine, ArtMachine
<1>5. CASE Art!Cover
  <2>1. questions' = questions /\ answered' = answered
    BY <1>5 DEF Art!Cover
  <2> QED BY <1>0, <1>5, <2>1, CoverTypes DEF ArtNet
<1>6. CASE Art!Page \/ Art!Exit \/ Art!Enter \/ Art!Move \/ Art!Timeout \/ Art!ReadEnd
  <2>1. UNCHANGED <<cover, index, slot, album, track, string, questions, answered>>
    BY <1>6 DEF Art!Page, Art!Exit, Art!Enter, Art!Move, Art!Timeout, Art!ReadEnd,
                Art!machine
  <2> QED BY <1>0, <2>1 DEF ArtMachine, ArtNet
<1>9. CASE Art!CoverWidget
  <2>1. /\ UNCHANGED <<index, slot, album, track, string, questions, answered>>
        /\ cover' \in {cover, Art!Idle}
    BY <1>9 DEF Art!CoverWidget, Art!mclient_browse_by_cover_widget
  <2>2. cover' \in 0..Art!GetTotal
    BY <1>0, <2>1 DEF ArtMachine, Art!Idle, Art!GetTotal, ArtSizes
  <2> QED BY <1>0, <2>1, <2>2 DEF ArtMachine, ArtNet
<1>7. CASE Art!Answer
  BY <1>0, <1>7 DEF Art!Answer, Art!machine, ArtMachine, ArtNet
<1>8. CASE UNCHANGED Art!vars
  BY <1>0, <1>8 DEF Art!vars, ArtMachine, ArtNet
<1> QED BY <1>1, <1>2, <1>3, <1>4, <1>5, <1>6, <1>7, <1>8, <1>9, ReadTypes
        DEF Art!Next, Art!LoopStep

LEMMA ArtGuiStep ==
  ASSUME ArtSizes, ArtInv, [Art!Next]_Art!vars
  PROVE  ArtGui'
<1>0. ArtGui
  BY DEF ArtInv
<1>1. CASE Art!Page
  <2>1. /\ start' \in {Art!Forward, Art!Back, Art!Tenth(5)}
        /\ presses < Presses /\ presses' = presses + 1
        /\ UNCHANGED <<max, pc, updates>>
    BY <1>1 DEF Art!Page
  <2>2. start' \in 0..(AlbumWidth - 1)
    BY <1>0, <2>1, PageType
  <2> QED BY <1>0, <2>1, <2>2 DEF ArtGui, ArtSizes
<1>2. CASE Art!Browse \/ Art!Answer \/ Art!ReadAnswer \/ Art!Timeout \/ Art!ReadEnd
           \/ Art!SendString \/ Art!Cover \/ Art!CoverWidget
  BY <1>0, <1>2 DEF ArtGui, Art!Browse, Art!Answer, Art!ReadAnswer, Art!Timeout,
       Art!ReadEnd, Art!SendString, Art!Cover, Art!CoverWidget, Art!gui
<1>6. CASE Art!Enter \/ Art!Move
  BY <1>0, <1>6 DEF ArtGui, Art!Enter, Art!Move, Art!gui
<1>3. CASE Art!Command \/ Art!Exit
  <2>1. /\ presses < Presses /\ presses' = presses + 1
        /\ UNCHANGED <<start, max, pc, updates>>
    BY <1>3 DEF Art!Command, Art!Exit
  <2> QED BY <1>0, <2>1 DEF ArtGui, ArtSizes
<1>4. CASE Art!Update
  BY <1>0, <1>4 DEF ArtGui, ArtSizes, Art!Update, Art!gui
<1>5. CASE UNCHANGED Art!vars
  BY <1>0, <1>5 DEF ArtGui, Art!vars
<1> QED BY <1>1, <1>2, <1>3, <1>4, <1>5, <1>6 DEF Art!Next, Art!LoopStep

\* The machine that draws the boxes.
LEMMA ArtBoxesStep == ASSUME ArtInv, [Art!Next]_Art!vars PROVE ArtBoxes'
<1>0. ArtBoxes
  BY DEF ArtInv
<1>1. CASE Art!Browse \/ Art!Move
  BY <1>1 DEF Art!Browse, Art!Move, ArtBoxes
<1>2. CASE Art!Cover
  <2>1. UNCHANGED Art!boxes \/ (widget' = Art!AdjWidget /\ wpending' = TRUE)
    BY <1>2 DEF Art!Cover, Art!mclient_browse_by_cover
  <2> QED BY <1>0, <2>1 DEF ArtBoxes, Art!boxes
<1>3. CASE Art!CoverWidget
  <2>1. \/ UNCHANGED Art!boxes
        \/ /\ wpending' = (string = Art!NoString /\ widget = Art!AdjWidget)
           /\ widget' = IF widget = Art!IdleWidget \/ widget + 1 >= Art!LastWidget
                          THEN Art!IdleWidget ELSE widget + 1
    BY <1>3 DEF Art!CoverWidget, Art!mclient_browse_by_cover_widget
  <2>2. CASE UNCHANGED Art!boxes
    BY <1>0, <2>2 DEF ArtBoxes, Art!boxes
  <2>3. CASE /\ wpending' = (string = Art!NoString /\ widget = Art!AdjWidget)
             /\ widget' = IF widget = Art!IdleWidget \/ widget + 1 >= Art!LastWidget
                            THEN Art!IdleWidget ELSE widget + 1
    <3>1. widget' = Art!IdleWidget
      BY <1>0, <2>3 DEF ArtBoxes, Art!IdleWidget, Art!AdjWidget, Art!LastWidget
    <3>2. wpending' \in BOOLEAN
      BY <2>3
    <3> QED BY <3>1, <3>2 DEF ArtBoxes, Art!IdleWidget, Art!AdjWidget
  <2> QED BY <2>1, <2>2, <2>3
<1>4. CASE \/ Art!Exit \/ Art!Enter \/ Art!Page \/ Art!Command \/ Art!Answer
           \/ Art!Timeout \/ Art!ReadAnswer \/ Art!ReadEnd \/ Art!Update
           \/ Art!SendString
  <2>1. UNCHANGED Art!boxes
    BY <1>4 DEF Art!Exit, Art!Enter, Art!Page, Art!Command, Art!Answer, Art!Timeout,
         Art!ReadAnswer, Art!ReadEnd, Art!Update, Art!SendString
  <2> QED BY <1>0, <2>1 DEF ArtBoxes, Art!boxes
<1>5. CASE UNCHANGED Art!vars
  BY <1>0, <1>5 DEF ArtBoxes, Art!vars
<1> QED BY <1>1, <1>2, <1>3, <1>4, <1>5 DEF Art!Next, Art!LoopStep

LEMMA ArtFlagsStep == ASSUME ArtInv, [Art!Next]_Art!vars PROVE ArtFlags'
<1>0. ArtFlags
  BY DEF ArtInv
<1>1. CASE Art!Browse \/ Art!Page \/ Art!Command \/ Art!Answer \/ Art!Timeout
  BY <1>0, <1>1 DEF ArtFlags, Art!Browse, Art!Page, Art!Command, Art!Answer,
       Art!Timeout, Art!Busy, Art!IsCover, Art!gui
<1>2. CASE Art!ReadAnswer \/ Art!ReadEnd \/ Art!Update \/ Art!SendString
  BY <1>0, <1>2 DEF ArtFlags, Art!ReadAnswer, Art!ReadEnd, Art!Update,
       Art!SendString, Art!IsCover, Art!gui
<1>3. CASE Art!Cover
  <2>1. UNCHANGED <<browse, here, outstanding>>
    BY <1>3 DEF Art!Cover, Art!gui
  <2>2. pending' \in BOOLEAN /\ trigger' \in BOOLEAN /\ mixed' \in BOOLEAN
    BY <1>0, <1>3 DEF ArtFlags, Art!Cover, Art!mclient_browse_by_cover, Art!Shown,
                      Art!Busy
  <2> QED BY <1>0, <2>1, <2>2 DEF ArtFlags
<1>4. CASE UNCHANGED Art!vars
  BY <1>0, <1>4 DEF ArtFlags, Art!vars
<1>5. CASE Art!Exit \/ Art!Enter \/ Art!Move \/ Art!CoverWidget
  <2>1. /\ UNCHANGED <<pending, trigger, outstanding, mixed>>
        /\ browse' \in {browse, FALSE} /\ here' \in {here, browse, TRUE}
    BY <1>5 DEF Art!Exit, Art!Enter, Art!Move, Art!CoverWidget, Art!gui
  <2> QED BY <1>0, <2>1 DEF ArtFlags
<1> QED BY <1>1, <1>2, <1>3, <1>4, <1>5 DEF Art!Next, Art!LoopStep

-----------------------------------------------------------------------------
(* What is in the air.                                                     *)

\* Sending something else, and sending pending_cli_string, changes nothing in
\* the air.
LEMMA AirKept ==
  ASSUME ArtSizes, ArtInv,
         \/ questions' = Append(questions, Art!Ask("other", 0)) /\ string' = string
         \/ questions' = Append(questions, string) /\ string' = Art!NoString
         \/ questions' = questions /\ string' = Art!Ask("other", 0) /\ ~Art!IsCover(string)
         \/ questions' = questions /\ string' = string
  PROVE  InAir' = InAir
<1>0. questions \in Seq(Question) /\ string \in Question
  BY DEF ArtInv, ArtNet
<1>1. ~Art!IsCover(Art!Ask("other", 0)) /\ ~Art!IsCover(Art!NoString)
  BY DEF Art!IsCover, Art!Ask, Art!NoString
<1>2. ASSUME NEW m, questions' = Append(questions, m)
      PROVE  {questions'[i] : i \in DOMAIN questions'} = {questions[i] : i \in DOMAIN questions} \cup {m}
  BY <1>0, <1>2
<1>3. CASE questions' = Append(questions, Art!Ask("other", 0)) /\ string' = string
  BY <1>1, <1>2, <1>3 DEF InAir
<1>4. CASE questions' = Append(questions, string) /\ string' = Art!NoString
  BY <1>1, <1>2, <1>4 DEF InAir
<1>5. CASE questions' = questions /\ string' = Art!Ask("other", 0) /\ ~Art!IsCover(string)
  BY <1>1, <1>5 DEF InAir
<1>6. CASE questions' = questions /\ string' = string
  BY <1>6 DEF InAir
<1> QED BY <1>3, <1>4, <1>5, <1>6

\* An answer that is read is no longer in the air.
LEMMA AirRead ==
  ASSUME ArtInv, questions # <<>>, questions' = Tail(questions), string' = string
  PROVE  /\ InAir' \subseteq InAir
         /\ Art!IsCover(Head(questions)) => Head(questions) \in InAir
         /\ ~Art!IsCover(Head(questions)) => InAir' = InAir
<1>0. questions \in Seq(Question)
  BY DEF ArtInv, ArtNet
<1>1. {questions[i] : i \in DOMAIN questions} = {questions'[i] : i \in DOMAIN questions'} \cup {Head(questions)}
  <2>1. /\ DOMAIN questions = 1..Len(questions) /\ Len(questions) \in Nat \ {0}
        /\ DOMAIN questions' = 1..(Len(questions) - 1) /\ Head(questions) = questions[1]
        /\ \A i \in 1..(Len(questions) - 1) : questions'[i] = questions[i + 1]
    BY <1>0
  <2>2. ASSUME NEW i \in DOMAIN questions
        PROVE  questions[i] \in {questions'[j] : j \in DOMAIN questions'} \cup {Head(questions)}
    <3>1. CASE i = 1
      BY <2>1, <3>1
    <3>2. CASE i # 1
      <4>1. i - 1 \in DOMAIN questions' /\ questions'[i - 1] = questions[i]
        BY <2>1, <3>2
      <4> QED BY <4>1
    <3> QED BY <3>1, <3>2
  <2>3. ASSUME NEW i \in DOMAIN questions' PROVE questions'[i] \in {questions[j] : j \in DOMAIN questions}
    BY <2>1
  <2>4. Head(questions) \in {questions[j] : j \in DOMAIN questions}
    <3>1. 1 \in DOMAIN questions
      BY <2>1
    <3> QED BY <2>1, <3>1
  <2> QED BY <2>2, <2>3, <2>4
<1> QED BY <1>1 DEF InAir

\* A step of anything but the state machine and the reader of answers.
LEMMA PlacedKept ==
  ASSUME ArtInv, UNCHANGED <<cover, index, slot, album, track, mixed>>, InAir' = InAir
  PROVE  ~mixed' => Placed'
BY DEF ArtInv, Placed, Complete, Art!Slots, Art!GetAlbum, Art!GetTrack, Art!Display,
       Art!Ask

\* An answer goes to the place of the question it answers.
LEMMA ReadPlaced == ASSUME ArtSizes, ArtInv, Art!ReadAnswer PROVE ~mixed' => Placed'
<1> DEFINE m == Head(questions)
<1>0. /\ questions # <<>> /\ questions' = Tail(questions)
      /\ UNCHANGED <<cover, index, slot, string, mixed>>
      /\ album' = IF m.q = "albums" THEN [album EXCEPT ![slot] = m.i] ELSE album
      /\ track' = IF m.q = "titles" THEN [track EXCEPT ![slot] = m.i] ELSE track
  BY DEF ArtInv, ArtNet, Art!ReadAnswer
<1>1. /\ InAir' \subseteq InAir
      /\ Art!IsCover(m) => m \in InAir
      /\ ~Art!IsCover(m) => InAir' = InAir
  BY <1>0, AirRead
<1>2. /\ album \in [Art!Slots -> AlbumIds] /\ track \in [Art!Slots -> AlbumIds]
      /\ cover \in Int
  BY DEF ArtInv, ArtMachine
<1> HIDE DEF m
<1>3. CASE ~Art!IsCover(m)
  <2>1. album' = album /\ track' = track
    BY <1>0, <1>3 DEF Art!IsCover
  <2> QED BY <1>0, <1>1, <1>3, <2>1, PlacedKept
<1>4. CASE Art!IsCover(m)
  <2> SUFFICES ASSUME ~mixed PROVE Placed'
    BY <1>0
  <2>0. Placed
    BY DEF ArtInv
  <2>1. m \in InAir
    BY <1>1, <1>4
  <2>2. cover # Art!GetAlbum(0) /\ ~(cover > Art!Display(0))
    BY <2>0, <2>1 DEF Placed
  <2>3. ASSUME NEW k \in Art!Slots, cover = Art!GetTrack(k)
        PROVE  /\ slot = k /\ InAir' \subseteq {Art!Ask("albums", index[k])}
               /\ album'[k] = index[k] /\ \A j \in 0..(k - 1) : Complete(j)'
    <3>1. /\ slot = k /\ InAir \subseteq {Art!Ask("albums", index[k])}
          /\ \A j \in 0..(k - 1) : Complete(j)
      BY <2>0, <2>3 DEF Placed
    <3>2. m = Art!Ask("albums", index[k])
      BY <2>1, <3>1
    <3>3. m.q = "albums" /\ m.i = index[k]
      BY <3>2 DEF Art!Ask
    <3>4. album' = [album EXCEPT ![k] = index[k]] /\ track' = track
      BY <1>0, <3>1, <3>3
    <3>5. \A j \in 0..(k - 1) : j \in Art!Slots /\ j # k
      BY DEF Art!Slots, ArtSizes
    <3> QED BY <1>0, <1>1, <1>2, <3>1, <3>4, <3>5 DEF Complete
  <2>4. ASSUME NEW k \in Art!Slots, cover = Art!GetTrack(k) + 1
        PROVE  /\ slot = k /\ InAir' \subseteq {Art!Ask("titles", index[k])}
               /\ album'[k] = index[k] /\ track'[k] = index[k]
               /\ \A j \in 0..(k - 1) : Complete(j)'
    <3>1. /\ slot = k /\ InAir \subseteq {Art!Ask("titles", index[k])}
          /\ album[k] = index[k] /\ \A j \in 0..(k - 1) : Complete(j)
      BY <2>0, <2>4 DEF Placed
    <3>2. m = Art!Ask("titles", index[k])
      BY <2>1, <3>1
    <3>3. m.q = "titles" /\ m.i = index[k]
      BY <3>2 DEF Art!Ask
    <3>4. track' = [track EXCEPT ![k] = index[k]] /\ album' = album
      BY <1>0, <3>1, <3>3
    <3>5. \A j \in 0..(k - 1) : j \in Art!Slots /\ j # k
      BY DEF Art!Slots, ArtSizes
    <3> QED BY <1>0, <1>1, <1>2, <3>1, <3>4, <3>5 DEF Complete
  <2>5. /\ Art!Slots' = Art!Slots /\ Art!GetAlbum(0)' = Art!GetAlbum(0)
        /\ Art!Display(0)' = Art!Display(0)
    BY DEF Art!Slots, Art!GetAlbum, Art!Display
  <2> QED BY <1>0, <2>2, <2>3, <2>4, <2>5 DEF Placed, Art!GetTrack, Art!Ask
<1> QED BY <1>3, <1>4

\* When nothing was in the air, it is the question just asked.
LEMMA AirAsked ==
  ASSUME InAir = {}, questions' = questions
  PROVE  /\ InAir' \subseteq {string'}
         /\ Art!IsCover(string') => InAir' = {string'}
BY DEF InAir

\* The state machine goes on when what it asked for is in its place.
LEMMA AskedPlaced ==
  ASSUME ArtSizes, ArtInv, NEW s, Asked(s), UNCHANGED <<album, track, questions>>
  PROVE  ~mixed' => Placed'
<1> SUFFICES ASSUME ~mixed' PROVE Placed'
  OBVIOUS
<1>0. /\ s \in {cover, Art!GetAlbum(0)} /\ string = Art!NoString
      /\ cover' = Art!After(s) /\ Art!AskNext(s)
      /\ s = Art!GetAlbum(0) \/ (s = cover /\ ~mixed)
      /\ s = Art!Idle \/ InAir = {}
  BY BusyInAir DEF Asked
<1>1. Covers \in Nat \ {0} /\ Art!Slots = 0..(Covers - 1)
  BY DEF ArtSizes, Art!Slots
<1>2. s # Art!GetAlbum(0) => s = cover /\ Placed
  BY <1>0 DEF ArtInv
<1> USE DEF Art!GetAlbum, Art!GetTrack, Art!Display, Art!GetTotal, Art!LastState,
            Art!Idle
<1>3. CASE s = Art!Idle
  BY <1>0, <1>1, <1>3 DEF Art!After, Placed
<1>4. ASSUME NEW k \in Art!Slots, s = Art!GetAlbum(k), slot' = k,
             index' = IF k = 0 THEN [j \in Art!Slots |-> Art!NewIndex(j)] ELSE index,
             string' = Art!Ask("albums", index'[k])
      PROVE  Placed'
  <2>1. InAir' = {Art!Ask("albums", index'[k])}
    BY <1>0, <1>1, <1>4, AirAsked DEF Art!IsCover, Art!Ask
  <2>2. cover' = 2 + 2 * k
    BY <1>0, <1>1, <1>4 DEF Art!After
  <2>3. \A j \in 0..(k - 1) : Complete(j)'
    <3>1. CASE k = 0
      BY <3>1
    <3>2. CASE k # 0
      <4>1. index' = index /\ s = cover /\ Placed /\ InAir = {}
        BY <1>0, <1>1, <1>2, <1>4, <3>2
      <4>2. k - 1 \in Art!Slots /\ cover = Art!GetTrack(k - 1) + 1
        BY <1>1, <1>4, <3>2, <4>1
      <4>3. Complete(k - 1) /\ \A j \in 0..(k - 1 - 1) : Complete(j)
        BY <4>1, <4>2 DEF Placed, Complete
      <4>4. \A j \in 0..(k - 1) : Complete(j)
        BY <1>1, <4>3
      <4> QED BY <4>1, <4>4 DEF Complete
    <3> QED BY <3>1, <3>2
  <2>4. ASSUME NEW j \in Art!Slots, cover' = Art!GetTrack(j) PROVE j = k
    BY <1>1, <2>2, <2>4
  <2>5. ~(cover' > Art!Display(0)) /\ cover' # Art!GetAlbum(0)
    BY <1>1, <2>2
  <2>6. \A j \in Art!Slots : cover' # Art!GetTrack(j) + 1
    BY <1>1, <2>2
  <2> QED BY <1>4, <2>1, <2>3, <2>4, <2>5, <2>6 DEF Placed, Art!Slots, Art!Ask
<1>5. ASSUME NEW k \in Art!Slots, s = Art!GetTrack(k),
             string' = Art!Ask("titles", album[k]), UNCHANGED <<slot, index>>
      PROVE  Placed'
  <2>1. s = cover /\ Placed /\ InAir = {}
    BY <1>0, <1>1, <1>2, <1>5
  <2>2. slot = k /\ album[k] = index[k] /\ \A j \in 0..(k - 1) : Complete(j)
    BY <1>5, <2>1 DEF Placed
  <2>3. InAir' = {Art!Ask("titles", index'[k])}
    BY <1>5, <2>1, <2>2, AirAsked DEF Art!IsCover, Art!Ask
  <2>4. cover' = 3 + 2 * k
    BY <1>0, <1>1, <1>5 DEF Art!After
  <2>5. \A j \in 0..(k - 1) : Complete(j)'
    BY <1>5, <2>2 DEF Complete
  <2>6. ASSUME NEW j \in Art!Slots, cover' = Art!GetTrack(j) + 1 PROVE j = k
    BY <1>1, <2>4, <2>6
  <2>7. ~(cover' > Art!Display(0)) /\ cover' # Art!GetAlbum(0)
    BY <1>1, <2>4
  <2>8. \A j \in Art!Slots : cover' # Art!GetTrack(j)
    BY <1>1, <2>4
  <2> QED BY <1>5, <2>2, <2>3, <2>5, <2>6, <2>7, <2>8 DEF Placed, Art!Slots, Art!Ask
<1>6. CASE s = Art!GetTotal
  BY <1>0, <1>1, <1>6 DEF Art!After, Placed
<1>7. ASSUME NEW k \in Art!Slots, s = Art!Display(k), UNCHANGED <<slot, index, string>>
      PROVE  Placed'
  <2>1. s = cover /\ Placed /\ InAir = {}
    BY <1>0, <1>1, <1>2, <1>7
  <2>2. \A j \in Art!Slots : Complete(j)
    <3>1. CASE k = 0
      <4>1. Covers - 1 \in Art!Slots /\ cover = Art!GetTrack(Covers - 1) + 1
        BY <1>1, <1>7, <2>1, <3>1
      <4>2. Complete(Covers - 1) /\ \A j \in 0..(Covers - 1 - 1) : Complete(j)
        BY <2>1, <4>1 DEF Placed, Complete
      <4> QED BY <1>1, <4>2
    <3>2. CASE k # 0
      BY <1>1, <1>7, <2>1, <3>2 DEF Placed
    <3> QED BY <3>1, <3>2
  <2>3. InAir' = {}
    BY <1>7, <2>1 DEF InAir
  <2>4. cover' = 2 + 2 * Covers + k
    BY <1>0, <1>1, <1>7 DEF Art!After
  <2>5. /\ cover' # Art!GetAlbum(0)
        /\ \A j \in Art!Slots : cover' # Art!GetTrack(j) /\ cover' # Art!GetTrack(j) + 1
    BY <1>1, <2>4
  <2>6. \A j \in Art!Slots : Complete(j)'
    BY <1>7, <2>2 DEF Complete
  <2> QED BY <2>3, <2>5, <2>6 DEF Placed, Art!Slots
<1> QED BY <1>0, <1>3, <1>4, <1>5, <1>6, <1>7 DEF Art!AskNext

LEMMA PlacedStep ==
  ASSUME ArtSizes, ArtInv, [Art!Next]_Art!vars
  PROVE  ~mixed' => Placed'
<1>0. ~mixed => Placed
  BY DEF ArtInv
<1>1. CASE Art!Browse
  <2>1. /\ cover' = Art!GetAlbum(0) /\ mixed' = Art!Busy
        /\ UNCHANGED <<string, questions>>
    BY <1>1 DEF Art!Browse
  <2>2. InAir' = InAir
    BY <2>1 DEF InAir
  <2>3. ~mixed' => InAir' = {}
    BY <2>1, <2>2, BusyInAir
  <2>4. /\ ~(cover' > Art!Display(0))
        /\ \A k \in Art!Slots : cover' # Art!GetTrack(k) /\ cover' # Art!GetTrack(k) + 1
    BY <2>1 DEF ArtSizes, Art!Slots, Art!GetAlbum, Art!GetTrack, Art!Display
  <2> QED BY <2>3, <2>4 DEF Placed, Art!Slots, Art!GetTrack, Art!Display
<1>2. CASE Art!Command
  <2>1. /\ UNCHANGED <<cover, index, slot, album, track, questions>>
        /\ string' = Art!Ask("other", 0) /\ mixed' = (mixed \/ Art!IsCover(string))
    BY <1>2 DEF Art!Command, Art!machine
  <2>2. CASE Art!IsCover(string)
    BY <2>1, <2>2
  <2>3. CASE ~Art!IsCover(string)
    <3>1. mixed' = mixed
      BY <2>1, <2>3 DEF ArtInv, ArtFlags
    <3> QED BY <2>1, <2>3, <3>1, AirKept, PlacedKept
  <2> QED BY <2>2, <2>3
<1>3. CASE Art!Update
  BY <1>3, AirKept, PlacedKept DEF Art!Update, Art!machine
<1>4. CASE Art!SendString
  BY <1>4, AirKept, PlacedKept DEF Art!SendString, Art!machine
<1>5. CASE Art!Cover
  <2>1. UNCHANGED <<album, track, questions>>
    BY <1>5 DEF Art!Cover
  <2>2. CASE Skipped
    BY <2>1, <2>2, AirKept, PlacedKept DEF Skipped
  <2>3. CASE Taken
    BY <2>3 DEF Taken
  <2> QED BY <1>5, <2>1, <2>2, <2>3, AskedPlaced, CoverCases
<1>6. CASE \/ Art!Page \/ Art!Exit \/ Art!Enter \/ Art!Move \/ Art!Timeout
           \/ Art!ReadEnd \/ Art!Answer
  <2>1. UNCHANGED <<cover, index, slot, album, track, mixed, string, questions>>
    BY <1>6 DEF Art!Page, Art!Exit, Art!Enter, Art!Move, Art!Timeout, Art!ReadEnd,
                Art!Answer, Art!machine
  <2> QED BY <2>1, AirKept, PlacedKept
<1>8. CASE Art!CoverWidget
  <2>1. /\ UNCHANGED <<index, slot, album, track, mixed, string, questions>>
        /\ cover' \in {cover, Art!Idle}
    BY <1>8 DEF Art!CoverWidget, Art!mclient_browse_by_cover_widget
  <2>2. CASE cover' = cover
    BY <2>1, <2>2, AirKept, PlacedKept
  <2>3. CASE cover' = Art!Idle
    BY <2>3 DEF Placed, ArtSizes, Art!Idle, Art!GetAlbum, Art!GetTrack, Art!Display,
                Art!Slots
  <2> QED BY <2>1, <2>2, <2>3
<1>7. CASE UNCHANGED Art!vars
  BY <1>7, AirKept, PlacedKept DEF Art!vars
<1> QED BY <1>1, <1>2, <1>3, <1>4, <1>5, <1>6, <1>7, <1>8, ReadPlaced
        DEF Art!Next, Art!LoopStep

LEMMA ArtInvariance == ASSUME ArtSizes PROVE Art!Spec => []ArtInv
<1>1. Art!Init => ArtInv
  BY ArtInit
<1>2. ArtInv /\ [Art!Next]_Art!vars => ArtInv'
  BY ArtTypesStep, ArtGuiStep, ArtFlagsStep, ArtBoxesStep, PlacedStep DEF ArtInv
<1> QED BY <1>1, <1>2, PTL DEF Art!Spec

\* The album browser keeps its types: no key moves the page out of the width of
\* an index, and no answer puts anything but an album of the server in a place.
LEMMA AlbumTypes == ASSUME ArtSizes PROVE Art!Spec => []Art!TypeOK
<1>1. ASSUME ArtInv PROVE Art!TypeOK
  <2>1. {pending, trigger, outstanding, browse, here, wpending, mixed} \subseteq BOOLEAN
    BY <1>1 DEF ArtInv, ArtFlags, ArtBoxes
  <2>2. \A k \in Art!Slots : {index[k], album[k], track[k]} \subseteq 0..(Albums - 1)
    BY <1>1 DEF ArtInv, ArtMachine, AlbumIds
  <2> QED BY <1>1, <2>1, <2>2 DEF ArtInv, ArtMachine, ArtGui, ArtBoxes, Art!TypeOK,
                                  Art!Idle
<1> QED BY <1>1, ArtInvariance, PTL

\* Whatever keys are pressed and however late the answers of the slimserver
\* come, for any number of albums and of places on the screen: when the covers
\* are shown, each place has the album and the track of the index that OK plays
\* there, unless questions and answers were mixed up since the browser began.  The
\* machine that draws the boxes may stop the browser, and starts nothing.
LEMMA AlbumCoversInPlace == ASSUME ArtSizes PROVE Art!Spec => []Art!CoversInPlace
<1>1. ArtInv => Art!CoversInPlace
  BY DEF ArtInv, Placed, Complete, Art!CoversInPlace
<1> QED BY <1>1, ArtInvariance, PTL

-----------------------------------------------------------------------------
(* The queue of video events.                                              *)
(*                                                                         *)
(* The circular list of vid_event_add is sorted except at one place, where *)
(* it begins anew; pNextEvent may be anywhere in it.  From this it follows *)
(* that the walk back and the walk forward of vid_event_wait_next, which   *)
(* compare plain numbers, end at the first event of the window.            *)

\* The window of the search is shorter than a turn of the clock.
Clock ==
  /\ Wrap \in Nat \ {0} /\ {Behind, Ahead, Soon, MaxEvents} \subseteq Nat
  /\ Soon <= Ahead /\ Behind + Ahead < Wrap

\* The list r is sorted, but for where it begins: the first c events are in
\* order, so are the ones after them, and none of these is later than the first.
Turned(r, c) ==
  /\ \A i, j \in 1..Len(r) : i <= j /\ (j <= c \/ c < i) => r[i] <= r[j]
  /\ \A i, j \in 1..Len(r) : i <= c /\ c < j => r[j] <= r[i]

\* The place where it begins anew can be seen.
Falls(r, c) == c < Len(r) => r[c + 1] < r[c]

InTurn(r) == r # <<>> => \E c \in 1..Len(r) : Turned(r, c) /\ Falls(r, c)

\* The natural numbers are well-founded.
LEMMA LeastIs ==
  ASSUME NEW S, S \subseteq Nat, S # {}
  PROVE  Events!Least(S) \in S /\ \A j \in S : Events!Least(S) <= j
<1>1. PICK x \in S : \A y \in S : ~ (<<y, x>> \in OpToRel(<, Nat))
  BY WFMin, NatLessThanWellFounded
<1>2. \A y \in S : <<y, x>> \in OpToRel(<, Nat) <=>
                     <<y, x>> \in {ss \in Nat \X Nat : ss[1] < ss[2]}
  BY Zenon DEF OpToRel
<1>3. \A y \in S : ~ (<<y, x>> \in {ss \in Nat \X Nat : ss[1] < ss[2]})
  BY <1>1, <1>2, Zenon
<1>4. ASSUME NEW y \in S  PROVE  x <= y
  <2>1. x \in Nat /\ y \in Nat
    OBVIOUS
  <2>2. <<y, x>> \in Nat \X Nat /\ <<y, x>>[1] = y /\ <<y, x>>[2] = x
    BY <2>1
  <2>3. ~(y < x)
    BY <1>3, <2>2, Zenon
  <2> QED
    BY <2>1, <2>3
<1> QED
  BY <1>4 DEF Events!Least

\* A walk ends somewhere in the list.
LEMMA WalkEnds ==
  ASSUME NEW n \in Nat, NEW S, S \subseteq 1..n, n \in S
  PROVE  /\ Events!Least(S) \in S /\ Events!Least(S) \in 1..n
         /\ \A j \in S : Events!Least(S) <= j
<1>1. S \subseteq Nat /\ S # {}
  OBVIOUS
<1> QED
  BY <1>1, LeastIs

\* What % does to a number that is at most two turns off.
LEMMA Turn ==
  ASSUME NEW n \in Nat \ {0}, NEW i \in Int, -2 * n <= i, i < 3 * n
  PROVE  /\ i < -n => i % n = i + 2 * n
         /\ -n <= i /\ i < 0 => i % n = i + n
         /\ 0 <= i /\ i < n => i % n = i
         /\ n <= i /\ i < 2 * n => i % n = i - n
         /\ 2 * n <= i => i % n = i - 2 * n
<1>1. CASE i < -n
  BY <1>1
<1>2. CASE -n <= i /\ i < 0
  BY <1>2
<1>3. CASE 0 <= i /\ i < n
  BY <1>3
<1>4. CASE n <= i /\ i < 2 * n
  BY <1>4
<1>5. CASE 2 * n <= i
  BY <1>5
<1> QED
  BY <1>1, <1>2, <1>3, <1>4, <1>5

\* The events around pNextEvent, by their place in the list.
LEMMA AtPlace ==
  ASSUME ring \in Seq(Events!Times), ring # <<>>, NEW i \in Int,
         -Len(ring) <= i, i < Len(ring)
  PROVE  Events!At(i) = IF i < 0 THEN ring[i + Len(ring) + 1] ELSE ring[i + 1]
<1>1. Len(ring) \in Nat \ {0}
  BY EmptySeq
<1>2. i % Len(ring) = IF i < 0 THEN i + Len(ring) ELSE i
  BY <1>1, Turn
<1> QED
  BY <1>1, <1>2 DEF Events!At

\* After how many steps the walk back from pNextEvent ends, and the walk forward
\* from place i.
BackStops == {k \in 1..Len(ring) :
                \/ Events!At(-k - 1) > Events!At(-k) \/ Events!At(-k) < Events!SeekPts
                \/ k = Len(ring)}

ForwardStops(i) == {k \in 1..Len(ring) :
                      \/ Events!At(i + k + 1) < Events!At(i + k)
                         \/ Events!At(i + k) >= Events!SeekPts
                      \/ k = Len(ring)}

\* Where the walk back ends.
Start == IF Events!At(0) >= Events!SeekPts THEN -Events!Least(BackStops) ELSE 0

\* vid_event_wait_next is the walk back and the walk forward after it.
LEMMA CandidateIs ==
  ASSUME ring \in Seq(Events!Times), ring # <<>>
  PROVE  Events!Candidate =
           IF Events!At(Start) < Events!SeekPts
             THEN Start + Events!Least(ForwardStops(Start)) ELSE Start
<1> DEFINE back == {k \in 1..Len(ring) :
                      \/ \/ Events!At((0 + (-1) * k) - 1) > Events!At(0 + (-1) * k)
                         \/ Events!At(0 + (-1) * k) < Events!SeekPts
                      \/ k = Len(ring)}
           first == IF Events!At(0) >= Events!SeekPts
                      THEN 0 + (-1) * Events!Least(back) ELSE 0
           forward == {k \in 1..Len(ring) :
                         \/ \/ Events!At((first + 1 * k) + 1) < Events!At(first + 1 * k)
                            \/ Events!At(first + 1 * k) >= Events!SeekPts
                         \/ k = Len(ring)}
<1>1. Events!Candidate =
        IF Events!At(first) < Events!SeekPts
          THEN first + 1 * Events!Least(forward) ELSE first
  BY DEF Events!Candidate, Events!Walk
<1>2. Len(ring) \in Nat \ {0}
  BY EmptySeq
<1>3. back = BackStops
  BY <1>2 DEF BackStops
<1>4. back \subseteq 1..Len(ring) /\ Len(ring) \in back
  BY <1>2
<1> HIDE DEF back
<1>5. Events!Least(back) \in 1..Len(ring)
  BY <1>2, <1>4, WalkEnds
<1>6. first \in Int /\ first = Start
  BY <1>2, <1>3, <1>5 DEF Start
<1> HIDE DEF first
<1>7. forward = ForwardStops(first)
  BY <1>2, <1>6 DEF ForwardStops
<1>8. forward \subseteq 1..Len(ring) /\ Len(ring) \in forward
  BY <1>2
<1> HIDE DEF forward
<1>9. Events!Least(forward) \in 1..Len(ring)
  BY <1>2, <1>8, WalkEnds
<1> QED
  BY <1>1, <1>2, <1>6, <1>7, <1>9

\* What the list and the window are made of.
LEMMA ListFacts ==
  ASSUME Clock, stc \in Events!Times, ring \in Seq(Events!Times), ring # <<>>
  PROVE  /\ Len(ring) \in Nat \ {0}
         /\ \A i \in 1..Len(ring) : ring[i] \in Events!Times /\ ring[i] \in Int
         /\ Events!SeekPts \in Int
<1>1. Len(ring) \in Nat \ {0}
  BY EmptySeq
<1>2. \A i \in 1..Len(ring) : ring[i] \in Events!Times
  BY ElementOfSeq
<1>3. Events!SeekPts \in Int
  BY DEF Clock, Events!SeekPts, Events!Times
<1> QED
  BY <1>1, <1>2, <1>3 DEF Events!Times, Clock

\* The same for all places, from pNextEvent on and back from it.
LEMMA Places ==
  ASSUME ring \in Seq(Events!Times), ring # <<>>
  PROVE  /\ \A i \in 0..(Len(ring) - 1) : Events!At(i) = ring[i + 1]
         /\ \A i \in 1..Len(ring) : Events!At(-i) = ring[Len(ring) - i + 1]
<1>1. Len(ring) \in Nat \ {0}
  BY EmptySeq
<1>2. ASSUME NEW i \in 0..(Len(ring) - 1)  PROVE Events!At(i) = ring[i + 1]
  BY <1>1, AtPlace
<1>3. ASSUME NEW i \in 1..Len(ring)  PROVE Events!At(-i) = ring[Len(ring) - i + 1]
  <2>1. -i \in Int /\ -Len(ring) <= -i /\ -i < Len(ring) /\ -i < 0
        /\ -i + Len(ring) + 1 = Len(ring) - i + 1
    BY <1>1
  <2> QED
    BY <2>1, AtPlace
<1> QED
  BY <1>2, <1>3

\* pNextEvent is before the window: the walk forward gets to the first event of
\* the window.
LEMMA FoundForward ==
  ASSUME Clock, stc \in Events!Times, ring \in Seq(Events!Times), ring # <<>>,
         NEW c \in 1..Len(ring), Turned(ring, c),
         ring[1] < Events!SeekPts,
         NEW j \in 1..Len(ring), ring[j] >= Events!SeekPts
  PROVE  \E p \in 1..Len(ring) : /\ Events!At(Events!Candidate) = ring[p]
                                 /\ Events!SeekPts <= ring[p] /\ ring[p] <= ring[j]
<1> DEFINE n == Len(ring)
           S == Events!SeekPts
           k == Events!Least(ForwardStops(0))
<1>1. /\ n \in Nat \ {0} /\ S \in Int
      /\ \A i \in 1..n : ring[i] \in Int
  BY ListFacts
<1>2. \A i \in 0..(n - 1) : Events!At(i) = ring[i + 1]
  BY Places
<1>3. Start = 0 /\ Events!At(Start) < S
  BY <1>1, <1>2 DEF Start
<1>4. j <= c /\ 1 < j
  BY <1>1 DEF Turned
<1>5. j - 1 \in ForwardStops(0)
  BY <1>1, <1>2, <1>4 DEF ForwardStops
<1>6. k \in ForwardStops(0) /\ k \in 1..n /\ k <= j - 1
  <2>1. ForwardStops(0) \subseteq 1..n /\ n \in ForwardStops(0)
    BY <1>1 DEF ForwardStops
  <2> QED
    BY <1>1, <1>5, <2>1, WalkEnds
<1>7. Events!Candidate = k
  BY <1>3, <1>6, CandidateIs
<1> HIDE DEF k
<1>8. Events!At(k) = ring[k + 1] /\ k + 1 \in 1..n
  BY <1>1, <1>2, <1>6
<1>9. ring[k + 1] <= ring[j]
  BY <1>1, <1>4, <1>6, <1>8 DEF Turned
<1>10. S <= ring[k + 1]
  <2>1. CASE Events!At(0 + k) >= S
    BY <1>6, <1>8, <2>1
  <2>2. CASE Events!At(0 + k + 1) < Events!At(0 + k) /\ k + 1 < n
    <3>1. ring[k + 2] < ring[k + 1] /\ k + 2 \in 1..n
      BY <1>1, <1>2, <1>6, <1>8, <2>2
    <3>2. k + 1 = c
      BY <1>1, <1>4, <1>6, <3>1 DEF Turned
    <3> QED
      BY <1>1, <1>4, <1>6, <3>2
  <2>3. CASE k + 1 = n
    BY <1>1, <1>4, <1>6, <2>3
  <2> QED
    BY <1>1, <1>4, <1>6, <2>1, <2>2, <2>3 DEF ForwardStops
<1> QED
  BY <1>7, <1>8, <1>9, <1>10

\* pNextEvent is in or behind the window: the walk back goes to the first event
\* of the window, or to the one before.
LEMMA FoundBack ==
  ASSUME Clock, stc \in Events!Times, ring \in Seq(Events!Times), ring # <<>>,
         NEW c \in 1..Len(ring), Turned(ring, c), Falls(ring, c),
         ring[1] >= Events!SeekPts,
         NEW j \in 1..Len(ring), ring[j] >= Events!SeekPts
  PROVE  \E p \in 1..Len(ring) : /\ Events!At(Events!Candidate) = ring[p]
                                 /\ Events!SeekPts <= ring[p] /\ ring[p] <= ring[j]
<1> DEFINE n == Len(ring)
           S == Events!SeekPts
           k == Events!Least(BackStops)
           q == n - k + 1
<1>1. /\ n \in Nat \ {0} /\ S \in Int
      /\ \A i \in 1..n : ring[i] \in Int
  BY ListFacts
<1>2. /\ \A i \in 0..(n - 1) : Events!At(i) = ring[i + 1]
      /\ \A i \in 1..n : Events!At(-i) = ring[n - i + 1]
  BY Places
<1>3. /\ k \in BackStops /\ k \in 1..n
      /\ \A i \in BackStops : k <= i
  <2>1. BackStops \subseteq 1..n /\ n \in BackStops
    BY <1>1 DEF BackStops
  <2> QED
    BY <1>1, <2>1, WalkEnds
<1>4. Start = -k
  BY <1>1, <1>2 DEF Start
<1> HIDE DEF k
<1>5. q \in 1..n /\ Events!At(-k) = ring[q] /\ ring[q] \in Int
  BY <1>1, <1>2, <1>3
<1>6. \A i \in 1..(k - 1) : ring[n - i + 1] >= S
  <2>1. ASSUME NEW i \in 1..(k - 1) PROVE ring[n - i + 1] >= S
    <3>1. i \in 1..n /\ i \notin BackStops
      BY <1>1, <1>3
    <3>2. ~(Events!At(-i) < S)
      BY <3>1 DEF BackStops
    <3>3. Events!At(-i) = ring[n - i + 1] /\ n - i + 1 \in 1..n
      BY <1>1, <1>2, <3>1
    <3> QED
      BY <1>1, <3>2, <3>3
  <2> QED
    BY <2>1
<1>7. CASE ring[q] < S
  <2>1. c < q
    BY <1>1, <1>5, <1>7 DEF Turned
  <2> DEFINE v == IF k = 1 THEN ring[1] ELSE ring[q + 1]
  <2>2. Events!At(-k + 1) = v /\ v >= S
    <3>1. CASE k = 1
      BY <1>1, <1>2, <3>1
    <3>2. CASE k # 1
      <4>1. -k + 1 = -(k - 1) /\ k - 1 \in 1..n /\ k - 1 \in 1..(k - 1)
            /\ n - (k - 1) + 1 = q + 1
        BY <1>1, <1>3, <3>2
      <4> QED
        BY <1>2, <1>6, <3>2, <4>1
    <3> QED
      BY <3>1, <3>2
  <2>3. Events!Candidate = -k + 1
    <3>1. 1 \in ForwardStops(-k)
      BY <1>1, <2>2 DEF ForwardStops
    <3>2. ForwardStops(-k) \subseteq 1..n /\ n \in ForwardStops(-k)
      BY <1>1 DEF ForwardStops
    <3>3. Events!Least(ForwardStops(-k)) = 1
      <4>1. Events!Least(ForwardStops(-k)) \in 1..n /\ Events!Least(ForwardStops(-k)) <= 1
        BY <1>1, <3>1, <3>2, WalkEnds
      <4> QED
        BY <1>1, <4>1
    <3> QED
      BY <1>4, <1>5, <1>7, <3>3, CandidateIs
  <2>4. v <= ring[j]
    <3>1. CASE j <= c
      BY <1>1, <1>3, <1>5, <2>1, <3>1 DEF Turned
    <3>2. CASE c < j
      <4>1. q < j
        BY <1>1, <1>5, <1>7, <2>1, <3>2 DEF Turned
      <4>2. k # 1 /\ q + 1 \in 1..n /\ q + 1 <= j /\ c < q + 1
        BY <1>1, <1>3, <1>5, <2>1, <4>1
      <4> QED
        BY <1>1, <4>2 DEF Turned
    <3> QED
      BY <1>1, <3>1, <3>2
  <2>5. \E p \in 1..n : v = ring[p]
    BY <1>1, <1>3, <1>5
  <2> QED
    BY <2>2, <2>3, <2>4, <2>5
<1>8. CASE ring[q] >= S
  <2>1. Events!Candidate = -k
    BY <1>1, <1>4, <1>5, <1>8, CandidateIs
  <2>2. CASE k = n
    <3>1. q = 1
      BY <1>1, <2>2
    <3>2. CASE c = n
      BY <1>1, <1>5, <1>8, <2>1, <3>1, <3>2 DEF Turned
    <3>3. CASE c < n
      <4>1. Events!At(-(n - c)) = ring[c + 1] /\ Events!At(-(n - c) - 1) = ring[c]
        <5>1. n - c \in 1..n /\ n - c + 1 \in 1..n /\ -(n - c) - 1 = -(n - c + 1)
              /\ n - (n - c) + 1 = c + 1 /\ n - (n - c + 1) + 1 = c
          BY <1>1, <3>3
        <5> QED
          BY <1>2, <5>1
      <4>2. n - c \in BackStops
        BY <1>1, <3>3, <4>1 DEF BackStops, Falls
      <4> QED
        BY <1>1, <1>3, <2>2, <4>2
    <3> QED
      BY <1>1, <3>2, <3>3
  <2>3. CASE k # n
    <3>1. k + 1 \in 1..n /\ -k - 1 = -(k + 1) /\ n - (k + 1) + 1 = q - 1 /\ q - 1 \in 1..n
      BY <1>1, <1>3, <2>3
    <3>2. ring[q - 1] > ring[q]
      <4>1. Events!At(-(k + 1)) = ring[n - (k + 1) + 1]
        BY <1>2, <3>1
      <4>2. Events!At(-k - 1) = ring[q - 1]
        BY <3>1, <4>1
      <4>3. Events!At(-k - 1) > Events!At(-k) \/ Events!At(-k) < Events!SeekPts \/ k = n
        BY <1>1, <1>3 DEF BackStops
      <4> QED
        BY <1>1, <1>5, <1>8, <2>3, <4>2, <4>3
    <3>3. q = c + 1
      BY <1>1, <1>5, <3>1, <3>2 DEF Turned
    <3> QED
      BY <1>1, <1>5, <1>8, <2>1, <3>3 DEF Turned
  <2> QED
    BY <2>2, <2>3
<1> QED
  BY <1>1, <1>5, <1>7, <1>8

-----------------------------------------------------------------------------
EventTypes ==
  /\ ring \in Seq(Events!Times) /\ Len(ring) <= MaxEvents
  /\ stc \in Events!Times /\ misplaced \in BOOLEAN

\* The inductive invariant.
EventInv == EventTypes /\ (~misplaced => InTurn(ring))

LEMMA ModWrap ==
  ASSUME Clock, NEW x \in Int, -Wrap <= x, x < 2 * Wrap
  PROVE  x % Wrap = IF x < 0 THEN x + Wrap ELSE IF x < Wrap THEN x ELSE x - Wrap
<1>1. Wrap \in Nat \ {0}
  BY DEF Clock
<1>2. CASE x < 0
  BY <1>1, <1>2
<1>3. CASE 0 <= x /\ x < Wrap
  BY <1>1, <1>3
<1>4. CASE Wrap <= x
  BY <1>1, <1>4
<1> QED
  BY <1>1, <1>2, <1>3, <1>4

\* A window that does not contain the wrap, without %.
LEMMA PlainWindow ==
  ASSUME Clock, stc \in Events!Times, Events!SeekPts <= Events!MaxSeekPts
  PROVE  /\ Events!SeekPts = stc - Behind /\ Behind <= stc
         /\ Events!MaxSeekPts = stc + Ahead /\ stc + Ahead < Wrap
         /\ Events!MaxPts = stc + Soon
<1>1. /\ Wrap \in Nat \ {0} /\ {Behind, Ahead, Soon} \subseteq Nat
      /\ Soon <= Ahead /\ Behind + Ahead < Wrap /\ stc \in 0..(Wrap - 1)
  BY DEF Clock, Events!Times
<1> DEFINE x == stc - Behind
           y == stc + Ahead
           z == stc + Soon
<1>2. /\ x \in Int /\ -Wrap <= x /\ x < Wrap /\ x < 2 * Wrap
      /\ y \in Int /\ 0 <= y /\ y < 2 * Wrap /\ -Wrap <= y
      /\ z \in Int /\ 0 <= z /\ z < 2 * Wrap /\ -Wrap <= z
  BY <1>1
<1>3. Events!SeekPts = x % Wrap /\ Events!MaxSeekPts = y % Wrap /\ Events!MaxPts = z % Wrap
  BY DEF Events!SeekPts, Events!MaxSeekPts, Events!MaxPts
<1> HIDE DEF x, y, z
<1>4. x % Wrap = IF x < 0 THEN x + Wrap ELSE x
  BY <1>1, <1>2, ModWrap
<1>5. y % Wrap = IF y < Wrap THEN y ELSE y - Wrap
  BY <1>1, <1>2, ModWrap
<1>6. z % Wrap = IF z < Wrap THEN z ELSE z - Wrap
  BY <1>1, <1>2, ModWrap
<1> QED
  BY <1>1, <1>3, <1>4, <1>5, <1>6 DEF x, y, z

\* In such a window the events that are due are an interval.
LEMMA SinceValue ==
  ASSUME Clock, stc \in Events!Times, Events!SeekPts <= Events!MaxSeekPts,
         NEW pts \in Events!Times
  PROVE  /\ Events!Since(pts) =
              IF pts < Events!SeekPts THEN pts - Events!SeekPts + Wrap
                                      ELSE pts - Events!SeekPts
         /\ Events!Since(pts) <= Behind + Soon <=>
              Events!SeekPts <= pts /\ pts <= stc + Soon
<1>1. /\ Wrap \in Nat \ {0} /\ {Behind, Ahead, Soon} \subseteq Nat
      /\ Soon <= Ahead /\ Behind + Ahead < Wrap /\ stc \in 0..(Wrap - 1)
      /\ pts \in 0..(Wrap - 1)
  BY DEF Clock, Events!Times
<1>2. Events!SeekPts = stc - Behind /\ Behind <= stc /\ stc + Ahead < Wrap
  BY PlainWindow
<1> DEFINE x == pts - Events!SeekPts
<1>3. x \in Int /\ -Wrap <= x /\ x < Wrap /\ x < 2 * Wrap
  BY <1>1, <1>2
<1>4. Events!Since(pts) = x % Wrap
  BY DEF Events!Since
<1> HIDE DEF x
<1>5. x % Wrap = IF x < 0 THEN x + Wrap ELSE x
  BY <1>1, <1>3, ModWrap
<1> QED
  BY <1>1, <1>2, <1>4, <1>5 DEF x

LEMMA TurnedFinds == Clock /\ EventInv => Events!FindsFirst
<1> SUFFICES ASSUME Clock, EventInv, ring # <<>>, ~misplaced,
                    Events!SeekPts <= Events!MaxSeekPts,
                    NEW i \in 0..(Len(ring) - 1),
                    Events!Since(Events!At(i)) <= Behind + Soon
             PROVE  /\ Events!IsNow(Events!At(Events!Candidate))
                    /\ Events!Since(Events!At(Events!Candidate)) <= Events!Since(Events!At(i))
  BY DEF Events!FindsFirst
<1>1. /\ ring \in Seq(Events!Times) /\ stc \in Events!Times
      /\ Wrap \in Nat \ {0} /\ {Behind, Ahead, Soon} \subseteq Nat
      /\ Soon <= Ahead
  BY DEF EventInv, EventTypes, Clock
<1>2. PICK c \in 1..Len(ring) : Turned(ring, c) /\ Falls(ring, c)
  BY DEF EventInv, InTurn
<1>3. /\ Len(ring) \in Nat \ {0}
      /\ \A k \in 1..Len(ring) : ring[k] \in Events!Times /\ ring[k] \in Int
      /\ Events!SeekPts \in Int
  BY <1>1, ListFacts
<1>4. i + 1 \in 1..Len(ring) /\ Events!At(i) = ring[i + 1]
  BY <1>1, <1>3, Places
<1>5. Events!SeekPts <= ring[i + 1] /\ ring[i + 1] <= stc + Soon
  BY <1>1, <1>3, <1>4, SinceValue
<1>6. PICK p \in 1..Len(ring) : /\ Events!At(Events!Candidate) = ring[p]
                                /\ Events!SeekPts <= ring[p] /\ ring[p] <= ring[i + 1]
  <2>1. CASE ring[1] < Events!SeekPts
    BY <1>1, <1>2, <1>3, <1>4, <1>5, <2>1, FoundForward
  <2>2. CASE ring[1] >= Events!SeekPts
    BY <1>1, <1>2, <1>3, <1>4, <1>5, <2>2, FoundBack
  <2> QED
    BY <1>3, <2>1, <2>2
<1>7. /\ stc \in Int /\ Events!SeekPts = stc - Behind
      /\ Events!MaxSeekPts = stc + Ahead /\ Events!MaxPts = stc + Soon
  BY <1>1, PlainWindow DEF Events!Times
<1>8. Events!IsNow(ring[p])
  <2>0. /\ ring[p] \in Int /\ ring[i + 1] \in Int
        /\ Behind \in Nat /\ Ahead \in Nat /\ Soon \in Nat
    BY <1>1, <1>3, <1>4
  <2>1. /\ ring[p] <= Events!MaxPts /\ ~(Events!SeekPts > Events!MaxSeekPts)
        /\ ~(ring[p] < Events!SeekPts) /\ ~(ring[p] > Events!MaxSeekPts)
    BY <1>1, <1>5, <1>6, <1>7, <2>0
  <2> QED
    BY <2>1 DEF Events!IsNow, Events!InWindow
<1>9. Events!Since(ring[p]) <= Events!Since(ring[i + 1])
  <2>1. Events!Since(ring[p]) = ring[p] - Events!SeekPts
    BY <1>1, <1>3, <1>6, SinceValue
  <2>2. Events!Since(ring[i + 1]) = ring[i + 1] - Events!SeekPts
    BY <1>1, <1>3, <1>4, <1>5, SinceValue
  <2> QED
    BY <1>3, <1>4, <1>6, <2>1, <2>2
<1> QED
  BY <1>4, <1>6, <1>8, <1>9

-----------------------------------------------------------------------------
\* What a list with an event more, and with an event less, consists of.
LEMMA InsertIs ==
  ASSUME ring \in Seq(Events!Times), NEW k \in 0..Len(ring), NEW pts \in Events!Times
  PROVE  LET r == Events!InsertAfter(k, pts)
         IN  /\ r \in Seq(Events!Times) /\ Len(r) = Len(ring) + 1
             /\ \A i \in 1..(Len(ring) + 1) :
                  r[i] = IF i <= k THEN ring[i] ELSE IF i = k + 1 THEN pts ELSE ring[i - 1]
<1> DEFINE T == Events!Times
           n == Len(ring)
           a == SubSeq(ring, 1, k)
           b == SubSeq(ring, k + 1, n)
<1>1. n \in Nat /\ k \in Int /\ \A i \in 1..n : ring[i] \in T
  BY LenProperties, ElementOfSeq
<1>2. a \in Seq(T) /\ Len(a) = k /\ \A i \in 1..k : a[i] = ring[i]
  <2>1. \A i \in 1..k : ring[i] \in T
    BY <1>1
  <2>2. /\ a \in Seq(T) /\ Len(a) = (IF 1 <= k THEN k - 1 + 1 ELSE 0)
        /\ \A i \in 1..(k - 1 + 1) : a[i] = ring[1 + i - 1]
    BY <1>1, <2>1, SubSeqProperties
  <2> QED
    BY <1>1, <2>2
<1>3. b \in Seq(T) /\ Len(b) = n - k /\ \A i \in 1..(n - k) : b[i] = ring[k + i]
  <2>1. \A i \in (k + 1)..n : ring[i] \in T
    BY <1>1
  <2>2. /\ b \in Seq(T) /\ Len(b) = (IF k + 1 <= n THEN n - (k + 1) + 1 ELSE 0)
        /\ \A i \in 1..(n - (k + 1) + 1) : b[i] = ring[k + 1 + i - 1]
    BY <1>1, <2>1, SubSeqProperties
  <2> QED
    BY <1>1, <2>2
<1>4. <<pts>> \in Seq(T) /\ Len(<<pts>>) = 1 /\ <<pts>>[1] = pts
  OBVIOUS
<1> HIDE DEF a, b
<1> DEFINE d == a \o <<pts>>
<1>5. /\ d \in Seq(T) /\ Len(d) = k + 1
      /\ \A i \in 1..(k + 1) : d[i] = IF i <= k THEN a[i] ELSE <<pts>>[i - k]
  BY <1>2, <1>4, ConcatProperties
<1>6. \A i \in 1..(k + 1) : d[i] = IF i <= k THEN ring[i] ELSE pts
  BY <1>1, <1>2, <1>4, <1>5
<1> HIDE DEF d
<1>7. /\ d \o b \in Seq(T) /\ Len(d \o b) = Len(d) + Len(b)
      /\ \A i \in 1..(Len(d) + Len(b)) :
           (d \o b)[i] = IF i <= Len(d) THEN d[i] ELSE b[i - Len(d)]
  BY <1>3, <1>5, ConcatProperties
<1>8. ASSUME NEW i \in 1..(n + 1)
      PROVE  (d \o b)[i] = IF i <= k THEN ring[i] ELSE IF i = k + 1 THEN pts ELSE ring[i - 1]
  <2>1. (d \o b)[i] = IF i <= k + 1 THEN d[i] ELSE b[i - (k + 1)]
    BY <1>1, <1>3, <1>5, <1>7
  <2>2. CASE i <= k + 1
    BY <1>1, <1>6, <2>1, <2>2
  <2>3. CASE i > k + 1
    <3>1. i - (k + 1) \in 1..(n - k) /\ k + (i - (k + 1)) = i - 1
      BY <1>1, <2>3
    <3>2. b[i - (k + 1)] = ring[k + (i - (k + 1))]
      BY <1>3, <3>1
    <3>3. ~(i <= k + 1) /\ ~(i <= k) /\ i # k + 1
      BY <1>1, <2>3
    <3> QED
      BY <2>1, <3>1, <3>2, <3>3, Zenon
  <2>4. i <= k + 1 \/ i > k + 1
    BY <1>1
  <2> QED
    BY <2>2, <2>3, <2>4, Zenon
<1>9. Events!InsertAfter(k, pts) = d \o b
  BY DEF Events!InsertAfter, a, b, d
<1>10. Len(d \o b) = n + 1
  BY <1>1, <1>3, <1>5, <1>7
<1> QED
  BY <1>7, <1>8, <1>9, <1>10, Zenon

LEMMA RemoveIs ==
  ASSUME ring \in Seq(Events!Times), ring # <<>>, NEW i \in Int
  PROVE  \E p \in 1..Len(ring) :
           /\ Events!Remove(i) \in Seq(Events!Times)
           /\ Len(Events!Remove(i)) = Len(ring) - 1
           /\ \A j \in 1..(Len(ring) - 1) :
                Events!Remove(i)[j] = IF j < p THEN ring[j] ELSE ring[j + 1]
<1> DEFINE T == Events!Times
           n == Len(ring)
           p == (i % n) + 1
           a == SubSeq(ring, 1, p - 1)
           b == SubSeq(ring, p + 1, n)
<1>1. n \in Nat \ {0} /\ \A j \in 1..n : ring[j] \in T
  BY EmptySeq, ElementOfSeq
<1>2. p \in 1..n
  BY <1>1
<1>3. Events!Remove(i) = a \o b
  BY DEF Events!Remove
<1> HIDE DEF p
<1>4. a \in Seq(T) /\ Len(a) = p - 1 /\ \A j \in 1..(p - 1) : a[j] = ring[j]
  <2>1. p - 1 \in Int /\ \A j \in 1..(p - 1) : ring[j] \in T
    BY <1>1, <1>2
  <2>2. /\ a \in Seq(T) /\ Len(a) = (IF 1 <= p - 1 THEN p - 1 - 1 + 1 ELSE 0)
        /\ \A j \in 1..(p - 1 - 1 + 1) : a[j] = ring[1 + j - 1]
    BY <2>1, SubSeqProperties
  <2> QED
    BY <1>1, <1>2, <2>2
<1>5. b \in Seq(T) /\ Len(b) = n - p /\ \A j \in 1..(n - p) : b[j] = ring[p + j]
  <2>1. p + 1 \in Int /\ \A j \in (p + 1)..n : ring[j] \in T
    BY <1>1, <1>2
  <2>2. /\ b \in Seq(T) /\ Len(b) = (IF p + 1 <= n THEN n - (p + 1) + 1 ELSE 0)
        /\ \A j \in 1..(n - (p + 1) + 1) : b[j] = ring[p + 1 + j - 1]
    BY <1>1, <2>1, SubSeqProperties
  <2> QED
    BY <1>1, <1>2, <2>2
<1> HIDE DEF a, b
<1>6. /\ a \o b \in Seq(T) /\ Len(a \o b) = Len(a) + Len(b)
      /\ \A j \in 1..(Len(a) + Len(b)) :
           (a \o b)[j] = IF j <= Len(a) THEN a[j] ELSE b[j - Len(a)]
  BY <1>4, <1>5, ConcatProperties
<1>7. ASSUME NEW j \in 1..(n - 1)
      PROVE  (a \o b)[j] = IF j < p THEN ring[j] ELSE ring[j + 1]
  <2>1. (a \o b)[j] = IF j <= p - 1 THEN a[j] ELSE b[j - (p - 1)]
    BY <1>1, <1>2, <1>4, <1>5, <1>6
  <2>2. CASE j < p
    BY <1>1, <1>2, <1>4, <2>1, <2>2
  <2>3. CASE j >= p
    <3>1. j - (p - 1) \in 1..(n - p) /\ p + (j - (p - 1)) = j + 1
      BY <1>1, <1>2, <2>3
    <3> QED
      BY <1>1, <1>2, <1>5, <2>1, <2>3, <3>1
  <2>4. j < p \/ j >= p
    BY <1>1, <1>2
  <2> QED
    BY <2>2, <2>3, <2>4, Zenon
<1>8. Len(a \o b) = n - 1
  BY <1>1, <1>2, <1>4, <1>5, <1>6
<1> QED
  BY <1>2, <1>3, <1>6, <1>7, <1>8, Zenon

\* Where the list does not fall at the cut, all events are at the same time.
LEMMA CutFound ==
  ASSUME NEW r \in Seq(Int), NEW c \in 0..Len(r), Turned(r, c)
  PROVE  InTurn(r)
<1> SUFFICES ASSUME r # <<>>
             PROVE  \E e \in 1..Len(r) : Turned(r, e) /\ Falls(r, e)
  BY DEF InTurn
<1>1. Len(r) \in Nat \ {0} /\ \A i \in 1..Len(r) : r[i] \in Int
  BY EmptySeq, ElementOfSeq
<1>2. CASE c # 0 /\ Falls(r, c)
  BY <1>1, <1>2
<1>3. CASE c = 0 \/ c = Len(r)
  <2>1. Turned(r, Len(r)) /\ Falls(r, Len(r))
    BY <1>1, <1>3 DEF Turned, Falls
  <2> QED
    BY <1>1, <2>1
<1>4. CASE c # 0 /\ c < Len(r) /\ ~Falls(r, c)
  <2>1. c \in 1..Len(r) /\ c + 1 \in 1..Len(r) /\ r[c] <= r[c + 1]
    BY <1>1, <1>4 DEF Falls
  <2>2. \A i \in 1..Len(r) : r[i] = r[c]
    <3>1. ASSUME NEW i \in 1..Len(r), i <= c  PROVE r[i] = r[c]
      <4>1. r[i] <= r[c] /\ r[c + 1] <= r[i]
        BY <1>1, <2>1, <3>1 DEF Turned
      <4> QED
        BY <1>1, <2>1, <4>1
    <3>2. ASSUME NEW i \in 1..Len(r), c < i  PROVE r[i] = r[c]
      <4>1. r[c + 1] <= r[i] /\ r[i] <= r[c]
        BY <1>1, <2>1, <3>2 DEF Turned
      <4> QED
        BY <1>1, <2>1, <4>1
    <3> QED
      BY <1>1, <3>1, <3>2
  <2>3. Turned(r, Len(r)) /\ Falls(r, Len(r))
    BY <1>1, <2>1, <2>2 DEF Turned, Falls
  <2> QED
    BY <1>1, <2>3
<1> QED
  BY <1>1, <1>2, <1>3, <1>4

-----------------------------------------------------------------------------
\* After how many steps the loops of vid_event_add end.
AddStops(pts) == {k \in 1..Len(ring) :
                    \/ Events!At(k - 1) > Events!At(k) \/ Events!At(k) > pts
                    \/ k = Len(ring)}

\* vid_event_add puts the event behind one of the list.
LEMMA AddIs ==
  ASSUME ring \in Seq(Events!Times), Wrap \in Nat, NEW pts \in Events!Times
  PROVE  /\ ring = <<>> => Events!vid_event_add(pts) = <<pts>>
         /\ ring # <<>> /\ ring[1] <= pts =>
              Events!vid_event_add(pts) = Events!InsertAfter(Events!Least(AddStops(pts)), pts)
         /\ ring # <<>> /\ ring[1] > pts =>
              \E k \in 1..Len(ring) : Events!vid_event_add(pts) = Events!InsertAfter(k, pts)
<1> DEFINE forward == {k \in 1..Len(ring) :
                         \/ \/ Events!At((0 + 1 * k) - 1) > Events!At(0 + 1 * k)
                            \/ Events!At(0 + 1 * k) > pts
                         \/ k = Len(ring)}
           back == {k \in 1..Len(ring) :
                      \/ \/ Events!At((0 + (-1) * k) + 1) > Events!At(0 + (-1) * k)
                         \/ Events!At(0 + (-1) * k) <= pts
                      \/ k = Len(ring)}
<1>1. CASE ring = <<>>
  BY <1>1 DEF Events!vid_event_add
<1>2. CASE ring # <<>>
  <2>1. Len(ring) \in Nat \ {0} /\ ring[1] \in Int /\ pts \in Int
    BY <1>2, EmptySeq, ElementOfSeq DEF Events!Times
  <2>2. CASE ring[1] <= pts
    <3>1. ~(ring[1] > pts)
      BY <2>1, <2>2
    <3>2. Events!vid_event_add(pts) = Events!InsertAfter(0 + 1 * Events!Least(forward), pts)
      BY <1>2, <2>2, <3>1 DEF Events!vid_event_add, Events!Walk
    <3>3. forward = AddStops(pts)
      BY <2>1 DEF AddStops
    <3>4. forward \subseteq 1..Len(ring) /\ Len(ring) \in forward
      BY <2>1
    <3> HIDE DEF forward
    <3>5. Events!Least(forward) \in 1..Len(ring)
      BY <2>1, <3>4, WalkEnds
    <3>6. 0 + 1 * Events!Least(forward) = Events!Least(forward)
      BY <3>5, <2>1
    <3> QED
      BY <1>2, <3>1, <3>2, <3>3, <3>6
  <2>3. CASE ring[1] > pts
    <3>1. ~(ring[1] <= pts)
      BY <2>1, <2>3
    <3>2. Events!vid_event_add(pts) =
            Events!InsertAfter(0 + (-1) * Events!Least(back) + Len(ring) + 1, pts)
      BY <1>2, <2>3, <3>1 DEF Events!vid_event_add, Events!Walk
    <3>3. back \subseteq 1..Len(ring) /\ Len(ring) \in back
      BY <2>1
    <3> HIDE DEF back
    <3>4. Events!Least(back) \in 1..Len(ring)
      BY <2>1, <3>3, WalkEnds
    <3>5. 0 + (-1) * Events!Least(back) + Len(ring) + 1 \in 1..Len(ring)
      BY <3>4, <2>1
    <3> QED
      BY <1>2, <3>1, <3>2, <3>5
  <2> QED
    BY <2>1, <2>2, <2>3
<1> QED
  BY <1>1, <1>2

\* The event comes behind those that are not later, and before the next ones.
LEMMA AddKeepsTurn ==
  ASSUME Clock, EventInv, ~misplaced, ring # <<>>, NEW pts \in Events!Times, ring[1] <= pts
  PROVE  InTurn(Events!vid_event_add(pts))
<1> DEFINE n == Len(ring)
           k == Events!Least(AddStops(pts))
           r == Events!InsertAfter(k, pts)
<1>1. ring \in Seq(Events!Times) /\ stc \in Events!Times /\ Wrap \in Nat
  BY DEF EventInv, EventTypes, Clock
<1>2. PICK c \in 1..n : Turned(ring, c) /\ Falls(ring, c)
  BY DEF EventInv, InTurn
<1>3. /\ n \in Nat \ {0} /\ pts \in Int
      /\ \A i \in 1..n : ring[i] \in Int
  BY <1>1, ListFacts DEF Events!Times, Clock
<1>4. \A i \in 0..(n - 1) : Events!At(i) = ring[i + 1]
  BY <1>1, Places
<1>5. /\ k \in AddStops(pts) /\ k \in 1..n
      /\ \A i \in AddStops(pts) : k <= i
  <2>1. AddStops(pts) \subseteq 1..n /\ n \in AddStops(pts)
    BY <1>3 DEF AddStops
  <2> QED
    BY <1>3, <2>1, WalkEnds
<1>6. Events!vid_event_add(pts) = r
  BY <1>1, AddIs
<1> HIDE DEF k
<1>7. k <= c
  <2>1. CASE c < n
    <3>1. Events!At(c - 1) = ring[c] /\ Events!At(c) = ring[c + 1]
      BY <1>3, <1>4, <2>1
    <3>2. c \in AddStops(pts)
      BY <1>2, <1>3, <2>1, <3>1 DEF AddStops, Falls
    <3> QED
      BY <1>5, <3>2
  <2> QED
    BY <1>3, <1>5, <2>1
<1>8. ring[k] <= pts
  <2>1. CASE k = 1
    BY <2>1
  <2>2. CASE k # 1
    <3>1. k - 1 \in 1..n /\ k - 1 \notin AddStops(pts)
      BY <1>3, <1>5, <2>2
    <3>2. ~(Events!At(k - 1) > pts) /\ Events!At(k - 1) = ring[k]
      BY <1>3, <1>4, <1>5, <3>1 DEF AddStops
    <3> QED
      BY <1>3, <1>5, <3>2
  <2> QED
    BY <2>1, <2>2
<1>9. k < c => pts <= ring[k + 1]
  <2> SUFFICES ASSUME k < c  PROVE pts <= ring[k + 1]
    OBVIOUS
  <2>1. Events!At(k - 1) = ring[k] /\ Events!At(k) = ring[k + 1] /\ k < n /\ k + 1 \in 1..n
    BY <1>3, <1>4, <1>5
  <2>2. ring[k] <= ring[k + 1]
    BY <1>2, <1>3, <1>5, <2>1 DEF Turned
  <2>3. ring[k + 1] > pts
    BY <1>3, <1>5, <2>1, <2>2 DEF AddStops
  <2> QED
    BY <1>3, <2>1, <2>3
<1>10. /\ r \in Seq(Events!Times) /\ Len(r) = n + 1
       /\ \A i \in 1..(n + 1) :
            r[i] = IF i <= k THEN ring[i] ELSE IF i = k + 1 THEN pts ELSE ring[i - 1]
  BY <1>1, <1>3, <1>5, InsertIs
<1> HIDE DEF r
<1>11. /\ \A i \in 1..k : ring[i] <= pts
       /\ \A i \in 1..n : c < i => ring[i] <= pts
       /\ \A i \in 1..n : k < i /\ i <= c => pts <= ring[i]
  <2>1. ASSUME NEW i \in 1..k  PROVE ring[i] <= pts
    <3>1. i \in 1..n /\ ring[i] <= ring[k]
      BY <1>2, <1>3, <1>5, <1>7 DEF Turned
    <3> QED
      BY <1>3, <1>5, <1>8, <3>1
  <2>2. ASSUME NEW i \in 1..n, c < i  PROVE ring[i] <= pts
    <3>1. ring[i] <= ring[k]
      BY <1>2, <1>3, <1>5, <1>7, <2>2 DEF Turned
    <3> QED
      BY <1>3, <1>5, <1>8, <3>1
  <2>3. ASSUME NEW i \in 1..n, k < i, i <= c  PROVE pts <= ring[i]
    <3>1. k + 1 \in 1..n /\ ring[k + 1] <= ring[i] /\ k < c
      BY <1>2, <1>3, <1>5, <2>3 DEF Turned
    <3> QED
      BY <1>3, <1>9, <3>1
  <2> QED
    BY <2>1, <2>2, <2>3
<1> DEFINE Old(i) == IF i <= k THEN i ELSE i - 1
<1>12. /\ r[k + 1] = pts
      /\ \A i \in 1..Len(r) : i # k + 1 => r[i] = ring[Old(i)] /\ Old(i) \in 1..n
  BY <1>3, <1>5, <1>10
<1>13. ASSUME NEW i \in 1..Len(r), NEW j \in 1..Len(r),
              i <= j /\ (j <= c + 1 \/ c + 1 < i)
       PROVE  r[i] <= r[j]
  <2>1. CASE i # k + 1 /\ j # k + 1
    <3>1. Old(i) <= Old(j) /\ (Old(j) <= c \/ c < Old(i))
      BY <1>3, <1>5, <1>7, <1>10, <1>13, <2>1
    <3> QED
      BY <1>2, <1>12, <2>1, <3>1 DEF Turned
  <2>2. CASE i = k + 1 /\ j # k + 1
    <3>1. Old(j) = j - 1 /\ k < j - 1 /\ j - 1 <= c
      BY <1>3, <1>5, <1>7, <1>10, <1>13, <2>2
    <3> QED
      BY <1>11, <1>12, <2>2, <3>1
  <2>3. CASE i # k + 1 /\ j = k + 1
    <3>1. Old(i) = i /\ i \in 1..k
      BY <1>3, <1>5, <1>7, <1>10, <1>13, <2>3
    <3> QED
      BY <1>11, <1>12, <2>3, <3>1
  <2>4. CASE i = k + 1 /\ j = k + 1
    BY <1>3, <1>12, <2>4
  <2> QED
    BY <2>1, <2>2, <2>3, <2>4
<1>14. ASSUME NEW i \in 1..Len(r), NEW j \in 1..Len(r), i <= c + 1 /\ c + 1 < j
       PROVE  r[j] <= r[i]
  <2>1. j # k + 1 /\ Old(j) = j - 1 /\ c < j - 1
    BY <1>3, <1>5, <1>7, <1>10, <1>14
  <2>2. CASE i = k + 1
    BY <1>11, <1>12, <2>1, <2>2
  <2>3. CASE i # k + 1
    <3>1. Old(i) <= c
      BY <1>3, <1>5, <1>7, <1>10, <1>14, <2>3
    <3> QED
      BY <1>2, <1>12, <2>1, <2>3, <3>1 DEF Turned
  <2> QED
    BY <2>2, <2>3
<1>15. Turned(r, c + 1) /\ c + 1 \in 0..Len(r)
  BY <1>3, <1>10, <1>13, <1>14 DEF Turned
<1>16. r \in Seq(Int)
  BY <1>1, <1>10 DEF Events!Times
<1> QED
  BY <1>6, <1>15, <1>16, CutFound

\* Whatever event is dispatched, the others stay in order.
LEMMA RemoveKeepsTurn ==
  ASSUME Clock, EventInv, ~misplaced, ring # <<>>, NEW i \in Int
  PROVE  InTurn(Events!Remove(i))
<1> DEFINE n == Len(ring)
           r == Events!Remove(i)
<1>1. ring \in Seq(Events!Times) /\ stc \in Events!Times /\ Wrap \in Nat
  BY DEF EventInv, EventTypes, Clock
<1>2. PICK c \in 1..n : Turned(ring, c) /\ Falls(ring, c)
  BY DEF EventInv, InTurn
<1>3. n \in Nat \ {0} /\ \A j \in 1..n : ring[j] \in Int
  BY <1>1, ListFacts
<1>4. PICK p \in 1..n :
        /\ r \in Seq(Events!Times) /\ Len(r) = n - 1
        /\ \A j \in 1..(n - 1) : r[j] = IF j < p THEN ring[j] ELSE ring[j + 1]
  BY <1>1, RemoveIs
<1> HIDE DEF r
<1> DEFINE Old(j) == IF j < p THEN j ELSE j + 1
           e == IF p <= c THEN c - 1 ELSE c
<1>5. \A j \in 1..Len(r) : r[j] = ring[Old(j)] /\ Old(j) \in 1..n
  BY <1>3, <1>4
<1>6. ASSUME NEW k \in 1..Len(r), NEW j \in 1..Len(r), k <= j /\ (j <= e \/ e < k)
      PROVE  r[k] <= r[j]
  <2>1. Old(k) <= Old(j) /\ (Old(j) <= c \/ c < Old(k))
    BY <1>3, <1>4, <1>6
  <2> QED
    BY <1>2, <1>5, <2>1 DEF Turned
<1>7. ASSUME NEW k \in 1..Len(r), NEW j \in 1..Len(r), k <= e /\ e < j
      PROVE  r[j] <= r[k]
  <2>1. Old(k) <= c /\ c < Old(j)
    BY <1>3, <1>4, <1>7
  <2> QED
    BY <1>2, <1>5, <2>1 DEF Turned
<1>8. Turned(r, e) /\ e \in 0..Len(r)
  BY <1>3, <1>4, <1>6, <1>7 DEF Turned
<1>9. r \in Seq(Int)
  BY <1>1, <1>4 DEF Events!Times
<1> HIDE DEF e
<1> QED
  BY <1>8, <1>9, CutFound DEF r

-----------------------------------------------------------------------------
LEMMA InitEvents == Clock /\ Events!Init => EventInv
<1> SUFFICES ASSUME Clock, Events!Init  PROVE EventInv
  OBVIOUS
<1>1. ring = <<>> /\ stc = 0 /\ misplaced = FALSE
  BY DEF Events!Init
<1>2. ring \in Seq(Events!Times) /\ Len(ring) = 0
  BY <1>1, EmptySeq
<1>3. 0 <= MaxEvents /\ 0 \in Events!Times
  BY DEF Clock, Events!Times
<1> QED
  BY <1>1, <1>2, <1>3 DEF EventInv, EventTypes, InTurn

LEMMA AddStep == ASSUME Clock, EventInv, Events!Add PROVE EventInv'
<1>1. /\ ring \in Seq(Events!Times) /\ Wrap \in Nat /\ MaxEvents \in Nat
      /\ Len(ring) < MaxEvents /\ stc' = stc
      /\ stc \in Events!Times /\ misplaced \in BOOLEAN
  BY DEF EventInv, EventTypes, Clock, Events!Add
<1>2. PICK pts \in Events!Times :
        /\ ring' = Events!vid_event_add(pts)
        /\ misplaced' = (misplaced \/ (Len(ring) >= 2 /\ pts < ring[1]))
  BY DEF Events!Add
<1>3. pts \in Int /\ misplaced' \in BOOLEAN
  BY <1>1, <1>2 DEF Events!Times
<1>4. CASE ring = <<>>
  <2>1. ring' = <<pts>>
    BY <1>1, <1>2, <1>4, AddIs
  <2>2. ring' \in Seq(Events!Times) /\ ring' \in Seq(Int) /\ Len(ring') = 1 /\ ring'[1] = pts
    BY <1>3, <2>1
  <2>3. Turned(ring', 1) /\ 1 \in 0..Len(ring')
    BY <1>3, <2>2 DEF Turned
  <2>4. InTurn(ring')
    BY <2>2, <2>3, CutFound
  <2>5. 1 <= MaxEvents
    BY <1>1, <1>4, EmptySeq
  <2> QED
    BY <1>1, <1>3, <2>2, <2>4, <2>5 DEF EventInv, EventTypes, InTurn, Turned, Falls
<1>5. CASE ring # <<>>
  <2>1. Len(ring) \in Nat \ {0} /\ ring[1] \in Int
    BY <1>1, <1>5, EmptySeq, ElementOfSeq DEF Events!Times
  <2>2. PICK k \in 1..Len(ring) : ring' = Events!InsertAfter(k, pts)
    <3>1. CASE ring[1] <= pts
      <4>1. AddStops(pts) \subseteq 1..Len(ring) /\ Len(ring) \in AddStops(pts)
        BY <2>1 DEF AddStops
      <4>2. Events!Least(AddStops(pts)) \in 1..Len(ring)
        BY <2>1, <4>1, WalkEnds
      <4> QED
        BY <1>1, <1>2, <1>5, <3>1, <4>2, AddIs
    <3>2. CASE ring[1] > pts
      BY <1>1, <1>2, <1>5, <3>2, AddIs
    <3> QED
      BY <1>3, <2>1, <3>1, <3>2
  <2>3. /\ ring' \in Seq(Events!Times) /\ Len(ring') = Len(ring) + 1
        /\ \A i \in 1..(Len(ring) + 1) :
             ring'[i] = IF i <= k THEN ring[i] ELSE IF i = k + 1 THEN pts ELSE ring[i - 1]
    <3>1. k \in 0..Len(ring)
      BY <2>1
    <3> QED
      BY <1>1, <2>2, <3>1, InsertIs
  <2>4. EventTypes'
    BY <1>1, <1>3, <2>1, <2>3 DEF EventTypes
  <2>5. ASSUME ~misplaced'  PROVE InTurn(ring')
    <3>1. ~misplaced
      BY <1>2, <2>5
    <3>2. CASE ring[1] <= pts
      BY <1>2, <1>5, <3>1, <3>2, AddKeepsTurn
    <3>3. CASE ring[1] > pts
      <4>1. Len(ring) = 1 /\ k = 1
        <5>1. pts < ring[1] /\ ~(Len(ring) >= 2)
          <6>1. pts < ring[1]
            BY <1>3, <2>1, <3>3
          <6>2. ~(Len(ring) >= 2 /\ pts < ring[1])
            BY <1>2, <2>5, Zenon
          <6> QED
            BY <6>1, <6>2, Zenon
        <5>2. \A n \in Nat \ {0} : ~(n >= 2) => n = 1
          OBVIOUS
        <5>3. Len(ring) = 1
          BY <2>1, <5>1, <5>2, Zenon
        <5> QED
          BY <5>3
      <4>2. Len(ring') = 2 /\ ring'[1] = ring[1] /\ ring'[2] = pts
        BY <2>3, <4>1
      <4>3. Turned(ring', 1) /\ 1 \in 0..Len(ring')
        <5>1. \A i, j \in 1..2 : i <= j /\ (j <= 1 \/ 1 < i) => i = j
          OBVIOUS
        <5>2. \A i \in 1..2 : ring'[i] \in Int
          BY <1>3, <2>1, <4>2
        <5> QED
          BY <1>3, <2>1, <3>3, <4>2, <5>1, <5>2 DEF Turned
      <4>4. ring' \in Seq(Int)
        BY <1>1, <2>3 DEF Events!Times
      <4> QED
        BY <4>3, <4>4, CutFound
    <3> QED
      BY <1>3, <2>1, <3>2, <3>3
  <2> QED
    BY <2>4, <2>5 DEF EventInv, InTurn, Turned, Falls
<1> QED
  BY <1>4, <1>5

LEMMA DispatchStep == ASSUME Clock, EventInv, Events!Dispatch PROVE EventInv'
<1>1. /\ ring \in Seq(Events!Times) /\ ring # <<>> /\ stc \in Events!Times
      /\ misplaced \in BOOLEAN /\ Len(ring) <= MaxEvents /\ MaxEvents \in Nat
      /\ stc' = stc /\ ring' = Events!Remove(Events!Candidate)
      /\ misplaced' = (misplaced /\ ring' # <<>>)
  BY DEF EventInv, EventTypes, Clock, Events!Dispatch, Events!Due
<1>2. Len(ring) \in Nat \ {0}
  BY <1>1, EmptySeq
<1>3. Events!Candidate \in Int
  <2>1. BackStops \subseteq 1..Len(ring) /\ Len(ring) \in BackStops
    BY <1>2 DEF BackStops
  <2>2. Start \in Int
    <3>1. Events!Least(BackStops) \in 1..Len(ring)
      BY <1>2, <2>1, WalkEnds
    <3> QED
      BY <1>2, <3>1 DEF Start
  <2>3. ForwardStops(Start) \subseteq 1..Len(ring) /\ Len(ring) \in ForwardStops(Start)
    BY <1>2 DEF ForwardStops
  <2>4. Events!Least(ForwardStops(Start)) \in Int
    BY <1>2, <2>3, WalkEnds
  <2> QED
    BY <1>1, <2>2, <2>4, CandidateIs
<1>4. ring' \in Seq(Events!Times) /\ Len(ring') = Len(ring) - 1
  BY <1>1, <1>3, RemoveIs
<1>5. EventTypes'
  BY <1>1, <1>2, <1>4 DEF EventTypes
<1>6. ASSUME ~misplaced'  PROVE InTurn(ring')
  <2>1. CASE ring' = <<>>
    BY <2>1 DEF InTurn
  <2>2. CASE ring' # <<>>
    BY <1>1, <1>3, <1>6, <2>2, RemoveKeepsTurn
  <2> QED
    BY <2>1, <2>2
<1> QED
  BY <1>5, <1>6 DEF EventInv, InTurn, Turned, Falls

LEMMA TickStep == ASSUME Clock, EventInv, Events!Tick PROVE EventInv'
<1>1. ring' = ring /\ misplaced' = misplaced /\ stc' = (stc + 1) % Wrap
  BY DEF Events!Tick
<1>2. stc' \in Events!Times
  BY <1>1 DEF EventInv, EventTypes, Clock, Events!Times
<1> QED
  BY <1>1, <1>2 DEF EventInv, EventTypes, InTurn, Turned, Falls

LEMMA ClearStep == ASSUME Clock, EventInv, Events!vid_event_clear PROVE EventInv'
<1>1. ring' = <<>> /\ misplaced' = FALSE /\ stc' = stc
  BY DEF Events!vid_event_clear
<1>2. ring' \in Seq(Events!Times) /\ Len(ring') = 0
  BY <1>1, EmptySeq
<1>3. 0 <= MaxEvents
  BY DEF Clock
<1> QED
  BY <1>1, <1>2, <1>3 DEF EventInv, EventTypes, InTurn

LEMMA EventsInductive == Clock /\ EventInv /\ [Events!Next]_(Events!vars) => EventInv'
<1> SUFFICES ASSUME Clock, EventInv, [Events!Next]_(Events!vars)  PROVE EventInv'
  OBVIOUS
<1>1. CASE UNCHANGED Events!vars
  BY <1>1 DEF Events!vars, EventInv, EventTypes, InTurn, Turned, Falls
<1> QED
  BY <1>1, AddStep, DispatchStep, TickStep, ClearStep DEF Events!Next

LEMMA EventInvariant == ASSUME Clock PROVE Events!Spec => []EventInv
<1>1. Events!Init => EventInv
  BY InitEvents
<1>2. EventInv /\ [Events!Next]_(Events!vars) => EventInv'
  BY EventsInductive
<1> QED
  BY <1>1, <1>2, PTL DEF Events!Spec

\* The time stamps in the queue and the clock are below the wrap and the queue is
\* not longer than its bound, whatever the sizes of the window.
LEMMA EventQueueTypes == ASSUME Clock PROVE Events!Spec => []Events!TypeOK
<1>1. EventInv => Events!TypeOK
  BY LenProperties, ElementOfSeq DEF EventInv, EventTypes, Events!TypeOK
<1> QED
  BY <1>1, EventInvariant, PTL

\* vid_event_wait_next finds the first of the events that are due, in a queue of
\* any length and for every window that is shorter than a turn of the time stamps
\* and does not contain their wrap, unless an event was added before pNextEvent to
\* a list of several.
LEMMA EventQueueFindsFirst == ASSUME Clock PROVE Events!Spec => []Events!FindsFirst
<1>1. EventInv => Events!FindsFirst
  BY TurnedFinds
<1> QED
  BY <1>1, EventInvariant, PTL

-----------------------------------------------------------------------------
(* The ring of the music client.                                           *)
(*                                                                         *)
(* The server puts its next datagram where the last one ended, and takes   *)
(* what lies before the client's pointer in the last answer for free.  The *)
(* answer is old when it is used: the device has taken more since.  The    *)
(* invariant relates the server's pointers to the ring by the number of    *)
(* bytes that the client has got and the device has not: those are in the  *)
(* ring from tail on, where the server's next byte goes is their end       *)
(* (Agree), and the server never takes more for free than they leave       *)
(* (Space).  A datagram that is not a repetition is taken for new because  *)
(* seq_history is a number of late that is not the datagram's (History).   *)

\* There are sequence numbers for a datagram, the one before and the next.
MusicSizes ==
  /\ Size \in Nat \ {0} /\ Chunk \in Nat /\ Seqs \in Nat /\ 3 <= Seqs
  /\ Bytes \in Nat /\ Troubles \in Nat

Cells == 0..(Size - 1)
Controls == {Music!Play, Music!Pause, Music!Stop}

-----------------------------------------------------------------------------
\* A remainder is the only one.
LEMMA Unique ==
  ASSUME NEW S \in Nat \ {0}, NEW q \in Int, NEW p \in Int, NEW r \in 0..(S-1), NEW t \in 0..(S-1),
         S * q + r = S * p + t
  PROVE r = t
<1>1. CASE q = p
  BY <1>1
<1>2. CASE q < p
  <2>1. S * (q + 1) <= S * p
    BY <1>2
  <2> QED BY <2>1
<1>3. CASE p < q
  <2>1. S * (p + 1) <= S * q
    BY <1>3
  <2> QED BY <2>1
<1> QED BY <1>1, <1>2, <1>3

\* The counter of the troubles makes up for what tail falls below zero.
LEMMA Deeper ==
  ASSUME NEW T \in Nat, NEW k \in 0..T, NEW x \in Int, 0 <= x + k, NEW j \in 0..T, k <= j
  PROVE  0 <= x + j
  OBVIOUS

LEMMA ModIs ==
  ASSUME NEW S \in Nat, S > 0, NEW x \in Int
  PROVE  \E q \in Int : x = q * S + (x % S)
<1>1. x = (x \div S) * S + (x % S)
  OBVIOUS
<1>2. x \div S \in Int
  OBVIOUS
<1> QED
  BY <1>1, <1>2

\* Numbers less than a turn apart differ.
LEMMA ModNext ==
  ASSUME NEW S \in Nat \ {0}, NEW x \in Int, NEW e \in 1..(S-1)
  PROVE  (x + e) % S # x % S
<1>1. SUFFICES ASSUME (x + e) % S = x % S PROVE FALSE
  OBVIOUS
<1>2. x % S \in Int /\ (x + e) % S \in Int
  OBVIOUS
<1>0. S > 0 /\ x + e \in Int
  OBVIOUS
<1>3. PICK q \in Int : x = q * S + (x % S)
  BY <1>0, ModIs
<1>4. PICK p \in Int : x + e = p * S + ((x + e) % S)
  BY <1>0, ModIs
<1>5. S * q + e = S * p + 0
  BY <1>1, <1>2, <1>3, <1>4
<1> QED
  BY <1>5, Unique

\* The arithmetic of the ring, without %.
LEMMA Forth ==
  ASSUME MusicSizes, NEW c \in Cells, NEW k \in Int, 0 <= k, k <= Size
  PROVE  /\ (c + k) % Size = IF c + k < Size THEN c + k ELSE c + k - Size
         /\ (c + k) % Size \in Cells
<1>1. Size \in Nat \ {0} /\ c \in 0..(Size - 1)
  BY DEF MusicSizes, Cells
<1> DEFINE x == c + k
<1>2. x \in Int /\ 0 <= x /\ x < 2 * Size
  BY <1>1
<1> HIDE DEF x
<1>3. CASE x < Size
  BY <1>1, <1>2, <1>3 DEF x, Cells
<1>4. CASE Size <= x
  <2>1. x % Size = x - Size
    BY <1>1, <1>2, <1>4
  <2> QED
    BY <1>1, <1>2, <1>4, <2>1 DEF x, Cells
<1> QED
  BY <1>1, <1>2, <1>3, <1>4

LEMMA Between ==
  ASSUME MusicSizes, NEW a \in Cells, NEW b \in Cells
  PROVE  /\ (a - b) % Size = IF a >= b THEN a - b ELSE a - b + Size
         /\ (a - b) % Size \in Cells
<1>1. Size \in Nat \ {0} /\ a \in 0..(Size - 1) /\ b \in 0..(Size - 1)
  BY DEF MusicSizes, Cells
<1> DEFINE x == a - b
<1>2. x \in Int /\ -Size < x /\ x < Size
  BY <1>1
<1> HIDE DEF x
<1>3. CASE 0 <= x
  BY <1>1, <1>2, <1>3 DEF x, Cells
<1>4. CASE x < 0
  <2>1. x % Size = x + Size
    BY <1>1, <1>2, <1>4
  <2> QED
    BY <1>1, <1>2, <1>4, <2>1 DEF x, Cells
<1> QED
  BY <1>1, <1>2, <1>3, <1>4

\* What the server takes for free.
LEMMA Free ==
  ASSUME MusicSizes, NEW w \in Cells, NEW r \in Cells
  PROVE  (r - w - 1) % Size = Size - 1 - ((w - r) % Size)
<1>1. Size \in Nat \ {0} /\ w \in 0..(Size - 1) /\ r \in 0..(Size - 1)
  BY DEF MusicSizes, Cells
<1>2. (w - r) % Size = IF w >= r THEN w - r ELSE w - r + Size
  BY Between
<1> DEFINE x == r - w - 1
<1>3. x \in Int /\ -Size <= x /\ x < Size
  BY <1>1
<1> HIDE DEF x
<1>4. x % Size = IF 0 <= x THEN x ELSE x + Size
  <2>1. CASE 0 <= x
    BY <1>1, <1>3, <2>1
  <2>2. CASE x < 0
    BY <1>1, <1>3, <2>2
  <2> QED
    BY <1>3, <2>1, <2>2
<1>5. (r - w - 1) % Size = x % Size
  BY DEF x
<1>6. x = r - w - 1
  BY DEF x
<1> DEFINE y == (w - r) % Size
           z == x % Size
<1>7. y = IF w >= r THEN w - r ELSE w - r + Size
  BY <1>2
<1>8. z = IF 0 <= x THEN x ELSE x + Size
  BY <1>4
<1> HIDE DEF y, z
<1>9. z = Size - 1 - y
  BY <1>1, <1>6, <1>7, <1>8
<1> QED
  BY <1>5, <1>9 DEF y, z

\* Two places a and b bytes behind t.
LEMMA Along ==
  ASSUME MusicSizes, NEW t \in Cells, NEW a \in Cells, NEW b \in Cells
  PROVE  /\ (((t + a) % Size) - ((t + b) % Size)) % Size = IF a >= b THEN a - b ELSE a - b + Size
         /\ (((t + a) % Size) - t) % Size = a
         /\ a + b < Size => (((t + a) % Size) + b) % Size = (t + (a + b)) % Size
<1>1. Size \in Nat \ {0} /\ t \in 0..(Size - 1) /\ a \in 0..(Size - 1) /\ b \in 0..(Size - 1)
  BY DEF MusicSizes, Cells
<1> DEFINE p == (t + a) % Size
           q == (t + b) % Size
<1>2. p = (IF t + a < Size THEN t + a ELSE t + a - Size) /\ p \in Cells
  BY <1>1, Forth
<1>3. q = (IF t + b < Size THEN t + b ELSE t + b - Size) /\ q \in Cells
  BY <1>1, Forth
<1> HIDE DEF p, q
<1>4. (p - q) % Size = (IF p >= q THEN p - q ELSE p - q + Size)
      /\ (p - t) % Size = (IF p >= t THEN p - t ELSE p - t + Size)
  BY <1>2, <1>3, Between
<1>5. (p + b) % Size = IF p + b < Size THEN p + b ELSE p + b - Size
  <2>1. b \in Int /\ 0 <= b /\ b <= Size
    BY <1>1
  <2> QED
    BY <1>2, <2>1, Forth
<1>6. ASSUME a + b < Size
      PROVE (t + (a + b)) % Size = IF t + (a + b) < Size THEN t + (a + b) ELSE t + (a + b) - Size
  <2>1. a + b \in Int /\ 0 <= a + b /\ a + b <= Size
    BY <1>1, <1>6
  <2> QED
    BY <2>1, Forth
<1>7. /\ (p - q) % Size = IF a >= b THEN a - b ELSE a - b + Size
      /\ (p - t) % Size = a
  BY <1>1, <1>2, <1>3, <1>4
<1>8. a + b < Size => (p + b) % Size = (t + (a + b)) % Size
  BY <1>1, <1>2, <1>5, <1>6
<1> QED
  BY <1>7, <1>8, Zenon DEF p, q

-----------------------------------------------------------------------------
(* The inductive invariant.                                                *)

MusicTypes ==
  /\ head \in Cells /\ rptr \in Cells /\ tail \in Int /\ tail < Size /\ 0 <= tail + troubles
  /\ buf \in [Cells -> 0..Bytes] /\ playmode \in Controls
  /\ seq_history \in -1..(Seqs - 1) /\ loop \in {"select", "send"}
  /\ played \in 0..Bytes /\ base \in 0..Bytes /\ troubles \in 0..Troubles
  /\ acked \in BOOLEAN /\ astray \in BOOLEAN

\* A datagram has data, or it stops or pauses the player.
Datagram(m) ==
  /\ m.id \in Nat /\ m.wptr \in Cells /\ m.n \in Cells
  /\ m.first \in Nat \ {0} /\ m.first + m.n - 1 <= Bytes /\ m.control \in Controls
  /\ m.control = Music!Play <=> m.n > 0
  /\ m.control = Music!Stop => m.wptr = 0

\* The client has got the last datagram of the server or the one before.
Answers ==
  /\ newest \in Nat /\ newest \in {last.id - 1, last.id}
  /\ acked => newest = last.id
  /\ ~acked => 1 <= last.id
  /\ ack.id \in Nat /\ ack.id <= newest /\ ack.rptr \in Cells

Network ==
  /\ Datagram(last)
  /\ \A m \in datagrams :
       /\ Datagram(m) /\ m.id <= last.id /\ last.id - m.id <= Music!Lifetime
       /\ m.id = last.id => m = last
       /\ m.id = last.id - 1 => m.first + m.n = last.first

\* seq_history is one of the latest sequence numbers, and not the next one: one
\* that is not so late is followed by data.
History ==
  seq_history # -1 =>
    \E d \in 0..(Music!Lifetime + 1) :
      /\ seq_history = (newest - d) % Seqs
      /\ d = Music!Lifetime + 1 => (newest = last.id <=> last.control # Music!Play)

\* The last byte the client has got, how many of them the device has not, and
\* where in the ring the next one goes.
Received == IF newest = last.id THEN Music!sent ELSE last.first - 1
Stored == Received - played
End == (tail + Stored) % Size

InStep == ~astray /\ (playmode # Music!Stop \/ loop = "select")

\* What is stored is in its place, though head may not point to its end.
Contents ==
  InStep =>
    /\ tail \in Cells /\ Stored \in Cells /\ (head - tail) % Size <= Stored
    /\ \A i \in Cells : i < Stored => buf[(tail + i) % Size] = played + 1 + i

\* The server and the client agree where the ring ends.
Agree ==
  InStep =>
    /\ newest = last.id => Music!wptr = End
    /\ newest # last.id /\ last.control # Music!Stop => last.wptr = End
    /\ \A m \in datagrams : m.id = newest => (m.wptr + m.n) % Size = End

\* The server does not take more for free than is.
Space ==
  InStep =>
    /\ acked => Stored <= (Music!wptr - rptr) % Size
    /\ ~acked /\ ack.id = last.id => Stored <= (Music!wptr - ack.rptr) % Size
    /\ newest # last.id => Stored + last.n < Size

\* After a stop the ring begins anew.
Stopped ==
  ~astray /\ playmode = Music!Stop =>
    /\ head = 0 /\ base = Received
    /\ newest = last.id => Music!wptr = 0
    /\ newest # last.id /\ last.control # Music!Stop => last.wptr = 0
    /\ \A m \in datagrams : m.id = newest => (m.wptr + m.n) % Size = 0

MusicInv == MusicTypes /\ Answers /\ Network /\ History /\ Contents /\ Agree /\ Space /\ Stopped

LEMMA InitMusic == MusicSizes /\ Music!Init => MusicInv
<1> SUFFICES ASSUME MusicSizes, Music!Init  PROVE MusicInv
  OBVIOUS
<1> USE DEF Music!Init, MusicSizes
<1>1. 0 \in Cells /\ 0 % Size = 0 /\ 0 % Seqs = 0
  BY DEF Cells
<1>2. MusicTypes
  <2>1. /\ head \in Cells /\ rptr \in Cells /\ tail \in Int /\ tail < Size /\ 0 <= tail + troubles
        /\ seq_history \in -1..(Seqs - 1) /\ played \in 0..Bytes /\ base \in 0..Bytes
        /\ troubles \in 0..Troubles
    BY <1>1
  <2>2. buf \in [Cells -> 0..Bytes]
    BY DEF Cells
  <2>3. playmode \in Controls /\ loop \in {"select", "send"} /\ acked \in BOOLEAN
        /\ astray \in BOOLEAN
    BY DEF Controls
  <2> QED
    BY <2>1, <2>2, <2>3 DEF MusicTypes
<1>3. Answers
  BY <1>1 DEF Answers, Music!NoAck
<1>4. Network
  BY <1>1 DEF Network, Datagram, Controls, Music!Stop, Music!Play
<1>5. History
  BY <1>1 DEF History, Music!Lifetime
<1>6. Received = 0 /\ Stored = 0 /\ End = 0 /\ Music!wptr = 0
  BY <1>1 DEF Received, Stored, End, Music!sent, Music!wptr
<1>7. (head - tail) % Size = 0 /\ (Music!wptr - rptr) % Size = 0
  BY <1>1, <1>6
<1>8. Contents
  BY <1>1, <1>6, <1>7 DEF Contents, Cells
<1>9. Agree /\ Stopped
  BY <1>1, <1>6 DEF Agree, Stopped
<1>10. Space
  BY <1>1, <1>6, <1>7 DEF Space
<1> QED
  BY <1>2, <1>3, <1>4, <1>5, <1>8, <1>9, <1>10 DEF MusicInv

LEMMA SentFacts ==
  ASSUME MusicSizes, Network
  PROVE  /\ Music!sent \in 0..Bytes /\ Music!sent = last.first + last.n - 1
         /\ Music!wptr \in Cells /\ Music!wptr = (last.wptr + last.n) % Size
         /\ last.id \in Nat /\ last.first \in Nat \ {0} /\ last.n \in Cells /\ last.wptr \in Cells
<1>1. last.id \in Nat /\ last.first \in Nat \ {0} /\ last.n \in Cells /\ last.wptr \in Cells
      /\ last.first + last.n - 1 <= Bytes
  BY DEF Network, Datagram
<1>2. last.n \in Int /\ 0 <= last.n /\ last.n <= Size
  BY <1>1 DEF Cells, MusicSizes
<1>3. (last.wptr + last.n) % Size \in Cells
  BY <1>1, <1>2, Forth
<1> QED
  BY <1>1, <1>2, <1>3 DEF Music!sent, Music!wptr, MusicSizes

\* The server sends a datagram.
LEMMA EmitStep ==
  ASSUME MusicSizes, MusicInv, NEW n \in Cells, NEW w \in Cells, NEW c \in Controls,
         Music!Emit(n, w, c), troubles' \in 0..Troubles, troubles <= troubles',
         c = Music!Play <=> n > 0, Music!sent + n <= Bytes,
         c # Music!Stop => w = Music!wptr, c = Music!Stop => w = 0,
         n <= (rptr - Music!wptr - 1) % Size,
         c = Music!Play \/ last.control = Music!Play
  PROVE  MusicInv'
<1> DEFINE new == [id |-> last.id + 1, wptr |-> w, n |-> n, first |-> Music!sent + 1,
                   control |-> c]
<1>1. /\ acked = TRUE /\ acked' = FALSE /\ last' = new
      /\ datagrams' = {m \in datagrams : last'.id - m.id <= Music!Lifetime} \cup {last'}
      /\ UNCHANGED <<head, tail, buf, playmode, seq_history, loop, rptr, ack, played,
                     base, newest, astray>>
  BY DEF Music!Emit, Music!ring, Music!ghosts, MusicInv, MusicTypes
<1>2. /\ newest = last.id /\ newest \in Nat /\ ack.id \in Nat /\ ack.id <= newest
      /\ ack.rptr \in Cells
  BY <1>1 DEF MusicInv, Answers
<1>3. /\ Music!sent \in 0..Bytes /\ Music!wptr \in Cells /\ last.id \in Nat
      /\ Music!sent = last.first + last.n - 1
  BY SentFacts DEF MusicInv
<1>4. /\ last'.id = last.id + 1 /\ last'.wptr = w /\ last'.n = n
      /\ last'.first = Music!sent + 1 /\ last'.control = c
  BY <1>1
<1> HIDE DEF new
<1>5. newest' # last'.id
  BY <1>1, <1>2, <1>4
<1>6. Received = Music!sent /\ Received' = Received /\ Stored' = Stored /\ End' = End
      /\ InStep' = InStep
  BY <1>1, <1>2, <1>3, <1>4, <1>5 DEF Received, Stored, End, InStep
<1>7. MusicTypes'
  <2>1. MusicTypes
    BY DEF MusicInv
  <2>2. troubles' \in 0..Troubles /\ tail' \in Int /\ tail' < Size /\ 0 <= tail' + troubles'
    <3>1. tail' = tail
      BY <1>1
    <3>2. troubles \in 0..Troubles /\ tail \in Int /\ tail < Size /\ 0 <= tail + troubles
      BY <2>1 DEF MusicTypes
    <3>3. troubles' \in 0..Troubles /\ troubles <= troubles'
      OBVIOUS
    <3> QED
      BY <3>1, <3>2, <3>3, Deeper, Zenon DEF MusicSizes
  <2>3. acked' \in BOOLEAN /\ Cells' = Cells /\ Controls' = Controls
    BY <1>1 DEF Cells, Controls
  <2>4. /\ head' \in Cells /\ rptr' \in Cells /\ buf' \in [Cells -> 0..Bytes]
        /\ playmode' \in Controls /\ seq_history' \in -1..(Seqs - 1)
        /\ loop' \in {"select", "send"} /\ played' \in 0..Bytes /\ base' \in 0..Bytes
        /\ astray' \in BOOLEAN
    BY <1>1, <2>1 DEF MusicTypes
  <2> QED
    BY <2>2, <2>3, <2>4 DEF MusicTypes
<1>8. Answers'
  BY <1>1, <1>2, <1>3, <1>4 DEF Answers
<1>9. Network'
  <2>1. Datagram(last')
    <3>1. last'.id \in Nat /\ last'.first \in Nat \ {0} /\ last'.first + last'.n - 1 <= Bytes
      BY <1>3, <1>4 DEF Cells, MusicSizes
    <3>2. /\ last'.wptr \in Cells /\ last'.n \in Cells /\ last'.control \in Controls
          /\ last'.control = Music!Play <=> last'.n > 0
          /\ last'.control = Music!Stop => last'.wptr = 0
      BY <1>4
    <3> QED
      BY <3>1, <3>2 DEF Datagram
  <2>2. ASSUME NEW m \in datagrams'
        PROVE  /\ Datagram(m) /\ m.id <= last'.id
               /\ last'.id - m.id <= Music!Lifetime
               /\ m.id = last'.id => m = last'
               /\ m.id = last'.id - 1 => m.first + m.n = last'.first
    <3>1. CASE m = last'
      BY <1>2, <1>3, <1>4, <2>1, <3>1 DEF Music!Lifetime, MusicSizes
    <3>2. CASE m \in datagrams /\ last'.id - m.id <= Music!Lifetime
      <4>1. /\ Datagram(m) /\ m.id <= last.id /\ m.id \in Nat
            /\ m.id = last.id => m = last
        BY <3>2 DEF MusicInv, Network, Datagram
      <4>2. last.first \in Nat /\ last.n \in Nat
        BY DEF MusicInv, Network, Datagram, Cells
      <4>3. m.id <= last'.id /\ m.id # last'.id /\ (m.id = last'.id - 1 => m.id = last.id)
        BY <1>3, <1>4, <4>1
      <4>4. m.id = last.id => m.first + m.n = last'.first
        BY <1>3, <1>4, <4>1, <4>2
      <4> QED
        BY <3>2, <4>1, <4>3, <4>4
    <3> QED
      BY <1>1, <3>1, <3>2
  <2> QED
    BY <2>1, <2>2 DEF Network, Datagram, Music!Lifetime
<1>10. History'
  <2> SUFFICES ASSUME seq_history' # -1
               PROVE  \E d \in 0..(Music!Lifetime + 1) :
                        /\ seq_history' = (newest' - d) % Seqs
                        /\ d = Music!Lifetime + 1 =>
                             (newest' = last'.id <=> last'.control # Music!Play)
    BY DEF History, Music!Lifetime, Music!Play
  <2>1. PICK d \in 0..(Music!Lifetime + 1) :
          /\ seq_history = (newest - d) % Seqs
          /\ d = Music!Lifetime + 1 => (newest = last.id <=> last.control # Music!Play)
    BY <1>1 DEF MusicInv, History
  <2>2. d = Music!Lifetime + 1 => c = Music!Play
    BY <1>2, <2>1
  <2>3. seq_history' = (newest' - d) % Seqs
    BY <1>1, <2>1
  <2> QED
    BY <1>4, <1>5, <2>2, <2>3
<1>11. Contents'
  BY <1>1, <1>6 DEF MusicInv, Contents
<1>12. Agree'
  <2> SUFFICES ASSUME InStep'  PROVE Agree'
    BY DEF Agree
  <2>1. /\ Music!wptr = End /\ \A m \in datagrams : m.id = newest => (m.wptr + m.n) % Size = End
    BY <1>2, <1>6 DEF MusicInv, Agree
  <2>2. ASSUME NEW m \in datagrams', m.id = newest'  PROVE (m.wptr + m.n) % Size = End'
    BY <1>1, <1>5, <1>6, <2>1, <2>2
  <2>3. last'.control # Music!Stop => last'.wptr = End'
    BY <1>4, <1>6, <2>1
  <2> QED
    BY <1>5, <2>2, <2>3 DEF Agree, Music!Stop
<1>13. Space'
  <2> SUFFICES ASSUME InStep'  PROVE Space'
    BY DEF Space
  <2>1. Stored <= (Music!wptr - rptr) % Size /\ Stored \in Cells
    BY <1>1, <1>6 DEF MusicInv, Space, Contents
  <2>2. rptr \in Cells
    BY DEF MusicInv, MusicTypes
  <2>3. (rptr - Music!wptr - 1) % Size = Size - 1 - ((Music!wptr - rptr) % Size)
    BY <1>3, <2>2, Free
  <2>4. (Music!wptr - rptr) % Size \in Cells
    BY <1>3, <2>2, Between
  <2>5. Stored + n < Size
    BY <2>1, <2>3, <2>4 DEF Cells, MusicSizes
  <2>6. ack'.id # last'.id
    BY <1>1, <1>2, <1>3, <1>4
  <2> QED
    BY <1>1, <1>4, <1>6, <2>5, <2>6 DEF Space
<1>14. Stopped'
  <2> SUFFICES ASSUME ~astray', playmode' = Music!Stop  PROVE Stopped'
    BY DEF Stopped, Music!Stop
  <2>1. /\ head = 0 /\ base = Received /\ Music!wptr = 0
        /\ \A m \in datagrams : m.id = newest => (m.wptr + m.n) % Size = 0
    BY <1>1, <1>2 DEF MusicInv, Stopped
  <2>2. ASSUME NEW m \in datagrams', m.id = newest'  PROVE (m.wptr + m.n) % Size = 0
    BY <1>1, <1>5, <2>1, <2>2
  <2>3. last'.wptr = 0
    BY <1>4, <2>1
  <2> QED
    BY <1>1, <1>5, <1>6, <2>1, <2>2, <2>3 DEF Stopped
<1> QED
  BY <1>7, <1>8, <1>9, <1>10, <1>11, <1>12, <1>13, <1>14 DEF MusicInv

LEMMA SendStep == MusicSizes /\ MusicInv /\ Music!Send => MusicInv'
<1> SUFFICES ASSUME MusicSizes, MusicInv, Music!Send  PROVE MusicInv'
  OBVIOUS
<1>1. PICK n \in 1..Chunk :
        /\ n <= (rptr - Music!wptr - 1) % Size /\ Music!sent + n <= Bytes
        /\ Music!Emit(n, Music!wptr, Music!Play)
  BY DEF Music!Send
<1>2. Music!wptr \in Cells /\ rptr \in Cells
  BY SentFacts DEF MusicInv, MusicTypes
<1>3. (Music!wptr - rptr) % Size \in Cells
      /\ (rptr - Music!wptr - 1) % Size = Size - 1 - ((Music!wptr - rptr) % Size)
  BY <1>2, Between, Free
<1>4. n \in Cells /\ n > 0
  BY <1>1, <1>3 DEF MusicSizes, Cells
<1>5. troubles' \in 0..Troubles /\ troubles <= troubles'
  BY DEF Music!Send, MusicInv, MusicTypes, MusicSizes
<1>6. Music!Play \in Controls /\ Music!Play # Music!Stop
  BY DEF Controls, Music!Play, Music!Stop
<1> QED
  BY <1>1, <1>2, <1>4, <1>5, <1>6, EmitStep

LEMMA CommandStep == MusicSizes /\ MusicInv /\ Music!Command => MusicInv'
<1> SUFFICES ASSUME MusicSizes, MusicInv, Music!Command  PROVE MusicInv'
  OBVIOUS
<1>1. /\ last.control = Music!Play
      /\ Music!Emit(0, Music!wptr, Music!Pause) \/ Music!Emit(0, 0, Music!Stop)
  BY DEF Music!Command
<1>2. Music!wptr \in Cells /\ rptr \in Cells /\ 0 \in Cells
  BY SentFacts DEF MusicInv, MusicTypes, Cells, MusicSizes
<1>3. (Music!wptr - rptr) % Size \in Cells
      /\ (rptr - Music!wptr - 1) % Size = Size - 1 - ((Music!wptr - rptr) % Size)
  BY <1>2, Between, Free
<1>4. 0 <= (rptr - Music!wptr - 1) % Size
  BY <1>3 DEF MusicSizes, Cells
<1>5. troubles' \in 0..Troubles /\ troubles <= troubles'
  BY DEF Music!Command, MusicInv, MusicTypes, MusicSizes
<1>6. /\ Music!Pause \in Controls /\ Music!Pause # Music!Stop /\ Music!Pause # Music!Play
      /\ Music!Stop \in Controls /\ Music!Stop # Music!Play
  BY DEF Controls, Music!Play, Music!Stop, Music!Pause
<1>7. Music!sent + 0 <= Bytes /\ ~(0 > 0)
  BY SentFacts DEF MusicInv, MusicSizes
<1>8. CASE Music!Emit(0, Music!wptr, Music!Pause)
  BY <1>1, <1>2, <1>4, <1>5, <1>6, <1>7, <1>8, EmitStep
<1>9. CASE Music!Emit(0, 0, Music!Stop)
  BY <1>1, <1>2, <1>4, <1>5, <1>6, <1>7, <1>9, EmitStep
<1> QED
  BY <1>1, <1>8, <1>9

\* What the datagrams under way and the answer do not bear on.
LEMMA SameRing ==
  ASSUME UNCHANGED <<last, newest, played, tail>>
  PROVE  /\ Received' = Received /\ Stored' = Stored /\ End' = End
         /\ (Music!wptr)' = Music!wptr /\ (Music!sent)' = Music!sent
  BY DEF Received, Stored, End, Music!wptr, Music!sent

LEMMA SendAgainStep == MusicSizes /\ MusicInv /\ Music!SendAgain => MusicInv'
<1> SUFFICES ASSUME MusicSizes, MusicInv, Music!SendAgain  PROVE MusicInv'
  OBVIOUS
<1>1. /\ datagrams' = datagrams \cup {last}
      /\ UNCHANGED <<head, tail, buf, playmode, seq_history, loop, last, acked, rptr, ack,
                     troubles, played, base, newest, astray>>
  BY DEF Music!SendAgain, Music!ring, Music!server, Music!ghosts
<1>2. /\ Received' = Received /\ Stored' = Stored /\ End' = End
      /\ (Music!wptr)' = Music!wptr /\ InStep' = InStep
  BY <1>1, SameRing DEF InStep
<1>3. MusicTypes'
  BY <1>1 DEF MusicInv, MusicTypes, Cells, Controls, Music!Play, Music!Stop, Music!Pause
<1>4. Answers'
  BY <1>1 DEF MusicInv, Answers, Cells
<1>5. Network'
  <2>1. Datagram(last) /\ last.id \in Nat
    BY DEF MusicInv, Network, Datagram
  <2>2. last.id - last.id <= Music!Lifetime /\ last.id <= last.id /\ last.id # last.id - 1
    BY <2>1 DEF Music!Lifetime, MusicSizes
  <2> QED
    BY <1>1, <2>1, <2>2 DEF MusicInv, Network, Datagram, Music!Lifetime
<1>6. History'
  BY <1>1 DEF MusicInv, History, Music!Lifetime, Music!Play
<1>7. Contents'
  BY <1>1, <1>2 DEF MusicInv, Contents, Cells
<1>8. newest = last.id => (last.wptr + last.n) % Size = Music!wptr
  BY DEF Music!wptr
<1>9. Agree'
  BY <1>1, <1>2, <1>8 DEF MusicInv, Agree, Music!Stop
<1>10. Space'
  BY <1>1, <1>2 DEF MusicInv, Space
<1>11. Stopped'
  BY <1>1, <1>2, <1>8 DEF MusicInv, Stopped, Music!Stop
<1> QED
  BY <1>3, <1>4, <1>5, <1>6, <1>7, <1>9, <1>10, <1>11 DEF MusicInv

\* The network loses something, or the server reads the answer.
LEMMA GetAckOrLoseStep ==
  MusicSizes /\ MusicInv /\ (Music!GetAck \/ Music!Lose) => MusicInv'
<1> SUFFICES ASSUME MusicSizes, MusicInv, Music!GetAck \/ Music!Lose  PROVE MusicInv'
  OBVIOUS
<1>1. /\ datagrams' \subseteq datagrams
      /\ \/ UNCHANGED <<acked, rptr>> /\ (UNCHANGED ack \/ ack' = Music!NoAck)
         \/ /\ ~acked /\ ack.id = last.id /\ acked' = TRUE /\ rptr' = ack.rptr
            /\ ack' = Music!NoAck
      /\ UNCHANGED <<head, tail, buf, playmode, seq_history, loop, last, troubles, played,
                     base, newest, astray>>
  BY DEF Music!GetAck, Music!Lose, Music!ring, Music!server, Music!ghosts
<1>2. /\ Received' = Received /\ Stored' = Stored /\ End' = End
      /\ (Music!wptr)' = Music!wptr /\ InStep' = InStep
  BY <1>1, SameRing DEF InStep
<1>3. /\ newest \in Nat /\ newest \in {last.id - 1, last.id} /\ (acked => newest = last.id)
      /\ (~acked => 1 <= last.id) /\ ack.id \in Nat /\ ack.id <= newest /\ ack.rptr \in Cells
      /\ last.id \in Nat
  BY SentFacts DEF MusicInv, Answers
<1>4. ack.id = last.id => newest = last.id
  BY <1>3
<1>5. Music!NoAck.id = 0 /\ Music!NoAck.rptr = 0 /\ 0 \in Cells
  BY DEF Music!NoAck, Cells, MusicSizes
<1>6. MusicTypes'
  <2>1. acked' \in BOOLEAN /\ rptr' \in Cells
    BY <1>1, <1>3 DEF MusicInv, MusicTypes
  <2> QED
    BY <1>1, <2>1 DEF MusicInv, MusicTypes, Cells, Controls, Music!Play, Music!Stop, Music!Pause
<1>7. Answers'
  <2>1. ack'.id \in Nat /\ ack'.id <= newest /\ ack'.rptr \in Cells
    BY <1>1, <1>3, <1>5
  <2>2. (acked' => newest = last.id) /\ (~acked' => 1 <= last.id)
    BY <1>1, <1>3, <1>4
  <2> QED
    BY <1>1, <1>3, <2>1, <2>2 DEF Answers, Cells
<1>8. Network'
  BY <1>1 DEF MusicInv, Network, Datagram, Music!Lifetime
<1>9. History'
  BY <1>1 DEF MusicInv, History, Music!Lifetime, Music!Play
<1>10. Contents'
  BY <1>1, <1>2 DEF MusicInv, Contents, Cells
<1>11. Agree'
  BY <1>1, <1>2 DEF MusicInv, Agree, Music!Stop
<1>12. Space'
  <2> SUFFICES ASSUME InStep  PROVE Space'
    BY <1>2 DEF Space
  <2>1. /\ acked => Stored <= (Music!wptr - rptr) % Size
        /\ ~acked /\ ack.id = last.id => Stored <= (Music!wptr - ack.rptr) % Size
        /\ newest # last.id => Stored + last.n < Size
    BY DEF MusicInv, Space
  <2>2. acked' => Stored <= (Music!wptr - rptr') % Size
    BY <1>1, <2>1
  <2>3. ~acked' /\ ack'.id = last.id => Stored <= (Music!wptr - ack'.rptr) % Size
    <3>1. CASE ack' = ack /\ acked' = acked
      BY <2>1, <3>1
    <3>2. CASE ack' = Music!NoAck /\ acked' = acked
      BY <1>3, <1>5, <3>2
    <3> QED
      BY <1>1, <3>1, <3>2
  <2> QED
    BY <1>1, <1>2, <2>1, <2>2, <2>3 DEF Space
<1>13. Stopped'
  BY <1>1, <1>2 DEF MusicInv, Stopped, Music!Stop
<1> QED
  BY <1>6, <1>7, <1>8, <1>9, <1>10, <1>11, <1>12, <1>13 DEF MusicInv

LEMMA SelectTimeoutStep == MusicSizes /\ MusicInv /\ Music!SelectTimeout => MusicInv'
<1> SUFFICES ASSUME MusicSizes, MusicInv, Music!SelectTimeout  PROVE MusicInv'
  OBVIOUS
<1>1. /\ loop = "select" /\ loop' = "send"
      /\ UNCHANGED <<head, tail, buf, playmode, seq_history, last, acked, rptr, datagrams,
                     ack, troubles, played, base, newest, astray>>
  BY DEF Music!SelectTimeout, Music!ring, Music!server, Music!ghosts
<1>2. /\ Received' = Received /\ Stored' = Stored /\ End' = End
      /\ (Music!wptr)' = Music!wptr /\ (InStep' => InStep)
  BY <1>1, SameRing DEF InStep
<1>3. MusicTypes'
  BY <1>1 DEF MusicInv, MusicTypes, Cells, Controls, Music!Play, Music!Stop, Music!Pause
<1>4. Answers' /\ Network'
  BY <1>1 DEF MusicInv, Answers, Network, Cells, Datagram, Music!Lifetime
<1>5. History'
  BY <1>1 DEF MusicInv, History, Music!Lifetime, Music!Play
<1>6. Contents'
  BY <1>1, <1>2 DEF MusicInv, Contents, Cells
<1>7. Agree'
  BY <1>1, <1>2 DEF MusicInv, Agree, Music!Stop
<1>8. Space'
  BY <1>1, <1>2 DEF MusicInv, Space
<1>9. Stopped'
  BY <1>1, <1>2 DEF MusicInv, Stopped, Music!Stop
<1> QED
  BY <1>3, <1>4, <1>5, <1>6, <1>7, <1>8, <1>9 DEF MusicInv

-----------------------------------------------------------------------------
(* send_mpeg_data.                                                         *)

LEMMA WriteTypes ==
  ASSUME MusicSizes, MusicTypes, Music!WriteDevice
  PROVE  tail' \in Int /\ tail' < Size /\ 0 <= tail' + troubles /\ played' \in 0..Bytes
<1>1. /\ head \in 0..(Size - 1) /\ tail \in Int /\ tail < Size /\ 0 <= tail + troubles
      /\ buf \in [0..(Size - 1) -> 0..Bytes] /\ troubles \in Nat /\ played \in 0..Bytes
      /\ Size \in Nat \ {0} /\ Bytes \in Nat
  BY DEF MusicTypes, MusicSizes, Cells
<1>2. ASSUME NEW f \in Int, NEW k \in Nat, f + k <= Size
      PROVE  Music!Written(f, k) \in 0..Bytes
  <2>1. f + k > 0 => f + k - 1 \in 0..(Size - 1)
    BY <1>1, <1>2
  <2> QED
    BY <1>1, <1>2, <2>1 DEF Music!Written
<1>3. CASE head < tail
  <2>1. PICK k \in 0..(Size - tail) :
          IF k < Size - tail
          THEN tail' = tail + k /\ played' = Music!Written(tail, k)
          ELSE \E j \in 0..head :
                 tail' = j /\ played' = IF j > 0 THEN Music!Written(0, j) ELSE Music!Written(tail, k)
    BY <1>1, <1>3 DEF Music!WriteDevice
  <2>2. k \in Nat /\ tail + k <= Size /\ Music!Written(tail, k) \in 0..Bytes
    BY <1>1, <1>2, <1>3
  <2>3. CASE k < Size - tail
    BY <1>1, <2>1, <2>2, <2>3
  <2>4. CASE ~(k < Size - tail)
    <3>1. PICK j \in 0..head :
            tail' = j /\ played' = IF j > 0 THEN Music!Written(0, j) ELSE Music!Written(tail, k)
      BY <2>1, <2>4
    <3>2. j \in Nat /\ 0 + j <= Size /\ Music!Written(0, j) \in 0..Bytes
      BY <1>1, <1>2
    <3>3. played' \in 0..Bytes
      BY <2>2, <3>1, <3>2, Zenon
    <3> QED
      BY <1>1, <3>1, <3>3
  <2> QED
    BY <2>3, <2>4
<1>4. CASE head >= tail
  <2>1. PICK k \in 0..(head - tail) : tail' = tail + k /\ played' = Music!Written(tail, k)
    BY <1>1, <1>4 DEF Music!WriteDevice
  <2>2. k \in Nat /\ tail + k <= Size /\ Music!Written(tail, k) \in 0..Bytes
    BY <1>1, <1>2, <1>4
  <2> QED
    BY <1>1, <2>1, <2>2
<1> QED
  BY <1>1, <1>3, <1>4

\* What the device takes is the beginning of what waits.
LEMMA WriteAdvances ==
  ASSUME MusicSizes, MusicTypes, tail \in Cells, Music!WriteDevice,
         \A i \in Cells : i < (head - tail) % Size => buf[(tail + i) % Size] = played + 1 + i
  PROVE  \E u \in 0..((head - tail) % Size) :
           tail' = (tail + u) % Size /\ played' = played + u
<1>1. /\ head \in 0..(Size - 1) /\ tail \in 0..(Size - 1) /\ played \in Nat
      /\ Size \in Nat \ {0} /\ head \in Cells
  BY DEF MusicTypes, MusicSizes, Cells
<1> DEFINE w == (head - tail) % Size
<1>2. w = (IF head >= tail THEN head - tail ELSE head - tail + Size) /\ w \in Cells
  BY <1>1, Between
<1> HIDE DEF w
<1>3. ASSUME NEW u \in 1..w, NEW c \in 0..(Size - 1),
             c = tail + (u - 1) \/ c = tail + (u - 1) - Size
      PROVE  buf[c] = played + u
  <2>1. u - 1 \in Int /\ 0 <= u - 1 /\ u - 1 <= Size /\ u - 1 \in Cells /\ u - 1 < w
    BY <1>1, <1>2 DEF Cells
  <2> DEFINE x == (tail + (u - 1)) % Size
  <2>2. x = IF tail + (u - 1) < Size THEN tail + (u - 1) ELSE tail + (u - 1) - Size
    BY <2>1, Forth
  <2>3. buf[x] = played + 1 + (u - 1)
    BY <2>1 DEF w
  <2> HIDE DEF x
  <2>4. x = c
    BY <1>1, <1>3, <2>1, <2>2
  <2>5. u \in Int
    BY <1>2 DEF Cells
  <2> QED
    BY <1>1, <2>3, <2>4, <2>5
<1>4. ASSUME NEW u \in 0..w, NEW c \in 0..(Size - 1),
             c = tail + u \/ c = tail + u - Size
      PROVE  (tail + u) % Size = c
  <2>1. u \in Int /\ 0 <= u /\ u <= Size
    BY <1>1, <1>2 DEF Cells
  <2>2. (tail + u) % Size = IF tail + u < Size THEN tail + u ELSE tail + u - Size
    BY <2>1, Forth
  <2> QED
    BY <1>1, <1>4, <2>1, <2>2
<1>5. SUFFICES \E u \in 0..w : tail' = (tail + u) % Size /\ played' = played + u
  BY DEF w
<1>6. ASSUME NEW k \in Nat, k <= w, tail + k < Size,
             tail' = tail + k, played' = Music!Written(tail, k)
      PROVE  \E u \in 0..w : tail' = (tail + u) % Size /\ played' = played + u
  <2>1. k \in 0..w /\ tail + k \in 0..(Size - 1)
    BY <1>1, <1>2, <1>6 DEF Cells
  <2>2. tail' = (tail + k) % Size
    BY <1>4, <1>6, <2>1
  <2>3. CASE k = 0
    BY <1>1, <1>6, <2>1, <2>2, <2>3 DEF Music!Written
  <2>4. CASE k > 0
    <3>1. k \in 1..w /\ tail + k - 1 \in 0..(Size - 1) /\ tail + k - 1 = tail + (k - 1)
          /\ ~(tail + k <= 0) /\ k # 0
      BY <1>1, <1>2, <1>6, <2>4 DEF Cells
    <3>2. buf[tail + k - 1] = played + k
      BY <1>3, <3>1
    <3>3. Music!Written(tail, k) = buf[tail + k - 1]
      BY <3>1 DEF Music!Written
    <3> QED
      BY <1>6, <2>1, <2>2, <3>2, <3>3
  <2> QED
    BY <1>6, <2>3, <2>4
<1>7. CASE head < tail
  <2>1. PICK k \in 0..(Size - tail) :
          IF k < Size - tail
          THEN tail' = tail + k /\ played' = Music!Written(tail, k)
          ELSE \E j \in 0..head :
                 tail' = j /\ played' = IF j > 0 THEN Music!Written(0, j) ELSE Music!Written(tail, k)
    BY <1>1, <1>7 DEF Music!WriteDevice
  <2>2. CASE k < Size - tail
    <3>1. k \in Nat /\ k <= w /\ tail + k < Size
      BY <1>1, <1>2, <1>7, <2>2
    <3> QED
      BY <1>6, <2>1, <2>2, <3>1
  <2>3. CASE ~(k < Size - tail)
    <3>1. PICK j \in 0..head :
            tail' = j /\ played' = IF j > 0 THEN Music!Written(0, j) ELSE Music!Written(tail, k)
      BY <2>1, <2>3
    <3>2. k = Size - tail /\ k > 0
      BY <1>1, <2>3
    <3> DEFINE u == Size - tail + j
    <3>3. u \in 1..w /\ u \in 0..w /\ j = tail + u - Size /\ j \in 0..(Size - 1)
      BY <1>1, <1>2, <1>7
    <3>4. tail' = (tail + u) % Size
      BY <1>4, <3>1, <3>3
    <3>5. CASE j > 0
      <4>1. j - 1 \in 0..(Size - 1) /\ j - 1 = tail + (u - 1) - Size /\ ~(0 + j <= 0) /\ j # 0
            /\ 0 + j - 1 = j - 1
        BY <1>1, <3>5
      <4>2. buf[j - 1] = played + u
        BY <1>3, <3>3, <4>1
      <4>3. played' = buf[j - 1]
        BY <3>1, <3>5, <4>1 DEF Music!Written
      <4> QED
        BY <3>3, <3>4, <4>2, <4>3
    <3>6. CASE j = 0
      <4>1. Size - 1 \in 0..(Size - 1) /\ Size - 1 = tail + (u - 1) /\ ~(tail + k <= 0) /\ k # 0
            /\ tail + k - 1 = Size - 1 /\ ~(j > 0)
        BY <1>1, <3>2, <3>6
      <4>2. buf[Size - 1] = played + u
        BY <1>3, <3>3, <4>1
      <4>3. played' = buf[Size - 1]
        BY <3>1, <4>1 DEF Music!Written
      <4> QED
        BY <3>3, <3>4, <4>2, <4>3
    <3> QED
      BY <1>1, <3>5, <3>6
  <2> QED
    BY <2>2, <2>3
<1>8. CASE head >= tail
  <2>1. PICK k \in 0..(head - tail) : tail' = tail + k /\ played' = Music!Written(tail, k)
    BY <1>1, <1>8 DEF Music!WriteDevice
  <2>2. k \in Nat /\ k <= w /\ tail + k < Size
    BY <1>1, <1>2, <1>8
  <2> QED
    BY <1>6, <2>1, <2>2
<1> QED
  BY <1>1, <1>7, <1>8

LEMMA SendMpegDataStep == MusicSizes /\ MusicInv /\ Music!send_mpeg_data => MusicInv'
<1> SUFFICES ASSUME MusicSizes, MusicInv, Music!send_mpeg_data  PROVE MusicInv'
  OBVIOUS
<1>1. /\ loop = "send" /\ loop' = "select"
      /\ UNCHANGED <<buf, playmode, seq_history, last, acked, rptr, datagrams, ack, base,
                     newest>>
  BY DEF Music!send_mpeg_data, Music!server
<1>2. /\ Answers' /\ Network'
      /\ Received' = Received /\ (Music!wptr)' = Music!wptr
  BY <1>1 DEF MusicInv, Answers, Network, Cells, Datagram, Music!Lifetime, Received, Music!wptr,
     Music!sent
<1>3. History'
  BY <1>1 DEF MusicInv, History, Music!Lifetime, Music!Play
<1>4. Music!Play # Music!Stop /\ Music!Pause # Music!Stop
  BY DEF Music!Play, Music!Stop, Music!Pause
<1>5. ASSUME /\ head' \in Cells /\ tail' \in Int /\ tail' < Size
             /\ troubles' \in 0..Troubles /\ 0 <= tail' + troubles'
             /\ played' \in 0..Bytes /\ astray' \in BOOLEAN
      PROVE  MusicTypes'
  BY <1>1, <1>5 DEF MusicInv, MusicTypes, Cells, Controls, Music!Play, Music!Stop, Music!Pause
<1>6. /\ head \in Cells /\ tail \in Int /\ tail < Size /\ 0 <= tail + troubles
      /\ troubles \in 0..Troubles /\ played \in 0..Bytes /\ base \in 0..Bytes
      /\ astray \in BOOLEAN /\ rptr \in Cells /\ 0 \in Cells
  BY DEF MusicInv, MusicTypes, Cells, MusicSizes
<1>7. /\ Music!wptr \in Cells /\ last.n \in Cells /\ ack.rptr \in Cells /\ last.id \in Nat
      /\ last.first \in Nat \ {0} /\ Music!sent \in 0..Bytes
  BY SentFacts DEF MusicInv, Answers
<1>8. CASE playmode = Music!Play /\ Music!WriteDevice /\ UNCHANGED <<head, troubles, astray>>
  <2>1. MusicTypes'
    BY <1>5, <1>6, <1>8, WriteTypes DEF MusicInv
  <2>2. Stopped'
    BY <1>1, <1>4, <1>8 DEF Stopped, Music!Stop
  <2>3. CASE astray
    <3>1. ~InStep'
      BY <1>8, <2>3 DEF InStep
    <3> QED
      BY <1>2, <1>3, <2>1, <2>2, <3>1 DEF MusicInv, Contents, Agree, Space
  <2>4. CASE ~astray
    <3>1. InStep
      BY <1>4, <1>8, <2>4 DEF InStep
    <3>2. /\ tail \in Cells /\ Stored \in Cells /\ (head - tail) % Size <= Stored
          /\ (head - tail) % Size \in Cells
          /\ \A i \in Cells : i < Stored => buf[(tail + i) % Size] = played + 1 + i
      BY <1>6, <3>1, Between DEF MusicInv, Contents
    <3>3. \A i \in Cells : i < (head - tail) % Size => i < Stored
      BY <3>2 DEF Cells, MusicSizes
    <3>4. PICK u \in 0..((head - tail) % Size) :
            tail' = (tail + u) % Size /\ played' = played + u
      BY <1>8, <3>2, <3>3, WriteAdvances DEF MusicInv
    <3>5. u \in Cells /\ u <= Stored /\ Stored - u \in Cells /\ u + (Stored - u) = Stored
          /\ u + (Stored - u) < Size
      BY <3>2, <3>4 DEF Cells, MusicSizes
    <3>6. Received \in Int /\ Stored = Received - played /\ played \in Int
      BY <1>6, <1>7 DEF Received, Stored, MusicSizes
    <3>7. Stored' = Stored - u
      BY <1>2, <3>4, <3>5, <3>6 DEF Stored, Cells
    <3>8. tail' \in Cells
      BY <3>2, <3>4, <3>5, Forth DEF Cells, MusicSizes
    <3>9. End' = End
      <4>1. (tail' + (Stored - u)) % Size = (tail + (u + (Stored - u))) % Size
        BY <3>2, <3>4, <3>5, Along
      <4> QED
        BY <3>5, <3>7, <4>1 DEF End
    <3>10. (head' - tail') % Size <= Stored'
      <4> DEFINE h == (head - tail) % Size
      <4>1. h \in Cells /\ u <= h /\ h <= Stored
        BY <3>2, <3>4 DEF Cells, MusicSizes
      <4>2. head = (tail + h) % Size
        <5>1. h = IF head >= tail THEN head - tail ELSE head - tail + Size
          BY <1>6, <3>2, Between
        <5> HIDE DEF h
        <5>2. h \in Int /\ 0 <= h /\ h <= Size
          BY <4>1 DEF Cells, MusicSizes
        <5>3. (tail + h) % Size = IF tail + h < Size THEN tail + h ELSE tail + h - Size
          BY <3>2, <5>2, Forth
        <5> QED
          BY <1>6, <3>2, <5>1, <5>3 DEF Cells, MusicSizes
      <4> HIDE DEF h
      <4>3. (head - tail') % Size = h - u
        <5>1. (((tail + h) % Size) - ((tail + u) % Size)) % Size = IF h >= u THEN h - u ELSE h - u + Size
          BY <3>2, <3>5, <4>1, Along
        <5>2. h >= u
          BY <3>5, <4>1 DEF Cells, MusicSizes
        <5> QED
          BY <3>4, <4>2, <5>1, <5>2
      <4> QED
        BY <1>8, <3>5, <3>7, <4>1, <4>3 DEF Cells, MusicSizes
    <3>11. ASSUME NEW i \in Cells, i < Stored'  PROVE buf'[(tail' + i) % Size] = played' + 1 + i
      <4>1. u + i \in Cells /\ u + i < Stored /\ u + i < Size
        BY <3>2, <3>5, <3>7, <3>11 DEF Cells, MusicSizes
      <4>2. (tail' + i) % Size = (tail + (u + i)) % Size
        BY <3>2, <3>4, <3>5, <4>1, Along
      <4>3. buf[(tail + (u + i)) % Size] = played + 1 + (u + i)
        BY <3>2, <4>1
      <4>4. played + 1 + (u + i) = played' + 1 + i
        BY <3>4, <3>5, <3>6 DEF Cells
      <4> QED
        BY <1>1, <4>2, <4>3, <4>4
    <3>12. Contents'
      <4>1. Stored' \in Cells
        BY <3>5, <3>7
      <4> QED
        BY <3>8, <3>10, <3>11, <4>1 DEF Contents, Cells
    <3>13. Agree'
      BY <1>1, <1>2, <3>1, <3>9 DEF MusicInv, Agree, Music!Stop
    <3>14. Space'
      <4>1. /\ acked => Stored <= (Music!wptr - rptr) % Size
            /\ ~acked /\ ack.id = last.id => Stored <= (Music!wptr - ack.rptr) % Size
            /\ newest # last.id => Stored + last.n < Size
        BY <3>1 DEF MusicInv, Space
      <4> DEFINE a == (Music!wptr - rptr) % Size
                 b == (Music!wptr - ack.rptr) % Size
      <4>2. a \in Cells /\ b \in Cells
        BY <1>6, <1>7, Between
      <4>4. acked => Stored <= a
        BY <4>1
      <4>5. ~acked /\ ack.id = last.id => Stored <= b
        BY <4>1
      <4> HIDE DEF a, b
      <4>6. Stored' <= Stored /\ Stored' \in Cells
        BY <3>5, <3>7 DEF Cells, MusicSizes
      <4>7. acked => Stored' <= a
        BY <3>2, <4>2, <4>4, <4>6 DEF Cells, MusicSizes
      <4>8. ~acked /\ ack.id = last.id => Stored' <= b
        BY <3>2, <4>2, <4>5, <4>6 DEF Cells, MusicSizes
      <4>9. newest # last.id => Stored' + last.n < Size
        BY <1>7, <3>2, <4>1, <4>6 DEF Cells, MusicSizes
      <4> USE DEF a, b
      <4>10. acked' => Stored' <= ((Music!wptr)' - rptr') % Size
        BY <1>1, <1>2, <4>7
      <4>11. ~acked' /\ ack'.id = last'.id => Stored' <= ((Music!wptr)' - ack'.rptr) % Size
        BY <1>1, <1>2, <4>8
      <4> QED
        BY <1>1, <4>9, <4>10, <4>11 DEF Space
    <3> QED
      BY <1>2, <1>3, <2>1, <2>2, <3>12, <3>13, <3>14 DEF MusicInv
  <2> QED
    BY <1>6, <2>3, <2>4
<1>9. CASE playmode = Music!Play /\ Music!DeviceFails
  <2>1. /\ astray' = TRUE /\ troubles' = troubles + 1 /\ troubles < Troubles
        /\ \/ head' = 0 /\ tail' = 0
           \/ tail' = tail - 1 /\ UNCHANGED head
           \/ tail' = -1 /\ UNCHANGED head
        /\ UNCHANGED played
    BY <1>9 DEF Music!DeviceFails
  <2>2. /\ head' \in Cells /\ tail' \in Int /\ tail' < Size
        /\ troubles' \in 0..Troubles /\ 0 <= tail' + troubles'
    BY <1>6, <2>1 DEF MusicSizes
  <2>3. MusicTypes'
    BY <1>5, <1>6, <2>1, <2>2
  <2>4. ~InStep' /\ Stopped'
    BY <2>1 DEF InStep, Stopped
  <2> QED
    BY <1>2, <1>3, <2>3, <2>4 DEF MusicInv, Contents, Agree, Space
<1>10. CASE playmode = Music!Pause /\ UNCHANGED <<head, tail, troubles, played, astray>>
  <2>1. MusicTypes'
    BY <1>5, <1>6, <1>10
  <2>2. Stored' = Stored /\ End' = End /\ InStep' = InStep
    BY <1>1, <1>2, <1>4, <1>10 DEF Stored, End, InStep, Music!Stop
  <2>3. Contents' /\ Agree'
    BY <1>1, <1>2, <1>10, <2>2 DEF MusicInv, Contents, Agree, Cells, Music!Stop
  <2>4. Space'
    BY <1>1, <1>2, <1>10, <2>2 DEF MusicInv, Space
  <2>5. Stopped'
    BY <1>1, <1>4, <1>10 DEF Stopped, Music!Stop
  <2> QED
    BY <1>2, <1>3, <2>1, <2>3, <2>4, <2>5 DEF MusicInv
<1>11. CASE playmode = Music!Stop /\ tail' = 0 /\ played' = base
            /\ UNCHANGED <<head, troubles, astray>>
  <2>1. 0 <= 0 + troubles /\ 0 < Size /\ 0 \in Int
    BY <1>6 DEF MusicSizes
  <2>2. MusicTypes'
    BY <1>5, <1>6, <1>11, <2>1
  <2>3. Stopped'
    BY <1>1, <1>2, <1>11 DEF MusicInv, Stopped, Music!Stop
  <2>4. CASE astray
    <3>1. ~InStep'
      BY <1>11, <2>4 DEF InStep
    <3> QED
      BY <1>2, <1>3, <2>2, <2>3, <3>1 DEF MusicInv, Contents, Agree, Space
  <2>5. CASE ~astray
    <3>1. /\ head = 0 /\ base = Received
          /\ newest = last.id => Music!wptr = 0
          /\ newest # last.id /\ last.control # Music!Stop => last.wptr = 0
          /\ \A m \in datagrams : m.id = newest => (m.wptr + m.n) % Size = 0
      BY <1>11, <2>5 DEF MusicInv, Stopped
    <3>2. Received \in Int
      BY <1>7 DEF Received, MusicSizes
    <3>3. Stored' = 0 /\ 0 % Size = 0 /\ (0 - 0) % Size = 0
      BY <1>2, <1>11, <3>1, <3>2 DEF Stored, MusicSizes
    <3>4. End' = 0
      BY <1>11, <3>3 DEF End
    <3>5. Contents'
      BY <1>6, <1>11, <3>1, <3>3 DEF Contents, Cells, MusicSizes
    <3>6. Agree'
      BY <1>1, <1>2, <3>1, <3>4 DEF Agree, Music!Stop
    <3>7. /\ 0 <= (Music!wptr - rptr) % Size /\ 0 <= (Music!wptr - ack.rptr) % Size
          /\ 0 + last.n < Size
      BY <1>6, <1>7, Between DEF Cells, MusicSizes
    <3>8. Space'
      BY <1>1, <1>2, <3>3, <3>7 DEF Space
    <3> QED
      BY <1>2, <1>3, <2>2, <2>3, <3>5, <3>6, <3>8 DEF MusicInv
  <2> QED
    BY <1>6, <2>4, <2>5
<1> QED
  BY <1>8, <1>9, <1>10, <1>11 DEF Music!send_mpeg_data

-----------------------------------------------------------------------------
(* receive_mpeg_data.                                                      *)

\* Where a datagram begins that ends a bytes behind t.
LEMMA Begin ==
  ASSUME MusicSizes, NEW t \in Cells, NEW a \in Cells, NEW n \in Cells, n <= a, NEW w \in Cells,
         (w + n) % Size = (t + a) % Size
  PROVE  a - n \in Cells /\ w = (t + (a - n)) % Size
<1>1. /\ Size \in Nat \ {0} /\ t \in 0..(Size - 1) /\ a \in 0..(Size - 1)
      /\ n \in 0..(Size - 1) /\ w \in 0..(Size - 1) /\ a - n \in 0..(Size - 1)
  BY DEF MusicSizes, Cells
<1>2. (w + n) % Size = IF w + n < Size THEN w + n ELSE w + n - Size
  <2>1. n \in Int /\ 0 <= n /\ n <= Size
    BY <1>1
  <2> QED
    BY <2>1, Forth
<1>3. (t + a) % Size = IF t + a < Size THEN t + a ELSE t + a - Size
  <2>1. a \in Int /\ 0 <= a /\ a <= Size
    BY <1>1
  <2> QED
    BY <2>1, Forth
<1>4. (t + (a - n)) % Size = IF t + (a - n) < Size THEN t + (a - n) ELSE t + (a - n) - Size
  <2>1. a - n \in Int /\ 0 <= a - n /\ a - n <= Size
    BY <1>1
  <2> QED
    BY <2>1, Forth
<1> DEFINE x == (w + n) % Size
           y == (t + a) % Size
           z == (t + (a - n)) % Size
<1>5. x = y /\ x = (IF w + n < Size THEN w + n ELSE w + n - Size)
      /\ y = (IF t + a < Size THEN t + a ELSE t + a - Size)
      /\ z = (IF t + (a - n) < Size THEN t + (a - n) ELSE t + (a - n) - Size)
  BY <1>2, <1>3, <1>4
<1> HIDE DEF x, y, z
<1>6. w = z
  BY <1>1, <1>5
<1> QED
  BY <1>1, <1>6 DEF z, Cells

\* The data of a datagram in the ring, after the bytes before it.
LEMMA Copied ==
  ASSUME MusicSizes, tail \in Cells, NEW m, m.n \in Cells, NEW a \in Cells, a + m.n < Size,
         m.wptr = (tail + a) % Size, played \in Int, m.first = played + 1 + a,
         \A i \in Cells : i < a => buf[(tail + i) % Size] = played + 1 + i
  PROVE  \A i \in Cells : i < a + m.n => Music!Copy(m)[(tail + i) % Size] = played + 1 + i
<1> SUFFICES ASSUME NEW i \in Cells, i < a + m.n
             PROVE  Music!Copy(m)[(tail + i) % Size] = played + 1 + i
  OBVIOUS
<1> DEFINE c == (tail + i) % Size
           k == (c - m.wptr) % Size
<1>1. c \in Cells
  BY Forth DEF Cells, MusicSizes
<1>2. k = IF i >= a THEN i - a ELSE i - a + Size
  BY Along
<1>3. Music!Copy(m)[c] = IF k < m.n THEN m.first + k ELSE buf[c]
  BY <1>1 DEF Music!Copy, Cells
<1>4. i < a => buf[c] = played + 1 + i
  OBVIOUS
<1> HIDE DEF c, k
<1>5. CASE i >= a
  <2>1. k = i - a /\ k < m.n
    BY <1>2, <1>5 DEF Cells, MusicSizes
  <2>2. m.first + k = played + 1 + i
    BY <2>1 DEF Cells
  <2> QED
    BY <1>3, <2>1, <2>2 DEF c
<1>6. CASE i < a
  <2>1. k = i - a + Size /\ ~(k < m.n)
    BY <1>2, <1>6 DEF Cells, MusicSizes
  <2> QED
    BY <1>3, <1>4, <1>6, <2>1 DEF c
<1> QED
  BY <1>5, <1>6 DEF Cells

\* What is to follow of seq_history after a datagram.
LEMMA NextIsNew ==
  ASSUME MusicSizes, MusicInv, newest # last.id, last.n > 0
  PROVE  Music!History(last.id % Seqs) < last.id % Seqs
<1> DEFINE s == last.id % Seqs
<1>1. /\ last.id \in Nat /\ newest = last.id - 1 /\ Seqs \in Nat \ {0} /\ 3 <= Seqs
      /\ last.control = Music!Play /\ seq_history \in Int
  BY SentFacts DEF MusicInv, Answers, MusicSizes, Network, Datagram, MusicTypes
<1>2. s \in 0..(Seqs - 1)
  BY <1>1
<1>3. seq_history # s
  <2>1. CASE seq_history = -1
    BY <1>2, <2>1
  <2>2. CASE seq_history # -1
    <3>1. PICK d \in 0..(Music!Lifetime + 1) : seq_history = (newest - d) % Seqs
      BY <2>2 DEF MusicInv, History
    <3>2. d + 1 \in 1..(Seqs - 1) /\ newest - d \in Int /\ (newest - d) + (d + 1) = last.id
      BY <1>1, <3>1 DEF Music!Lifetime
    <3>3. ((newest - d) + (d + 1)) % Seqs # (newest - d) % Seqs
      BY <1>1, <3>2, ModNext
    <3> QED
      BY <3>1, <3>2, <3>3
  <2> QED
    BY <2>1, <2>2
<1> HIDE DEF s
<1>4. Music!History(s) < s
  <2>1. Music!History(s) = IF seq_history > s THEN -1 ELSE seq_history
    BY DEF Music!History
  <2>2. CASE seq_history > s
    BY <1>2, <2>1, <2>2
  <2>3. CASE ~(seq_history > s)
    BY <1>1, <1>2, <1>3, <2>1, <2>3
  <2> QED
    BY <2>2, <2>3
<1> QED
  BY <1>4 DEF s

\* The parts of the step that come from the datagram alone.
LEMMA ReceiveTypes ==
  ASSUME MusicSizes, MusicInv, NEW m \in datagrams,
         head' = (m.wptr + m.n) % Size \/ head' = m.wptr,
         buf' = Music!Copy(m) \/ buf' = buf,
         playmode' = m.control, loop' = "send", base' = m.first - 1,
         seq_history' \in {-1, seq_history, m.id % Seqs},
         UNCHANGED <<tail, rptr, troubles, played, acked>>, astray' \in BOOLEAN
  PROVE  MusicTypes'
<1>1. Datagram(m) /\ MusicTypes
  BY DEF MusicInv, Network
<1>2. /\ m.wptr \in Cells /\ m.n \in Cells /\ m.first \in Nat \ {0}
      /\ m.first + m.n - 1 <= Bytes /\ m.id \in Nat /\ m.control \in Controls
  BY <1>1 DEF Datagram
<1>3. head' \in Cells
  <2>1. m.n \in Int /\ 0 <= m.n /\ m.n <= Size
    BY <1>2 DEF Cells, MusicSizes
  <2>2. (m.wptr + m.n) % Size \in Cells
    BY <1>2, <2>1, Forth
  <2> QED
    BY <1>2, <2>2
<1>4. Music!Copy(m) \in [Cells -> 0..Bytes]
  <2> SUFFICES ASSUME NEW i \in 0..(Size - 1)
               PROVE  (IF (i - m.wptr) % Size < m.n THEN m.first + ((i - m.wptr) % Size)
                                                    ELSE buf[i]) \in 0..Bytes
    BY DEF Music!Copy, Cells
  <2>1. buf[i] \in 0..Bytes
    BY <1>1 DEF MusicTypes, Cells
  <2> DEFINE k == (i - m.wptr) % Size
  <2>2. k \in Cells
    BY <1>2, Between DEF Cells
  <2> HIDE DEF k
  <2>3. k < m.n => m.first + k \in 0..Bytes
    BY <1>2, <2>2 DEF Cells, MusicSizes
  <2>4. (IF k < m.n THEN m.first + k ELSE buf[i]) \in 0..Bytes
    BY <2>1, <2>3
  <2> QED
    BY <2>4 DEF k
<1>5. buf' \in [Cells -> 0..Bytes]
  BY <1>1, <1>4 DEF MusicTypes
<1>6. base' \in 0..Bytes
  BY <1>2 DEF Cells, MusicSizes
<1>7. seq_history' \in -1..(Seqs - 1)
  <2>1. m.id % Seqs \in 0..(Seqs - 1)
    BY <1>2 DEF MusicSizes
  <2>2. seq_history \in -1..(Seqs - 1)
    BY <1>1 DEF MusicTypes
  <2> QED
    BY <2>1, <2>2 DEF MusicSizes
<1>8. /\ rptr' \in Cells /\ tail' \in Int /\ tail' < Size /\ 0 <= tail' + troubles'
      /\ played' \in 0..Bytes /\ troubles' \in 0..Troubles /\ acked' \in BOOLEAN
  BY <1>1 DEF MusicTypes
<1>9. playmode' \in Controls /\ loop' \in {"select", "send"} /\ astray' \in BOOLEAN
      /\ Cells' = Cells /\ Controls' = Controls
  BY <1>2 DEF Cells, Controls, Music!Play, Music!Stop, Music!Pause
<1> QED
  BY <1>3, <1>5, <1>6, <1>7, <1>8, <1>9, Zenon DEF MusicTypes

\* The step, its cases told apart: datagram m, and whether it is taken for new.
Arrival(m, new) ==
  /\ loop = "select" /\ loop' = "send" /\ m \in datagrams /\ datagrams' \subseteq datagrams
  /\ new => m.n # 0 /\ head' = (m.wptr + m.n) % Size /\ buf' = Music!Copy(m)
             /\ seq_history' = m.id % Seqs
  /\ ~new => head' = m.wptr /\ buf' = buf
             /\ seq_history' = Music!History(m.id % Seqs)
             /\ (m.n = 0 \/ ~(Music!History(m.id % Seqs) < m.id % Seqs))
  /\ playmode' = m.control /\ base' = m.first - 1
  /\ ack' = [id |-> m.id, rptr |-> tail % Size] \/ ack' = ack
  /\ newest' = IF m.id > newest THEN m.id ELSE newest
  /\ astray' = (\/ m.id < newest
                \/ m.id = newest /\ (astray \/ (m.n > 0 /\ played >= m.first))
                \/ m.id > newest /\ astray /\ m.control # Music!Stop)
  /\ UNCHANGED <<tail, last, acked, rptr, troubles, played>>

LEMMA Arrives == ASSUME Music!Receive PROVE \E m : \E new \in BOOLEAN : Arrival(m, new)
<1>1. PICK m \in datagrams :
       LET s == m.id % Seqs
           new == m.n # 0 /\ Music!History(s) < s
       IN /\ datagrams' \in {datagrams, datagrams \ {m}}
          /\ head' = IF new THEN (m.wptr + m.n) % Size ELSE m.wptr
          /\ buf' = IF new THEN Music!Copy(m) ELSE buf
          /\ playmode' = m.control
          /\ seq_history' = IF new THEN s ELSE Music!History(s)
          /\ ack' = IF seq_history' <= s THEN [id |-> m.id, rptr |-> tail % Size] ELSE ack
          /\ base' = m.first - 1
          /\ newest' = IF m.id > newest THEN m.id ELSE newest
          /\ astray' = (\/ m.id < newest
                        \/ m.id = newest /\ (astray \/ (m.n > 0 /\ played >= m.first))
                        \/ m.id > newest /\ astray /\ m.control # Music!Stop)
  BY DEF Music!Receive
<1>2. loop = "select" /\ loop' = "send" /\ UNCHANGED <<tail, last, acked, rptr, troubles, played>>
  BY DEF Music!Receive, Music!server
<1>3. datagrams' \subseteq datagrams
  BY <1>1
<1>4. CASE m.n # 0 /\ Music!History(m.id % Seqs) < m.id % Seqs
  <2>1. Arrival(m, TRUE)
    BY <1>1, <1>2, <1>3, <1>4, Zenon DEF Arrival
  <2> QED
    BY <2>1
<1>5. CASE ~(m.n # 0 /\ Music!History(m.id % Seqs) < m.id % Seqs)
  <2>1. Arrival(m, FALSE)
    BY <1>1, <1>2, <1>3, <1>5, Zenon DEF Arrival
  <2> QED
    BY <2>1
<1> QED
  BY <1>4, <1>5

\* The client's answers, the network and the sequence number.
LEMMA ReceiveNumbers ==
  ASSUME MusicSizes, MusicInv, NEW m, NEW new \in BOOLEAN, Arrival(m, new)
  PROVE  /\ Answers' /\ Network' /\ History'
         /\ m.id <= newest => newest' = newest
         /\ m.id > newest => newest' = last.id /\ newest = last.id - 1 /\ m = last /\ ~acked
<1>1. /\ m \in datagrams /\ datagrams' \subseteq datagrams
      /\ newest' = (IF m.id > newest THEN m.id ELSE newest)
      /\ ack' = [id |-> m.id, rptr |-> tail % Size] \/ ack' = ack
      /\ UNCHANGED <<tail, last, acked>>
  BY DEF Arrival
<1>2. /\ m.id \in Nat /\ m.id <= last.id /\ last.id - m.id <= Music!Lifetime
      /\ (m.id = last.id => m = last) /\ Datagram(m) /\ last.id \in Nat
  BY <1>1 DEF MusicInv, Network, Datagram
<1>3. /\ newest \in Nat /\ newest \in {last.id - 1, last.id} /\ (acked => newest = last.id)
      /\ (~acked => 1 <= last.id) /\ ack.id \in Nat /\ ack.id <= newest /\ ack.rptr \in Cells
  BY DEF MusicInv, Answers
<1>4. m.id > newest => newest' = last.id /\ newest = last.id - 1 /\ m.id = last.id
  BY <1>1, <1>2, <1>3
<1>5. m.id <= newest => newest' = newest
  BY <1>1, <1>2, <1>3
<1>6. tail % Size \in Cells /\ tail \in Int
  BY DEF MusicInv, MusicTypes, Cells, MusicSizes
<1>7. Answers'
  <2>1. newest' \in Nat /\ newest' \in {last.id - 1, last.id} /\ newest <= newest' /\ m.id <= newest'
    BY <1>2, <1>3, <1>4, <1>5
  <2>2. acked => newest' = last.id
    BY <1>2, <1>3, <1>4, <1>5
  <2>3. ack'.id \in Nat /\ ack'.id <= newest' /\ ack'.rptr \in Cells
    <3>1. CASE ack' = ack
      BY <1>3, <2>1, <3>1
    <3>2. CASE ack' = [id |-> m.id, rptr |-> tail % Size]
      BY <1>2, <1>6, <2>1, <3>2
    <3> QED
      BY <1>1, <3>1, <3>2
  <2> QED
    BY <1>1, <1>3, <2>1, <2>2, <2>3 DEF Answers, Cells
<1>8. Network'
  BY <1>1 DEF MusicInv, Network, Datagram, Music!Lifetime
<1>9. History'
  <2> SUFFICES ASSUME seq_history' # -1
               PROVE  \E d \in 0..(Music!Lifetime + 1) :
                        /\ seq_history' = (newest' - d) % Seqs
                        /\ d = Music!Lifetime + 1 =>
                             (newest' = last.id <=> last.control # Music!Play)
    BY <1>1 DEF History, Music!Lifetime, Music!Play
  <2>0. Music!Lifetime \in Int
    BY DEF Music!Lifetime, MusicSizes
  <2>1. CASE new
    <3>1. seq_history' = m.id % Seqs
      BY <2>1 DEF Arrival
    <3> DEFINE d == newest' - m.id
    <3>2. d \in 0..(Music!Lifetime + 1) /\ d # Music!Lifetime + 1 /\ newest' - d = m.id
      BY <1>2, <1>3, <1>4, <1>5, <2>0
    <3> QED
      BY <3>1, <3>2
  <2>2. CASE ~new
    <3>1. /\ seq_history' = Music!History(m.id % Seqs)
          /\ (m.n = 0 \/ ~(Music!History(m.id % Seqs) < m.id % Seqs))
      BY <2>2 DEF Arrival
    <3>2. seq_history' = seq_history
      BY <3>1 DEF Music!History
    <3>3. PICK d \in 0..(Music!Lifetime + 1) :
            /\ seq_history = (newest - d) % Seqs
            /\ d = Music!Lifetime + 1 => (newest = last.id <=> last.control # Music!Play)
      BY <3>2 DEF MusicInv, History
    <3>4. CASE m.id <= newest
      BY <1>5, <3>2, <3>3, <3>4
    <3>5. CASE m.id > newest
      <4>1. /\ newest' = last.id /\ newest = last.id - 1 /\ m = last /\ newest # last.id
        BY <1>2, <1>3, <1>4, <3>5
      <4>2. ~(last.n > 0)
        BY <3>1, <4>1, NextIsNew DEF MusicInv, Network, Datagram, Cells
      <4>3. last.control # Music!Play
        BY <4>2 DEF MusicInv, Network, Datagram
      <4>4. d + 1 \in 0..(Music!Lifetime + 1) /\ newest' - (d + 1) = newest - d
        BY <1>2, <2>0, <3>3, <4>1, <4>3
      <4> QED
        BY <3>2, <3>3, <4>1, <4>3, <4>4
    <3> QED
      BY <1>2, <1>3, <3>4, <3>5
  <2> QED
    BY <2>1, <2>2
<1> QED
  BY <1>2, <1>3, <1>4, <1>5, <1>7, <1>8, <1>9

\* The datagram that is the newest comes again, none of it is played.
LEMMA TwiceStep ==
  ASSUME MusicSizes, MusicInv, NEW m, NEW new \in BOOLEAN, Arrival(m, new), m.id = newest, ~astray'
  PROVE  Contents' /\ Agree' /\ Space' /\ Stopped'
<1>1. /\ loop = "select" /\ loop' = "send" /\ m \in datagrams /\ datagrams' \subseteq datagrams
      /\ new => head' = (m.wptr + m.n) % Size /\ buf' = Music!Copy(m) /\ m.n # 0
      /\ ~new => head' = m.wptr /\ buf' = buf
      /\ playmode' = m.control /\ base' = m.first - 1
      /\ ack' = [id |-> m.id, rptr |-> tail % Size] \/ ack' = ack
      /\ UNCHANGED <<tail, last, acked, rptr, troubles, played>>
  BY DEF Arrival
<1>2. newest' = newest /\ newest \in Nat
  BY ReceiveNumbers DEF MusicInv, Answers
<1>3. ~astray /\ ~(m.n > 0 /\ played >= m.first)
  BY DEF Arrival
<1>4. /\ Received' = Received /\ Stored' = Stored /\ End' = End
      /\ (Music!wptr)' = Music!wptr
  BY <1>1, <1>2, SameRing
<1>5. InStep
  BY <1>1, <1>3 DEF InStep
<1>6. /\ m.wptr \in Cells /\ m.n \in Cells /\ m.first \in Nat \ {0} /\ m.control \in Controls
      /\ m.control = Music!Play <=> m.n > 0
      /\ m.control = Music!Stop => m.wptr = 0
      /\ (m.id = last.id => m = last) /\ (m.id = last.id - 1 => m.first + m.n = last.first)
  BY <1>1 DEF MusicInv, Network, Datagram
<1>7. /\ tail \in Cells /\ Stored \in Cells
      /\ \A i \in Cells : i < Stored => buf[(tail + i) % Size] = played + 1 + i
  BY <1>5 DEF MusicInv, Contents
<1>8. (m.wptr + m.n) % Size = End /\ End = (tail + Stored) % Size
  BY <1>1, <1>5 DEF MusicInv, Agree, End
<1>9. Received = m.first + m.n - 1 /\ Received \in Int
  <2>1. newest \in {last.id - 1, last.id} /\ last.id \in Nat /\ last.first \in Nat \ {0}
        /\ last.n \in Cells
    BY SentFacts DEF MusicInv, Answers
  <2>2. CASE newest = last.id
    BY <1>6, <2>1, <2>2 DEF Received, Music!sent, Cells
  <2>3. CASE newest # last.id
    BY <1>6, <2>1, <2>3 DEF Received, Cells
  <2> QED
    BY <2>2, <2>3
<1>10. Stored = Received - played /\ played \in Int
  BY DEF Stored, MusicInv, MusicTypes
<1>11. m.n <= Stored /\ m.n \in Int /\ Stored \in Int
  BY <1>3, <1>6, <1>7, <1>9, <1>10 DEF Cells, MusicSizes
<1> DEFINE a == Stored - m.n
<1>12. a \in Cells /\ m.wptr = (tail + a) % Size
  <2>1. (m.wptr + m.n) % Size = (tail + Stored) % Size
    BY <1>8
  <2>2. m.wptr \in Cells /\ m.n \in Cells /\ tail \in Cells /\ Stored \in Cells /\ m.n <= Stored
    BY <1>6, <1>7, <1>11
  <2> QED
    BY <2>1, <2>2, Begin
<1>13. a + m.n = Stored /\ a + m.n < Size /\ m.first = played + 1 + a /\ a <= Stored /\ a \in Int
  BY <1>6, <1>7, <1>9, <1>10, <1>11 DEF Cells, MusicSizes
<1> HIDE DEF a
<1>14. Contents'
  <2>1. (head' - tail) % Size <= Stored
    <3>1. CASE new
      <4>1. (((tail + Stored) % Size) - tail) % Size = Stored
        BY <1>7, Along
      <4> QED
        BY <1>1, <1>8, <1>11, <3>1, <4>1
    <3>2. CASE ~new
      <4>1. (((tail + a) % Size) - tail) % Size = a
        BY <1>7, <1>12, Along
      <4> QED
        BY <1>1, <1>12, <1>13, <3>2, <4>1
    <3> QED
      BY <3>1, <3>2
  <2>2. \A i \in Cells : i < Stored => buf'[(tail + i) % Size] = played + 1 + i
    <3>1. CASE new
      <4>1. \A i \in Cells : i < a => buf[(tail + i) % Size] = played + 1 + i
        BY <1>7, <1>11, <1>12, <1>13 DEF Cells, MusicSizes
      <4>2. \A i \in Cells : i < a + m.n => Music!Copy(m)[(tail + i) % Size] = played + 1 + i
        BY <1>6, <1>7, <1>10, <1>12, <1>13, <4>1, Copied
      <4> QED
        BY <1>1, <1>13, <3>1, <4>2
    <3>2. CASE ~new
      BY <1>1, <1>7, <3>2
    <3> QED
      BY <3>1, <3>2
  <2> QED
    BY <1>1, <1>4, <1>7, <2>1, <2>2 DEF Contents, Cells
<1>15. Agree'
  BY <1>1, <1>2, <1>4, <1>5 DEF MusicInv, Agree, Music!Stop
<1>16. Space'
  <2>1. /\ acked => Stored <= (Music!wptr - rptr) % Size
        /\ ~acked /\ ack.id = last.id => Stored <= (Music!wptr - ack.rptr) % Size
        /\ newest # last.id => Stored + last.n < Size
    BY <1>5 DEF MusicInv, Space
  <2>2. m.id = last.id => Stored <= (Music!wptr - (tail % Size)) % Size
    <3>1. m.id = last.id => Music!wptr = (tail + Stored) % Size
      BY <1>5, <1>8 DEF MusicInv, Agree
    <3>2. tail % Size = tail
      BY <1>7 DEF Cells, MusicSizes
    <3>3. (((tail + Stored) % Size) - tail) % Size = Stored
      BY <1>7, Along
    <3> QED
      BY <1>11, <3>1, <3>2, <3>3
  <2>3. ~acked /\ ack'.id = last.id => Stored <= (Music!wptr - ack'.rptr) % Size
    <3>1. CASE ack' = ack
      BY <2>1, <3>1
    <3>2. CASE ack' = [id |-> m.id, rptr |-> tail % Size]
      <4>1. ack'.id = m.id /\ ack'.rptr = tail % Size
        BY <3>2
      <4> QED
        BY <2>2, <4>1
    <3> QED
      BY <1>1, <3>1, <3>2
  <2> QED
    BY <1>1, <1>2, <1>4, <2>1, <2>3 DEF Space
<1>17. Stopped'
  <2> SUFFICES ASSUME playmode' = Music!Stop  PROVE Stopped'
    BY DEF Stopped, Music!Stop
  <2>1. m.control = Music!Stop /\ m.wptr = 0 /\ m.n = 0
    <3>1. m.control # Music!Play
      BY <1>1 DEF Music!Play, Music!Stop
    <3> QED
      BY <1>1, <1>6, <3>1 DEF Cells
  <2>2. End = 0
    BY <1>8, <2>1 DEF MusicSizes
  <2>3. head' = 0 /\ base' = Received
    BY <1>1, <1>6, <1>9, <2>1
  <2> QED
    BY <1>1, <1>2, <1>4, <1>5, <2>2, <2>3 DEF MusicInv, Agree, Stopped, Music!Stop
<1> QED
  BY <1>14, <1>15, <1>16, <1>17

\* The next datagram comes.
LEMMA NextStep ==
  ASSUME MusicSizes, MusicInv, NEW m, NEW new \in BOOLEAN, Arrival(m, new), m.id > newest, ~astray'
  PROVE  Contents' /\ Agree' /\ Space' /\ Stopped'
<1>1. /\ loop = "select" /\ loop' = "send" /\ m \in datagrams /\ datagrams' \subseteq datagrams
      /\ new => head' = (m.wptr + m.n) % Size /\ buf' = Music!Copy(m) /\ m.n # 0
      /\ ~new => head' = m.wptr /\ buf' = buf
               /\ (m.n = 0 \/ ~(Music!History(m.id % Seqs) < m.id % Seqs))
      /\ playmode' = m.control /\ base' = m.first - 1
      /\ ack' = [id |-> m.id, rptr |-> tail % Size] \/ ack' = ack
      /\ UNCHANGED <<tail, last, acked, rptr, troubles, played>>
  BY DEF Arrival
<1>2. newest' = last.id /\ newest = last.id - 1 /\ m = last /\ ~acked /\ last.id \in Nat
      /\ newest # last.id /\ newest \in Nat
  BY ReceiveNumbers, SentFacts DEF MusicInv, Answers
<1>3. ~astray \/ m.control = Music!Stop
  BY DEF Arrival
<1>4. /\ last.wptr \in Cells /\ last.n \in Cells /\ last.first \in Nat \ {0}
      /\ last.control \in Controls
      /\ last.control = Music!Play <=> last.n > 0
      /\ last.control = Music!Stop => last.wptr = 0
      /\ \A x \in datagrams : x.id = last.id => x = last
  BY DEF MusicInv, Network, Datagram
<1>5. /\ Received' = last.first + last.n - 1 /\ (Music!wptr)' = (last.wptr + last.n) % Size
      /\ Received = last.first - 1
  BY <1>1, <1>2 DEF Received, Music!sent, Music!wptr
<1>6. \A x \in datagrams' : x.id = newest' => (x.wptr + x.n) % Size = (last.wptr + last.n) % Size
  BY <1>1, <1>2, <1>4
<1>7. CASE last.control = Music!Stop
  <2>1. ~InStep'
    BY <1>1, <1>2, <1>7 DEF InStep, Music!Stop
  <2>2. last.n = 0 /\ last.wptr = 0 /\ (last.wptr + last.n) % Size = 0
    <3>1. last.control # Music!Play
      BY <1>7 DEF Music!Play, Music!Stop
    <3>2. last.n = 0 /\ last.wptr = 0
      BY <1>4, <1>7, <3>1 DEF Cells
    <3> QED
      BY <3>2 DEF MusicSizes
  <2>3. head' = 0 /\ base' = Received'
    BY <1>1, <1>2, <1>4, <1>5, <2>2
  <2>4. Stopped'
    BY <1>1, <1>2, <1>5, <1>6, <2>2, <2>3 DEF Stopped
  <2> QED
    BY <2>1, <2>4 DEF Contents, Agree, Space
<1>8. CASE last.control # Music!Stop
  <2>1. InStep
    BY <1>1, <1>2, <1>3, <1>8 DEF InStep
  <2>2. /\ tail \in Cells /\ Stored \in Cells
        /\ \A i \in Cells : i < Stored => buf[(tail + i) % Size] = played + 1 + i
    BY <2>1 DEF MusicInv, Contents
  <2>3. last.wptr = (tail + Stored) % Size /\ Stored + last.n < Size
    BY <1>2, <1>8, <2>1 DEF MusicInv, Agree, Space, End
  <2>4. Stored = Received - played /\ played \in Int
    BY DEF Stored, MusicInv, MusicTypes
  <2>5. /\ Stored' = Stored + last.n /\ Stored + last.n \in Cells /\ Stored <= Stored + last.n
        /\ last.first = played + 1 + Stored /\ Stored \in Int /\ last.n \in Int
    <3>1. Stored' = Received' - played
      BY <1>1 DEF Stored
    <3> QED
      BY <1>4, <1>5, <2>2, <2>3, <2>4, <3>1 DEF Cells, MusicSizes
  <2>6. (last.wptr + last.n) % Size = (tail + (Stored + last.n)) % Size
    BY <1>4, <2>2, <2>3, Along
  <2>7. End' = (last.wptr + last.n) % Size
    BY <1>1, <2>5, <2>6 DEF End
  <2>8. ~new => last.n = 0
    BY <1>1, <1>2, <1>4, NextIsNew DEF Cells
  <2>9. (((tail + (Stored + last.n)) % Size) - tail) % Size = Stored + last.n
    BY <2>2, <2>5, Along
  <2>10. (head' - tail) % Size <= Stored + last.n
    <3>1. CASE new
      BY <1>1, <1>2, <2>5, <2>6, <2>9, <3>1
    <3>2. CASE ~new
      <4>1. (((tail + Stored) % Size) - tail) % Size = Stored
        BY <2>2, Along
      <4> QED
        BY <1>1, <1>2, <2>3, <2>5, <3>2, <4>1
    <3> QED
      BY <3>1, <3>2
  <2>11. \A i \in Cells : i < Stored + last.n => buf'[(tail + i) % Size] = played + 1 + i
    <3>1. CASE new
      <4>1. \A i \in Cells : i < Stored + last.n =>
              Music!Copy(last)[(tail + i) % Size] = played + 1 + i
        BY <1>4, <2>2, <2>3, <2>4, <2>5, Copied
      <4> QED
        BY <1>1, <1>2, <3>1, <4>1
    <3>2. CASE ~new
      BY <1>1, <2>2, <2>5, <2>8, <3>2
    <3> QED
      BY <3>1, <3>2
  <2>12. Contents'
    BY <1>1, <2>2, <2>5, <2>10, <2>11 DEF Contents, Cells
  <2>13. Agree'
    BY <1>1, <1>2, <1>5, <1>6, <2>7 DEF Agree, Music!Stop
  <2>14. Space'
    <3>1. tail % Size = tail
      BY <2>2 DEF Cells, MusicSizes
    <3>2. ack'.id = last.id => ack'.rptr = tail
      <4>1. CASE ack' = ack
        <5>1. ack.id <= newest /\ ack.id \in Nat
          BY DEF MusicInv, Answers
        <5>2. ack.id # last.id
          BY <1>2, <5>1
        <5> QED
          BY <4>1, <5>2
      <4>2. CASE ack' = [id |-> m.id, rptr |-> tail % Size]
        BY <3>1, <4>2
      <4> QED
        BY <1>1, <4>1, <4>2
    <3>3. (((last.wptr + last.n) % Size) - tail) % Size = Stored + last.n
      BY <2>6, <2>9
    <3>4. ack'.id = last.id => Stored' <= ((Music!wptr)' - ack'.rptr) % Size
      BY <1>5, <2>5, <3>2, <3>3
    <3> QED
      BY <1>1, <1>2, <3>4 DEF Space
  <2>15. Stopped'
    BY <1>1, <1>2, <1>8 DEF Stopped, Music!Stop
  <2> QED
    BY <2>12, <2>13, <2>14, <2>15
<1> QED
  BY <1>7, <1>8

LEMMA ReceiveStep == MusicSizes /\ MusicInv /\ Music!Receive => MusicInv'
<1> SUFFICES ASSUME MusicSizes, MusicInv, Music!Receive  PROVE MusicInv'
  OBVIOUS
<1>0. PICK m : \E new \in BOOLEAN : Arrival(m, new)
  BY Arrives
<1>1. PICK new \in BOOLEAN : Arrival(m, new)
  BY <1>0
<1>2. Answers' /\ Network' /\ History'
  BY <1>1, ReceiveNumbers
<1>3. astray' \in BOOLEAN
  BY <1>1, Zenon DEF Arrival
<1>4. MusicTypes'
  <2>1. /\ m \in datagrams /\ (head' = (m.wptr + m.n) % Size \/ head' = m.wptr)
        /\ buf' = Music!Copy(m) \/ buf' = buf
        /\ playmode' = m.control /\ loop' = "send" /\ base' = m.first - 1
        /\ UNCHANGED <<tail, rptr, troubles, played, acked>>
    BY <1>1 DEF Arrival
  <2>2. seq_history' \in {-1, seq_history, m.id % Seqs}
    BY <1>1 DEF Arrival, Music!History
  <2> QED
    BY <1>3, <2>1, <2>2, ReceiveTypes
<1>5. m.id \in Nat /\ newest \in Nat
  BY <1>1 DEF Arrival, MusicInv, Network, Datagram, Answers
<1>6. CASE astray'
  <2>1. ~InStep' /\ Stopped'
    BY <1>6 DEF InStep, Stopped
  <2> QED
    BY <1>2, <1>4, <2>1 DEF MusicInv, Contents, Agree, Space
<1>7. CASE ~astray'
  <2>1. ~(m.id < newest)
    BY <1>1, <1>7 DEF Arrival
  <2>2. m.id = newest \/ m.id > newest
    BY <1>5, <2>1
  <2>3. Contents' /\ Agree' /\ Space' /\ Stopped'
    BY <1>1, <1>7, <2>2, TwiceStep, NextStep
  <2> QED
    BY <1>2, <1>4, <2>3 DEF MusicInv
<1> QED
  BY <1>6, <1>7

LEMMA MusicKept == MusicSizes /\ MusicInv /\ [Music!Next]_Music!vars => MusicInv'
<1> SUFFICES ASSUME MusicSizes, MusicInv, [Music!Next]_Music!vars  PROVE MusicInv'
  OBVIOUS
<1>1. CASE Music!Next
  BY <1>1, SendStep, CommandStep, SendAgainStep, GetAckOrLoseStep, SelectTimeoutStep,
     SendMpegDataStep, ReceiveStep DEF Music!Next
<1>2. CASE UNCHANGED Music!vars
  <2>1. UNCHANGED <<head, tail, buf, playmode, seq_history, loop, last, acked, rptr, datagrams,
                    ack, troubles, played, base, newest, astray>>
    BY <1>2 DEF Music!vars
  <2>2. /\ Received' = Received /\ Stored' = Stored /\ End' = End
        /\ (Music!wptr)' = Music!wptr /\ InStep' = InStep
    BY <2>1, SameRing DEF InStep
  <2>3. MusicTypes' /\ Answers'
    BY <2>1 DEF MusicInv, MusicTypes, Answers, Cells, Controls, Music!Play, Music!Stop, Music!Pause
  <2>4. Network' /\ History'
    BY <2>1 DEF MusicInv, Network, Datagram, History, Music!Lifetime, Music!Play
  <2>5. Contents' /\ Agree'
    BY <2>1, <2>2 DEF MusicInv, Contents, Agree, Cells, Music!Stop
  <2>6. Space' /\ Stopped'
    BY <2>1, <2>2 DEF MusicInv, Space, Stopped, Music!Stop
  <2> QED
    BY <2>3, <2>4, <2>5, <2>6 DEF MusicInv
<1> QED
  BY <1>1, <1>2

LEMMA MusicInvariant == ASSUME MusicSizes PROVE Music!Spec => []MusicInv
<1>1. Music!Init => MusicInv
  BY InitMusic
<1>2. MusicInv /\ [Music!Next]_Music!vars => MusicInv'
  BY MusicKept
<1> QED
  BY <1>1, <1>2, PTL DEF Music!Spec

\* head and the server's pointers stay in the ring, whatever its size and the
\* numbers of datagrams and troubles; tail falls below zero by at most one for
\* each write of the device that fails.
LEMMA MusicClientTypes == ASSUME MusicSizes PROVE Music!Spec => []Music!TypeOK
<1>1. MusicInv => Music!TypeOK
  <2> SUFFICES ASSUME MusicInv  PROVE Music!TypeOK
    OBVIOUS
  <2>1. MusicTypes
    BY DEF MusicInv
  <2>2. tail \in (-Troubles)..(Size - 1)
    <3>1. /\ tail \in Int /\ tail < Size /\ 0 <= tail + troubles /\ troubles \in 0..Troubles
          /\ Size \in Nat /\ Troubles \in Nat
      BY <2>1 DEF MusicTypes, MusicSizes
    <3> QED
      BY <3>1
  <2>3. {acked, astray} \subseteq BOOLEAN
    BY <2>1 DEF MusicTypes
  <2> QED
    BY <2>1, <2>2, <2>3 DEF MusicTypes, Music!TypeOK, Cells, Controls
<1> QED
  BY <1>1, MusicInvariant, PTL

\* For every size of the ring and of the datagrams, and every number of sequence
\* numbers from three on: whatever datagrams and answers are lost, repeated or
\* late, the bytes that wait in the ring follow the ones that the device has got,
\* unless the ring has gone astray (see InOrder).
LEMMA MusicClientInOrder == ASSUME MusicSizes PROVE Music!Spec => []Music!InOrder
<1>1. MusicInv => Music!InOrder
  <2> SUFFICES ASSUME MusicInv, ~astray, playmode # Music!Stop,
                      NEW i \in 0..(((head - tail) % Size) - 1)
               PROVE  buf[(tail + i) % Size] = played + 1 + i
    BY DEF Music!InOrder
  <2>1. InStep
    BY DEF InStep
  <2>2. /\ tail \in Cells /\ Stored \in Cells /\ (head - tail) % Size <= Stored
        /\ \A j \in Cells : j < Stored => buf[(tail + j) % Size] = played + 1 + j
    BY <2>1 DEF MusicInv, Contents
  <2>3. (head - tail) % Size \in Cells
    BY <2>2, Between DEF MusicInv, MusicTypes
  <2>4. i \in Cells /\ i < Stored
    BY <2>2, <2>3 DEF Cells, MusicSizes
  <2> QED
    BY <2>2, <2>4
<1> QED
  BY <1>1, MusicInvariant, PTL

-----------------------------------------------------------------------------
(* The parser of the program stream.                                       *)
(*                                                                         *)
(* Its fields stay in bounds however the stream is cut: bufsz counts up to *)
(* Pack only in a pack, and to two, the bytes of the length, in any other  *)
(* frame that has not begun its payload.                                   *)

\* The packets have a type, and a pack header has room for a length.
ParserSizes ==
  /\ Inputs \subseteq Seq([type : Parser!Types, n : Nat])
  /\ Pack \in Nat /\ 2 <= Pack /\ MaxChunk \in Nat

PackTypes == {"pack", "pack1"}

Handles == [remain : Nat, frame_state : 0..4, bufsz : 0..Pack, headernum : 0..4]

\* The length is still to be read.
Begins(f) == inp[packet].type \notin PackTypes /\ f.remain = 0 => f.bufsz <= 2

ParserInv ==
  /\ Parser!TypeOK
  /\ state = Parser!Frame /\ ~Parser!Ended => Begins(Parser!Handle)

\* A step of parse_frame: m bytes of the chunk, and the fields f.
FrameStep(m, f) ==
  /\ m \in 0..avail /\ f \in Handles
  /\ Parser!Over(m, f) \/ (Parser!More(m, f) /\ Begins(f))
  /\ seeking' \in BOOLEAN /\ cut' \subseteq 1..Len(inp)

Packets == [type : Parser!Types, n : Nat]

LEMMA InputTypes ==
  ASSUME ParserSizes, inp \in Inputs
  PROVE  inp \in Seq(Packets) /\ \A i \in DOMAIN inp : inp[i].type \in Parser!Types
<1>1. inp \in Seq(Packets)
  BY DEF ParserSizes, Packets
<1>2. \A i \in DOMAIN inp : inp[i] \in Packets
  BY <1>1
<1> QED BY <1>1, <1>2 DEF Packets

LEMMA PacketType ==
  ASSUME ParserSizes, ParserInv, ~Parser!Ended
  PROVE  packet \in 1..Len(inp) /\ inp[packet] \in Packets
<1>1. inp \in Seq(Packets)
  BY InputTypes DEF ParserInv, Parser!TypeOK
<1>2. packet \in 1..Len(inp)
  BY <1>1 DEF ParserInv, Parser!TypeOK, Parser!Ended
<1> QED BY <1>1, <1>2

LEMMA InitParser == ParserSizes /\ Parser!Init => ParserInv
<1> SUFFICES ASSUME ParserSizes, Parser!Init PROVE ParserInv
  OBVIOUS
<1>1. inp \in Seq(Packets) /\ \A i \in DOMAIN inp : inp[i].type \in Parser!Types
  BY InputTypes DEF Parser!Init
<1> QED
  BY <1>1 DEF ParserSizes, ParserInv, Parser!Init, Parser!TypeOK, Parser!Frame

LEMMA FrameKept ==
  ASSUME ParserSizes, ParserInv, ~Parser!Ended, UNCHANGED inp,
         NEW m, NEW f, FrameStep(m, f)
  PROVE  ParserInv'
<1>1. inp \in Seq(Packets) /\ packet \in 1..Len(inp)
  BY PacketType, InputTypes DEF ParserInv, Parser!TypeOK
<1>2. /\ remain' \in Nat /\ frame_state' \in 0..4 /\ bufsz' \in 0..Pack
      /\ headernum' \in 0..4
  BY DEF FrameStep, Handles, Parser!Over, Parser!More, Parser!SetHandle
<1>3. avail' \in 0..MaxChunk
  BY DEF FrameStep, Parser!Over, Parser!More, Parser!Consume, Parser!Stay, ParserInv,
         Parser!TypeOK, ParserSizes
<1>4. packet' \in 1..(Len(inp) + 1) /\ off' \in Nat
  BY <1>1 DEF FrameStep, Parser!Over, Parser!More, Parser!Consume, Parser!Stay, ParserInv,
         Parser!TypeOK, ParserSizes
<1>5. state' \in 1..Parser!Frame
  BY DEF FrameStep, Parser!Over, Parser!More, Parser!Frame
<1>6. state' = Parser!Frame => Begins(Parser!Handle)'
  <2> SUFFICES ASSUME state' = Parser!Frame PROVE Begins(Parser!Handle)'
    OBVIOUS
  <2>1. Parser!More(m, f) /\ Begins(f)
    BY DEF FrameStep, Parser!Over, Parser!Frame
  <2>2. packet' = packet /\ remain' = f.remain /\ bufsz' = f.bufsz
    BY <2>1 DEF Parser!More, Parser!Stay, Parser!SetHandle
  <2> QED BY <2>1, <2>2 DEF Begins, Parser!Handle
<1> QED
  BY <1>1, <1>2, <1>3, <1>4, <1>5, <1>6 DEF ParserInv, Parser!TypeOK, FrameStep

\* In a frame that begins, from c bytes of the chunk on.
Within(c, f) ==
  /\ ParserInv /\ ~Parser!Ended /\ c \in 0..avail /\ UNCHANGED inp
  /\ f \in Handles /\ f.remain = 0 /\ Begins(f)

LEMMA LeastOf ==
  ASSUME NEW x \in Nat, NEW y \in Nat
  PROVE  /\ Parser!Least(x, y) \in 0..y /\ Parser!Least(x, y) <= x
         /\ Parser!Least(x, y) = x \/ Parser!Least(x, y) = y
  BY DEF Parser!Least

LEMMA WithinTypes ==
  ASSUME ParserSizes, NEW c, NEW f, Within(c, f)
  PROVE  /\ c \in Nat /\ avail - c \in Nat /\ avail \in Nat
         /\ inp[packet].n \in Nat /\ inp[packet].type \in Parser!Types
         /\ f.bufsz \in 0..Pack /\ f.headernum \in 0..4 /\ Pack \in Nat
         /\ seeking \in BOOLEAN /\ cut \subseteq 1..Len(inp) /\ packet \in 1..Len(inp)
<1>1. avail \in Nat /\ c \in 0..avail
  BY DEF Within, ParserInv, Parser!TypeOK, ParserSizes
<1>2. inp[packet] \in Packets /\ packet \in 1..Len(inp)
  BY PacketType DEF Within
<1>3. inp[packet].n \in Nat /\ inp[packet].type \in Parser!Types
  BY <1>2 DEF Packets
<1>4. f.bufsz \in 0..Pack /\ f.headernum \in 0..4
  BY DEF Within, Handles
<1> QED
  BY <1>1, <1>2, <1>3, <1>4 DEF Within, ParserInv, Parser!TypeOK, ParserSizes

LEMMA HandleType ==
  ASSUME NEW f \in Handles, NEW b \in 0..Pack, NEW s \in 0..4, NEW r \in Nat
  PROVE  [f EXCEPT !.bufsz = b, !.frame_state = s, !.remain = r] \in Handles
  BY DEF Handles

LEMMA RemainType ==
  ASSUME NEW f \in Handles, NEW s \in 0..4, NEW r \in Nat
  PROVE  [f EXCEPT !.remain = r, !.frame_state = s] \in Handles
  BY DEF Handles

LEMMA PackKept ==
  ASSUME ParserSizes, NEW c, NEW f, Within(c, f), inp[packet].type \in PackTypes,
         Parser!PackFrame(c, avail - c, f)
  PROVE  \E m, g : FrameStep(m, g)
<1> DEFINE a == avail - c
           n == Parser!Least(Pack - f.bufsz, a)
           rest == a - n
           size == 2 + inp[packet].n
<1>1. /\ a \in Nat /\ avail \in Nat /\ c \in Nat /\ a = avail - c /\ size \in Nat
      /\ f.bufsz \in 0..Pack /\ Pack \in Nat /\ 2 <= Pack
  <2>1. avail - c \in Nat /\ avail \in Nat /\ c \in Nat /\ inp[packet].n \in Nat
        /\ f.bufsz \in 0..Pack /\ Pack \in Nat
    BY WithinTypes
  <2> QED BY <2>1 DEF ParserSizes
<1>2. n \in 0..a /\ n <= Pack - f.bufsz /\ (n = Pack - f.bufsz \/ n = a)
  <2>1. Pack - f.bufsz \in Nat
    BY <1>1
  <2> HIDE DEF a
  <2> QED BY <1>1, <2>1, LeastOf
<1>3. seeking' \in BOOLEAN /\ cut' \subseteq 1..Len(inp)
  BY DEF Parser!PackFrame, Parser!rings, Within, ParserInv, Parser!TypeOK
<1>4. \A g : Begins(g)
  BY DEF Begins
<1>5. f \in Handles
  BY DEF Within
<1>6. inp[packet].type # "pack1" => inp[packet].type = "pack"
  BY DEF PackTypes
<1>7. \/ n + f.bufsz < Pack /\ Parser!More(c + n, [f EXCEPT !.bufsz = @ + n])
      \/ Parser!Over(c + n, [f EXCEPT !.bufsz = Pack])
      \/ rest >= size /\ Parser!Over(c + n + size, [f EXCEPT !.bufsz = Pack])
      \/ ~(rest >= size) /\ Parser!More(c + a, [f EXCEPT !.bufsz = Pack, !.frame_state = 1,
                                                         !.remain = size - rest])
      \/ n + f.bufsz = Pack /\ ~(rest >= 3)
         /\ Parser!More(c + a, [f EXCEPT !.bufsz = rest, !.frame_state = 3,
                                         !.remain = 3 - rest])
  <2>1. n + f.bufsz < Pack \/ n + f.bufsz = Pack
    BY <1>1, <1>2
  <2>2. ~(n + f.bufsz < Pack /\ n + f.bufsz = Pack)
    BY <1>1, <1>2
  <2>3. ~(inp[packet].type = "pack" /\ inp[packet].type = "pack1")
    OBVIOUS
  <2> QED BY Zenon, <2>1, <2>2, <2>3, <1>6 DEF Parser!PackFrame
<1> HIDE DEF n, a
<1>8. CASE n + f.bufsz < Pack /\ Parser!More(c + n, [f EXCEPT !.bufsz = @ + n])
  <2>1. [f EXCEPT !.bufsz = @ + n] \in Handles /\ c + n \in 0..avail
    BY <1>1, <1>2, <1>5, <1>8 DEF Handles
  <2> QED BY <2>1, <1>8, <1>3, <1>4 DEF FrameStep
<1>9. CASE Parser!Over(c + n, [f EXCEPT !.bufsz = Pack])
  <2>1. [f EXCEPT !.bufsz = Pack] \in Handles /\ c + n \in 0..avail
    BY <1>1, <1>2, <1>5 DEF Handles
  <2> QED BY <2>1, <1>9, <1>3 DEF FrameStep
<1>10. CASE rest >= size /\ Parser!Over(c + n + size, [f EXCEPT !.bufsz = Pack])
  <2>1. [f EXCEPT !.bufsz = Pack] \in Handles /\ c + n + size \in 0..avail
    BY <1>1, <1>2, <1>5, <1>10 DEF Handles
  <2> QED BY <2>1, <1>10, <1>3 DEF FrameStep
<1>11. CASE ~(rest >= size) /\ Parser!More(c + a, [f EXCEPT !.bufsz = Pack,
                                              !.frame_state = 1, !.remain = size - rest])
  <2>1. size - rest \in Nat /\ c + a \in 0..avail
    BY <1>1, <1>2, <1>11
  <2>2. [f EXCEPT !.bufsz = Pack, !.frame_state = 1, !.remain = size - rest] \in Handles
    <3>1. Pack \in 0..Pack /\ 1 \in 0..4
      BY <1>1
    <3> QED BY Zenon, <3>1, <2>1, <1>5, HandleType
  <2> QED BY <2>1, <2>2, <1>11, <1>3, <1>4 DEF FrameStep
<1>12. CASE n + f.bufsz = Pack /\ ~(rest >= 3)
            /\ Parser!More(c + a, [f EXCEPT !.bufsz = rest, !.frame_state = 3,
                                            !.remain = 3 - rest])
  <2>1. rest \in 0..Pack /\ 3 - rest \in Nat /\ c + a \in 0..avail
    BY <1>1, <1>2, <1>12
  <2>2. [f EXCEPT !.bufsz = rest, !.frame_state = 3, !.remain = 3 - rest] \in Handles
    <3>1. 3 \in 0..4
      OBVIOUS
    <3> QED BY Zenon, <3>1, <2>1, <1>5, HandleType
  <2> QED BY <2>1, <2>2, <1>12, <1>3, <1>4 DEF FrameStep
<1> QED BY <1>7, <1>8, <1>9, <1>10, <1>11, <1>12

\* The bytes of the length that are read.
LEMMA TwoOf ==
  ASSUME ParserSizes, NEW c, NEW f, Within(c, f), inp[packet].type \notin PackTypes
  PROVE  LET w == Parser!Two(f, avail - c) IN
         /\ w \in 0..(avail - c) /\ f.bufsz + w \in 0..2 /\ f.bufsz + w \in 0..Pack
         /\ [f EXCEPT !.bufsz = @ + w] \in Handles
         /\ [f EXCEPT !.bufsz = @ + w].bufsz = f.bufsz + w
         /\ [f EXCEPT !.bufsz = @ + w].remain = 0
<1> DEFINE a == avail - c
           w == Parser!Two(f, a)
<1>1. a \in Nat /\ f.bufsz \in Nat /\ f.bufsz <= 2 /\ f \in Handles /\ Pack \in Nat
      /\ 2 <= Pack
  <2>1. avail - c \in Nat /\ f.bufsz \in 0..Pack /\ Pack \in Nat
    BY WithinTypes
  <2>2. f.bufsz <= 2 /\ f \in Handles
    BY DEF Within, Begins
  <2> QED BY <2>1, <2>2 DEF ParserSizes
<1>2. w = Parser!Least(2 - f.bufsz, a)
  BY Zenon DEF Parser!Two
<1> HIDE DEF w, a
<1>3. w \in 0..a /\ w <= 2 - f.bufsz
  <2>1. 2 - f.bufsz \in Nat
    BY <1>1
  <2> QED BY <1>1, <1>2, <2>1, LeastOf
<1>4. f.bufsz + w \in 0..2 /\ f.bufsz + w \in 0..Pack
  BY <1>1, <1>3
<1>5. [f EXCEPT !.bufsz = @ + w] \in Handles
      /\ [f EXCEPT !.bufsz = @ + w].bufsz = f.bufsz + w
      /\ [f EXCEPT !.bufsz = @ + w].remain = f.remain
  BY <1>1, <1>4 DEF Handles
<1>6. f.remain = 0
  BY DEF Within
<1> QED BY <1>3, <1>4, <1>5, <1>6 DEF a, w

LEMMA OtherKept ==
  ASSUME ParserSizes, NEW c, NEW f, Within(c, f), inp[packet].type \notin PackTypes,
         NEW room, Parser!OtherFrame(c, avail - c, f, room)
  PROVE  \E m, g : FrameStep(m, g)
<1> DEFINE a == avail - c
           w == Parser!Two(f, a)
           n == inp[packet].n
           g == [f EXCEPT !.bufsz = @ + w]
           fs == IF inp[packet].type = "private" THEN 4 ELSE 0
<1>1. a \in Nat /\ avail \in Nat /\ c \in Nat /\ a = avail - c /\ n \in Nat
  BY WithinTypes
<1>2. /\ w \in 0..a /\ g \in Handles /\ g.bufsz \in 0..2 /\ g.remain = 0
  BY TwoOf
<1>3. seeking' \in BOOLEAN /\ cut' \subseteq 1..Len(inp)
  <2>1. seeking \in BOOLEAN /\ cut \subseteq 1..Len(inp)
    BY WithinTypes
  <2>2. UNCHANGED <<seeking, cut>>
    BY DEF Parser!OtherFrame, Parser!AddPrivate, Parser!rings
  <2>3. UNCHANGED inp
    BY DEF Within
  <2> QED BY <2>1, <2>2, <2>3
<1>4. \/ Parser!More(c + w, g)
      \/ n <= a - w /\ Parser!Over(c + w + n, g)
      \/ ~(n <= a - w) /\ Parser!More(c + a, [g EXCEPT !.remain = n - (a - w), !.frame_state = fs])
  BY Zenon DEF Parser!OtherFrame
<1> HIDE DEF g, w, a, n, fs
<1>5. CASE Parser!More(c + w, g)
  <2>1. c + w \in 0..avail /\ Begins(g)
    BY <1>1, <1>2 DEF Begins
  <2> QED BY <2>1, <1>2, <1>3, <1>5 DEF FrameStep
<1>6. CASE n <= a - w /\ Parser!Over(c + w + n, g)
  <2>1. c + w + n \in 0..avail
    BY <1>1, <1>2, <1>6
  <2> QED BY <2>1, <1>2, <1>3, <1>6 DEF FrameStep
<1>7. CASE ~(n <= a - w)
           /\ Parser!More(c + a, [g EXCEPT !.remain = n - (a - w), !.frame_state = fs])
  <2> DEFINE r == n - (a - w)
             h == [g EXCEPT !.remain = r, !.frame_state = fs]
  <2>1. c + a \in 0..avail /\ r \in Nat /\ r # 0 /\ fs \in 0..4
    BY <1>1, <1>2, <1>7 DEF fs
  <2>2. h.remain = r
    BY <1>2 DEF Handles
  <2> HIDE DEF r
  <2>3. h \in Handles
    BY Zenon, <2>1, <1>2, RemainType
  <2>4. Begins(h)
    BY <2>1, <2>2 DEF Begins
  <2> QED BY <2>1, <2>3, <2>4, <1>3, <1>7 DEF FrameStep, r
<1> QED BY <1>4, <1>5, <1>6, <1>7

LEMMA UnplayedKept ==
  ASSUME ParserSizes, NEW c, NEW f, Within(c, f), inp[packet].type \notin PackTypes,
         Parser!Unplayed(c, avail - c, f)
  PROVE  \E m, g : FrameStep(m, g)
<1> DEFINE a == avail - c
           w == Parser!Two(f, a)
           n == inp[packet].n
           g == [f EXCEPT !.bufsz = @ + w]
           h == [g EXCEPT !.remain = n, !.frame_state = 0]
<1>1. a \in Nat /\ avail \in Nat /\ c \in Nat /\ a = avail - c /\ n \in Nat
  BY WithinTypes
<1>2. /\ w \in 0..a /\ g \in Handles /\ g.bufsz \in 0..2 /\ g.remain = 0
  BY TwoOf
<1>3. seeking' \in BOOLEAN /\ cut' \subseteq 1..Len(inp)
  BY WithinTypes DEF Parser!Unplayed, Parser!rings, Within
<1>4. Parser!More(c + w, g) \/ Parser!More(c + w, h)
  BY Zenon DEF Parser!Unplayed
<1> HIDE DEF g, w, a, n
<1>5. h \in Handles /\ h.bufsz = g.bufsz
  <2>1. 0 \in 0..4
    OBVIOUS
  <2>2. h \in Handles
    BY Zenon, <2>1, <1>1, <1>2, RemainType
  <2> QED BY <2>2, <1>2 DEF Handles
<1>6. c + w \in 0..avail /\ Begins(g) /\ Begins(h)
  BY <1>1, <1>2, <1>5 DEF Begins
<1> HIDE DEF h
<1> QED BY <1>2, <1>3, <1>4, <1>5, <1>6 DEF FrameStep

\* What AddVideo leaves.
LEMMA VideoAdded ==
  ASSUME ParserSizes, NEW c, NEW f, Within(c, f), NEW m, NEW i, NEW headers,
         Parser!AddVideo(m, i, headers) \/ Parser!AddAudio(m, i, headers)
  PROVE  seeking' \in BOOLEAN /\ cut' \subseteq 1..Len(inp)
<1>1. seeking \in BOOLEAN /\ cut \subseteq 1..Len(inp) /\ packet \in 1..Len(inp)
  BY WithinTypes
<1> QED BY <1>1 DEF Parser!AddVideo, Parser!AddAudio

LEMMA PayloadKept ==
  ASSUME ParserSizes, NEW c, NEW f, Within(c, f), inp[packet].type \notin PackTypes,
         NEW k \in 0..4, NEW m, NEW s \in 0..4,
         LET a == avail - c
             w == Parser!Two(f, a)
             n == inp[packet].n
             g == [f EXCEPT !.bufsz = @ + w, !.headernum = k]
         IN /\ m \in 0..(a - w) /\ m <= n
            /\ IF n = m THEN Parser!Over(c + w + m, g)
                        ELSE Parser!More(c + w + m, [g EXCEPT !.remain = n - m,
                                                              !.frame_state = s]),
         seeking' \in BOOLEAN, cut' \subseteq 1..Len(inp)
  PROVE  \E i, h : FrameStep(i, h)
<1> DEFINE a == avail - c
           w == Parser!Two(f, a)
           n == inp[packet].n
           g == [f EXCEPT !.bufsz = @ + w, !.headernum = k]
           r == n - m
           h == [g EXCEPT !.remain = r, !.frame_state = s]
<1>1. a \in Nat /\ avail \in Nat /\ c \in Nat /\ a = avail - c /\ n \in Nat
  BY WithinTypes
<1>2. w \in 0..a /\ f.bufsz + w \in 0..Pack
  BY TwoOf
<1>3. \/ n = m /\ Parser!Over(c + w + m, g)
      \/ n # m /\ Parser!More(c + w + m, h)
  BY Zenon
<1>4. m \in 0..(a - w) /\ m <= n
  BY Zenon
<1> HIDE DEF w, a, n
<1>5. g \in Handles
  <2>1. f \in Handles
    BY DEF Within
  <2> QED BY <2>1, <1>2 DEF Handles
<1> HIDE DEF g
<1>6. c + w + m \in 0..avail
  BY <1>1, <1>2, <1>4
<1>7. CASE n = m /\ Parser!Over(c + w + m, g)
  BY <1>5, <1>6, <1>7 DEF FrameStep
<1>8. CASE n # m /\ Parser!More(c + w + m, h)
  <2>1. r \in Nat /\ r # 0
    BY <1>1, <1>2, <1>4, <1>8
  <2>2. h.remain = r
    BY <1>5 DEF Handles
  <2> HIDE DEF r
  <2>3. h \in Handles
    BY Zenon, <2>1, <1>5, RemainType
  <2> HIDE DEF h
  <2>4. Begins(h)
    BY <2>1, <2>2 DEF Begins
  <2> QED BY <2>3, <2>4, <1>6, <1>8 DEF FrameStep
<1> QED BY <1>3, <1>7, <1>8

LEMMA ShortKept ==
  ASSUME ParserSizes, NEW c, NEW f, Within(c, f), inp[packet].type \notin PackTypes,
         Parser!More(c + Parser!Two(f, avail - c),
                     [f EXCEPT !.bufsz = @ + Parser!Two(f, avail - c)]),
         UNCHANGED Parser!rings
  PROVE  \E i, h : FrameStep(i, h)
<1> DEFINE a == avail - c
           w == Parser!Two(f, a)
           g == [f EXCEPT !.bufsz = @ + w]
<1>1. a \in Nat /\ avail \in Nat /\ c \in Nat /\ a = avail - c
  BY WithinTypes
<1>2. /\ w \in 0..a /\ g \in Handles /\ g.bufsz \in 0..2 /\ g.remain = 0
  BY TwoOf
<1>3. seeking' \in BOOLEAN /\ cut' \subseteq 1..Len(inp)
  BY WithinTypes DEF Parser!rings
<1>4. Parser!More(c + w, g)
  OBVIOUS
<1> HIDE DEF g, w, a
<1>5. c + w \in 0..avail /\ Begins(g)
  BY <1>1, <1>2 DEF Begins
<1> QED BY <1>2, <1>3, <1>4, <1>5 DEF FrameStep

LEMMA VideoKept ==
  ASSUME ParserSizes, NEW c, NEW f, Within(c, f), inp[packet].type \notin PackTypes,
         NEW k \in 0..4, NEW room, Parser!VideoFrame(c, avail - c, f, k, room)
  PROVE  \E i, h : FrameStep(i, h)
<1> DEFINE a == avail - c
           w == Parser!Two(f, a)
           n == inp[packet].n
           m == IF room THEN Parser!Least(n, a - w) ELSE 0
           g == [f EXCEPT !.bufsz = @ + w, !.headernum = k]
<1>1. CASE f.bufsz + w < 2
  <2>1. Parser!More(c + w, [f EXCEPT !.bufsz = @ + w]) /\ UNCHANGED Parser!rings
    BY Zenon, <1>1 DEF Parser!VideoFrame
  <2> QED BY Zenon, <2>1, ShortKept
<1>2. CASE ~(f.bufsz + w < 2)
  <2>1. /\ Parser!AddVideo(m, c + w, Parser!Headers(f.headernum, k))
        /\ IF n = m THEN Parser!Over(c + w + m, g)
                    ELSE Parser!More(c + w + m, [g EXCEPT !.remain = n - m, !.frame_state = 2])
    BY Zenon, <1>2 DEF Parser!VideoFrame
  <2>2. m \in 0..(a - w) /\ m <= n
    <3>1. a \in Nat /\ n \in Nat /\ w \in 0..a
      BY WithinTypes, TwoOf
    <3> HIDE DEF a, w, n
    <3>2. a - w \in Nat
      BY <3>1
    <3> QED BY <3>1, <3>2, LeastOf
  <2>3. seeking' \in BOOLEAN /\ cut' \subseteq 1..Len(inp)
    BY <2>1, VideoAdded
  <2>4. 2 \in 0..4
    OBVIOUS
  <2> HIDE DEF m
  <2> QED BY Zenon, <2>1, <2>2, <2>3, <2>4, PayloadKept
<1> QED BY <1>1, <1>2

LEMMA AudioKept ==
  ASSUME ParserSizes, NEW c, NEW f, Within(c, f), inp[packet].type \notin PackTypes,
         NEW k \in 0..4, NEW room, Parser!AudioFrame(c, avail - c, f, k, room)
  PROVE  \E i, h : FrameStep(i, h)
<1> DEFINE a == avail - c
           w == Parser!Two(f, a)
           n == inp[packet].n
           m == IF room THEN Parser!Least(n, a - w) ELSE 0
           g == [f EXCEPT !.bufsz = @ + w, !.headernum = k]
<1>1. CASE f.bufsz + w < 2
  <2>1. Parser!More(c + w, [f EXCEPT !.bufsz = @ + w]) /\ UNCHANGED Parser!rings
    BY Zenon, <1>1 DEF Parser!AudioFrame
  <2> QED BY Zenon, <2>1, ShortKept
<1>2. CASE ~(f.bufsz + w < 2) /\ k < 2
  <2>1. /\ Parser!AddAudio(0, 0, Parser!Headers(f.headernum, k))
        /\ Parser!More(c + w, g)
    BY Zenon, <1>2 DEF Parser!AudioFrame
  <2>2. seeking' \in BOOLEAN /\ cut' \subseteq 1..Len(inp)
    BY <2>1, VideoAdded
  <2>3. a \in Nat /\ avail \in Nat /\ c \in Nat /\ a = avail - c
    BY WithinTypes
  <2>4. w \in 0..a /\ f.bufsz + w \in 0..2 /\ f.bufsz + w \in 0..Pack
    BY TwoOf
  <2>5. f \in Handles
    BY DEF Within
  <2> HIDE DEF w, a
  <2>6. g \in Handles /\ g.bufsz = f.bufsz + w
    BY <2>4, <2>5 DEF Handles
  <2> HIDE DEF g
  <2>7. c + w \in 0..avail /\ Begins(g)
    BY <2>3, <2>4, <2>6 DEF Begins
  <2> QED BY <2>1, <2>2, <2>6, <2>7 DEF FrameStep
<1>3. CASE ~(f.bufsz + w < 2) /\ ~(k < 2)
  <2>1. /\ Parser!AddAudio(m, c + w, Parser!Headers(f.headernum, k))
        /\ IF n = m THEN Parser!Over(c + w + m, g)
                    ELSE Parser!More(c + w + m, [g EXCEPT !.remain = n - m, !.frame_state = 1])
    BY Zenon, <1>3 DEF Parser!AudioFrame
  <2>2. m \in 0..(a - w) /\ m <= n
    <3>1. a \in Nat /\ n \in Nat /\ w \in 0..a
      BY WithinTypes, TwoOf
    <3> HIDE DEF a, w, n
    <3>2. a - w \in Nat
      BY <3>1
    <3> QED BY <3>1, <3>2, LeastOf
  <2>3. seeking' \in BOOLEAN /\ cut' \subseteq 1..Len(inp)
    BY <2>1, VideoAdded
  <2>4. 1 \in 0..4
    OBVIOUS
  <2> HIDE DEF m
  <2> QED BY Zenon, <2>1, <2>2, <2>3, <2>4, PayloadKept
<1> QED BY <1>1, <1>2, <1>3

LEMMA BodyKept ==
  ASSUME ParserSizes, NEW c, NEW f, Within(c, f), NEW k \in 0..4, NEW room,
         Parser!Body(c, avail - c, f, k, room)
  PROVE  \E i, h : FrameStep(i, h)
<1> DEFINE a == avail - c
           t == inp[packet].type
<1>1. t \in Parser!Types /\ f \in Handles /\ c \in 0..avail
  BY WithinTypes DEF Within
<1>2. \/ t \in PackTypes /\ Parser!PackFrame(c, a, f)
      \/ t \notin PackTypes /\ Parser!OtherFrame(c, a, f, room)
      \/ t \notin PackTypes /\ Parser!Unplayed(c, a, f)
      \/ t \notin PackTypes /\ Parser!VideoFrame(c, a, f, k, room)
      \/ t \notin PackTypes /\ Parser!AudioFrame(c, a, f, k, room)
      \/ Parser!Over(c, f) /\ UNCHANGED Parser!rings
  BY <1>1 DEF Parser!Body, Parser!Types, PackTypes
<1>3. CASE Parser!Over(c, f) /\ UNCHANGED Parser!rings
  <2>1. seeking' \in BOOLEAN /\ cut' \subseteq 1..Len(inp)
    BY <1>3, WithinTypes DEF Parser!rings
  <2> QED BY <2>1, <1>1, <1>3 DEF FrameStep
<1> QED
  BY <1>2, <1>3, PackKept, OtherKept, UnplayedKept, VideoKept, AudioKept

LEMMA RestKept ==
  ASSUME ParserSizes, ParserInv, ~Parser!Ended, remain > 0, UNCHANGED inp, NEW room,
         Parser!Rest(avail, room)
  PROVE  \E i, h : FrameStep(i, h)
<1> DEFINE n == Parser!Least(remain, avail)
           m == IF frame_state \in {1, 2} /\ ~room THEN 0 ELSE n
           r == remain - m
           h == [Parser!Handle EXCEPT !.remain = r]
<1>1. remain \in Nat /\ avail \in Nat /\ Parser!Handle \in Handles
      /\ Parser!Handle.remain = remain
      /\ seeking \in BOOLEAN /\ cut \subseteq 1..Len(inp)
  BY DEF ParserInv, Parser!TypeOK, Parser!Handle, Handles, ParserSizes
<1>2. packet \in 1..Len(inp)
  BY PacketType
<1>3. m \in 0..avail /\ m <= remain
  BY <1>1, LeastOf
<1>4. seeking' \in BOOLEAN /\ cut' \subseteq 1..Len(inp)
  <2>1. \/ Parser!AddAudio(m, 0, <<>>) \/ Parser!AddVideo(m, 0, <<>>)
        \/ Parser!AddPrivate(room) \/ UNCHANGED Parser!rings
    BY Zenon DEF Parser!Rest
  <2> QED
    BY <2>1, <1>1, <1>2 DEF Parser!AddAudio, Parser!AddVideo, Parser!AddPrivate, Parser!rings
<1>5. \/ remain = m /\ Parser!Over(m, Parser!Handle)
      \/ remain # m /\ Parser!More(m, h)
  <2>1. h = [Parser!Handle EXCEPT !.remain = @ - m]
    BY <1>1
  <2> HIDE DEF h
  <2> QED BY Zenon, <2>1 DEF Parser!Rest
<1> HIDE DEF m
<1>6. CASE remain # m /\ Parser!More(m, h)
  <2>1. r \in Nat /\ r # 0
    BY <1>1, <1>3, <1>6
  <2> HIDE DEF r
  <2>2. h \in Handles /\ h.remain = r
    BY <2>1, <1>1 DEF Handles
  <2> HIDE DEF h
  <2>3. Begins(h)
    BY <2>1, <2>2 DEF Begins
  <2> QED BY <2>2, <2>3, <1>3, <1>4, <1>6 DEF FrameStep
<1> QED BY <1>1, <1>3, <1>4, <1>5, <1>6 DEF FrameStep

LEMMA ParserStep == ASSUME ParserSizes, ParserInv, [Parser!Next]_Parser!vars PROVE ParserInv'
<1>1. CASE UNCHANGED Parser!vars
  BY <1>1 DEF Parser!vars, ParserInv, Parser!TypeOK, Parser!Ended, Begins, Parser!Handle
<1>2. CASE Parser!NextChunk
  <2>1. avail' \in 0..MaxChunk
    BY <1>2 DEF Parser!NextChunk, ParserSizes
  <2> QED
    BY <1>2, <2>1 DEF Parser!NextChunk, Parser!handle, Parser!rings, ParserInv,
       Parser!TypeOK, Parser!Ended, Begins, Parser!Handle
<1>3. CASE Parser!Scan
  <2>1. state' \in 1..4
    <3>1. state' \in {Parser!Least(state + 1, 3), 4, 1}
      BY Zenon, <1>3 DEF Parser!Scan, Parser!Byte
    <3>2. Parser!Least(state + 1, 3) \in 1..4
      BY <1>3 DEF Parser!Scan, Parser!Least
    <3> QED BY <3>1, <3>2
  <2>2. packet \in 1..Len(inp) /\ inp \in Seq(Packets)
    BY <1>3, PacketType, InputTypes DEF Parser!Scan, ParserInv, Parser!TypeOK
  <2>3. packet' \in 1..(Len(inp) + 1) /\ off' \in Nat /\ avail' \in 0..MaxChunk
    <3>1. avail > 0 /\ Parser!Consume(1)
      BY <1>3 DEF Parser!Scan
    <3>2. avail \in 0..MaxChunk /\ off \in Nat /\ MaxChunk \in Nat
      BY DEF ParserInv, Parser!TypeOK, ParserSizes
    <3> QED BY <3>1, <3>2, <2>2 DEF Parser!Consume
  <2>4. UNCHANGED <<inp, remain, frame_state, bufsz, headernum, seeking, cut>>
    BY <1>3 DEF Parser!Scan, Parser!handle, Parser!rings
  <2>5. state' \in 1..Parser!Frame /\ state' # Parser!Frame
    BY <2>1 DEF Parser!Frame
  <2> QED
    BY <2>3, <2>4, <2>5 DEF ParserInv, Parser!TypeOK
<1>4. ASSUME NEW k \in 0..4, NEW room, Parser!ParseType(k, room) PROVE ParserInv'
  <2>1. avail \in Nat /\ avail > 0 /\ ~Parser!Ended /\ UNCHANGED inp
        /\ Parser!Body(1, avail - 1, Parser!Fresh, k, room)
    BY <1>4 DEF Parser!ParseType, ParserInv, Parser!TypeOK, ParserSizes
  <2>2. Parser!Fresh \in Handles /\ Parser!Fresh.remain = 0 /\ Begins(Parser!Fresh)
    BY DEF Parser!Fresh, Handles, Begins, ParserSizes
  <2>3. Within(1, Parser!Fresh)
    BY <2>1, <2>2 DEF Within
  <2> QED BY <2>1, <2>3, BodyKept, FrameKept
<1>5. ASSUME NEW k \in 0..4, NEW room, Parser!ParseFrame(k, room) PROVE ParserInv'
  <2>1. avail \in Nat /\ avail > 0 /\ ~Parser!Ended /\ UNCHANGED inp /\ state = Parser!Frame
    BY <1>5 DEF Parser!ParseFrame, ParserInv, Parser!TypeOK, ParserSizes
  <2>2. CASE remain > 0
    <3>1. Parser!Rest(avail, room)
      BY <1>5, <2>2 DEF Parser!ParseFrame
    <3> QED BY <2>1, <2>2, <3>1, RestKept, FrameKept
  <2>3. CASE ~(remain > 0)
    <3>1. Parser!Body(0, avail - 0, Parser!Handle, k, room)
      <4>1. avail - 0 = avail
        BY <2>1
      <4>2. Parser!Body(0, avail, Parser!Handle, k, room)
        BY Zenon, <1>5, <2>3 DEF Parser!ParseFrame
      <4> QED BY <4>1, <4>2
    <3>2. Parser!Handle \in Handles /\ Parser!Handle.remain = 0
      BY <2>3 DEF ParserInv, Parser!TypeOK, Parser!Handle, Handles
    <3>3. Within(0, Parser!Handle)
      BY <2>1, <3>2 DEF Within, ParserInv
    <3> QED BY <2>1, <3>1, <3>3, BodyKept, FrameKept
  <2> QED BY <2>2, <2>3
<1> QED
  BY <1>1, <1>2, <1>3, <1>4, <1>5 DEF Parser!Next, Parser!Parse

\* The fields of the demuxer stay in their ranges, however the stream is cut into
\* chunks and whenever the rings are full.
LEMMA ParserTypes == ASSUME ParserSizes PROVE Parser!Spec => []Parser!TypeOK
<1>1. Parser!Init => ParserInv
  BY InitParser
<1>2. ParserInv /\ [Parser!Next]_Parser!vars => ParserInv'
  BY ParserStep
<1>3. ParserInv => Parser!TypeOK
  BY DEF ParserInv
<1> QED BY <1>1, <1>2, <1>3, PTL DEF Parser!Spec

-----------------------------------------------------------------------------
(* What the parser adds to the rings.                                      *)
(*                                                                         *)
(* PacketsWhole looks at the rings alone.  The invariant ties them to the  *)
(* place of the parser: of the bytes that are played, a ring has got those *)
(* that the parser has passed (Passed) and no others, in order             *)
(* (Delivered).  For that the handle must say where the parser is: in a    *)
(* packet that is played it is never out of step, and remain, bufsz and    *)
(* frame_state agree with the place (OnTrack).                             *)

AV == {"audio", "video"}

\* Where the parser is in a packet.  In one that is played it is always inside
\* the frame once it has the start code, off counts the bytes of the length and
\* of the payload, and the handle says which ring the payload belongs to.
Playing ==
  /\ state = Parser!Frame
  /\ remain = 0 => off = 4 + bufsz
  /\ remain > 0 => /\ off + remain = 6 + inp[packet].n /\ 6 <= off
                   /\ frame_state = IF inp[packet].type = "audio" THEN 1 ELSE 2
  /\ inp[packet].type = "audio" => headernum <= 2 /\ (remain > 0 => headernum = 2)
  /\ inp[packet].type = "video" /\ remain = 0 => headernum = 0

OnTrack ==
  /\ off = 0 => state = 1
  /\ off \in 1..3 => state = off + 1
  /\ off > 3 => state # 4
  /\ ~Parser!Ended /\ off > 3 /\ inp[packet].type \in AV => Playing
  /\ ~Parser!Ended /\ state = Parser!Frame /\ remain > 0 /\ frame_state = 2 => inp[packet].type = "video"

\* The bytes before packet k, h parts of the header of packet k and o bytes of its
\* payload.
UpTo(B, k, h, o) ==
  {b \in B : \/ b[1] < k
             \/ b[1] = k /\ \/ b[2] = Parser!Header /\ 1 <= h
                            \/ b[2] = Parser!LengthBytes /\ 2 <= h
                            \/ 1 <= b[2] /\ b[2] <= o}

\* The parser has passed them.
Passed(B) == IF state = Parser!Frame THEN UpTo(B, packet, headernum, off - 6) ELSE UpTo(B, packet, 0, 0)

\* Of the bytes B, the ring has got D, in order.
Delivered(data, B, D) ==
  /\ \A i \in DOMAIN data : data[i] \in B => data[i] \in D
  /\ \A b \in D : \E i \in DOMAIN data : data[i] = b
  /\ Parser!InSequence(data, B)

Entries == (1..Len(inp)) \X Int

Clean ==
  /\ audio \in Seq(Entries) /\ video \in Seq(Entries)
  /\ \A i \in DOMAIN audio : inp[audio[i][1]].type = "audio" => audio[i] \in Parser!AudioBytes
  /\ \A i \in DOMAIN video : Parser!IsPayload(video[i]) => video[i] \in Parser!VideoBytes

Headed ==
  /\ \A i \in DOMAIN video : Parser!IsPayload(video[i]) /\ video[i][1] \notin cut =>
       \E j \in 1..(i - 1) : video[j] = <<video[i][1], Parser!LengthBytes>>
  /\ ~Parser!Ended /\ state = Parser!Frame /\ inp[packet].type = "video" /\ remain > 0 /\ 2 <= headernum =>
       \E j \in DOMAIN video : video[j] = <<packet, Parser!LengthBytes>>

WholeInv ==
  /\ OnTrack /\ Clean /\ Headed
  /\ Delivered(audio, Parser!AudioBytes, Passed(Parser!AudioBytes))
  /\ Delivered(video, Parser!VideoBytes, Passed(Parser!VideoBytes))

-----------------------------------------------------------------------------
Pairs == Int \X Int

LEMMA Joined ==
  ASSUME NEW T, NEW s \in Seq(T), NEW t \in Seq(T)
  PROVE  /\ s \o t \in Seq(T) /\ Len(s) \in Nat /\ Len(t) \in Nat
         /\ DOMAIN (s \o t) = 1..(Len(s) + Len(t))
         /\ DOMAIN s = 1..Len(s) /\ DOMAIN t = 1..Len(t)
         /\ \A i \in 1..Len(s) : (s \o t)[i] = s[i]
         /\ \A i \in 1..Len(t) : (s \o t)[Len(s) + i] = t[i]
         /\ \A i \in DOMAIN (s \o t) : i \in 1..Len(s) \/ i - Len(s) \in 1..Len(t)
<1>1. s \o t \in Seq(T) /\ Len(s \o t) = Len(s) + Len(t) /\ Len(s) \in Nat /\ Len(t) \in Nat
      /\ \A i \in 1..(Len(s) + Len(t)) :
           (s \o t)[i] = IF i <= Len(s) THEN s[i] ELSE t[i - Len(s)]
  BY ConcatProperties
<1>2. DOMAIN (s \o t) = 1..(Len(s) + Len(t)) /\ DOMAIN s = 1..Len(s) /\ DOMAIN t = 1..Len(t)
  BY <1>1
<1>3. \A i \in 1..Len(t) : (s \o t)[Len(s) + i] = t[i]
  <2> TAKE i \in 1..Len(t)
  <2>1. Len(s) + i \in 1..(Len(s) + Len(t)) /\ ~(Len(s) + i <= Len(s)) /\ (Len(s) + i) - Len(s) = i
    BY <1>1
  <2> QED BY <1>1, <2>1
<1> QED BY <1>1, <1>2, <1>3

\* The bytes D come before the other bytes of B.
First(D, B) == D \subseteq B /\ \A b \in B, d \in D : Parser!Precedes(b, d) => b \in D

LEMMA Order ==
  ASSUME NEW b \in Pairs, NEW c \in Pairs
  PROVE  /\ ~(Parser!Precedes(b, c) /\ Parser!Precedes(c, b))
         /\ Parser!Precedes(b, c) \/ Parser!Precedes(c, b) \/ b = c
         /\ ~Parser!Precedes(b, b)
<1>1. b[1] \in Int /\ b[2] \in Int /\ c[1] \in Int /\ c[2] \in Int
      /\ b = <<b[1], b[2]>> /\ c = <<c[1], c[2]>>
  BY DEF Pairs
<1> QED BY <1>1 DEF Parser!Precedes

\* A ring that has got the bytes D gets the rest of E, in order.
LEMMA Extended ==
  ASSUME NEW data \in Seq(Pairs), NEW new \in Seq(Pairs), NEW B \in SUBSET Pairs,
         NEW D, NEW E, Delivered(data, B, D), First(D, B), First(E, B), D \subseteq E,
         \A i \in DOMAIN new : new[i] \in B => new[i] \in E \ D,
         \A b \in E \ D : \E i \in DOMAIN new : new[i] = b,
         \A i, j \in DOMAIN new : i < j /\ new[i] \in B /\ new[j] \in B =>
                                    Parser!Precedes(new[i], new[j])
  PROVE  Delivered(data \o new, B, E)
<1> DEFINE all1 == data \o new
           l == Len(data)
           k == Len(new)
<1>1. /\ all1 \in Seq(Pairs) /\ l \in Nat /\ k \in Nat /\ DOMAIN all1 = 1..(l + k)
      /\ DOMAIN data = 1..l /\ DOMAIN new = 1..k
      /\ \A i \in 1..l : all1[i] = data[i]
      /\ \A i \in 1..k : all1[l + i] = new[i]
      /\ \A i \in DOMAIN all1 : i \in 1..l \/ i - l \in 1..k
  BY Joined
<1> HIDE DEF all1, l, k
<1>2. \A i \in DOMAIN all1 : all1[i] \in B => all1[i] \in E
  <2> SUFFICES ASSUME NEW i \in DOMAIN all1, all1[i] \in B PROVE all1[i] \in E
    OBVIOUS
  <2>1. CASE i \in 1..l
    BY <1>1, <2>1 DEF Delivered
  <2>2. CASE i - l \in 1..k
    <3>1. all1[i] = new[i - l]
      <4>1. l + (i - l) = i
        BY <1>1
      <4> QED BY <1>1, <2>2, <4>1
    <3> QED BY <1>1, <2>2, <3>1
  <2> QED BY <1>1, <2>1, <2>2
<1>3. \A b \in E : \E i \in DOMAIN all1 : all1[i] = b
  <2> TAKE b \in E
  <2>1. CASE b \in D
    <3>1. PICK i \in 1..l : data[i] = b
      BY <1>1, <2>1 DEF Delivered
    <3>2. i \in DOMAIN all1 /\ all1[i] = b
      BY <1>1, <3>1
    <3> QED BY <3>2
  <2>2. CASE b \notin D
    <3>1. PICK i \in 1..k : new[i] = b
      BY <1>1, <2>2
    <3>2. l + i \in DOMAIN all1 /\ all1[l + i] = b
      BY <1>1, <3>1
    <3> QED BY <3>2
  <2> QED BY <2>1, <2>2
<1>4. ASSUME NEW i \in DOMAIN all1, all1[i] \in B
      PROVE  /\ \A j \in 1..(i - 1) : all1[j] \in B => Parser!Precedes(all1[j], all1[i])
             /\ \A b \in B : Parser!Precedes(b, all1[i]) => \E j \in 1..(i - 1) : all1[j] = b
  <2>1. CASE i \in 1..l
    <3>1. /\ \A j \in 1..(i - 1) : data[j] \in B => Parser!Precedes(data[j], data[i])
          /\ \A b \in B : Parser!Precedes(b, data[i]) => \E j \in 1..(i - 1) : data[j] = b
      <4>1. i \in DOMAIN data /\ data[i] \in B
        BY <1>1, <1>4, <2>1
      <4> QED BY <4>1 DEF Delivered, Parser!InSequence
    <3>2. \A j \in 1..(i - 1) : j \in 1..l /\ all1[j] = data[j]
      BY <1>1, <2>1
    <3>3. all1[i] = data[i]
      BY <1>1, <2>1
    <3> QED BY <3>1, <3>2, <3>3
  <2>2. CASE i - l \in 1..k
    <3> DEFINE q == i - l
               e == new[q]
    <3>1. q \in 1..k /\ i = l + q /\ all1[i] = e /\ e \in B /\ e \in E \ D
      <4>1. l + q = i
        BY <1>1
      <4> QED BY <1>1, <1>4, <2>2, <4>1
    <3> HIDE DEF q
    <3>2. ASSUME NEW j \in 1..(i - 1), all1[j] \in B PROVE Parser!Precedes(all1[j], e)
      <4>1. CASE j \in 1..l
        <5>1. all1[j] = data[j] /\ data[j] \in D
          BY <1>1, <3>2, <4>1 DEF Delivered
        <5>2. data[j] \in Pairs /\ e \in Pairs /\ data[j] # e
          BY <3>1, <5>1 DEF First
        <5>3. ~Parser!Precedes(e, data[j])
          BY <3>1, <5>1 DEF First
        <5> QED BY <5>1, <5>2, <5>3, Order
      <4>2. CASE j \notin 1..l
        <5>1. j - l \in 1..k /\ j - l < q /\ l + (j - l) = j
          BY <1>1, <3>1, <4>2
        <5>2. all1[j] = new[j - l]
          BY <1>1, <5>1
        <5> QED BY <1>1, <3>1, <3>2, <5>1, <5>2
      <4> QED BY <4>1, <4>2
    <3>3. ASSUME NEW b \in B, Parser!Precedes(b, e) PROVE \E j \in 1..(i - 1) : all1[j] = b
      <4>1. b \in E
        BY <3>1, <3>3 DEF First
      <4>2. CASE b \in D
        <5>1. PICK j \in 1..l : data[j] = b
          BY <1>1, <4>2 DEF Delivered
        <5>2. j \in 1..(i - 1) /\ all1[j] = b
          BY <1>1, <3>1, <5>1
        <5> QED BY <5>2
      <4>3. CASE b \notin D
        <5>1. PICK j \in 1..k : new[j] = b
          BY <1>1, <4>1, <4>3
        <5>2. j < q
          <6>1. j # q
            BY <3>1, <3>3, <5>1, Order
          <6>2. ~(q < j)
            <7> SUFFICES ASSUME q < j PROVE FALSE
              OBVIOUS
            <7>1. Parser!Precedes(e, b)
              BY <1>1, <3>1, <5>1
            <7> QED BY <3>1, <3>3, <7>1, Order
          <6> QED BY <1>1, <3>1, <6>1, <6>2
        <5>3. l + j \in 1..(i - 1) /\ all1[l + j] = b
          BY <1>1, <3>1, <5>1, <5>2
        <5> QED BY <5>3
      <4> QED BY <4>2, <4>3
    <3> QED BY <3>1, <3>2, <3>3
  <2> QED BY <1>1, <2>1, <2>2
<1>5. Parser!InSequence(all1, B)
  BY <1>4 DEF Parser!InSequence
<1>6. Delivered(all1, B, E)
  BY <1>2, <1>3, <1>5 DEF Delivered
<1> QED BY <1>6 DEF all1

\* What is added is none of the bytes B.
LEMMA Unconcerned ==
  ASSUME NEW data \in Seq(Pairs), NEW new \in Seq(Pairs), NEW B \in SUBSET Pairs,
         NEW D, Delivered(data, B, D), First(D, B), \A i \in DOMAIN new : new[i] \notin B
  PROVE  Delivered(data \o new, B, D)
BY Extended

\* What the bytes are.
LEMMA BytesAre ==
  ASSUME ParserSizes, inp \in Inputs
  PROVE  /\ Parser!AudioBytes \in SUBSET Pairs /\ Parser!VideoBytes \in SUBSET Pairs
         /\ \A b \in Pairs : b \in Parser!AudioBytes <=>
              /\ b[1] \in 1..Len(inp) /\ inp[b[1]].type = "audio"
              /\ b[2] \in {Parser!Header, Parser!LengthBytes} \/ (1 <= b[2] /\ b[2] <= inp[b[1]].n)
         /\ \A b \in Pairs : b \in Parser!VideoBytes <=>
              /\ b[1] \in 1..Len(inp) /\ inp[b[1]].type = "video"
              /\ 1 <= b[2] /\ b[2] <= inp[b[1]].n
<1>1. inp \in Seq(Packets) /\ Len(inp) \in Nat
  BY InputTypes
<1>2. \A k \in 1..Len(inp) : inp[k].n \in Nat
  <2>1. \A k \in 1..Len(inp) : inp[k] \in Packets
    BY <1>1
  <2> QED BY <2>1 DEF Packets
<1>3. Parser!Header \in Int /\ Parser!LengthBytes \in Int
  BY DEF Parser!Header, Parser!LengthBytes
<1>4. Parser!AudioBytes \in SUBSET Pairs
  BY <1>1, <1>2, <1>3 DEF Parser!AudioBytes, Parser!Played, Pairs
<1>5. Parser!VideoBytes \in SUBSET Pairs
  BY <1>1, <1>2 DEF Parser!VideoBytes, Parser!Played, Pairs
<1>6. ASSUME NEW b \in Pairs
      PROVE  b \in Parser!AudioBytes <=>
              /\ b[1] \in 1..Len(inp) /\ inp[b[1]].type = "audio"
              /\ b[2] \in {Parser!Header, Parser!LengthBytes} \/ (1 <= b[2] /\ b[2] <= inp[b[1]].n)
  <2>1. b = <<b[1], b[2]>> /\ b[1] \in Int /\ b[2] \in Int
    BY DEF Pairs
  <2>2. b \in Parser!AudioBytes <=>
          \E k \in Parser!Played("audio") : b \in {k} \X ({Parser!Header, Parser!LengthBytes} \cup 1..inp[k].n)
    BY DEF Parser!AudioBytes
  <2>3. ASSUME NEW k \in Parser!Played("audio")
        PROVE  b \in {k} \X ({Parser!Header, Parser!LengthBytes} \cup 1..inp[k].n) <=>
               b[1] = k /\ (b[2] \in {Parser!Header, Parser!LengthBytes} \/ (1 <= b[2] /\ b[2] <= inp[k].n))
    BY <1>2, <2>1 DEF Parser!Played
  <2> QED BY <2>2, <2>3 DEF Parser!Played
<1>7. ASSUME NEW b \in Pairs
      PROVE  b \in Parser!VideoBytes <=>
              /\ b[1] \in 1..Len(inp) /\ inp[b[1]].type = "video"
              /\ 1 <= b[2] /\ b[2] <= inp[b[1]].n
  <2>1. b = <<b[1], b[2]>> /\ b[1] \in Int /\ b[2] \in Int
    BY DEF Pairs
  <2>2. b \in Parser!VideoBytes <=> \E k \in Parser!Played("video") : b \in {k} \X (1..inp[k].n)
    BY DEF Parser!VideoBytes
  <2>3. ASSUME NEW k \in Parser!Played("video")
        PROVE  b \in {k} \X (1..inp[k].n) <=> b[1] = k /\ 1 <= b[2] /\ b[2] <= inp[k].n
    BY <1>2, <2>1 DEF Parser!Played
  <2> QED BY <2>2, <2>3 DEF Parser!Played
<1> QED BY <1>4, <1>5, <1>6, <1>7

\* The places of bytes.
Proper(B) ==
  /\ B \in SUBSET Pairs
  /\ \A b \in B : b[2] = Parser!Header \/ b[2] = Parser!LengthBytes \/ 1 <= b[2]

LEMMA UpToFirst ==
  ASSUME NEW B, Proper(B), NEW k \in Int, NEW h \in Int, NEW o \in Int,
         o <= 0 \/ 2 <= h \/ \A b \in B : 1 <= b[2]
  PROVE  First(UpTo(B, k, h, o), B)
<1> SUFFICES ASSUME NEW b \in B, NEW d \in UpTo(B, k, h, o), Parser!Precedes(b, d)
             PROVE  b \in UpTo(B, k, h, o)
  BY DEF First, UpTo
<1>1. d \in B /\ b \in Pairs /\ d \in Pairs
  BY DEF UpTo, Proper
<1>2. b[1] \in Int /\ b[2] \in Int /\ d[1] \in Int /\ d[2] \in Int
  BY <1>1 DEF Pairs
<1>3. b[2] = Parser!Header \/ b[2] = Parser!LengthBytes \/ 1 <= b[2]
  BY DEF Proper
<1> QED BY <1>1, <1>2, <1>3 DEF UpTo, Parser!Precedes, Parser!Header, Parser!LengthBytes

LEMMA UpToMore ==
  ASSUME NEW B, Proper(B), NEW k \in Int, NEW h \in Int, NEW o \in Int, NEW hh \in Int,
         NEW oo \in Int, h <= hh, o <= oo
  PROVE  UpTo(B, k, h, o) \subseteq UpTo(B, k, hh, oo)
<1> SUFFICES ASSUME NEW b \in UpTo(B, k, h, o) PROVE b \in UpTo(B, k, hh, oo)
  OBVIOUS
<1>1. b \in B /\ b[2] \in Int
  BY DEF UpTo, Proper, Pairs
<1> QED BY <1>1 DEF UpTo

\* All of packet k.
LEMMA UpToNext ==
  ASSUME NEW B, Proper(B), NEW k \in Int, NEW h \in Int, NEW o \in Int,
         \A b \in B : b[1] = k => b \in UpTo(B, k, h, o)
  PROVE  UpTo(B, k, h, o) = UpTo(B, k + 1, 0, 0)
<1>1. \A b \in B : b[1] \in Int /\ b[2] \in Int
  BY DEF Proper, Pairs
<1>2. ASSUME NEW b \in B PROVE b \in UpTo(B, k, h, o) <=> b \in UpTo(B, k + 1, 0, 0)
  <2>1. b[1] \in Int /\ b[2] \in Int
    BY <1>1
  <2>2. b \in UpTo(B, k + 1, 0, 0) <=> b[1] < k + 1
    BY <2>1 DEF UpTo
  <2>3. b[1] < k => b \in UpTo(B, k, h, o)
    BY DEF UpTo
  <2>4. b \in UpTo(B, k, h, o) => b[1] <= k
    BY <2>1 DEF UpTo
  <2> QED BY <2>1, <2>2, <2>3, <2>4
<1> QED BY <1>2 DEF UpTo

\* Nothing of packet k.
LEMMA UpToNone ==
  ASSUME NEW B, NEW k, NEW h, NEW o, NEW hh, NEW oo, \A b \in B : b[1] # k
  PROVE  UpTo(B, k, h, o) = UpTo(B, k, hh, oo)
BY DEF UpTo

LEMMA ProperBytes ==
  ASSUME ParserSizes, inp \in Inputs
  PROVE  Proper(Parser!AudioBytes) /\ Proper(Parser!VideoBytes) /\ \A b \in Parser!VideoBytes : 1 <= b[2]
BY BytesAre DEF Proper

-----------------------------------------------------------------------------
LEMMA JoinedFrom ==
  ASSUME NEW T, NEW s \in Seq(T), NEW t \in Seq(T), NEW i \in DOMAIN (s \o t)
  PROVE  \/ i \in DOMAIN s /\ (s \o t)[i] = s[i]
         \/ \E j \in DOMAIN t : (s \o t)[i] = t[j]
<1>1. i \in 1..Len(s) \/ i - Len(s) \in 1..Len(t)
  BY Joined
<1>2. CASE i - Len(s) \in 1..Len(t)
  <2>1. Len(s) \in Nat /\ i \in Int
    BY Joined
  <2>2. Len(s) + (i - Len(s)) = i
    BY <2>1
  <2> QED BY <1>2, <2>2, Joined
<1> QED BY <1>1, <1>2, Joined

LEMMA Empty ==
  ASSUME NEW S, NEW s \in Seq(S), NEW e, e \in Seq(S), Len(e) = 0
  PROVE  s \o e = s
BY ConcatProperties

\* What the parser is in.
LEMMA Setting ==
  ASSUME ParserSizes, ParserInv, ~Parser!Ended
  PROVE  /\ packet \in 1..Len(inp) /\ packet \in Nat /\ Len(inp) \in Nat /\ inp[packet].n \in Nat
         /\ inp[packet].type \in Parser!Types
         /\ off \in Nat /\ remain \in Nat /\ bufsz \in Nat /\ headernum \in 0..4
         /\ state \in 1..5 /\ inp \in Inputs /\ inp \in Seq(Packets)
<1>1. packet \in 1..Len(inp) /\ inp[packet] \in Packets
  BY PacketType
<1>2. inp \in Inputs /\ inp \in Seq(Packets)
  BY InputTypes DEF ParserInv, Parser!TypeOK
<1>3. Len(inp) \in Nat
  BY <1>2
<1>4. bufsz \in 0..Pack /\ Pack \in Nat
  BY DEF ParserInv, Parser!TypeOK, ParserSizes
<1> QED BY <1>1, <1>2, <1>3, <1>4 DEF Packets, ParserInv, Parser!TypeOK, Parser!Frame

\* The bytes of the packet are in one of the rings at most.
LEMMA Whose ==
  ASSUME ParserSizes, ParserInv, ~Parser!Ended
  PROVE  /\ inp[packet].type # "audio" => \A b \in Parser!AudioBytes : b[1] # packet
         /\ inp[packet].type # "video" => \A b \in Parser!VideoBytes : b[1] # packet
<1>1. inp \in Inputs
  BY Setting
<1>2. \A b \in Parser!AudioBytes : b \in Pairs /\ inp[b[1]].type = "audio"
  BY <1>1, BytesAre
<1>3. \A b \in Parser!VideoBytes : b \in Pairs /\ inp[b[1]].type = "video"
  BY <1>1, BytesAre
<1> QED BY <1>2, <1>3

LEMMA EntriesPairs ==
  ASSUME ParserSizes, ParserInv, Clean
  PROVE  /\ Entries \in SUBSET Pairs
         /\ audio \in Seq(Pairs) /\ video \in Seq(Pairs)
<1>1. Len(inp) \in Nat
  BY InputTypes DEF ParserInv, Parser!TypeOK
<1>2. Entries \in SUBSET Pairs
  BY <1>1 DEF Entries, Pairs
<1>3. audio \in Seq(Entries) /\ video \in Seq(Entries)
  BY DEF Clean
<1> QED BY <1>2, <1>3

\* The bytes of the packet, when there are none of it in B.
LEMMA PassedBy ==
  ASSUME ParserSizes, ParserInv, ~Parser!Ended, NEW B, Proper(B), \A b \in B : b[1] # packet
  PROVE  /\ Passed(B) = UpTo(B, packet, 0, 0)
         /\ UpTo(B, packet, 0, 0) = UpTo(B, packet + 1, 0, 0)
<1>1. packet \in Int
  BY Setting
<1>2. Passed(B) = UpTo(B, packet, 0, 0)
  BY UpToNone DEF Passed
<1>3. UpTo(B, packet, 0, 0) = UpTo(B, packet + 1, 0, 0)
  BY <1>1, UpToNext
<1> QED BY <1>2, <1>3

\* The parser is done with the packet,
Finished == packet' = packet + 1 /\ off' = 0 /\ state' = 1
\* or stays in it.
StaysInside == packet' = packet /\ off' \in Nat /\ off' > 3

\* So they are passed by the next step too.
LEMMA PassedByStep ==
  ASSUME ParserSizes, ParserInv, ~Parser!Ended, NEW B, Proper(B), \A b \in B : b[1] # packet,
         NEW D, D = IF state' = Parser!Frame THEN UpTo(B, packet', headernum', off' - 6)
                                      ELSE UpTo(B, packet', 0, 0),
         Finished \/ packet' = packet
  PROVE  D = Passed(B)
<1>1. CASE Finished
  <2>1. D = UpTo(B, packet + 1, 0, 0)
    BY <1>1 DEF Finished, Parser!Frame
  <2> QED BY <2>1, PassedBy
<1>2. CASE packet' = packet
  <2>1. D = UpTo(B, packet, 0, 0)
    BY <1>2, UpToNone
  <2> QED BY <2>1, PassedBy
<1> QED BY <1>1, <1>2

LEMMA SameBytes ==
  ASSUME inp' = inp
  PROVE  Parser!AudioBytes' = Parser!AudioBytes /\ Parser!VideoBytes' = Parser!VideoBytes /\ Entries' = Entries
BY DEF Parser!AudioBytes, Parser!VideoBytes, Entries, Parser!Played

LEMMA PlacedOther ==
  ASSUME inp' = inp, inp[packet].type \notin AV,
         \/ Finished
         \/ /\ StaysInside /\ state' \in {1, Parser!Frame}
            /\ state' = Parser!Frame /\ remain' > 0 => frame_state' # 2
  PROVE  OnTrack'
<1>1. CASE Finished
  BY <1>1 DEF Finished, OnTrack, Parser!Frame
<1>2. CASE StaysInside /\ state' \in {1, Parser!Frame} /\ (state' = Parser!Frame /\ remain' > 0 => frame_state' # 2)
  <2>1. off' > 3 => state' # 4
    BY <1>2 DEF Parser!Frame
  <2>2. (off' = 0 => state' = 1)
    BY <1>2 DEF StaysInside
  <2>3. (off' \in 1..3 => state' = off' + 1)
    BY <1>2 DEF StaysInside
  <2>4. ~((~Parser!Ended /\ off > 3 /\ inp[packet].type \in AV)')
    BY <1>2 DEF StaysInside
  <2>5. ~((state = Parser!Frame /\ remain > 0 /\ frame_state = 2)')
    BY <1>2
  <2> QED BY <2>1, <2>2, <2>3, <2>4, <2>5 DEF OnTrack
<1> QED BY <1>1, <1>2

\* A packet that is not played.
LEMMA OtherWhole ==
  ASSUME ParserSizes, ParserInv, WholeInv, ~Parser!Ended, inp' = inp, inp[packet].type \notin AV,
         UNCHANGED <<video, cut>>,
         NEW new \in Seq({packet} \X Int), audio' = audio \o new,
         \/ Finished
         \/ /\ StaysInside /\ state' \in {1, Parser!Frame}
            /\ state' = Parser!Frame /\ remain' > 0 => frame_state' # 2
  PROVE  WholeInv'
<1>1. inp \in Inputs /\ packet \in 1..Len(inp) /\ Len(inp) \in Nat
  BY Setting
<1>2. Proper(Parser!AudioBytes) /\ Proper(Parser!VideoBytes)
  BY <1>1, ProperBytes
<1>3. (\A b \in Parser!AudioBytes : b[1] # packet) /\ (\A b \in Parser!VideoBytes : b[1] # packet)
  BY Whose DEF AV
<1>4. Parser!AudioBytes' = Parser!AudioBytes /\ Parser!VideoBytes' = Parser!VideoBytes /\ Entries' = Entries
  BY SameBytes
<1>5. Finished \/ packet' = packet
  BY DEF StaysInside
<1>6. Passed(Parser!AudioBytes)' = Passed(Parser!AudioBytes)
  <2>1. Passed(Parser!AudioBytes)' = IF state' = Parser!Frame THEN UpTo(Parser!AudioBytes, packet', headernum', off' - 6)
                                                ELSE UpTo(Parser!AudioBytes, packet', 0, 0)
    BY <1>4 DEF Passed
  <2> QED BY <2>1, <1>2, <1>3, <1>5, PassedByStep
<1>7. Passed(Parser!VideoBytes)' = Passed(Parser!VideoBytes)
  <2>1. Passed(Parser!VideoBytes)' = IF state' = Parser!Frame THEN UpTo(Parser!VideoBytes, packet', headernum', off' - 6)
                                                ELSE UpTo(Parser!VideoBytes, packet', 0, 0)
    BY <1>4 DEF Passed
  <2> QED BY <2>1, <1>2, <1>3, <1>5, PassedByStep
<1>8. OnTrack'
  BY PlacedOther
<1>9. Clean /\ audio \in Seq(Pairs) /\ video \in Seq(Pairs) /\ Entries \in SUBSET Pairs
  BY EntriesPairs DEF WholeInv
<1>10. new \in Seq(Entries) /\ new \in Seq(Pairs) /\ \A i \in DOMAIN new : new[i][1] = packet
  <2>1. {packet} \X Int \subseteq Entries
    BY <1>1 DEF Entries
  <2>2. \A i \in DOMAIN new : new[i] \in {packet} \X Int
    OBVIOUS
  <2> QED BY <2>1, <2>2, <1>9
<1>11. Clean'
  <2>1. audio' \in Seq(Entries)' /\ video' \in Seq(Entries)'
    BY <1>4, <1>9, <1>10 DEF Clean
  <2>2. ASSUME NEW i \in DOMAIN audio', inp'[audio'[i][1]].type = "audio"
        PROVE  audio'[i] \in Parser!AudioBytes'
    <3>1. (\E j \in DOMAIN audio : audio'[i] = audio[j])
          \/ (\E j \in DOMAIN new : audio'[i] = new[j])
      <4>1. i \in DOMAIN (audio \o new) /\ audio'[i] = (audio \o new)[i]
        OBVIOUS
      <4>2. \/ i \in DOMAIN audio /\ (audio \o new)[i] = audio[i]
            \/ \E j \in DOMAIN new : (audio \o new)[i] = new[j]
        BY SMT, <1>9, <1>10, <4>1, JoinedFrom
      <4> QED BY Zenon, <4>1, <4>2
    <3> QED BY <1>4, <1>9, <1>10, <2>2, <3>1 DEF Clean, AV
  <2> QED BY <2>1, <2>2, <1>4, <1>9 DEF Clean
<1>12. Headed'
  <2>1. ~(state' = Parser!Frame /\ inp'[packet'].type = "video")
    BY DEF Finished, StaysInside, AV, Parser!Frame
  <2> QED BY <2>1 DEF Headed, WholeInv
<1>13. Delivered(audio, Parser!AudioBytes, Passed(Parser!AudioBytes))'
  <2>1. \A i \in DOMAIN new : new[i] \notin Parser!AudioBytes
    BY <1>3, <1>10
  <2>2. First(Passed(Parser!AudioBytes), Parser!AudioBytes)
    <3>1. Passed(Parser!AudioBytes) = UpTo(Parser!AudioBytes, packet, 0, 0)
      BY <1>2, <1>3, PassedBy
    <3> QED BY <3>1, <1>1, <1>2, UpToFirst
  <2>3. Delivered(audio \o new, Parser!AudioBytes, Passed(Parser!AudioBytes))
    BY <1>2, <1>9, <1>10, <2>1, <2>2, Unconcerned DEF WholeInv, Proper
  <2> QED BY <2>3, <1>4, <1>6
<1>14. Delivered(video, Parser!VideoBytes, Passed(Parser!VideoBytes))'
  BY <1>4, <1>7 DEF WholeInv
<1> QED BY <1>8, <1>11, <1>12, <1>13, <1>14 DEF WholeInv

-----------------------------------------------------------------------------
(* A packet that is played.                                                *)

LEMMA HeadersOf ==
  ASSUME NEW h \in 0..4, NEW k \in 0..4, h <= k, packet \in Nat
  PROVE  /\ Parser!Headers(h, k) \in Seq({packet} \X Int)
         /\ DOMAIN Parser!Headers(h, k) = 1..(k - h)
         /\ \A i \in 1..(k - h) :
              /\ h + i \in {1, 3} => Parser!Headers(h, k)[i] = <<packet, Parser!Header>>
              /\ h + i \in {2, 4} => Parser!Headers(h, k)[i] = <<packet, Parser!LengthBytes>>
         /\ \A i \in 1..(k - h) : h + i \in {1, 2, 3, 4}
<1> DEFINE v(i) == <<packet, IF (h + i) % 2 = 1 THEN Parser!Header ELSE Parser!LengthBytes>>
<1>1. Parser!Headers(h, k) = [i \in 1..(k - h) |-> v(i)]
  BY DEF Parser!Headers
<1>2. k - h \in Nat
  OBVIOUS
<1>3. \A i \in 1..(k - h) : v(i) \in {packet} \X Int
  BY DEF Parser!Header, Parser!LengthBytes
<1>4. \A i \in 1..(k - h) :
        /\ h + i \in {1, 3} => v(i) = <<packet, Parser!Header>>
        /\ h + i \in {2, 4} => v(i) = <<packet, Parser!LengthBytes>>
  OBVIOUS
<1>5. \A i \in 1..(k - h) : h + i \in {1, 2, 3, 4}
  OBVIOUS
<1> HIDE DEF v
<1>6. [i \in 1..(k - h) |-> v(i)] \in Seq({packet} \X Int)
  BY <1>2, <1>3
<1> QED BY <1>1, <1>4, <1>5, <1>6

Portion(k, o, m) == [j \in 1..m |-> <<k, o + j>>]

LEMMA BytesOf ==
  ASSUME NEW k \in Nat, NEW o \in Int, NEW m \in Nat
  PROVE  /\ Portion(k, o, m) \in Seq({k} \X Int) /\ DOMAIN Portion(k, o, m) = 1..m
         /\ \A j \in 1..m : Portion(k, o, m)[j] = <<k, o + j>>
<1>1. \A j \in 1..m : <<k, o + j>> \in {k} \X Int
  OBVIOUS
<1> QED BY <1>1 DEF Portion

\* The payload that is added is the next one.
LEMMA MorePayload ==
  ASSUME NEW B, Proper(B), NEW r \in Nat, NEW k \in 0..4, NEW o \in Nat, NEW m \in Nat,
         NEW data \in Seq(Pairs), Delivered(data, B, UpTo(B, r, k, o)),
         (o + m > 0 => 2 <= k) \/ \A b \in B : 1 <= b[2],
         \A j \in 1..m : <<r, o + j>> \in B
  PROVE  Delivered(data \o Portion(r, o, m), B, UpTo(B, r, k, o + m))
<1> DEFINE new == Portion(r, o, m)
           D == UpTo(B, r, k, o)
           E == UpTo(B, r, k, o + m)
<1>1. /\ new \in Seq({r} \X Int) /\ DOMAIN new = 1..m
      /\ \A j \in 1..m : new[j] = <<r, o + j>>
  <2>1. o \in Int
    OBVIOUS
  <2> QED BY Zenon, <2>1, BytesOf
<1>2. new \in Seq(Pairs)
  <2>1. {r} \X Int \subseteq Pairs
    BY DEF Pairs
  <2> QED BY <1>1, <2>1
<1>3. First(D, B) /\ First(E, B) /\ D \subseteq E
  <2>1. First(D, B)
    BY UpToFirst
  <2>2. First(E, B)
    BY UpToFirst
  <2>3. D \subseteq E
    BY UpToMore
  <2> QED BY <2>1, <2>2, <2>3
<1>4. \A j \in 1..m : new[j] \in E \ D
  <2> SUFFICES ASSUME NEW j \in 1..m PROVE <<r, o + j>> \in E /\ <<r, o + j>> \notin D
    BY <1>1
  <2>1. <<r, o + j>> \in B /\ <<r, o + j>>[1] = r /\ <<r, o + j>>[2] = o + j
    OBVIOUS
  <2> QED BY <2>1 DEF UpTo, Parser!Header, Parser!LengthBytes
<1>5. ASSUME NEW b \in E \ D PROVE \E i \in DOMAIN new : new[i] = b
  <2>1. b \in B /\ b \in Pairs
    BY DEF UpTo, Proper
  <2>2. b[1] \in Int /\ b[2] \in Int /\ b = <<b[1], b[2]>>
    BY <2>1 DEF Pairs
  <2>3. b[1] = r /\ o < b[2] /\ b[2] <= o + m
    BY <1>5, <2>1, <2>2 DEF UpTo
  <2>4. b[2] - o \in 1..m /\ o + (b[2] - o) = b[2]
    BY <2>2, <2>3
  <2>5. new[b[2] - o] = b
    BY <1>1, <2>2, <2>3, <2>4
  <2> QED BY <1>1, <2>4, <2>5
<1>6. \A i, j \in DOMAIN new : i < j => Parser!Precedes(new[i], new[j])
  <2> SUFFICES ASSUME NEW i \in 1..m, NEW j \in 1..m, i < j
               PROVE  Parser!Precedes(<<r, o + i>>, <<r, o + j>>)
    BY <1>1
  <2> QED BY DEF Parser!Precedes
<1>7. B \in SUBSET Pairs
  BY DEF Proper
<1> HIDE DEF new, D, E
<1>8. Delivered(data, B, D)
  BY DEF D
<1>9. Delivered(data \o new, B, E)
  BY <1>1, <1>2, <1>3, <1>4, <1>5, <1>6, <1>7, <1>8, Extended
<1> QED BY <1>9 DEF new, E

\* Of an audio packet, the header comes before.
LEMMA AudioHeader ==
  ASSUME ParserSizes, ParserInv, ~Parser!Ended, inp[packet].type = "audio",
         NEW h \in 0..2, NEW k \in 0..2, h <= k, NEW o \in Nat, o > 0 => h = 2,
         NEW data \in Seq(Pairs), Delivered(data, Parser!AudioBytes, UpTo(Parser!AudioBytes, packet, h, o))
  PROVE  Delivered(data \o Parser!Headers(h, k), Parser!AudioBytes, UpTo(Parser!AudioBytes, packet, k, o))
<1> DEFINE B == Parser!AudioBytes
           new == Parser!Headers(h, k)
           D == UpTo(B, packet, h, o)
           E == UpTo(B, packet, k, o)
<1>1. packet \in Nat /\ packet \in 1..Len(inp) /\ inp \in Inputs
  BY Setting
<1>2. Proper(B) /\ B \in SUBSET Pairs
  BY <1>1, ProperBytes DEF Proper
<1>3. <<packet, Parser!Header>> \in B /\ <<packet, Parser!LengthBytes>> \in B
  <2>1. <<packet, Parser!Header>> \in Pairs /\ <<packet, Parser!LengthBytes>> \in Pairs
    BY <1>1 DEF Pairs, Parser!Header, Parser!LengthBytes
  <2>2. <<packet, Parser!Header>>[1] = packet /\ <<packet, Parser!Header>>[2] = Parser!Header
        /\ <<packet, Parser!LengthBytes>>[1] = packet /\ <<packet, Parser!LengthBytes>>[2] = Parser!LengthBytes
    OBVIOUS
  <2> QED BY <1>1, <2>1, <2>2, BytesAre
<1>4. /\ new \in Seq({packet} \X Int) /\ DOMAIN new = 1..(k - h)
      /\ \A i \in 1..(k - h) : /\ h + i = 1 => new[i] = <<packet, Parser!Header>>
                               /\ h + i = 2 => new[i] = <<packet, Parser!LengthBytes>>
                               /\ h + i \in {1, 2}
  <2>1. /\ new \in Seq({packet} \X Int) /\ DOMAIN new = 1..(k - h)
        /\ \A i \in 1..(k - h) : /\ h + i \in {1, 3} => new[i] = <<packet, Parser!Header>>
                                 /\ h + i \in {2, 4} => new[i] = <<packet, Parser!LengthBytes>>
    <3>1. h \in 0..4 /\ k \in 0..4
      OBVIOUS
    <3> HIDE DEF new
    <3>2. new = Parser!Headers(h, k)
      BY DEF new
    <3> QED BY <1>1, <3>1, <3>2, HeadersOf
  <2>2. \A i \in 1..(k - h) : h + i \in {1, 2}
    OBVIOUS
  <2> QED BY <2>1, <2>2
<1>5. new \in Seq(Pairs)
  <2>1. {packet} \X Int \subseteq Pairs
    BY <1>1 DEF Pairs
  <2> QED BY <1>4, <2>1
<1>6. First(D, B) /\ First(E, B) /\ D \subseteq E
  <2>1. /\ packet \in Int /\ h \in Int /\ k \in Int /\ o \in Int /\ o <= o
        /\ o <= 0 \/ 2 <= h
        /\ o <= 0 \/ 2 <= k
    BY <1>1
  <2> HIDE DEF B
  <2>2. First(D, B)
    BY Zenon, <1>2, <2>1, UpToFirst
  <2>3. First(E, B)
    BY Zenon, <1>2, <2>1, UpToFirst
  <2>4. D \subseteq E
    BY Zenon, <1>2, <2>1, UpToMore
  <2> QED BY <2>2, <2>3, <2>4
<1> HIDE DEF B, new
<1>7. \A i \in 1..(k - h) : new[i] \in E \ D
  <2> TAKE i \in 1..(k - h)
  <2>1. CASE h + i = 1
    <3>1. new[i] = <<packet, Parser!Header>> /\ h = 0 /\ 1 <= k
      <4>1. h = 0 /\ 1 <= k
        BY <2>1
      <4> QED BY Zenon, <1>4, <2>1, <4>1
    <3>2. <<packet, Parser!Header>>[1] = packet /\ <<packet, Parser!Header>>[2] = Parser!Header
      OBVIOUS
    <3> QED BY <1>1, <1>3, <3>1, <3>2 DEF UpTo, Parser!Header, Parser!LengthBytes
  <2>2. CASE h + i = 2
    <3>1. new[i] = <<packet, Parser!LengthBytes>> /\ h < 2 /\ 2 <= k
      <4>1. h < 2 /\ 2 <= k
        BY <2>2
      <4> QED BY Zenon, <1>4, <2>2, <4>1
    <3>2. <<packet, Parser!LengthBytes>>[1] = packet /\ <<packet, Parser!LengthBytes>>[2] = Parser!LengthBytes
      OBVIOUS
    <3> QED BY <1>1, <1>3, <3>1, <3>2 DEF UpTo, Parser!Header, Parser!LengthBytes
  <2> QED BY <1>4, <2>1, <2>2
<1>8. ASSUME NEW b \in E \ D PROVE \E i \in DOMAIN new : new[i] = b
  <2>1. b \in B /\ b \in Pairs
    BY <1>2 DEF UpTo
  <2>2. b[1] \in Int /\ b[2] \in Int /\ b = <<b[1], b[2]>>
    BY <2>1 DEF Pairs
  <2>3. b[1] = packet /\ \/ b[2] = Parser!Header /\ h = 0 /\ 1 <= k
                         \/ b[2] = Parser!LengthBytes /\ h < 2 /\ 2 <= k
    BY <1>8, <2>1, <2>2 DEF UpTo
  <2>4. CASE b[2] = Parser!Header /\ h = 0 /\ 1 <= k
    <3>1. 1 \in 1..(k - h) /\ h + 1 = 1
      BY <2>4
    <3> QED BY <1>4, <2>2, <2>3, <2>4, <3>1
  <2>5. CASE b[2] = Parser!LengthBytes /\ h < 2 /\ 2 <= k
    <3>1. 2 - h \in 1..(k - h) /\ h + (2 - h) = 2
      BY <2>5
    <3> QED BY <1>4, <2>2, <2>3, <2>5, <3>1
  <2> QED BY <2>3, <2>4, <2>5
<1>9. ASSUME NEW i \in 1..(k - h), NEW j \in 1..(k - h), i < j
      PROVE  Parser!Precedes(new[i], new[j])
  <2>1. h + i = 1 /\ h + j = 2
    BY <1>9
  <2>2. new[i] = <<packet, Parser!Header>> /\ new[j] = <<packet, Parser!LengthBytes>>
    BY <1>4, <2>1
  <2> QED BY <2>2 DEF Parser!Precedes, Parser!Header, Parser!LengthBytes
<1>10. Delivered(data, B, D)
  BY DEF B
<1> HIDE DEF D, E
<1>11. Delivered(data \o new, B, E)
  BY <1>2, <1>4, <1>5, <1>6, <1>7, <1>8, <1>9, <1>10, Extended
<1> QED BY <1>11 DEF B, new, E

LEMMA Confined ==
  ASSUME NEW T, NEW s \in Seq(T), NEW S, \A i \in DOMAIN s : s[i] \in S
  PROVE  s \in Seq(S)
OBVIOUS

\* The parser stays in the packet, with k parts of its header and t bytes of its
\* payload.
Reaches(k, t) ==
  /\ StaysInside /\ Playing' /\ headernum' = k
  /\ off' - 6 = t \/ (off' <= 6 /\ t = 0)

LEMMA PlacedPlaying ==
  ASSUME inp' = inp, inp[packet].type \in AV, Finished \/ (StaysInside /\ Playing')
  PROVE  OnTrack'
<1>1. CASE Finished
  BY <1>1 DEF Finished, OnTrack, Parser!Frame
<1>2. CASE StaysInside /\ Playing'
  <2>1. off' > 3 /\ state' = 5 /\ packet' = packet /\ off' \in Nat
    BY <1>2 DEF StaysInside, Playing, Parser!Frame
  <2>2. (state = Parser!Frame /\ remain > 0 /\ frame_state = 2 => inp[packet].type = "video")'
    BY <1>2, <2>1 DEF Playing, AV
  <2>3. (off' = 0 => state' = 1) /\ (off' > 3 => state' # 4)
    BY <2>1
  <2>4. (off' \in 1..3 => state' = off' + 1)
    BY <2>1
  <2> QED BY <1>2, <2>2, <2>3, <2>4 DEF OnTrack
<1> QED BY <1>1, <1>2

LEMMA SamePlace ==
  ASSUME NEW x \in Nat, NEW t \in Nat, x - 6 = t \/ (x <= 6 /\ t = 0), NEW y \in Int
  PROVE  1 <= y /\ y <= x - 6 <=> 1 <= y /\ y <= t
OBVIOUS

LEMMA MovedPassed ==
  ASSUME NEW B, Proper(B), packet \in Nat, NEW k \in 0..4, NEW t \in Nat,
         NEW D, D = IF state' = Parser!Frame THEN UpTo(B, packet', headernum', off' - 6)
                                      ELSE UpTo(B, packet', 0, 0),
         \/ Finished /\ \A b \in B : b[1] = packet => b \in UpTo(B, packet, k, t)
         \/ Reaches(k, t)
  PROVE  D = UpTo(B, packet, k, t)
<1>1. CASE Finished /\ \A b \in B : b[1] = packet => b \in UpTo(B, packet, k, t)
  <2>1. D = UpTo(B, packet + 1, 0, 0)
    BY <1>1 DEF Finished, Parser!Frame
  <2>2. packet \in Int /\ k \in Int /\ t \in Int
    OBVIOUS
  <2> QED BY <1>1, <2>1, <2>2, UpToNext
<1>2. CASE Reaches(k, t)
  <2>1. D = UpTo(B, packet, k, off' - 6) /\ off' \in Nat
    <3>1. state' = Parser!Frame /\ packet' = packet /\ headernum' = k /\ off' \in Nat
      BY <1>2 DEF Reaches, StaysInside, Playing
    <3> QED BY Zenon, <3>1
  <2>2. off' - 6 = t \/ (off' <= 6 /\ t = 0)
    BY Zenon, <1>2 DEF Reaches
  <2>3. ASSUME NEW b \in B PROVE 1 <= b[2] /\ b[2] <= off' - 6 <=> 1 <= b[2] /\ b[2] <= t
    <3>1. b[2] \in Int
      BY DEF Proper, Pairs
    <3> QED BY Zenon, <2>1, <2>2, <3>1, SamePlace
  <2> QED BY <2>1, <2>3 DEF UpTo
<1> QED BY <1>1, <1>2

\* An audio packet: k parts of the header after h, and m bytes after o.
LEMMA AudioMoves ==
  ASSUME ParserSizes, ParserInv, WholeInv, ~Parser!Ended, inp' = inp, inp[packet].type = "audio",
         UNCHANGED <<video, cut>>,
         NEW h \in 0..2, NEW k \in 0..2, h <= k, NEW o \in Nat, NEW m \in Nat,
         o > 0 => h = 2, o + m > 0 => k = 2, o + m <= inp[packet].n,
         Passed(Parser!AudioBytes) = UpTo(Parser!AudioBytes, packet, h, o),
         audio' = (audio \o Parser!Headers(h, k)) \o Portion(packet, o, m),
         \/ Finished /\ k = 2 /\ o + m = inp[packet].n
         \/ Reaches(k, o + m)
  PROVE  WholeInv'
<1> DEFINE H == Parser!Headers(h, k)
           P == Portion(packet, o, m)
           n == inp[packet].n
<1>1. inp \in Inputs /\ packet \in 1..Len(inp) /\ Len(inp) \in Nat /\ packet \in Nat /\ n \in Nat
  BY Setting
<1>2. Proper(Parser!AudioBytes) /\ Proper(Parser!VideoBytes)
  BY <1>1, ProperBytes
<1>3. \A b \in Parser!VideoBytes : b[1] # packet
  BY Whose
<1>4. Parser!AudioBytes' = Parser!AudioBytes /\ Parser!VideoBytes' = Parser!VideoBytes /\ Entries' = Entries
  BY SameBytes
<1>5. /\ k \in 0..4 /\ h \in 0..4 /\ o + m \in Nat
      /\ o + m = n => \A j \in 1..m : o + j <= n
      /\ \A j \in 1..m : o + j \in Int /\ 1 <= o + j /\ o + j <= n
  BY <1>1
<1>6. /\ \A b \in Pairs : b \in Parser!AudioBytes <=>
            /\ b[1] \in 1..Len(inp) /\ inp[b[1]].type = "audio"
            /\ b[2] \in {Parser!Header, Parser!LengthBytes} \/ (1 <= b[2] /\ b[2] <= inp[b[1]].n)
      /\ Parser!AudioBytes \in SUBSET Pairs
  BY <1>1, BytesAre
<1>7. ASSUME NEW x \in Int, x \in {Parser!Header, Parser!LengthBytes} \/ (1 <= x /\ x <= n)
      PROVE  <<packet, x>> \in Parser!AudioBytes
  <2>1. <<packet, x>> \in Pairs /\ <<packet, x>>[1] = packet /\ <<packet, x>>[2] = x
    BY <1>1 DEF Pairs
  <2> QED BY <1>1, <1>6, <1>7, <2>1
<1>8. Clean /\ audio \in Seq(Pairs) /\ video \in Seq(Pairs) /\ Entries \in SUBSET Pairs
  BY EntriesPairs DEF WholeInv
<1>9. /\ H \in Seq({packet} \X Int) /\ P \in Seq({packet} \X Int)
      /\ \A i \in DOMAIN H : H[i] \in Parser!AudioBytes
      /\ \A i \in DOMAIN P : P[i] \in Parser!AudioBytes
  <2>1. /\ P \in Seq({packet} \X Int) /\ DOMAIN P = 1..m
        /\ \A j \in 1..m : P[j] = <<packet, o + j>>
    <3>1. o \in Int
      OBVIOUS
    <3> QED BY Zenon, <1>1, <3>1, BytesOf
  <2>2. /\ H \in Seq({packet} \X Int) /\ DOMAIN H = 1..(k - h)
        /\ \A i \in 1..(k - h) : H[i] \in {<<packet, Parser!Header>>, <<packet, Parser!LengthBytes>>}
    <3> HIDE DEF H
    <3>1. H = Parser!Headers(h, k)
      BY DEF H
    <3>2. /\ H \in Seq({packet} \X Int) /\ DOMAIN H = 1..(k - h)
          /\ \A i \in 1..(k - h) :
              /\ h + i \in {1, 3} => H[i] = <<packet, Parser!Header>>
              /\ h + i \in {2, 4} => H[i] = <<packet, Parser!LengthBytes>>
          /\ \A i \in 1..(k - h) : h + i \in {1, 2, 3, 4}
      BY <1>1, <1>5, <3>1, HeadersOf
    <3> QED BY <3>2
  <2>3. Parser!Header \in Int /\ Parser!LengthBytes \in Int
    BY DEF Parser!Header, Parser!LengthBytes
  <2> HIDE DEF H, P, n
  <2>4. \A i \in 1..m : P[i] \in Parser!AudioBytes
    BY <1>5, <1>7, <2>1
  <2>5. \A i \in 1..(k - h) : H[i] \in Parser!AudioBytes
    BY <1>7, <2>2, <2>3
  <2> QED BY <2>1, <2>2, <2>4, <2>5
<1> HIDE DEF H, P, n
<1>10. H \in Seq(Entries) /\ P \in Seq(Entries) /\ H \in Seq(Pairs) /\ P \in Seq(Pairs)
  <2>1. {packet} \X Int \subseteq Entries
    BY <1>1 DEF Entries
  <2> QED BY <1>8, <1>9, <2>1
<1>11. audio' = (audio \o H) \o P
  BY DEF H, P
<1>12. Clean'
  <2>1. audio \in Seq(Entries) /\ video \in Seq(Entries)
    BY <1>8 DEF Clean
  <2> DEFINE S == {e \in Entries : inp[e[1]].type = "audio" => e \in Parser!AudioBytes}
  <2>2. audio \in Seq(S)
    <3>1. \A i \in DOMAIN audio : audio[i] \in S
      BY <1>8, <2>1 DEF Clean
    <3> QED BY <2>1, <3>1, Confined
  <2>3. H \in Seq(S) /\ P \in Seq(S)
    <3>1. (\A i \in DOMAIN H : H[i] \in S) /\ (\A i \in DOMAIN P : P[i] \in S)
      BY <1>9, <1>10
    <3> QED BY <1>10, <3>1, Confined
  <2>4. S \subseteq Entries
    OBVIOUS
  <2>5. \A e \in S : inp[e[1]].type = "audio" => e \in Parser!AudioBytes
    OBVIOUS
  <2> HIDE DEF S
  <2>6. audio' \in Seq(S)
    BY <1>11, <2>2, <2>3
  <2>7. audio' \in Seq(Entries) /\ \A i \in DOMAIN audio' : audio'[i] \in S
    BY <2>4, <2>6
  <2> QED BY <1>4, <1>8, <2>1, <2>5, <2>7 DEF Clean
<1>13. Headed'
  <2>1. ~(state' = Parser!Frame /\ inp'[packet'].type = "video")
    BY DEF Finished, Reaches, StaysInside, Parser!Frame
  <2> QED BY <2>1 DEF Headed, WholeInv
<1>14. OnTrack'
  BY PlacedPlaying DEF AV, Reaches
<1>15. Delivered(audio, Parser!AudioBytes, Passed(Parser!AudioBytes))'
  <2>1. Delivered(audio, Parser!AudioBytes, UpTo(Parser!AudioBytes, packet, h, o))
    BY DEF WholeInv
  <2>2. Delivered(audio \o H, Parser!AudioBytes, UpTo(Parser!AudioBytes, packet, k, o))
    BY <1>8, <2>1, AudioHeader DEF H
  <2>3. audio \o H \in Seq(Pairs)
    BY <1>8, <1>10
  <2>4. \A j \in 1..m : <<packet, o + j>> \in Parser!AudioBytes
    BY <1>5, <1>7
  <2>5. Delivered(audio', Parser!AudioBytes, UpTo(Parser!AudioBytes, packet, k, o + m))
    <3>1. o + m > 0 => 2 <= k
      OBVIOUS
    <3> QED BY Zenon, <1>1, <1>2, <1>5, <1>11, <2>2, <2>3, <2>4, <3>1, MorePayload DEF P
  <2>6. Passed(Parser!AudioBytes)' = UpTo(Parser!AudioBytes, packet, k, o + m)
    <3> DEFINE D == Passed(Parser!AudioBytes)'
    <3>1. D = IF state' = Parser!Frame THEN UpTo(Parser!AudioBytes, packet', headernum', off' - 6)
                                ELSE UpTo(Parser!AudioBytes, packet', 0, 0)
      BY <1>4 DEF Passed
    <3>2. Finished /\ k = 2 /\ o + m = n =>
            \A b \in Parser!AudioBytes : b[1] = packet => b \in UpTo(Parser!AudioBytes, packet, k, o + m)
      <4> SUFFICES ASSUME k = 2, o + m = n, NEW b \in Parser!AudioBytes, b[1] = packet
                   PROVE  b \in UpTo(Parser!AudioBytes, packet, k, o + m)
        OBVIOUS
      <4>1. b[2] \in {Parser!Header, Parser!LengthBytes} \/ (1 <= b[2] /\ b[2] <= n)
        BY <1>6 DEF n
      <4> QED BY <4>1 DEF UpTo
    <3> HIDE DEF D
    <3>3. D = UpTo(Parser!AudioBytes, packet, k, o + m)
      BY <1>1, <1>2, <1>5, <3>1, <3>2, MovedPassed DEF n
    <3> QED BY <3>3 DEF D
  <2> QED BY <1>4, <2>5, <2>6
<1>16. Delivered(video, Parser!VideoBytes, Passed(Parser!VideoBytes))'
  <2>1. Passed(Parser!VideoBytes)' = IF state' = Parser!Frame THEN UpTo(Parser!VideoBytes, packet', headernum', off' - 6)
                                                ELSE UpTo(Parser!VideoBytes, packet', 0, 0)
    BY <1>4 DEF Passed
  <2>2. Finished \/ packet' = packet
    BY DEF Reaches, StaysInside
  <2>3. Passed(Parser!VideoBytes)' = Passed(Parser!VideoBytes)
    BY <1>2, <1>3, <2>1, <2>2, PassedByStep
  <2> QED BY <1>4, <2>3 DEF WholeInv
<1> QED BY <1>12, <1>13, <1>14, <1>15, <1>16 DEF WholeInv

LEMMA UpToPayload ==
  ASSUME NEW B, Proper(B), \A b \in B : 1 <= b[2], NEW r, NEW h, NEW k, NEW o
  PROVE  UpTo(B, r, h, o) = UpTo(B, r, k, o)
<1>1. \A b \in B : b[2] # Parser!Header /\ b[2] # Parser!LengthBytes
  BY DEF Proper, Pairs, Parser!Header, Parser!LengthBytes
<1> QED BY <1>1 DEF UpTo

\* A video packet, likewise.  Its header is in the ring, but for those in cut.
LEMMA VideoHeaded ==
  ASSUME packet \in Nat, NEW h \in 0..4, NEW k \in 0..4, h <= k, NEW o \in Nat, NEW m \in Nat,
         video \in Seq(Pairs), cut \subseteq cut', m > 0 => packet \in cut' \/ 2 <= k,
         2 <= h => \E j \in DOMAIN video : video[j] = <<packet, Parser!LengthBytes>>,
         video' = (video \o Parser!Headers(h, k)) \o Portion(packet, o, m),
         \A i \in DOMAIN video : Parser!IsPayload(video[i]) /\ video[i][1] \notin cut =>
           \E j \in 1..(i - 1) : video[j] = <<video[i][1], Parser!LengthBytes>>
  PROVE  /\ \A i \in DOMAIN video' : Parser!IsPayload(video'[i]) /\ video'[i][1] \notin cut' =>
              \E j \in 1..(i - 1) : video'[j] = <<video'[i][1], Parser!LengthBytes>>
         /\ 2 <= k => \E j \in DOMAIN video' : video'[j] = <<packet, Parser!LengthBytes>>
<1> DEFINE H == Parser!Headers(h, k)
           P == Portion(packet, o, m)
           v1 == video \o H
           v2 == v1 \o P
           l == Len(video)
<1>1. /\ H \in Seq({packet} \X Int) /\ DOMAIN H = 1..(k - h)
      /\ \A i \in 1..(k - h) : H[i] \in {<<packet, Parser!Header>>, <<packet, Parser!LengthBytes>>}
      /\ \A i \in 1..(k - h) : h + i = 2 => H[i] = <<packet, Parser!LengthBytes>>
  <2> HIDE DEF H
  <2>1. H = Parser!Headers(h, k)
    BY DEF H
  <2>2. /\ H \in Seq({packet} \X Int) /\ DOMAIN H = 1..(k - h)
        /\ \A i \in 1..(k - h) :
            /\ h + i \in {1, 3} => H[i] = <<packet, Parser!Header>>
            /\ h + i \in {2, 4} => H[i] = <<packet, Parser!LengthBytes>>
        /\ \A i \in 1..(k - h) : h + i \in {1, 2, 3, 4}
    BY <2>1, HeadersOf
  <2> QED BY <2>2
<1>2. /\ P \in Seq({packet} \X Int) /\ DOMAIN P = 1..m
      /\ \A j \in 1..m : P[j] = <<packet, o + j>>
  <2>1. o \in Int
    OBVIOUS
  <2> QED BY Zenon, <2>1, BytesOf
<1> HIDE DEF H, P
<1>3. H \in Seq(Pairs) /\ P \in Seq(Pairs)
  <2>1. {packet} \X Int \subseteq Pairs
    BY DEF Pairs
  <2> QED BY <1>1, <1>2, <2>1
<1>4. /\ v1 \in Seq(Pairs) /\ l \in Nat /\ Len(H) \in Nat /\ DOMAIN v1 = 1..(l + Len(H))
      /\ DOMAIN video = 1..l /\ DOMAIN H = 1..Len(H)
      /\ \A i \in 1..l : v1[i] = video[i]
      /\ \A i \in 1..Len(H) : v1[l + i] = H[i]
      /\ \A i \in DOMAIN v1 : i \in 1..l \/ i - l \in 1..Len(H)
  BY <1>3, Joined
<1> HIDE DEF v1, l
<1>5. /\ v2 \in Seq(Pairs) /\ Len(v1) \in Nat /\ Len(P) \in Nat
      /\ DOMAIN v2 = 1..(Len(v1) + Len(P))
      /\ DOMAIN v1 = 1..Len(v1) /\ DOMAIN P = 1..Len(P)
      /\ \A i \in 1..Len(v1) : v2[i] = v1[i]
      /\ \A i \in 1..Len(P) : v2[Len(v1) + i] = P[i]
      /\ \A i \in DOMAIN v2 : i \in 1..Len(v1) \/ i - Len(v1) \in 1..Len(P)
  BY <1>3, <1>4, Joined
<1> HIDE DEF v2
<1>6. video' = v2
  BY DEF v1, v2, H, P
<1>7. 2 <= k => \E j \in DOMAIN v1 : v1[j] = <<packet, Parser!LengthBytes>>
  <2> SUFFICES ASSUME 2 <= k PROVE \E j \in DOMAIN v1 : v1[j] = <<packet, Parser!LengthBytes>>
    OBVIOUS
  <2>1. CASE 2 <= h
    <3>1. PICK j \in DOMAIN video : video[j] = <<packet, Parser!LengthBytes>>
      BY <2>1
    <3>2. j \in DOMAIN v1 /\ v1[j] = video[j]
      BY <1>4
    <3> QED BY <3>1, <3>2
  <2>2. CASE ~(2 <= h)
    <3>1. 2 - h \in 1..(k - h) /\ h + (2 - h) = 2
      BY <2>2
    <3>2. H[2 - h] = <<packet, Parser!LengthBytes>> /\ 2 - h \in DOMAIN H
      BY <1>1, <3>1
    <3>3. 2 - h \in 1..Len(H)
      BY <1>4, <3>2
    <3>4. l + (2 - h) \in DOMAIN v1 /\ v1[l + (2 - h)] = <<packet, Parser!LengthBytes>>
      BY <1>4, <3>2, <3>3
    <3> QED BY <3>4
  <2> QED BY <2>1, <2>2
<1>8. \A j \in DOMAIN v1 : j \in DOMAIN v2 /\ v2[j] = v1[j]
  BY <1>5
<1>9. ASSUME NEW i \in DOMAIN v2, Parser!IsPayload(v2[i]), v2[i][1] \notin cut'
      PROVE  \E j \in 1..(i - 1) : v2[j] = <<v2[i][1], Parser!LengthBytes>>
  <2>1. CASE i \in DOMAIN v1 /\ i \in 1..l
    <3>1. v2[i] = video[i] /\ i \in DOMAIN video
      BY <1>4, <1>8, <2>1
    <3>2. PICK j \in 1..(i - 1) : video[j] = <<video[i][1], Parser!LengthBytes>>
      BY <1>9, <3>1
    <3>3. j \in DOMAIN v1 /\ v1[j] = video[j]
      BY <1>4, <2>1
    <3>4. v2[j] = video[j]
      BY <1>8, <3>3
    <3> QED BY <3>1, <3>2, <3>4
  <2>2. CASE i \in DOMAIN v1 /\ i - l \in 1..Len(H)
    <3>1. l + (i - l) = i
      BY <1>4, <1>5, <2>2
    <3>2. v2[i] = H[i - l]
      BY <1>4, <1>8, <2>2, <3>1
    <3>3. H[i - l] \in {<<packet, Parser!Header>>, <<packet, Parser!LengthBytes>>}
      BY <1>1, <1>4, <2>2
    <3>4. ~Parser!IsPayload(H[i - l])
      BY <3>3 DEF Parser!IsPayload
    <3> QED BY <1>9, <3>2, <3>4
  <2>3. CASE i - Len(v1) \in 1..Len(P)
    <3> DEFINE q == i - Len(v1)
    <3>1. Len(v1) + q = i /\ Len(v1) < i
      BY <1>5, <2>3
    <3>2. v2[i] = P[q] /\ q \in 1..m
      <4>1. q \in DOMAIN P
        BY <1>5, <2>3
      <4>2. v2[Len(v1) + q] = P[q]
        BY <1>5, <2>3
      <4> QED BY <1>2, <3>1, <4>1, <4>2
    <3>3. v2[i] = <<packet, o + q>> /\ m > 0
      BY <1>2, <3>2
    <3>4. v2[i][1] = packet
      BY <3>3
    <3>5. PICK j \in DOMAIN v1 : v1[j] = <<packet, Parser!LengthBytes>>
      BY <1>7, <1>9, <3>3, <3>4
    <3>6. j \in 1..(i - 1) /\ v2[j] = v1[j]
      BY <1>5, <1>8, <3>1
    <3> QED BY <3>4, <3>5, <3>6
  <2> QED BY <1>4, <1>5, <2>1, <2>2, <2>3
<1>10. 2 <= k => \E j \in DOMAIN v2 : v2[j] = <<packet, Parser!LengthBytes>>
  BY <1>7, <1>8
<1> QED BY <1>6, <1>9, <1>10

\* A video packet: headers h + 1 to k, and m bytes after o.
LEMMA VideoMoves ==
  ASSUME ParserSizes, ParserInv, WholeInv, ~Parser!Ended, inp' = inp, inp[packet].type = "video",
         audio' = audio, cut \subseteq cut',
         NEW h \in 0..4, NEW k \in 0..4, h <= k, NEW o \in Nat, NEW m \in Nat,
         o + m <= inp[packet].n, m > 0 => packet \in cut' \/ 2 <= k,
         2 <= h => \E j \in DOMAIN video : video[j] = <<packet, Parser!LengthBytes>>,
         Passed(Parser!VideoBytes) = UpTo(Parser!VideoBytes, packet, h, o),
         video' = (video \o Parser!Headers(h, k)) \o Portion(packet, o, m),
         \/ Finished /\ o + m = inp[packet].n
         \/ Reaches(k, o + m)
  PROVE  WholeInv'
<1> DEFINE H == Parser!Headers(h, k)
           P == Portion(packet, o, m)
           n == inp[packet].n
<1>1. inp \in Inputs /\ packet \in 1..Len(inp) /\ Len(inp) \in Nat /\ packet \in Nat /\ n \in Nat
  BY Setting
<1>2. Proper(Parser!AudioBytes) /\ Proper(Parser!VideoBytes) /\ \A b \in Parser!VideoBytes : 1 <= b[2]
  BY <1>1, ProperBytes
<1>3. \A b \in Parser!AudioBytes : b[1] # packet
  BY Whose
<1>4. Parser!AudioBytes' = Parser!AudioBytes /\ Parser!VideoBytes' = Parser!VideoBytes /\ Entries' = Entries
  BY SameBytes
<1>5. /\ o + m \in Nat
      /\ \A j \in 1..m : o + j \in Int /\ 1 <= o + j /\ o + j <= n
  BY <1>1
<1>6. /\ \A b \in Pairs : b \in Parser!VideoBytes <=>
            /\ b[1] \in 1..Len(inp) /\ inp[b[1]].type = "video"
            /\ 1 <= b[2] /\ b[2] <= inp[b[1]].n
      /\ Parser!VideoBytes \in SUBSET Pairs
  BY <1>1, BytesAre
<1>7. ASSUME NEW x \in Int, 1 <= x /\ x <= n
      PROVE  <<packet, x>> \in Parser!VideoBytes
  <2>1. <<packet, x>> \in Pairs /\ <<packet, x>>[1] = packet /\ <<packet, x>>[2] = x
    BY <1>1 DEF Pairs
  <2> QED BY <1>1, <1>6, <1>7, <2>1
<1>8. Clean /\ audio \in Seq(Pairs) /\ video \in Seq(Pairs) /\ Entries \in SUBSET Pairs
  BY EntriesPairs DEF WholeInv
<1>9. /\ H \in Seq({packet} \X Int) /\ P \in Seq({packet} \X Int)
      /\ \A i \in DOMAIN H : ~Parser!IsPayload(H[i]) /\ H[i] \notin Parser!VideoBytes
      /\ \A i \in DOMAIN P : P[i] \in Parser!VideoBytes
  <2>1. /\ P \in Seq({packet} \X Int) /\ DOMAIN P = 1..m
        /\ \A j \in 1..m : P[j] = <<packet, o + j>>
    <3>1. o \in Int
      OBVIOUS
    <3> QED BY Zenon, <1>1, <3>1, BytesOf
  <2>2. /\ H \in Seq({packet} \X Int) /\ DOMAIN H = 1..(k - h)
        /\ \A i \in 1..(k - h) : H[i] \in {<<packet, Parser!Header>>, <<packet, Parser!LengthBytes>>}
    <3> HIDE DEF H
    <3>1. H = Parser!Headers(h, k)
      BY DEF H
    <3>2. /\ H \in Seq({packet} \X Int) /\ DOMAIN H = 1..(k - h)
          /\ \A i \in 1..(k - h) :
              /\ h + i \in {1, 3} => H[i] = <<packet, Parser!Header>>
              /\ h + i \in {2, 4} => H[i] = <<packet, Parser!LengthBytes>>
          /\ \A i \in 1..(k - h) : h + i \in {1, 2, 3, 4}
      BY <1>1, <3>1, HeadersOf
    <3> QED BY <3>2
  <2> HIDE DEF H, P, n
  <2>3. <<packet, Parser!Header>> \notin Parser!VideoBytes /\ <<packet, Parser!LengthBytes>> \notin Parser!VideoBytes
        /\ ~Parser!IsPayload(<<packet, Parser!Header>>) /\ ~Parser!IsPayload(<<packet, Parser!LengthBytes>>)
    <3>1. <<packet, Parser!Header>>[2] = Parser!Header /\ <<packet, Parser!LengthBytes>>[2] = Parser!LengthBytes
      OBVIOUS
    <3>2. ~(1 <= Parser!Header) /\ ~(1 <= Parser!LengthBytes)
      BY DEF Parser!Header, Parser!LengthBytes
    <3> QED BY <1>2, <3>1, <3>2 DEF Parser!IsPayload
  <2>4. \A i \in 1..m : P[i] \in Parser!VideoBytes
    BY <1>5, <1>7, <2>1
  <2>5. \A i \in 1..(k - h) : ~Parser!IsPayload(H[i]) /\ H[i] \notin Parser!VideoBytes
    BY <2>2, <2>3
  <2> QED BY <2>1, <2>2, <2>4, <2>5
<1> HIDE DEF H, P, n
<1>10. H \in Seq(Entries) /\ P \in Seq(Entries) /\ H \in Seq(Pairs) /\ P \in Seq(Pairs)
  <2>1. {packet} \X Int \subseteq Entries
    BY <1>1 DEF Entries
  <2> QED BY <1>8, <1>9, <2>1
<1>11. video' = (video \o H) \o P
  BY DEF H, P
<1>12. Clean'
  <2>1. audio \in Seq(Entries) /\ video \in Seq(Entries)
    BY <1>8 DEF Clean
  <2> DEFINE S == {e \in Entries : Parser!IsPayload(e) => e \in Parser!VideoBytes}
  <2>2. video \in Seq(S)
    <3>1. \A i \in DOMAIN video : video[i] \in S
      BY <1>8, <2>1 DEF Clean
    <3> QED BY <2>1, <3>1, Confined
  <2>3. H \in Seq(S) /\ P \in Seq(S)
    <3>1. (\A i \in DOMAIN H : H[i] \in S) /\ (\A i \in DOMAIN P : P[i] \in S)
      BY <1>9, <1>10
    <3> QED BY <1>10, <3>1, Confined
  <2>4. S \subseteq Entries
    OBVIOUS
  <2>5. \A e \in S : Parser!IsPayload(e) => e \in Parser!VideoBytes
    OBVIOUS
  <2> HIDE DEF S
  <2>6. video' \in Seq(S)
    BY <1>11, <2>2, <2>3
  <2>7. video' \in Seq(Entries) /\ \A i \in DOMAIN video' : video'[i] \in S
    BY <2>4, <2>6
  <2>8. \A i \in DOMAIN video' : Parser!IsPayload(video'[i]) => video'[i] \in Parser!VideoBytes
    BY <2>5, <2>7
  <2>9. (\A i \in DOMAIN video : Parser!IsPayload(video[i]) => video[i] \in Parser!VideoBytes)'
    BY <1>4, <2>8 DEF Parser!IsPayload
  <2> QED BY <1>4, <1>8, <2>1, <2>7, <2>9 DEF Clean
<1>13. Headed'
  <2>1. \A i \in DOMAIN video : Parser!IsPayload(video[i]) /\ video[i][1] \notin cut =>
          \E j \in 1..(i - 1) : video[j] = <<video[i][1], Parser!LengthBytes>>
    BY Zenon DEF WholeInv, Headed
  <2>2. /\ \A i \in DOMAIN video' : Parser!IsPayload(video'[i]) /\ video'[i][1] \notin cut' =>
              \E j \in 1..(i - 1) : video'[j] = <<video'[i][1], Parser!LengthBytes>>
        /\ 2 <= k => \E j \in DOMAIN video' : video'[j] = <<packet, Parser!LengthBytes>>
    BY <1>1, <1>8, <2>1, VideoHeaded
  <2>3. state' = Parser!Frame => packet' = packet /\ headernum' = k
    BY DEF Finished, Reaches, StaysInside, Parser!Frame
  <2> QED BY <2>2, <2>3 DEF Headed, Parser!IsPayload
<1>14. OnTrack'
  BY PlacedPlaying DEF AV, Reaches
<1>15. Delivered(video, Parser!VideoBytes, Passed(Parser!VideoBytes))'
  <2>1. Delivered(video, Parser!VideoBytes, UpTo(Parser!VideoBytes, packet, k, o))
    <3>1. UpTo(Parser!VideoBytes, packet, h, o) = UpTo(Parser!VideoBytes, packet, k, o)
      BY Zenon, <1>2, UpToPayload
    <3> QED BY <3>1 DEF WholeInv
  <2>2. Delivered(video \o H, Parser!VideoBytes, UpTo(Parser!VideoBytes, packet, k, o))
    <3>1. packet \in Int /\ k \in Int /\ o \in Int
      BY <1>1
    <3>2. First(UpTo(Parser!VideoBytes, packet, k, o), Parser!VideoBytes)
      BY Zenon, <1>2, <3>1, UpToFirst
    <3> QED BY <1>6, <1>8, <1>9, <1>10, <2>1, <3>2, Unconcerned
  <2>3. video \o H \in Seq(Pairs)
    BY <1>8, <1>10
  <2>4. \A j \in 1..m : <<packet, o + j>> \in Parser!VideoBytes
    BY <1>5, <1>7
  <2>5. Delivered(video', Parser!VideoBytes, UpTo(Parser!VideoBytes, packet, k, o + m))
    BY Zenon, <1>1, <1>2, <1>11, <2>2, <2>3, <2>4, MorePayload DEF P
  <2>6. Passed(Parser!VideoBytes)' = UpTo(Parser!VideoBytes, packet, k, o + m)
    <3> DEFINE D == Passed(Parser!VideoBytes)'
    <3>1. D = IF state' = Parser!Frame THEN UpTo(Parser!VideoBytes, packet', headernum', off' - 6)
                                ELSE UpTo(Parser!VideoBytes, packet', 0, 0)
      BY <1>4 DEF Passed
    <3>2. Finished /\ o + m = n =>
            \A b \in Parser!VideoBytes : b[1] = packet => b \in UpTo(Parser!VideoBytes, packet, k, o + m)
      <4> SUFFICES ASSUME o + m = n, NEW b \in Parser!VideoBytes, b[1] = packet
                   PROVE  b \in UpTo(Parser!VideoBytes, packet, k, o + m)
        OBVIOUS
      <4>1. 1 <= b[2] /\ b[2] <= n
        BY <1>6 DEF n
      <4> QED BY <4>1 DEF UpTo
    <3> HIDE DEF D
    <3>3. D = UpTo(Parser!VideoBytes, packet, k, o + m)
      BY <1>1, <1>2, <1>5, <3>1, <3>2, MovedPassed DEF n
    <3> QED BY <3>3 DEF D
  <2> QED BY <1>4, <2>5, <2>6
<1>16. Delivered(audio, Parser!AudioBytes, Passed(Parser!AudioBytes))'
  <2>1. Passed(Parser!AudioBytes)' = IF state' = Parser!Frame THEN UpTo(Parser!AudioBytes, packet', headernum', off' - 6)
                                                ELSE UpTo(Parser!AudioBytes, packet', 0, 0)
    BY <1>4 DEF Passed
  <2>2. Finished \/ packet' = packet
    BY DEF Reaches, StaysInside
  <2>3. Passed(Parser!AudioBytes)' = Passed(Parser!AudioBytes)
    BY <1>2, <1>3, <2>1, <2>2, PassedByStep
  <2> QED BY <1>4, <2>3 DEF WholeInv
<1> QED BY <1>12, <1>13, <1>14, <1>15, <1>16 DEF WholeInv

-----------------------------------------------------------------------------
(* The steps of parse_frame.                                               *)

LEMMA PayloadIs ==
  ASSUME off \in Nat, NEW i \in Nat, NEW m \in Nat, NEW o \in Nat, off + i = 6 + o
  PROVE  Parser!Payload(m, i) = Portion(packet, o, m)
<1>1. \A j \in 1..m : off + i + j - 6 = o + j
  OBVIOUS
<1> QED BY <1>1 DEF Parser!Payload, Portion

LEMMA PayloadNone == ASSUME NEW i PROVE Parser!Payload(0, i) = Portion(packet, 0, 0)
BY DEF Parser!Payload, Portion

LEMMA AddsNothing ==
  ASSUME NEW h \in 0..4, NEW data \in Seq(Pairs), packet \in Nat
  PROVE  /\ (data \o Parser!Headers(h, h)) \o Portion(packet, 0, 0) = data
         /\ data \o Parser!Headers(h, h) = data
         /\ data \o <<>> = data
<1>1. Parser!Headers(h, h) = <<>>
  <2>1. h - h = 0
    OBVIOUS
  <2> QED BY <2>1 DEF Parser!Headers
<1>2. Portion(packet, 0, 0) = <<>>
  BY DEF Portion
<1>3. data \o <<>> = data
  <2>1. <<>> \in Seq(Pairs) /\ Len(<<>>) = 0
    OBVIOUS
  <2> QED BY <2>1, Empty
<1> QED BY <1>1, <1>2, <1>3

\* The frame goes on.
LEMMA GoesOn ==
  ASSUME ParserSizes, ParserInv, ~Parser!Ended, inp' = inp, inp[packet].type \in AV,
         NEW t \in Nat, NEW g, NEW k \in 0..4, NEW x \in Nat, Parser!More(t, g), g.headernum = k,
         off + t > 3, off + t = 6 + x \/ (off + t <= 6 /\ x = 0),
         g.remain = 0 => off + t = 4 + g.bufsz,
         g.remain > 0 => /\ off + t + g.remain = 6 + inp[packet].n /\ 6 <= off + t
                         /\ g.frame_state = IF inp[packet].type = "audio" THEN 1 ELSE 2,
         inp[packet].type = "audio" => k <= 2 /\ (g.remain > 0 => k = 2),
         inp[packet].type = "video" /\ g.remain = 0 => k = 0
  PROVE  Reaches(k, x)
<1>1. off \in Nat /\ inp[packet].n \in Nat
  BY Setting
<1>2. /\ off' = off + t /\ packet' = packet /\ state' = Parser!Frame /\ remain' = g.remain
      /\ frame_state' = g.frame_state /\ bufsz' = g.bufsz /\ headernum' = k
  BY DEF Parser!More, Parser!Stay, Parser!SetHandle
<1>3. StaysInside
  BY <1>1, <1>2 DEF StaysInside
<1>4. off' - 6 = x \/ (off' <= 6 /\ x = 0)
  BY <1>1, <1>2
<1>5. Playing'
  <2>1. (state = Parser!Frame)' /\ (remain = 0 => off = 4 + bufsz)'
    BY <1>2
  <2>2. (remain > 0 => /\ off + remain = 6 + inp[packet].n /\ 6 <= off
                       /\ frame_state = IF inp[packet].type = "audio" THEN 1 ELSE 2)'
    BY <1>2
  <2>3. (inp[packet].type = "audio" => headernum <= 2 /\ (remain > 0 => headernum = 2))'
    BY <1>2
  <2>4. (inp[packet].type = "video" /\ remain = 0 => headernum = 0)'
    BY <1>2
  <2> QED BY <2>1, <2>2, <2>3, <2>4 DEF Playing
<1> QED BY <1>2, <1>3, <1>4, <1>5 DEF Reaches

\* The frame is over.
LEMMA Ends ==
  ASSUME inp[packet].type \in AV, NEW t, NEW g, Parser!Over(t, g), off + t = 6 + inp[packet].n,
         inp[packet].n \in Nat
  PROVE  Finished
<1>1. Parser!Length(packet) = 4 + 2 + inp[packet].n
  BY DEF Parser!Length, AV
<1>2. off + t = Parser!Length(packet)
  BY <1>1
<1> QED BY <1>2 DEF Parser!Over, Parser!Consume, Finished

\* The parser is at the length of a packet that is played.
AtLength(c, f) ==
  /\ Within(c, f) /\ off + c = 4 + f.bufsz /\ f.bufsz <= 2
  /\ Passed(Parser!AudioBytes) = UpTo(Parser!AudioBytes, packet, f.headernum, 0)
  /\ Passed(Parser!VideoBytes) = UpTo(Parser!VideoBytes, packet, f.headernum, 0)
  /\ inp[packet].type = "audio" => f.headernum <= 2
  /\ inp[packet].type = "video" => f.headernum = 0

LEMMA LengthTypes ==
  ASSUME ParserSizes, NEW c, NEW f, AtLength(c, f), inp[packet].type \in AV
  PROVE  LET a == avail - c
             w == Parser!Two(f, a)
         IN /\ ParserInv /\ ~Parser!Ended /\ inp' = inp /\ packet \in Nat /\ off \in Nat /\ c \in Nat
            /\ inp[packet].n \in Nat /\ f.bufsz \in Nat /\ f.headernum \in 0..4
            /\ a \in Nat /\ w \in 0..a /\ f.bufsz + w \in 0..2 /\ f.remain = 0
            /\ f \in Handles /\ off + c = 4 + f.bufsz /\ c + w \in Nat
            /\ off + (c + w) = 4 + (f.bufsz + w)
<1> DEFINE a == avail - c
           w == Parser!Two(f, a)
<1>1. Within(c, f) /\ off + c = 4 + f.bufsz
  BY DEF AtLength
<1>2. ParserInv /\ ~Parser!Ended /\ inp' = inp /\ f.remain = 0 /\ f \in Handles
  BY <1>1 DEF Within
<1>3. packet \in Nat /\ off \in Nat /\ inp[packet].n \in Nat
  BY <1>2, Setting
<1>4. c \in Nat /\ a \in Nat /\ f.bufsz \in 0..Pack /\ f.headernum \in 0..4 /\ Pack \in Nat
  BY <1>1, WithinTypes
<1>5. w \in 0..a /\ f.bufsz + w \in 0..2
  <2>1. inp[packet].type \notin PackTypes
    BY DEF AV, PackTypes
  <2> QED BY <1>1, <2>1, TwoOf
<1> HIDE DEF w, a
<1>6. f.bufsz \in Nat /\ c + w \in Nat /\ off + (c + w) = 4 + (f.bufsz + w)
  BY <1>1, <1>3, <1>4, <1>5
<1> QED BY <1>1, <1>2, <1>3, <1>4, <1>5, <1>6 DEF w, a

\* The fields after the length, and after a part of the payload.
LEMMA Fields ==
  ASSUME NEW f \in Handles, NEW w, NEW k, NEW r, NEW s
  PROVE  /\ LET g == [f EXCEPT !.bufsz = @ + w]
            IN /\ g.bufsz = f.bufsz + w /\ g.headernum = f.headernum /\ g.remain = f.remain
         /\ LET g == [f EXCEPT !.bufsz = @ + w, !.headernum = k]
            IN /\ g.bufsz = f.bufsz + w /\ g.headernum = k /\ g.remain = f.remain
         /\ LET g == [[f EXCEPT !.bufsz = @ + w, !.headernum = k]
                        EXCEPT !.remain = r, !.frame_state = s]
            IN /\ g.headernum = k /\ g.remain = r /\ g.frame_state = s
BY DEF Handles

\* A part of the length.
LEMMA ShortReaches ==
  ASSUME ParserSizes, NEW c, NEW f, AtLength(c, f), inp[packet].type \in AV,
         Parser!More(c + Parser!Two(f, avail - c), [f EXCEPT !.bufsz = @ + Parser!Two(f, avail - c)]),
         f.bufsz + Parser!Two(f, avail - c) < 2
  PROVE  Reaches(f.headernum, 0)
<1> DEFINE a == avail - c
           w == Parser!Two(f, a)
           g == [f EXCEPT !.bufsz = @ + w]
           t == c + w
           h == f.headernum
<1>1. /\ ParserInv /\ ~Parser!Ended /\ inp' = inp /\ off \in Nat /\ h \in 0..4 /\ w \in 0..a
      /\ f.bufsz + w \in 0..2 /\ f.remain = 0 /\ f \in Handles /\ t \in Nat
      /\ off + t = 4 + (f.bufsz + w)
  BY LengthTypes
<1>2. g.bufsz = f.bufsz + w /\ g.headernum = h /\ g.remain = 0
  BY <1>1, Fields
<1>3. Parser!More(t, g) /\ f.bufsz + w < 2
  OBVIOUS
<1>4. (inp[packet].type = "audio" => h <= 2) /\ (inp[packet].type = "video" => h = 0)
  BY DEF AtLength
<1> HIDE DEF a, w, g, t, h
<1>5. off + t > 3 /\ off + t <= 6 /\ 0 \in Nat /\ off + t = 4 + g.bufsz /\ ~(g.remain > 0)
  BY <1>1, <1>2
<1>6. Reaches(h, 0)
  BY <1>1, <1>2, <1>3, <1>4, <1>5, GoesOn
<1> QED BY <1>6 DEF h

\* The length, and m bytes of the payload.
LEMMA PayloadReaches ==
  ASSUME ParserSizes, NEW c, NEW f, AtLength(c, f), inp[packet].type \in AV,
         NEW k \in 0..4, NEW m \in Nat, NEW s,
         inp[packet].type = "audio" => k = 2, s = IF inp[packet].type = "audio" THEN 1 ELSE 2,
         LET a == avail - c
             w == Parser!Two(f, a)
             n == inp[packet].n
             g == [f EXCEPT !.bufsz = @ + w, !.headernum = k]
         IN /\ f.bufsz + w = 2 /\ m <= n
            /\ IF n = m THEN Parser!Over(c + w + m, g)
                        ELSE Parser!More(c + w + m, [g EXCEPT !.remain = n - m, !.frame_state = s])
  PROVE  (Finished /\ m = inp[packet].n) \/ Reaches(k, m)
<1> DEFINE a == avail - c
           w == Parser!Two(f, a)
           n == inp[packet].n
           g == [f EXCEPT !.bufsz = @ + w, !.headernum = k]
           r == n - m
           e == [g EXCEPT !.remain = r, !.frame_state = s]
           t == c + w + m
<1>1. /\ ParserInv /\ ~Parser!Ended /\ inp' = inp /\ off \in Nat /\ w \in 0..a /\ c \in Nat
      /\ f \in Handles /\ c + w \in Nat /\ n \in Nat /\ off + (c + w) = 4 + (f.bufsz + w)
  BY LengthTypes
<1>2. e.headernum = k /\ e.remain = r /\ e.frame_state = s
  <2>1. f \in Handles
    BY <1>1
  <2> HIDE DEF w, r
  <2> QED BY <2>1, Fields
<1>3. /\ f.bufsz + w = 2 /\ m <= n
      /\ n = m => Parser!Over(t, g)
      /\ n # m => Parser!More(t, e)
  BY Zenon
<1> HIDE DEF a, w, g, t, e, r, n
<1>4. t \in Nat /\ off + t = 6 + m
  BY <1>1, <1>3 DEF t
<1>5. CASE n = m
  <2>1. Parser!Over(t, g) /\ off + t = 6 + n
    BY <1>3, <1>4, <1>5
  <2>2. Finished
    BY <1>1, <2>1, Ends DEF n
  <2> QED BY <1>5, <2>2 DEF n
<1>6. CASE n # m
  <2>1. r > 0 /\ r # 0 /\ off + t + r = 6 + n /\ 6 <= off + t /\ off + t > 3
    BY <1>1, <1>3, <1>4, <1>6 DEF r
  <2>2. Parser!More(t, e)
    BY <1>3, <1>6
  <2>3. /\ e.remain = 0 => off + t = 4 + e.bufsz
        /\ e.remain > 0 => /\ off + t + e.remain = 6 + inp[packet].n /\ 6 <= off + t
                           /\ e.frame_state = IF inp[packet].type = "audio" THEN 1 ELSE 2
        /\ inp[packet].type = "audio" => k <= 2 /\ (e.remain > 0 => k = 2)
        /\ inp[packet].type = "video" /\ e.remain = 0 => k = 0
    BY <1>2, <2>1 DEF n
  <2>4. Reaches(k, m)
    BY <1>1, <1>2, <1>4, <2>1, <2>2, <2>3, GoesOn
  <2> QED BY <2>4
<1> QED BY <1>5, <1>6

LEMMA AudioFrameWhole ==
  ASSUME ParserSizes, WholeInv, NEW c, NEW f, AtLength(c, f), inp[packet].type = "audio",
         NEW k \in 0..4, NEW room, Parser!AudioFrame(c, avail - c, f, k, room)
  PROVE  WholeInv'
<1> DEFINE a == avail - c
           w == Parser!Two(f, a)
           n == inp[packet].n
           m == IF room THEN Parser!Least(n, a - w) ELSE 0
           g == [f EXCEPT !.bufsz = @ + w, !.headernum = k]
           h == f.headernum
           H == Parser!Headers(h, k)
<1>0. inp[packet].type \in AV
  BY DEF AV
<1>1. /\ ParserInv /\ ~Parser!Ended /\ inp' = inp /\ packet \in Nat /\ off \in Nat /\ c \in Nat
      /\ n \in Nat /\ f.bufsz \in Nat /\ h \in 0..4 /\ a \in Nat /\ w \in 0..a
      /\ f.bufsz + w \in 0..2 /\ f.remain = 0 /\ f \in Handles /\ c + w \in Nat
      /\ off + (c + w) = 4 + (f.bufsz + w)
  BY <1>0, LengthTypes
<1>2. h \in 0..2
  BY <1>1 DEF AtLength
<1>3. Passed(Parser!AudioBytes) = UpTo(Parser!AudioBytes, packet, h, 0)
  BY DEF AtLength
<1>4. audio \in Seq(Pairs)
  BY <1>1, EntriesPairs DEF WholeInv
<1>5. CASE f.bufsz + w < 2
  <2>1. Parser!More(c + w, [f EXCEPT !.bufsz = @ + w]) /\ UNCHANGED Parser!rings
    BY Zenon, <1>5 DEF Parser!AudioFrame
  <2>2. Reaches(h, 0)
    BY Zenon, <1>0, <1>5, <2>1, ShortReaches
  <2>3. UNCHANGED <<audio, video, cut>>
    BY <2>1 DEF Parser!rings
  <2> HIDE DEF a, w, n, m, g, h
  <2>4. audio' = (audio \o Parser!Headers(h, h)) \o Portion(packet, 0, 0)
    BY <1>1, <1>4, <2>3, AddsNothing
  <2>5. 0 \in Nat /\ ~(0 > 0) /\ 0 + 0 = 0 /\ h <= h /\ 0 <= n
    BY <1>1
  <2> QED BY <1>1, <1>2, <1>3, <2>2, <2>3, <2>4, <2>5, AudioMoves DEF n
<1>6. CASE ~(f.bufsz + w < 2) /\ k < 2
  <2>1. k \in h..2 /\ Parser!More(c + w, g) /\ Parser!AddAudio(0, 0, H)
    BY Zenon, <1>6 DEF Parser!AudioFrame
  <2>2. UNCHANGED <<video, cut>> /\ audio' = audio \o H \o Parser!Payload(0, 0)
    BY <2>1 DEF Parser!AddAudio
  <2>3. g.bufsz = f.bufsz + w /\ g.headernum = k /\ g.remain = 0
    BY <1>1, Fields
  <2> HIDE DEF a, w, n, m, g, h
  <2>4. /\ f.bufsz + w = 2 /\ off + (c + w) = 6 /\ off + (c + w) = 4 + g.bufsz
        /\ off + (c + w) > 3 /\ off + (c + w) <= 6 /\ ~(g.remain > 0) /\ k <= 2
        /\ 0 \in Nat /\ ~(0 > 0) /\ 0 + 0 = 0 /\ 0 <= n /\ k \in 0..2 /\ h <= k
    BY <1>1, <1>6, <2>1, <2>3
  <2>5. Reaches(k, 0)
    BY <1>0, <1>1, <2>1, <2>3, <2>4, GoesOn
  <2>6. audio' = (audio \o Parser!Headers(h, k)) \o Portion(packet, 0, 0)
    BY <2>2, PayloadNone DEF H
  <2> QED BY <1>1, <1>2, <1>3, <2>2, <2>4, <2>5, <2>6, AudioMoves, ZenonT(40) DEF n
<1>7. CASE ~(f.bufsz + w < 2) /\ ~(k < 2)
  <2>1. /\ k \in h..2 /\ Parser!AddAudio(m, c + w, H)
        /\ IF n = m THEN Parser!Over(c + w + m, g)
                    ELSE Parser!More(c + w + m, [g EXCEPT !.remain = n - m, !.frame_state = 1])
    BY Zenon, <1>7 DEF Parser!AudioFrame
  <2>2. UNCHANGED <<video, cut>> /\ audio' = audio \o H \o Parser!Payload(m, c + w)
    BY <2>1 DEF Parser!AddAudio
  <2>3. m \in Nat /\ m <= n
    <3> HIDE DEF a, w, n
    <3>1. a - w \in Nat /\ n \in Nat
      BY <1>1
    <3>2. Parser!Least(n, a - w) \in 0..(a - w) /\ Parser!Least(n, a - w) <= n
      BY Zenon, <3>1, LeastOf
    <3>3. Parser!Least(n, a - w) \in Nat
      BY <3>1, <3>2
    <3>4. 0 \in Nat /\ 0 <= n
      BY <3>1
    <3> QED BY Zenon, <3>2, <3>3, <3>4
  <2> HIDE DEF m
  <2>4. /\ f.bufsz + w = 2 /\ k = 2 /\ h <= k
    <3> HIDE DEF a, w, n, h
    <3> QED BY <1>1, <1>7, <2>1
  <2>5. (Finished /\ m = n) \/ Reaches(k, m)
    <3>1. 1 = IF inp[packet].type = "audio" THEN 1 ELSE 2
      OBVIOUS
    <3> QED BY Zenon, <1>0, <2>1, <2>3, <2>4, <3>1, PayloadReaches
  <2> HIDE DEF a, w, n, g, h
  <2>6. /\ off + (c + w) = 6 + 0 /\ 0 \in Nat /\ ~(0 > 0) /\ 0 + m = m /\ k \in 0..2
        /\ c + w \in Nat
    BY <1>1, <2>3, <2>4
  <2>7. audio' = (audio \o Parser!Headers(h, k)) \o Portion(packet, 0, m)
    <3>1. Parser!Payload(m, c + w) = Portion(packet, 0, m)
      <4>1. off \in Nat /\ c + w \in Nat /\ m \in Nat /\ 0 \in Nat /\ off + (c + w) = 6 + 0
        BY <1>1, <2>3, <2>6
      <4> DEFINE i == c + w
      <4> HIDE DEF i
      <4>2. off \in Nat /\ i \in Nat /\ m \in Nat /\ 0 \in Nat /\ off + i = 6 + 0
        BY <4>1 DEF i
      <4>3. Parser!Payload(m, i) = Portion(packet, 0, m)
        BY ONLY <4>2, PayloadIs
      <4> QED BY <4>3 DEF i
    <3> QED BY Zenon, <2>2, <3>1 DEF H
  <2>8. /\ 0 > 0 => h = 2
        /\ 0 + m > 0 => k = 2
        /\ 0 + m <= n
        /\ (Finished /\ k = 2 /\ 0 + m = n) \/ Reaches(k, 0 + m)
    BY <2>3, <2>4, <2>5, <2>6
  <2> QED BY Zenon, <1>1, <1>2, <1>3, <2>2, <2>3, <2>4, <2>6, <2>7, <2>8, AudioMoves DEF n
<1> QED BY <1>5, <1>6, <1>7

LEMMA VideoFrameWhole ==
  ASSUME ParserSizes, WholeInv, NEW c, NEW f, AtLength(c, f), inp[packet].type = "video",
         NEW k \in 0..4, NEW room, Parser!VideoFrame(c, avail - c, f, k, room)
  PROVE  WholeInv'
<1> DEFINE a == avail - c
           w == Parser!Two(f, a)
           n == inp[packet].n
           m == IF room THEN Parser!Least(n, a - w) ELSE 0
           g == [f EXCEPT !.bufsz = @ + w, !.headernum = k]
           h == f.headernum
           H == Parser!Headers(h, k)
<1>0. inp[packet].type \in AV
  BY DEF AV
<1>1. /\ ParserInv /\ ~Parser!Ended /\ inp' = inp /\ packet \in Nat /\ off \in Nat /\ c \in Nat
      /\ n \in Nat /\ f.bufsz \in Nat /\ h \in 0..4 /\ a \in Nat /\ w \in 0..a
      /\ f.bufsz + w \in 0..2 /\ f.remain = 0 /\ f \in Handles /\ c + w \in Nat
      /\ off + (c + w) = 4 + (f.bufsz + w)
  BY <1>0, LengthTypes
<1>2. h = 0
  BY DEF AtLength
<1>3. Passed(Parser!VideoBytes) = UpTo(Parser!VideoBytes, packet, h, 0)
  BY DEF AtLength
<1>4. video \in Seq(Pairs)
  BY <1>1, EntriesPairs DEF WholeInv
<1>5. CASE f.bufsz + w < 2
  <2>1. Parser!More(c + w, [f EXCEPT !.bufsz = @ + w]) /\ UNCHANGED Parser!rings
    BY Zenon, <1>5 DEF Parser!VideoFrame
  <2>2. Reaches(h, 0)
    BY Zenon, <1>0, <1>5, <2>1, ShortReaches
  <2>3. UNCHANGED <<audio, video, cut>>
    BY <2>1 DEF Parser!rings
  <2> HIDE DEF a, w, n, m, g, h
  <2>4. video' = (video \o Parser!Headers(h, h)) \o Portion(packet, 0, 0)
    BY <1>1, <1>4, <2>3, AddsNothing
  <2>5. 0 \in Nat /\ ~(0 > 0) /\ 0 + 0 = 0 /\ h <= h /\ 0 <= n /\ ~(2 <= h)
    BY <1>1, <1>2
  <2>6. Reaches(h, 0 + 0) /\ 0 + 0 <= n /\ cut \subseteq cut' /\ audio' = audio
    BY <2>2, <2>3, <2>5
  <2> QED BY Zenon, <1>1, <1>3, <2>4, <2>5, <2>6, VideoMoves DEF n
<1>6. CASE ~(f.bufsz + w < 2)
  <2>1. /\ Parser!AddVideo(m, c + w, H)
        /\ k \in f.headernum..(IF seeking THEN 4 ELSE 2)
        /\ IF n = m THEN Parser!Over(c + w + m, g)
                    ELSE Parser!More(c + w + m, [g EXCEPT !.remain = n - m, !.frame_state = 2])
    BY Zenon, <1>6 DEF Parser!VideoFrame
  <2>2. /\ audio' = audio /\ video' = video \o H \o Parser!Payload(m, c + w)
        /\ cut' = IF headernum' < 2 THEN cut \cup {packet} ELSE cut
    BY <2>1 DEF Parser!AddVideo
  <2>3. m \in Nat /\ m <= n
    <3> HIDE DEF a, w, n
    <3>1. a - w \in Nat /\ n \in Nat
      BY <1>1
    <3>2. Parser!Least(n, a - w) \in 0..(a - w) /\ Parser!Least(n, a - w) <= n
      BY Zenon, <3>1, LeastOf
    <3>3. Parser!Least(n, a - w) \in Nat
      BY <3>1, <3>2
    <3>4. 0 \in Nat /\ 0 <= n
      BY <3>1
    <3> QED BY Zenon, <3>2, <3>3, <3>4
  <2> HIDE DEF m
  <2>4. /\ f.bufsz + w = 2 /\ h <= k
    <3> HIDE DEF a, w, n, h
    <3> QED BY <1>1, <1>2, <1>6
  <2>5. (Finished /\ m = n) \/ Reaches(k, m)
    <3>1. 2 = IF inp[packet].type = "audio" THEN 1 ELSE 2
      OBVIOUS
    <3>2. ~(inp[packet].type = "audio")
      OBVIOUS
    <3> QED BY Zenon, <1>0, <2>1, <2>3, <2>4, <3>1, <3>2, PayloadReaches
  <2>6. headernum' = k
    <3>1. g.headernum = k /\ [g EXCEPT !.remain = n - m, !.frame_state = 2].headernum = k
      <4> HIDE DEF w, n
      <4> QED BY <1>1, Fields
    <3> QED BY <2>1, <3>1 DEF Parser!Over, Parser!More, Parser!SetHandle
  <2>7. cut \subseteq cut' /\ (packet \in cut' \/ 2 <= k)
    BY <2>2, <2>6
  <2> HIDE DEF a, w, n, g, h
  <2>8. /\ off + (c + w) = 6 + 0 /\ 0 \in Nat /\ 0 + m = m /\ ~(2 <= h) /\ c + w \in Nat
    BY <1>1, <1>2, <2>3, <2>4
  <2>9. video' = (video \o Parser!Headers(h, k)) \o Portion(packet, 0, m)
    <3>1. Parser!Payload(m, c + w) = Portion(packet, 0, m)
      <4>1. off \in Nat /\ c + w \in Nat /\ m \in Nat /\ 0 \in Nat /\ off + (c + w) = 6 + 0
        BY <1>1, <2>3, <2>8
      <4> DEFINE i == c + w
      <4> HIDE DEF i
      <4>2. off \in Nat /\ i \in Nat /\ m \in Nat /\ 0 \in Nat /\ off + i = 6 + 0
        BY <4>1 DEF i
      <4>3. Parser!Payload(m, i) = Portion(packet, 0, m)
        BY ONLY <4>2, PayloadIs
      <4> QED BY <4>3 DEF i
    <3> QED BY Zenon, <2>2, <3>1 DEF H
  <2>10. /\ 0 + m <= n
         /\ (Finished /\ 0 + m = n) \/ Reaches(k, 0 + m)
    BY <2>3, <2>5, <2>8
  <2> QED BY Zenon, <1>1, <1>3, <2>2, <2>3, <2>4, <2>7, <2>8, <2>9, <2>10, VideoMoves DEF n
<1> QED BY <1>5, <1>6

-----------------------------------------------------------------------------
\* What moves in a packet that is not played.
LEMMA OtherMoves ==
  ASSUME NEW m \in Nat, NEW g, off \in Nat, off + m > 3,
         Parser!Over(m, g) \/ (Parser!More(m, g) /\ (g.remain > 0 => g.frame_state # 2))
  PROVE  \/ Finished
         \/ /\ StaysInside /\ state' \in {1, Parser!Frame}
            /\ state' = Parser!Frame /\ remain' > 0 => frame_state' # 2
<1>1. CASE Parser!Over(m, g)
  BY <1>1 DEF Parser!Over, Parser!Consume, Finished, StaysInside, Parser!Frame
<1>2. CASE Parser!More(m, g) /\ (g.remain > 0 => g.frame_state # 2)
  BY <1>2 DEF Parser!More, Parser!Stay, Parser!SetHandle, StaysInside, Parser!Frame
<1> QED BY <1>1, <1>2

\* m bytes or more of such a packet.
OtherStep(c) ==
  \E m, g : /\ m \in Nat /\ c <= m
            /\ Parser!Over(m, g) \/ (Parser!More(m, g) /\ (g.remain > 0 => g.frame_state # 2))

LEMMA PackStep ==
  ASSUME ParserSizes, NEW c, NEW f, Within(c, f), inp[packet].type \in PackTypes,
         Parser!PackFrame(c, avail - c, f)
  PROVE  OtherStep(c) /\ UNCHANGED Parser!rings
<1> DEFINE a == avail - c
           n == Parser!Least(Pack - f.bufsz, a)
           rest == a - n
           size == 2 + inp[packet].n
<1>1. /\ a \in Nat /\ c \in Nat /\ size \in Nat /\ f.bufsz \in 0..Pack /\ Pack \in Nat
  <2>1. avail - c \in Nat /\ c \in Nat /\ inp[packet].n \in Nat
        /\ f.bufsz \in 0..Pack /\ Pack \in Nat
    BY WithinTypes
  <2> QED BY <2>1
<1>2. n \in 0..a /\ n <= Pack - f.bufsz
  <2>1. Pack - f.bufsz \in Nat
    BY <1>1
  <2> HIDE DEF a
  <2> QED BY <1>1, <2>1, LeastOf
<1>3. UNCHANGED Parser!rings
  BY DEF Parser!PackFrame
<1>4. inp[packet].type # "pack1" => inp[packet].type = "pack"
  BY DEF PackTypes
<1>5. \/ Parser!More(c + n, [f EXCEPT !.bufsz = @ + n])
      \/ Parser!Over(c + n, [f EXCEPT !.bufsz = Pack])
      \/ Parser!Over(c + n + size, [f EXCEPT !.bufsz = Pack])
      \/ Parser!More(c + a, [f EXCEPT !.bufsz = Pack, !.frame_state = 1, !.remain = size - rest])
      \/ Parser!More(c + a, [f EXCEPT !.bufsz = rest, !.frame_state = 3, !.remain = 3 - rest])
  <2>1. n + f.bufsz < Pack \/ n + f.bufsz = Pack
    BY <1>1, <1>2
  <2>2. ~(n + f.bufsz < Pack /\ n + f.bufsz = Pack)
    BY <1>1, <1>2
  <2>3. ~(inp[packet].type = "pack" /\ inp[packet].type = "pack1")
    OBVIOUS
  <2> QED BY Zenon, <2>1, <2>2, <2>3, <1>4 DEF Parser!PackFrame
<1>6. f \in Handles /\ f.remain = 0
  BY DEF Within
<1> HIDE DEF n, a, size
<1>7. /\ c + n \in Nat /\ c <= c + n /\ c + n + size \in Nat /\ c <= c + n + size
      /\ c + a \in Nat /\ c <= c + a
  BY <1>1, <1>2
<1>8. CASE Parser!More(c + n, [f EXCEPT !.bufsz = @ + n])
  <2>1. ~([f EXCEPT !.bufsz = @ + n].remain > 0)
    BY <1>6 DEF Handles
  <2> QED BY <1>3, <1>7, <1>8, <2>1 DEF OtherStep
<1>9. CASE Parser!Over(c + n, [f EXCEPT !.bufsz = Pack])
  BY <1>3, <1>7, <1>9 DEF OtherStep
<1>10. CASE Parser!Over(c + n + size, [f EXCEPT !.bufsz = Pack])
  BY <1>3, <1>7, <1>10 DEF OtherStep
<1>11. CASE Parser!More(c + a, [f EXCEPT !.bufsz = Pack, !.frame_state = 1, !.remain = size - rest])
  <2>1. [f EXCEPT !.bufsz = Pack, !.frame_state = 1, !.remain = size - rest].frame_state # 2
    BY <1>6 DEF Handles
  <2> QED BY <1>3, <1>7, <1>11, <2>1 DEF OtherStep
<1>12. CASE Parser!More(c + a, [f EXCEPT !.bufsz = rest, !.frame_state = 3, !.remain = 3 - rest])
  <2>1. [f EXCEPT !.bufsz = rest, !.frame_state = 3, !.remain = 3 - rest].frame_state # 2
    BY <1>6 DEF Handles
  <2> QED BY <1>3, <1>7, <1>12, <2>1 DEF OtherStep
<1> QED BY <1>5, <1>8, <1>9, <1>10, <1>11, <1>12

LEMMA SkipStep ==
  ASSUME ParserSizes, NEW c, NEW f, Within(c, f), inp[packet].type \notin PackTypes, NEW room,
         Parser!OtherFrame(c, avail - c, f, room) \/ Parser!Unplayed(c, avail - c, f)
  PROVE  OtherStep(c) /\ (Parser!AddPrivate(room) \/ UNCHANGED Parser!rings)
<1> DEFINE a == avail - c
           w == Parser!Two(f, a)
           n == inp[packet].n
           g == [f EXCEPT !.bufsz = @ + w]
           fs == IF inp[packet].type = "private" THEN 4 ELSE 0
<1>1. a \in Nat /\ c \in Nat /\ n \in Nat
  BY WithinTypes
<1>2. w \in 0..a /\ g \in Handles /\ g.remain = 0
  BY TwoOf
<1>3. \/ Parser!More(c + w, g)
      \/ Parser!Over(c + w + n, g)
      \/ Parser!More(c + a, [g EXCEPT !.remain = n - (a - w), !.frame_state = fs])
      \/ Parser!More(c + w, [g EXCEPT !.remain = n, !.frame_state = 0])
  BY Zenon DEF Parser!OtherFrame, Parser!Unplayed
<1>4. Parser!AddPrivate(room) \/ UNCHANGED Parser!rings
  BY Zenon DEF Parser!OtherFrame, Parser!Unplayed
<1> HIDE DEF g, w, a, n
<1>5. /\ c + w \in Nat /\ c <= c + w /\ c + w + n \in Nat /\ c <= c + w + n
      /\ c + a \in Nat /\ c <= c + a
  BY <1>1, <1>2
<1>6. CASE Parser!More(c + w, g)
  <2>1. ~(g.remain > 0)
    BY <1>2
  <2> QED BY <1>4, <1>5, <1>6, <2>1 DEF OtherStep
<1>7. CASE Parser!Over(c + w + n, g)
  BY <1>4, <1>5, <1>7 DEF OtherStep
<1>8. CASE Parser!More(c + a, [g EXCEPT !.remain = n - (a - w), !.frame_state = fs])
  <2>1. [g EXCEPT !.remain = n - (a - w), !.frame_state = fs].frame_state # 2
    BY <1>2 DEF Handles
  <2> QED BY <1>4, <1>5, <1>8, <2>1 DEF OtherStep
<1>9. CASE Parser!More(c + w, [g EXCEPT !.remain = n, !.frame_state = 0])
  <2>1. [g EXCEPT !.remain = n, !.frame_state = 0].frame_state # 2
    BY <1>2 DEF Handles
  <2> QED BY <1>4, <1>5, <1>9, <2>1 DEF OtherStep
<1> QED BY <1>3, <1>6, <1>7, <1>8, <1>9

\* What is added to the audio ring.
LEMMA PrivateAdded ==
  ASSUME audio \in Seq(Pairs), packet \in Nat, NEW room, Parser!AddPrivate(room) \/ UNCHANGED Parser!rings
  PROVE  /\ UNCHANGED <<video, cut>>
         /\ \E new \in Seq({packet} \X Int) : audio' = audio \o new
<1>1. UNCHANGED <<video, cut>>
  BY DEF Parser!AddPrivate, Parser!rings
<1>2. audio' = audio \/ audio' = Append(audio, <<packet, Parser!AC3>>)
  BY DEF Parser!AddPrivate, Parser!rings
<1>3. <<>> \in Seq({packet} \X Int) /\ audio \o <<>> = audio
  <2>1. <<>> \in Seq(Pairs) /\ Len(<<>>) = 0
    OBVIOUS
  <2> QED BY <2>1, Empty
<1>4. <<<<packet, Parser!AC3>>>> \in Seq({packet} \X Int) /\ Append(audio, <<packet, Parser!AC3>>) = audio \o <<<<packet, Parser!AC3>>>>
  <2>1. <<packet, Parser!AC3>> \in {packet} \X Int /\ <<packet, Parser!AC3>> \in Pairs
    BY DEF Parser!AC3, Pairs
  <2>2. <<<<packet, Parser!AC3>>>> \in Seq({packet} \X Int)
    BY <2>1
  <2> DEFINE e == <<packet, Parser!AC3>>
  <2> HIDE DEF e
  <2>3. e \in Pairs
    BY <2>1 DEF e
  <2>4. Append(audio, e) = audio \o <<e>>
    BY ONLY <2>3, audio \in Seq(Pairs), AppendIsConcat
  <2> QED BY <2>2, <2>4 DEF e
<1>5. \E new \in Seq({packet} \X Int) : audio' = audio \o new
  BY Zenon, <1>2, <1>3, <1>4
<1> QED BY <1>1, <1>5

\* A step of parse_frame in a packet that is not played.
LEMMA OtherBodyWhole ==
  ASSUME ParserSizes, WholeInv, NEW c, NEW f, Within(c, f), off + c > 3,
         inp[packet].type \notin AV, NEW k, NEW room, Parser!Body(c, avail - c, f, k, room)
  PROVE  WholeInv'
<1> DEFINE a == avail - c
           t == inp[packet].type
<1>1. /\ t \in Parser!Types /\ ParserInv /\ ~Parser!Ended /\ inp' = inp /\ c \in Nat /\ off \in Nat
      /\ packet \in Nat
  BY WithinTypes, Setting DEF Within
<1>2. \/ t \in PackTypes /\ Parser!PackFrame(c, a, f)
      \/ t \notin PackTypes /\ Parser!OtherFrame(c, a, f, room)
      \/ t \notin PackTypes /\ Parser!Unplayed(c, a, f)
      \/ Parser!Over(c, f) /\ UNCHANGED Parser!rings
  BY <1>1 DEF Parser!Body, Parser!Types, PackTypes, AV
<1>3. OtherStep(c) /\ (Parser!AddPrivate(room) \/ UNCHANGED Parser!rings)
  <2>1. CASE Parser!Over(c, f) /\ UNCHANGED Parser!rings
    <3>1. c <= c
      BY <1>1
    <3> QED BY <1>1, <2>1, <3>1 DEF OtherStep
  <2> QED BY <1>2, <2>1, PackStep, SkipStep
<1>4. PICK m, g : /\ m \in Nat /\ c <= m
                  /\ Parser!Over(m, g) \/ (Parser!More(m, g) /\ (g.remain > 0 => g.frame_state # 2))
  BY <1>3 DEF OtherStep
<1>5. off + m > 3
  BY <1>1, <1>4
<1>6. \/ Finished
      \/ /\ StaysInside /\ state' \in {1, Parser!Frame}
         /\ state' = Parser!Frame /\ remain' > 0 => frame_state' # 2
  BY <1>1, <1>4, <1>5, OtherMoves
<1>7. audio \in Seq(Pairs)
  BY <1>1, EntriesPairs DEF WholeInv
<1>8. /\ UNCHANGED <<video, cut>>
      /\ \E new \in Seq({packet} \X Int) : audio' = audio \o new
  BY <1>1, <1>3, <1>7, PrivateAdded
<1> QED BY <1>1, <1>6, <1>8, OtherWhole

-----------------------------------------------------------------------------
\* The rest of a frame.
LEMMA RestWhole ==
  ASSUME ParserSizes, ParserInv, WholeInv, ~Parser!Ended, inp' = inp, state = Parser!Frame, remain > 0,
         NEW room, Parser!Rest(avail, room)
  PROVE  WholeInv'
<1> DEFINE n == Parser!Least(remain, avail)
           m == IF frame_state \in {1, 2} /\ ~room THEN 0 ELSE n
           r == remain - m
           h == headernum
           e == [Parser!Handle EXCEPT !.remain = r]
           o == off - 6
<1>1. /\ packet \in Nat /\ inp[packet].n \in Nat /\ off \in Nat /\ remain \in Nat /\ h \in 0..4
      /\ avail \in Nat /\ Parser!Handle \in Handles /\ cut \subseteq 1..Len(inp)
      /\ frame_state \in 0..4
  <2>1. packet \in Nat /\ inp[packet].n \in Nat /\ off \in Nat /\ remain \in Nat /\ h \in 0..4
    BY Setting
  <2>2. /\ avail \in Nat /\ Parser!Handle \in Handles /\ cut \subseteq 1..Len(inp)
        /\ frame_state \in 0..4
    BY DEF ParserInv, Parser!TypeOK, Parser!Handle, Handles, ParserSizes
  <2> QED BY <2>1, <2>2
<1>2. m \in Nat /\ m <= remain
  BY <1>1, LeastOf
<1>3. \/ remain = m /\ Parser!Over(m, Parser!Handle)
      \/ remain # m /\ Parser!More(m, e)
  <2>1. e = [Parser!Handle EXCEPT !.remain = @ - m]
    BY DEF Parser!Handle
  <2> HIDE DEF e
  <2> QED BY Zenon, <2>1 DEF Parser!Rest
<1>4. /\ frame_state = 1 => Parser!AddAudio(m, 0, <<>>)
      /\ frame_state = 2 => Parser!AddVideo(m, 0, <<>>)
      /\ frame_state # 1 /\ frame_state # 2 => Parser!AddPrivate(room) \/ UNCHANGED Parser!rings
  <2>1. ~(frame_state = 1 /\ frame_state = 2) /\ ~(frame_state = 1 /\ frame_state = 4)
        /\ ~(frame_state = 2 /\ frame_state = 4)
    OBVIOUS
  <2> QED BY Zenon, <2>1 DEF Parser!Rest
<1> HIDE DEF m, n
<1>5. e.headernum = h /\ e.remain = r /\ e.frame_state = frame_state
  BY DEF Parser!Handle
<1>6. audio \in Seq(Pairs) /\ video \in Seq(Pairs)
  BY EntriesPairs DEF WholeInv
<1>7. off > 3
  <2>1. (off = 0 => state = 1) /\ (off \in 1..3 => state = off + 1)
    BY DEF WholeInv, OnTrack
  <2> QED BY <1>1, <2>1 DEF Parser!Frame
<1> HIDE DEF e, r
<1>8. CASE inp[packet].type \in AV
  <2>1. Playing
    BY <1>7, <1>8 DEF WholeInv, OnTrack
  <2>2. /\ off + remain = 6 + inp[packet].n /\ 6 <= off
        /\ frame_state = (IF inp[packet].type = "audio" THEN 1 ELSE 2)
        /\ inp[packet].type = "audio" => h = 2
    BY <2>1 DEF Playing
  <2>3. /\ o \in Nat /\ off + 0 = 6 + o /\ 0 \in Nat /\ o + m <= inp[packet].n
        /\ off + m = 6 + (o + m) /\ o + m \in Nat /\ off + m > 3 /\ 6 <= off + m
        /\ remain = m => o + m = inp[packet].n /\ off + m = 6 + inp[packet].n
        /\ remain # m => r > 0 /\ r # 0 /\ off + m + r = 6 + inp[packet].n
        /\ h <= h
    BY <1>1, <1>2, <2>2 DEF r
  <2>4. (Finished /\ o + m = inp[packet].n) \/ Reaches(h, o + m)
    <3>1. CASE remain = m /\ Parser!Over(m, Parser!Handle)
      BY <1>1, <1>8, <2>3, <3>1, Ends
    <3>2. CASE remain # m /\ Parser!More(m, e)
      <4>1. /\ e.remain = 0 => off + m = 4 + e.bufsz
            /\ e.remain > 0 => /\ off + m + e.remain = 6 + inp[packet].n /\ 6 <= off + m
                               /\ e.frame_state = IF inp[packet].type = "audio" THEN 1 ELSE 2
            /\ inp[packet].type = "audio" => h <= 2 /\ (e.remain > 0 => h = 2)
            /\ inp[packet].type = "video" /\ e.remain = 0 => h = 0
        BY <1>5, <2>2, <2>3, <3>2
      <4>2. Reaches(h, o + m)
        BY <1>1, <1>2, <1>5, <1>8, <2>3, <3>2, <4>1, GoesOn
      <4> QED BY <4>2
    <3> QED BY <1>3, <3>1, <3>2
  <2>5. Parser!Payload(m, 0) = Portion(packet, o, m)
    <3>1. off \in Nat /\ m \in Nat /\ o \in Nat /\ 0 \in Nat /\ off + 0 = 6 + o
      BY <1>1, <1>2, <2>3
    <3> HIDE DEF o
    <3> QED BY ONLY <3>1, PayloadIs
  <2>6. Passed(Parser!AudioBytes) = UpTo(Parser!AudioBytes, packet, h, o)
        /\ Passed(Parser!VideoBytes) = UpTo(Parser!VideoBytes, packet, h, o)
    BY DEF Passed
  <2>7. CASE inp[packet].type = "audio"
    <3>1. frame_state = 1 /\ h = 2
      BY <2>2, <2>7
    <3>2. Parser!AddAudio(m, 0, <<>>)
      BY <1>4, <3>1
    <3>3. UNCHANGED <<video, cut>> /\ audio' = audio \o <<>> \o Parser!Payload(m, 0)
      BY <3>2 DEF Parser!AddAudio
    <3> HIDE DEF h, o
    <3>4. audio' = (audio \o Parser!Headers(h, h)) \o Portion(packet, o, m)
      <4>1. audio \o Parser!Headers(h, h) = audio \o <<>>
        BY <1>1, <1>6, AddsNothing
      <4> QED BY Zenon, <2>5, <3>3, <4>1
    <3>5. h \in 0..2 /\ (o > 0 => h = 2) /\ (o + m > 0 => h = 2)
          /\ ((Finished /\ h = 2 /\ o + m = inp[packet].n) \/ Reaches(h, o + m))
      BY <2>4, <3>1
    <3> QED BY Zenon, <1>2, <2>3, <2>6, <2>7, <3>3, <3>4, <3>5, AudioMoves
  <2>8. CASE inp[packet].type = "video"
    <3>1. frame_state = 2
      BY <2>2, <2>8
    <3>2. Parser!AddVideo(m, 0, <<>>)
      BY <1>4, <3>1
    <3>3. /\ audio' = audio /\ video' = video \o <<>> \o Parser!Payload(m, 0)
          /\ cut' = IF headernum' < 2 THEN cut \cup {packet} ELSE cut
      BY <3>2 DEF Parser!AddVideo
    <3>4. headernum' = h
      BY <1>3, <1>5 DEF Parser!Over, Parser!More, Parser!SetHandle, Parser!Handle
    <3>5. 2 <= h => \E j \in DOMAIN video : video[j] = <<packet, Parser!LengthBytes>>
      BY <2>8 DEF WholeInv, Headed
    <3> HIDE DEF h, o
    <3>6. video' = (video \o Parser!Headers(h, h)) \o Portion(packet, o, m)
      <4>1. video \o Parser!Headers(h, h) = video \o <<>>
        BY <1>1, <1>6, AddsNothing
      <4> QED BY Zenon, <2>5, <3>3, <4>1
    <3>7. cut \subseteq cut' /\ (packet \in cut' \/ 2 <= h)
      BY <1>1, <3>3, <3>4
    <3> QED BY Zenon, <1>1, <1>2, <2>3, <2>4, <2>6, <2>8, <3>3, <3>5, <3>6, <3>7, VideoMoves
  <2> QED BY <1>8, <2>7, <2>8 DEF AV
<1>9. CASE inp[packet].type \notin AV
  <2>1. frame_state # 2
    BY <1>9 DEF WholeInv, OnTrack, AV
  <2>2. off + m > 3
    BY <1>1, <1>2, <1>7
  <2>3. Parser!Over(m, Parser!Handle) \/ (Parser!More(m, e) /\ (e.remain > 0 => e.frame_state # 2))
    BY <1>3, <1>5, <2>1
  <2>4. \/ Finished
        \/ /\ StaysInside /\ state' \in {1, Parser!Frame}
           /\ state' = Parser!Frame /\ remain' > 0 => frame_state' # 2
    BY <1>1, <1>2, <2>2, <2>3, OtherMoves
  <2>5. Parser!AddAudio(m, 0, <<>>) \/ Parser!AddPrivate(room) \/ UNCHANGED Parser!rings
    BY Zenon, <1>4, <2>1
  <2>6. UNCHANGED <<video, cut>> /\ \E new \in Seq({packet} \X Int) : audio' = audio \o new
    <3>1. CASE Parser!AddAudio(m, 0, <<>>)
      <4>1. UNCHANGED <<video, cut>> /\ audio' = (audio \o <<>>) \o Parser!Payload(m, 0)
        BY <3>1 DEF Parser!AddAudio
      <4>2. audio \o <<>> = audio
        <5>1. <<>> \in Seq(Pairs) /\ Len(<<>>) = 0
          OBVIOUS
        <5> QED BY <1>6, <5>1, Empty
      <4>3. Parser!Payload(m, 0) \in Seq({packet} \X Int)
        <5>1. \A j \in 1..m : <<packet, off + 0 + j - 6>> \in {packet} \X Int
          BY <1>1, <1>2
        <5> QED BY <1>2, <5>1 DEF Parser!Payload
      <4> QED BY <4>1, <4>2, <4>3
    <3>2. CASE Parser!AddPrivate(room) \/ UNCHANGED Parser!rings
      BY <1>1, <1>6, <3>2, PrivateAdded
    <3> QED BY <2>5, <3>1, <3>2
  <2> QED BY <1>9, <2>4, <2>6, OtherWhole
<1> QED BY <1>8, <1>9

\* The rings are left alone.
LEMMA StillWhole ==
  ASSUME ParserSizes, ParserInv, WholeInv, inp' = inp, UNCHANGED <<audio, video, cut>>, OnTrack',
         \A B : (IF state' = Parser!Frame THEN UpTo(B, packet', headernum', off' - 6) ELSE UpTo(B, packet', 0, 0))
                  = Passed(B),
         state' = Parser!Frame => UNCHANGED <<packet, state, remain, headernum>>
  PROVE  WholeInv'
<1>1. Parser!AudioBytes' = Parser!AudioBytes /\ Parser!VideoBytes' = Parser!VideoBytes /\ Entries' = Entries
  BY SameBytes
<1>2. Passed(Parser!AudioBytes)' = Passed(Parser!AudioBytes) /\ Passed(Parser!VideoBytes)' = Passed(Parser!VideoBytes)
  <2>1. /\ Passed(Parser!AudioBytes)' = IF state' = Parser!Frame THEN UpTo(Parser!AudioBytes, packet', headernum', off' - 6)
                                                   ELSE UpTo(Parser!AudioBytes, packet', 0, 0)
        /\ Passed(Parser!VideoBytes)' = IF state' = Parser!Frame THEN UpTo(Parser!VideoBytes, packet', headernum', off' - 6)
                                                   ELSE UpTo(Parser!VideoBytes, packet', 0, 0)
    BY <1>1 DEF Passed
  <2> QED BY Zenon, <2>1
<1>3. Clean'
  BY <1>1 DEF WholeInv, Clean, Parser!IsPayload
<1>4. Headed'
  BY DEF WholeInv, Headed, Parser!IsPayload, Parser!Ended
<1>5. Delivered(audio, Parser!AudioBytes, Passed(Parser!AudioBytes))'
      /\ Delivered(video, Parser!VideoBytes, Passed(Parser!VideoBytes))'
  BY <1>1, <1>2 DEF WholeInv
<1> QED BY <1>3, <1>4, <1>5 DEF WholeInv

LEMMA ScanWhole ==
  ASSUME ParserSizes, ParserInv, WholeInv, Parser!Scan
  PROVE  WholeInv'
<1>1. /\ ~Parser!Ended /\ avail > 0 /\ state \in 1..3 /\ inp' = inp /\ Parser!Consume(1)
      /\ UNCHANGED <<audio, video, cut>>
  BY DEF Parser!Scan, Parser!rings
<1>2. packet \in Nat /\ off \in Nat /\ inp[packet].n \in Nat /\ inp[packet].type \in Parser!Types
  BY <1>1, Setting
<1>3. Pack \in Nat /\ 4 <= Parser!Length(packet) /\ Parser!Length(packet) \in Nat
  <2>1. Pack \in Nat
    BY DEF ParserSizes
  <2>2. \/ Parser!Length(packet) = 4 + Pack + 3 + inp[packet].n \/ Parser!Length(packet) = 4 + Pack \/ Parser!Length(packet) = 4
        \/ Parser!Length(packet) = 4 + 2 + inp[packet].n
    BY Zenon DEF Parser!Length
  <2> QED BY <1>2, <2>1, <2>2
<1>4. /\ off = 0 => state = 1
      /\ off \in 1..3 => state = off + 1
      /\ off > 3 /\ inp[packet].type \in AV => Playing
  BY <1>1 DEF WholeInv, OnTrack
<1>5. CASE off \in 0..2
  <2>1. packet' = packet /\ off' = off + 1
    BY <1>1, <1>2, <1>3, <1>5 DEF Parser!Consume
  <2>2. state' = off' + 1
    <3>1. CASE off = 0
      <4>1. Parser!Byte = "0" /\ state = 1
        BY <1>4, <3>1 DEF Parser!Byte
      <4>2. state' = Parser!Least(state + 1, 3)
        BY <4>1 DEF Parser!Scan
      <4> QED BY <2>1, <3>1, <4>1, <4>2 DEF Parser!Least
    <3>2. CASE off = 1
      <4>1. Parser!Byte = "0" /\ state = 2
        BY <1>4, <3>2 DEF Parser!Byte
      <4>2. state' = Parser!Least(state + 1, 3)
        BY <4>1 DEF Parser!Scan
      <4> QED BY <2>1, <3>2, <4>1, <4>2 DEF Parser!Least
    <3>3. CASE off = 2
      <4>1. Parser!Byte = "1" /\ state = 3
        BY <1>4, <3>3 DEF Parser!Byte
      <4>2. state' = 4
        BY <4>1 DEF Parser!Scan
      <4> QED BY <2>1, <3>3, <4>2
    <3> QED BY <1>5, <3>1, <3>2, <3>3
  <2>3. off' \in 1..3 /\ state' \in 2..4
    BY <1>5, <2>1, <2>2
  <2>4. state' # Parser!Frame /\ state # Parser!Frame
    BY <1>1, <2>3 DEF Parser!Frame
  <2>5. OnTrack'
    <3>1. ~(off' = 0) /\ ~(off' > 3)
      BY <2>3
    <3> QED BY <2>2, <2>4, <3>1 DEF OnTrack
  <2>6. \A B : (IF state' = Parser!Frame THEN UpTo(B, packet', headernum', off' - 6) ELSE UpTo(B, packet', 0, 0))
                 = Passed(B)
    BY <2>1, <2>4 DEF Passed
  <2> QED BY <1>1, <2>4, <2>5, <2>6, StillWhole
<1>6. CASE off > 3
  <2>1. inp[packet].type \notin AV
    <3>1. ~Playing
      BY <1>1 DEF Playing, Parser!Frame
    <3> QED BY <1>4, <1>6, <3>1
  <2>2. state' = 1
    <3>1. Parser!Byte = "x"
      BY <1>2, <1>6 DEF Parser!Byte
    <3> QED BY <3>1 DEF Parser!Scan
  <2>3. Finished \/ StaysInside
    BY <1>1, <1>2, <1>6, <2>2 DEF Parser!Consume, Finished, StaysInside
  <2>4. state' # Parser!Frame
    BY <2>2 DEF Parser!Frame
  <2>5. audio \in Seq(Pairs)
    BY EntriesPairs DEF WholeInv
  <2>6. audio' = audio \o <<>> /\ <<>> \in Seq({packet} \X Int)
    <3>1. <<>> \in Seq(Pairs) /\ Len(<<>>) = 0
      OBVIOUS
    <3> QED BY <1>1, <2>5, <3>1, Empty
  <2>7. \/ Finished
        \/ /\ StaysInside /\ state' \in {1, Parser!Frame}
           /\ state' = Parser!Frame /\ remain' > 0 => frame_state' # 2
    BY <2>2, <2>3, <2>4
  <2> QED BY <1>1, <2>1, <2>6, <2>7, OtherWhole
<1>7. off # 3
  BY <1>1, <1>4
<1> QED BY <1>2, <1>5, <1>6, <1>7

\* A step of parse_frame at the length or before.
LEMMA BodyWhole ==
  ASSUME ParserSizes, WholeInv, NEW c, NEW f, Within(c, f), off + c > 3,
         inp[packet].type \in AV => AtLength(c, f),
         NEW k \in 0..4, NEW room, Parser!Body(c, avail - c, f, k, room)
  PROVE  WholeInv'
<1>1. CASE inp[packet].type \notin AV
  BY <1>1, OtherBodyWhole
<1>2. CASE inp[packet].type = "audio"
  <2>1. Parser!AudioFrame(c, avail - c, f, k, room)
    BY <1>2 DEF Parser!Body
  <2> QED BY <1>2, <2>1, AudioFrameWhole DEF AV
<1>3. CASE inp[packet].type = "video"
  <2>1. Parser!VideoFrame(c, avail - c, f, k, room)
    BY <1>3 DEF Parser!Body
  <2> QED BY <1>3, <2>1, VideoFrameWhole DEF AV
<1> QED BY <1>1, <1>2, <1>3 DEF AV

LEMMA TypeWhole ==
  ASSUME ParserSizes, ParserInv, WholeInv, NEW k \in 0..4, NEW room, Parser!ParseType(k, room)
  PROVE  WholeInv'
<1>1. /\ avail \in Nat /\ avail > 0 /\ ~Parser!Ended /\ UNCHANGED inp /\ state = 4
      /\ Parser!Body(1, avail - 1, Parser!Fresh, k, room)
  BY DEF Parser!ParseType, ParserInv, Parser!TypeOK, ParserSizes
<1>2. Parser!Fresh \in Handles /\ Parser!Fresh.remain = 0 /\ Begins(Parser!Fresh) /\ Parser!Fresh.headernum = 0
      /\ Parser!Fresh.bufsz = 0
  BY DEF Parser!Fresh, Handles, Begins, ParserSizes
<1>3. Within(1, Parser!Fresh)
  BY <1>1, <1>2 DEF Within
<1>4. off = 3
  <2>1. /\ off = 0 => state = 1
        /\ off \in 1..3 => state = off + 1
        /\ off > 3 => state # 4
    BY DEF WholeInv, OnTrack
  <2>2. off \in Nat
    BY <1>1, Setting
  <2> QED BY <1>1, <2>1, <2>2
<1>5. AtLength(1, Parser!Fresh)
  <2>1. Passed(Parser!AudioBytes) = UpTo(Parser!AudioBytes, packet, 0, 0)
        /\ Passed(Parser!VideoBytes) = UpTo(Parser!VideoBytes, packet, 0, 0)
    BY <1>1 DEF Passed, Parser!Frame
  <2> QED BY <1>2, <1>3, <1>4, <2>1 DEF AtLength
<1>6. off + 1 > 3
  BY <1>4
<1> QED BY <1>1, <1>3, <1>5, <1>6, BodyWhole

LEMMA FrameWhole ==
  ASSUME ParserSizes, ParserInv, WholeInv, NEW k \in 0..4, NEW room, Parser!ParseFrame(k, room)
  PROVE  WholeInv'
<1>1. avail \in Nat /\ avail > 0 /\ ~Parser!Ended /\ UNCHANGED inp /\ state = Parser!Frame
  BY DEF Parser!ParseFrame, ParserInv, Parser!TypeOK, ParserSizes
<1>2. CASE remain > 0
  <2>1. Parser!Rest(avail, room)
    BY <1>2 DEF Parser!ParseFrame
  <2> QED BY <1>1, <1>2, <2>1, RestWhole
<1>3. CASE ~(remain > 0)
  <2>1. Parser!Body(0, avail - 0, Parser!Handle, k, room)
    <3>1. avail - 0 = avail
      BY <1>1
    <3>2. Parser!Body(0, avail, Parser!Handle, k, room)
      BY Zenon, <1>3 DEF Parser!ParseFrame
    <3> QED BY <3>1, <3>2
  <2>2. remain = 0 /\ Parser!Handle \in Handles /\ Parser!Handle.remain = 0 /\ Parser!Handle.headernum = headernum
        /\ Parser!Handle.bufsz = bufsz
    BY <1>3 DEF ParserInv, Parser!TypeOK, Parser!Handle, Handles
  <2>3. Within(0, Parser!Handle)
    BY <1>1, <2>2 DEF Within, ParserInv
  <2>4. off \in Nat /\ bufsz \in Nat /\ packet \in Nat /\ headernum \in 0..4 /\ inp \in Inputs
    BY <1>1, Setting
  <2>5. off > 3 /\ (inp[packet].type \in AV => Playing)
    <3>1. /\ off = 0 => state = 1
          /\ off \in 1..3 => state = off + 1
          /\ off > 3 /\ inp[packet].type \in AV => Playing
      BY <1>1 DEF WholeInv, OnTrack
    <3>2. off > 3
      BY <1>1, <2>4, <3>1 DEF Parser!Frame
    <3> QED BY <3>1, <3>2
  <2>6. ASSUME inp[packet].type \in AV PROVE AtLength(0, Parser!Handle)
    <3>1. /\ off = 4 + bufsz
          /\ inp[packet].type = "audio" => headernum <= 2
          /\ inp[packet].type = "video" => headernum = 0
      BY <2>2, <2>5, <2>6 DEF Playing
    <3>2. bufsz <= 2
      <4>1. inp[packet].type \notin PackTypes
        BY <2>6 DEF AV, PackTypes
      <4> QED BY <2>2, <2>3, <4>1 DEF Within, Begins
    <3>3. off - 6 <= 0 /\ off - 6 \in Int /\ off + 0 = 4 + bufsz
      BY <2>4, <3>1, <3>2
    <3>4. ASSUME NEW B, Proper(B) PROVE Passed(B) = UpTo(B, packet, headernum, 0)
      <4>1. \A b \in B : b[2] \in Int
        BY <3>4 DEF Proper, Pairs
      <4>2. \A b \in B : ~(1 <= b[2] /\ b[2] <= off - 6) /\ ~(1 <= b[2] /\ b[2] <= 0)
        BY <3>3, <4>1
      <4>3. UpTo(B, packet, headernum, off - 6) = UpTo(B, packet, headernum, 0)
        BY <4>2 DEF UpTo
      <4> QED BY <1>1, <4>3 DEF Passed
    <3>5. Proper(Parser!AudioBytes) /\ Proper(Parser!VideoBytes)
      BY <2>4, ProperBytes
    <3> QED BY <2>2, <2>3, <3>1, <3>2, <3>3, <3>4, <3>5 DEF AtLength
  <2>7. off + 0 > 3
    BY <2>4, <2>5
  <2> QED BY <2>1, <2>3, <2>6, <2>7, BodyWhole
<1> QED BY <1>2, <1>3

LEMMA WholeStep == ASSUME ParserSizes, ParserInv, WholeInv, [Parser!Next]_Parser!vars PROVE WholeInv'
<1>1. ASSUME UNCHANGED <<inp, packet, off, state, Parser!handle, Parser!rings>> PROVE WholeInv'
  <2>1. UNCHANGED <<inp, packet, off, state, remain, frame_state, bufsz, headernum, audio, video, cut>>
    BY <1>1 DEF Parser!handle, Parser!rings
  <2>2. OnTrack'
    BY <2>1 DEF WholeInv, OnTrack, Playing, Parser!Ended
  <2>3. \A B : (IF state' = Parser!Frame THEN UpTo(B, packet', headernum', off' - 6) ELSE UpTo(B, packet', 0, 0))
                 = Passed(B)
    BY <2>1 DEF Passed
  <2> QED BY <2>1, <2>2, <2>3, StillWhole
<1>2. CASE UNCHANGED Parser!vars
  BY <1>1, <1>2 DEF Parser!vars, Parser!handle, Parser!rings
<1>3. CASE Parser!NextChunk
  BY <1>1, <1>3 DEF Parser!NextChunk
<1>4. CASE Parser!Scan
  BY <1>4, ScanWhole
<1>5. ASSUME NEW room, NEW k \in 0..4, Parser!ParseType(k, room) \/ Parser!ParseFrame(k, room) PROVE WholeInv'
  BY <1>5, TypeWhole, FrameWhole
<1> QED BY <1>2, <1>3, <1>4, <1>5 DEF Parser!Next, Parser!Parse

LEMMA WholeInit == ASSUME ParserSizes, Parser!Init PROVE WholeInv
<1>1. /\ inp \in Inputs /\ packet = 1 /\ off = 0 /\ state = 1 /\ video = <<>> /\ audio = <<>>
  BY DEF Parser!Init
<1>2. DOMAIN audio = {} /\ DOMAIN video = {}
  BY <1>1
<1>3. OnTrack
  BY <1>1 DEF OnTrack, Parser!Frame
<1>4. Clean
  BY <1>1, <1>2 DEF Clean
<1>5. Headed
  BY <1>1, <1>2 DEF Headed, Parser!Frame
<1>6. inp \in Seq(Packets) /\ Len(inp) \in Nat
  BY <1>1, InputTypes
<1>7. ASSUME NEW B, Proper(B), \A b \in B : 1 <= b[1] PROVE Passed(B) = {}
  <2>1. Passed(B) = UpTo(B, 1, 0, 0)
    BY <1>1 DEF Passed, Parser!Frame
  <2>2. ASSUME NEW b \in B PROVE b \notin UpTo(B, 1, 0, 0)
    <3>1. b[1] \in Int /\ b[2] \in Int /\ 1 <= b[1]
      BY <1>7 DEF Proper, Pairs
    <3> QED BY <3>1 DEF UpTo
  <2> QED BY <2>1, <2>2 DEF UpTo
<1>8. /\ Proper(Parser!AudioBytes) /\ Proper(Parser!VideoBytes)
      /\ \A b \in Parser!AudioBytes : 1 <= b[1]
      /\ \A b \in Parser!VideoBytes : 1 <= b[1]
  <2>1. \A b \in Parser!AudioBytes : b \in Pairs /\ b[1] \in 1..Len(inp)
    BY <1>1, BytesAre
  <2>2. \A b \in Parser!VideoBytes : b \in Pairs /\ b[1] \in 1..Len(inp)
    BY <1>1, BytesAre
  <2> QED BY <1>1, <1>6, <2>1, <2>2, ProperBytes
<1>9. Passed(Parser!AudioBytes) = {} /\ Passed(Parser!VideoBytes) = {}
  BY <1>7, <1>8
<1>10. Delivered(audio, Parser!AudioBytes, {}) /\ Delivered(video, Parser!VideoBytes, {})
  BY <1>2 DEF Delivered, Parser!InSequence
<1> QED BY <1>3, <1>4, <1>5, <1>9, <1>10 DEF WholeInv

LEMMA WholeImplies == ASSUME WholeInv PROVE Parser!PacketsWhole
BY DEF WholeInv, Clean, Headed, Delivered, Parser!PacketsWhole

\* However the stream is cut into chunks and whenever the rings are full, the
\* packets that are played come out whole and in order.
LEMMA ParserWhole == ASSUME ParserSizes PROVE Parser!Spec => []Parser!PacketsWhole
<1>1. Parser!Init => ParserInv /\ WholeInv
  BY InitParser, WholeInit
<1>2. ParserInv /\ WholeInv /\ [Parser!Next]_Parser!vars => ParserInv' /\ WholeInv'
  BY ParserStep, WholeStep
<1>3. WholeInv => Parser!PacketsWhole
  BY WholeImplies
<1> QED BY <1>1, <1>2, <1>3, PTL DEF Parser!Spec

-----------------------------------------------------------------------------
(* The transfer of a file from a MythTV backend.                           *)
(*                                                                         *)
(* BytesInPlace is not inductive: that a seek finds the data connection    *)
(* empty rests on how the three positions are related.  As long as no seek *)
(* went outside the file, the bytes that are still to be read lie between  *)
(* file_pos and the backend's position, and the backend's position is      *)
(* file_req and what was sent of the request under way.  While mythtv_seek *)
(* holds request_block_mutex there is none under way: file_pos >= file_req *)
(* then says that nothing is left to be read.                              *)

\* A position in the file is not changed by the width of the positions.
FileSizes ==
  /\ FileSize \in Nat /\ Block \in Nat /\ Width \in Nat
  /\ FileSize < Width

-----------------------------------------------------------------------------
FilePositions ==
  /\ file_pos \in 0..(Width - 1) /\ file_req \in 0..(Width - 1)
  /\ backend_pos \in 0..FileSize

FileConnection ==
  /\ net \in Seq(0..FileSize) /\ arrived \in Seq(0..FileSize)
  /\ closed \in BOOLEAN
  /\ closed => net = <<>>

FileRequests ==
  /\ control \in {"idle", "asked", "answered"}
  /\ left \in 0..Block /\ asked \in 0..Block
  /\ control = "asked" => asked + left <= Block /\ backend_pos + left <= FileSize

\* No request is under way while the read thread holds request_block_mutex,
\* and none begins from the moment the seek prevents it.
FileSeeks ==
  /\ reader \in {"read", "drain", "lock", "flush"}
  /\ target \in Int \X {"SEEK_SET", "SEEK_CUR"}
  /\ prevent \in BOOLEAN /\ outside \in BOOLEAN
  /\ reader # "read" => prevent
  /\ reader \in {"lock", "flush"} => control = "idle"

\* The part of the request under way that the backend has sent.
FilePending == IF control = "idle" THEN 0 ELSE asked

\* How the positions are related.  Only a hangup loses bytes.
FileRelated ==
  ~outside =>
    /\ backend_pos = file_req + FilePending
    /\ file_pos + Len(arrived) + Len(net) <= backend_pos
    /\ ~closed => file_pos + Len(arrived) + Len(net) = backend_pos

FileInPlace ==
  ~outside =>
    /\ \A i \in 1..Len(arrived) : arrived[i] = file_pos + i - 1
    /\ \A i \in 1..Len(net) : net[i] = file_pos + Len(arrived) + i - 1

FileTypes == FilePositions /\ FileConnection /\ FileRequests /\ FileSeeks

FileInv == FileTypes /\ FileRelated /\ FileInPlace

-----------------------------------------------------------------------------
LEMMA FileElements ==
  ASSUME NEW S, NEW s \in Seq(S)
  PROVE  DOMAIN s = 1..Len(s) /\ \A i \in 1..Len(s) : s[i] \in S
OBVIOUS

LEMMA FileInitInv == FileSizes /\ File!Init => FileInv
<1> SUFFICES ASSUME FileSizes, File!Init PROVE FileInv
  OBVIOUS
<1>1. FilePositions /\ FileRequests
  BY DEF FileSizes, File!Init, FilePositions, FileRequests
<1>2. FileConnection /\ FileSeeks
  <2>1. net = <<>> /\ arrived = <<>> /\ closed = FALSE
    BY DEF File!Init
  <2>2. FileConnection
    <3>1. net \in Seq(0..FileSize) /\ arrived \in Seq(0..FileSize)
      BY <2>1
    <3>2. QED
      BY <2>1, <3>1 DEF FileConnection
  <2>3. /\ reader = "read" /\ target = <<0, "SEEK_SET">>
        /\ prevent = FALSE /\ outside = FALSE
    BY DEF File!Init
  <2>4. target \in Int \X {"SEEK_SET", "SEEK_CUR"}
    BY <2>3
  <2>5. prevent \in BOOLEAN /\ outside \in BOOLEAN
    BY <2>3
  <2>6. FileSeeks
    BY <2>3, <2>4, <2>5 DEF FileSeeks
  <2>7. QED
    BY <2>2, <2>6
<1>3. FileRelated /\ FileInPlace
  BY DEF File!Init, FileRelated, FilePending, FileInPlace
<1>4. QED
  BY <1>1, <1>2, <1>3 DEF FileInv, FileTypes

\* cmyth_file_get_block takes bytes from the front, and counts them.
LEMMA FileGetBlockInv ==
  ASSUME FileSizes, FileInv, NEW n \in Nat, File!GetBlock(n),
         UNCHANGED <<File!request, outside, closed>>
  PROVE  FilePositions' /\ FileConnection' /\ FileRelated' /\ FileInPlace'
<1>1. /\ n \in 1..Len(arrived)
      /\ arrived' = SubSeq(arrived, n + 1, Len(arrived))
      /\ file_pos' = (file_pos + n) % Width
      /\ net' = net /\ outside' = outside /\ closed' = closed
      /\ backend_pos' = backend_pos /\ file_req' = file_req
      /\ asked' = asked /\ control' = control
  BY DEF File!GetBlock, File!request
<1>2. arrived \in Seq(0..FileSize) /\ Len(arrived) \in Nat /\ Len(net) \in Nat
  BY DEF FileInv, FileTypes, FileConnection
<1>3. /\ arrived' \in Seq(0..FileSize) /\ Len(arrived') = Len(arrived) - n
      /\ \A i \in 1..Len(arrived') : arrived'[i] = arrived[n + i]
  <2>1. \A i \in (n + 1)..Len(arrived) : arrived[i] \in 0..FileSize
    <3>1. (n + 1)..Len(arrived) \subseteq 1..Len(arrived)
      BY <1>2
    <3>2. QED
      BY <1>2, <3>1, FileElements
  <2>2. n + 1 \in Int /\ Len(arrived) \in Int
    BY <1>2
  <2> DEFINE rest == SubSeq(arrived, n + 1, Len(arrived))
  <2>3. /\ rest \in Seq(0..FileSize)
        /\ Len(rest) = IF n + 1 <= Len(arrived) THEN Len(arrived) - (n + 1) + 1 ELSE 0
        /\ \A i \in 1..(Len(arrived) - (n + 1) + 1) : rest[i] = arrived[(n + 1) + i - 1]
    BY <2>1, <2>2, SubSeqProperties
  <2>4. Len(rest) = Len(arrived) - n
    BY <1>1, <1>2, <2>3
  <2>5. \A i \in 1..Len(rest) : rest[i] = arrived[n + i]
    <3> TAKE i \in 1..Len(rest)
    <3>1. i \in 1..(Len(arrived) - (n + 1) + 1) /\ (n + 1) + i - 1 = n + i
      BY <1>2, <2>4
    <3>2. QED
      BY <2>3, <3>1
  <2>6. QED
    BY <1>1, <2>3, <2>4, <2>5
<1>4. file_pos' \in 0..(Width - 1)
  BY <1>1 DEF FileSizes, FileInv, FileTypes, FilePositions
<1>5. FilePositions' /\ FileConnection'
  BY <1>1, <1>3, <1>4 DEF FileInv, FileTypes, FilePositions, FileConnection
<1>6. ~outside => file_pos' = file_pos + n
  <2>1. ~outside => file_pos + n \in 0..(Width - 1)
    BY <1>1, <1>2 DEF FileSizes, FileInv, FileTypes, FilePositions, FileRelated
  <2>2. QED
    BY <1>1, <2>1 DEF FileSizes
<1>7. FileRelated'
  <2>1. FilePending' = FilePending
    BY <1>1 DEF FilePending
  <2>2. ASSUME ~outside
        PROVE  file_pos' + Len(arrived') + Len(net') =
               file_pos + Len(arrived) + Len(net)
    BY <1>1, <1>2, <1>3, <1>6, <2>2 DEF FileInv, FileTypes, FilePositions
  <2>3. QED
    BY <1>1, <2>1, <2>2 DEF FileInv, FileRelated
<1>8. FileInPlace'
  <2> SUFFICES ASSUME ~outside
               PROVE  /\ \A i \in 1..Len(arrived') : arrived'[i] = file_pos' + i - 1
                      /\ \A i \in 1..Len(net') :
                           net'[i] = file_pos' + Len(arrived') + i - 1
    BY <1>1 DEF FileInPlace
  <2>1. file_pos \in Int /\ file_pos' = file_pos + n
    BY <1>6 DEF FileInv, FileTypes, FilePositions
  <2>2. /\ \A i \in 1..Len(arrived) : arrived[i] = file_pos + i - 1
        /\ \A i \in 1..Len(net) : net[i] = file_pos + Len(arrived) + i - 1
    BY DEF FileInv, FileInPlace
  <2>3. ASSUME NEW i \in 1..Len(arrived')
        PROVE  arrived'[i] = file_pos' + i - 1
    <3>1. n + i \in 1..Len(arrived)
      BY <1>2, <1>3
    <3>2. arrived'[i] = file_pos + (n + i) - 1
      BY <1>3, <2>2, <3>1
    <3>3. QED
      BY <2>1, <3>2
  <2>4. ASSUME NEW i \in 1..Len(net')
        PROVE  net'[i] = file_pos' + Len(arrived') + i - 1
    BY <1>1, <1>2, <1>3, <2>1, <2>2
  <2>5. QED
    BY <2>3, <2>4
<1>9. QED
  BY <1>5, <1>7, <1>8

LEMMA FileReadInv == ASSUME FileSizes, FileInv, File!Read PROVE FileInv'
<1>1. PICK n \in 1..Len(arrived) : File!GetBlock(n)
  BY DEF File!Read
<1>2. n \in Nat
  BY <1>1 DEF FileInv, FileTypes, FileConnection
<1>3. UNCHANGED <<File!request, File!seek, closed>>
  BY DEF File!Read
<1>4. FilePositions' /\ FileConnection' /\ FileRelated' /\ FileInPlace'
  BY <1>1, <1>2, <1>3, FileGetBlockInv DEF File!seek
<1>5. FileRequests' /\ FileSeeks'
  BY <1>3 DEF FileInv, FileTypes, FileRequests, FileSeeks, File!request, File!seek
<1>6. QED
  BY <1>4, <1>5 DEF FileInv, FileTypes

LEMMA FileDrainInv == ASSUME FileSizes, FileInv, File!Drain PROVE FileInv'
<1>1. File!GetBlock(Len(arrived)) /\ UNCHANGED <<File!request, File!seek, closed>>
  BY DEF File!Drain
<1>2. Len(arrived) \in Nat
  BY DEF FileInv, FileTypes, FileConnection
<1>4. FilePositions' /\ FileConnection' /\ FileRelated' /\ FileInPlace'
  BY <1>1, <1>2, FileGetBlockInv DEF File!seek
<1>5. FileRequests' /\ FileSeeks'
  BY <1>1 DEF FileInv, FileTypes, FileRequests, FileSeeks, File!request, File!seek
<1>6. QED
  BY <1>4, <1>5 DEF FileInv, FileTypes

LEMMA FileFlushInv == ASSUME FileSizes, FileInv, File!Flush PROVE FileInv'
<1>1. PICK n \in 1..(file_req - file_pos) : File!GetBlock(n)
  BY DEF File!Flush
<1>2. n \in Nat
  BY <1>1 DEF FileInv, FileTypes, FilePositions
<1>3. UNCHANGED <<File!request, File!seek, closed>>
  BY DEF File!Flush
<1>4. FilePositions' /\ FileConnection' /\ FileRelated' /\ FileInPlace'
  BY <1>1, <1>2, <1>3, FileGetBlockInv DEF File!seek
<1>5. FileRequests' /\ FileSeeks'
  BY <1>3 DEF FileInv, FileTypes, FileRequests, FileSeeks, File!request, File!seek
<1>6. QED
  BY <1>4, <1>5 DEF FileInv, FileTypes

\* What leaves the connection and the positions alone keeps the bytes in place.
LEMMA FileQuietConnection ==
  ASSUME FileInv, UNCHANGED <<File!data, closed, outside>>
  PROVE  FileConnection' /\ FileInPlace'
BY DEF FileInv, FileTypes, FileConnection, FileInPlace, File!data

-----------------------------------------------------------------------------
LEMMA FileRequestBlockInv == ASSUME FileSizes, FileInv, File!RequestBlock PROVE FileInv'
<1>1. FileConnection' /\ FileInPlace'
  BY FileQuietConnection DEF File!RequestBlock, File!seek
<1>2. FilePositions'
  BY DEF File!RequestBlock, FileInv, FileTypes, FilePositions, File!data
<1>3. left' \in 0..Block /\ backend_pos + left' <= FileSize
  BY DEF File!RequestBlock, File!Least, FileSizes, FileInv, FileTypes, FilePositions
<1>4. FileRequests'
  BY <1>3 DEF File!RequestBlock, FileSizes, FileInv, FileTypes, FileRequests
<1>5. FileSeeks'
  BY DEF File!RequestBlock, FileInv, FileTypes, FileSeeks, File!seek
<1>6. FileRelated'
  BY DEF File!RequestBlock, FileInv, FileRelated, FilePending, File!data, File!seek
<1>7. QED
  BY <1>1, <1>2, <1>4, <1>5, <1>6 DEF FileInv, FileTypes

LEMMA FileBlockAnsweredInv == ASSUME FileSizes, FileInv, File!BlockAnswered PROVE FileInv'
<1>1. FileConnection' /\ FileInPlace'
  BY FileQuietConnection DEF File!BlockAnswered, File!seek
<1>2. FilePositions'
  BY DEF File!BlockAnswered, FileSizes, FileInv, FileTypes, FilePositions, FileRequests, File!data
<1>3. FileRequests'
  BY DEF File!BlockAnswered, FileInv, FileTypes, FileRequests
<1>4. FileSeeks'
  BY DEF File!BlockAnswered, FileInv, FileTypes, FileSeeks, File!seek
<1>5. ~outside => file_req' = file_req + asked
  <2>1. ~outside => file_req + asked \in 0..(Width - 1)
    BY DEF File!BlockAnswered, FileSizes, FileInv, FileTypes, FilePositions, FileRelated, FilePending
  <2>2. QED
    BY <2>1 DEF File!BlockAnswered, FileSizes
<1>6. FileRelated'
  BY <1>5 DEF File!BlockAnswered, FileInv, FileTypes, FilePositions, FileRequests, FileRelated, FilePending,
              File!data, File!seek
<1>7. QED
  BY <1>1, <1>2, <1>3, <1>4, <1>6 DEF FileInv, FileTypes

LEMMA FileSendInv == ASSUME FileSizes, FileInv, File!Send PROVE FileInv'
<1>1. /\ control = "asked" /\ left > 0 /\ ~closed
      /\ net' = Append(net, backend_pos) /\ backend_pos' = backend_pos + 1
      /\ left' = left - 1 /\ asked' = asked + 1
      /\ arrived' = arrived /\ file_pos' = file_pos /\ file_req' = file_req
      /\ control' = control /\ outside' = outside /\ closed' = closed
      /\ prevent' = prevent /\ reader' = reader /\ target' = target
  BY DEF File!Send, File!seek
<1>2. net \in Seq(0..FileSize) /\ arrived \in Seq(0..FileSize)
  BY DEF FileInv, FileTypes, FileConnection
<1>3. backend_pos \in 0..FileSize /\ backend_pos + left <= FileSize
  BY <1>1 DEF FileInv, FileTypes, FilePositions, FileRequests
<1>4. /\ net' \in Seq(0..FileSize) /\ Len(net') = Len(net) + 1
      /\ net'[Len(net) + 1] = backend_pos
      /\ \A i \in 1..Len(net) : net'[i] = net[i]
  BY <1>1, <1>2, <1>3
<1>5. FilePositions'
  BY <1>1, <1>3 DEF FileSizes, FileInv, FileTypes, FilePositions, FileRequests
<1>6. FileConnection'
  BY <1>1, <1>2, <1>4 DEF FileInv, FileTypes, FileConnection
<1>7. FileRequests'
  BY <1>1, <1>3 DEF FileSizes, FileInv, FileTypes, FileRequests
<1>8. FileSeeks'
  BY <1>1 DEF FileInv, FileTypes, FileSeeks
<1>9. /\ file_pos \in Int /\ file_req \in Int /\ backend_pos \in Int
      /\ asked \in Int /\ Len(arrived) \in Nat /\ Len(net) \in Nat
  BY <1>2 DEF FileInv, FileTypes, FilePositions, FileRequests
<1>10. ASSUME ~outside
       PROVE  /\ backend_pos = file_req + asked
              /\ file_pos + Len(arrived) + Len(net) = backend_pos
  BY <1>1, <1>10 DEF FileInv, FileRelated, FilePending
<1>11. FileRelated'
  <2>1. FilePending' = asked'
    BY <1>1 DEF FilePending
  <2>2. ASSUME ~outside
        PROVE  /\ backend_pos' = file_req' + asked'
               /\ file_pos' + Len(arrived') + Len(net') = backend_pos'
    BY <1>1, <1>4, <1>9, <1>10, <2>2
  <2>3. backend_pos' \in Int
    BY <1>1, <1>9
  <2>4. QED
    BY <1>1, <2>1, <2>2, <2>3 DEF FileRelated
<1>12. FileInPlace'
  <2> SUFFICES ASSUME ~outside
               PROVE  /\ \A i \in 1..Len(arrived') : arrived'[i] = file_pos' + i - 1
                      /\ \A i \in 1..Len(net') :
                           net'[i] = file_pos' + Len(arrived') + i - 1
    BY <1>1 DEF FileInPlace
  <2>1. /\ \A i \in 1..Len(arrived) : arrived[i] = file_pos + i - 1
        /\ \A i \in 1..Len(net) : net[i] = file_pos + Len(arrived) + i - 1
    BY DEF FileInv, FileInPlace
  <2>2. QED
    BY <1>1, <1>4, <1>9, <1>10, <2>1
<1>13. QED
  BY <1>5, <1>6, <1>7, <1>8, <1>11, <1>12 DEF FileInv, FileTypes

LEMMA FileAnswerInv == ASSUME FileSizes, FileInv, File!Answer PROVE FileInv'
<1>1. FileConnection' /\ FileInPlace'
  BY FileQuietConnection DEF File!Answer, File!seek
<1>2. FilePositions' /\ FileRequests' /\ FileSeeks'
  BY DEF File!Answer, FileInv, FileTypes, FilePositions, FileRequests, FileSeeks, File!data, File!seek
<1>3. FileRelated'
  BY DEF File!Answer, FileInv, FileRelated, FilePending, File!data, File!seek
<1>4. QED
  BY <1>1, <1>2, <1>3 DEF FileInv, FileTypes

LEMMA FileArriveInv == ASSUME FileSizes, FileInv, File!Arrive PROVE FileInv'
<1>1. /\ net # <<>>
      /\ arrived' = Append(arrived, Head(net)) /\ net' = Tail(net)
      /\ file_pos' = file_pos /\ closed' = closed /\ outside' = outside
      /\ backend_pos' = backend_pos /\ file_req' = file_req
      /\ left' = left /\ asked' = asked /\ control' = control
      /\ prevent' = prevent /\ reader' = reader /\ target' = target
  BY DEF File!Arrive, File!request, File!seek
<1>2. net \in Seq(0..FileSize) /\ arrived \in Seq(0..FileSize)
  BY DEF FileInv, FileTypes, FileConnection
<1>3. /\ Len(net) > 0 /\ net' \in Seq(0..FileSize) /\ Len(net') = Len(net) - 1
      /\ \A i \in 1..Len(net') : net'[i] = net[i + 1]
  BY <1>1, <1>2, HeadTailProperties
<1>4. /\ arrived' \in Seq(0..FileSize) /\ Len(arrived') = Len(arrived) + 1
      /\ arrived'[Len(arrived) + 1] = net[1]
      /\ \A i \in 1..Len(arrived) : arrived'[i] = arrived[i]
  <2>1. Head(net) \in 0..FileSize
    BY <1>1, <1>2, HeadTailProperties
  <2>2. Head(net) = net[1]
    OBVIOUS
  <2>3. QED
    BY <1>1, <1>2, <2>1, <2>2, AppendProperties
<1>5. FilePositions' /\ FileRequests' /\ FileSeeks'
  BY <1>1 DEF FileInv, FileTypes, FilePositions, FileRequests, FileSeeks
<1>6. FileConnection'
  BY <1>1, <1>3, <1>4 DEF FileInv, FileTypes, FileConnection
<1>7. file_pos \in Int /\ Len(arrived) \in Nat /\ Len(net) \in Nat
  BY <1>2 DEF FileInv, FileTypes, FilePositions
<1>8. FileRelated'
  <2>1. FilePending' = FilePending
    BY <1>1 DEF FilePending
  <2>2. file_pos' + Len(arrived') + Len(net') = file_pos + Len(arrived) + Len(net)
    BY <1>1, <1>3, <1>4, <1>7
  <2>3. QED
    BY <1>1, <2>1, <2>2 DEF FileInv, FileRelated
<1>9. FileInPlace'
  <2> SUFFICES ASSUME ~outside
               PROVE  /\ \A i \in 1..Len(arrived') : arrived'[i] = file_pos' + i - 1
                      /\ \A i \in 1..Len(net') :
                           net'[i] = file_pos' + Len(arrived') + i - 1
    BY <1>1 DEF FileInPlace
  <2>1. /\ \A i \in 1..Len(arrived) : arrived[i] = file_pos + i - 1
        /\ \A i \in 1..Len(net) : net[i] = file_pos + Len(arrived) + i - 1
    BY DEF FileInv, FileInPlace
  <2>2. QED
    BY <1>1, <1>3, <1>4, <1>7, <2>1
<1>10. QED
  BY <1>5, <1>6, <1>8, <1>9 DEF FileInv, FileTypes

LEMMA FileHangupInv == ASSUME FileSizes, FileInv, File!Hangup PROVE FileInv'
<1>1. /\ closed' = TRUE /\ net' = <<>>
      /\ arrived' = arrived /\ file_pos' = file_pos /\ outside' = outside
      /\ backend_pos' = backend_pos /\ file_req' = file_req
      /\ left' = left /\ asked' = asked /\ control' = control
      /\ prevent' = prevent /\ reader' = reader /\ target' = target
  BY DEF File!Hangup, File!request, File!seek
<1>2. FilePositions' /\ FileRequests' /\ FileSeeks'
  BY <1>1 DEF FileInv, FileTypes, FilePositions, FileRequests, FileSeeks
<1>3. FileConnection'
  BY <1>1 DEF FileInv, FileTypes, FileConnection
<1>4. FileRelated'
  BY <1>1 DEF FileInv, FileTypes, FilePositions, FileConnection, FileRelated, FilePending
<1>5. FileInPlace'
  BY <1>1 DEF FileInv, FileInPlace
<1>6. QED
  BY <1>2, <1>3, <1>4, <1>5 DEF FileInv, FileTypes

-----------------------------------------------------------------------------
LEMMA FileSeekStartInv == ASSUME FileSizes, FileInv, File!SeekStart PROVE FileInv'
<1>1. FileConnection' /\ FileInPlace'
  BY FileQuietConnection DEF File!SeekStart
<1>2. FilePositions' /\ FileRequests'
  BY DEF File!SeekStart, FileInv, FileTypes, FilePositions, FileRequests, File!data, File!request
<1>3. target' \in Int \X {"SEEK_SET", "SEEK_CUR"}
  BY DEF File!SeekStart, FileSizes
<1>4. FileSeeks'
  BY <1>3 DEF File!SeekStart, FileInv, FileTypes, FileSeeks, File!request
<1>5. FileRelated'
  BY DEF File!SeekStart, FileInv, FileRelated, FilePending, File!data, File!request
<1>6. QED
  BY <1>1, <1>2, <1>4, <1>5 DEF FileInv, FileTypes

LEMMA FileDrainEndInv == ASSUME FileSizes, FileInv, File!DrainEnd PROVE FileInv'
<1>1. FileConnection' /\ FileInPlace'
  BY FileQuietConnection DEF File!DrainEnd
<1>2. FilePositions' /\ FileRequests'
  BY DEF File!DrainEnd, FileInv, FileTypes, FilePositions, FileRequests, File!data, File!request
<1>3. FileSeeks'
  BY DEF File!DrainEnd, File!doing_request_block, FileInv, FileTypes, FileSeeks, File!request
<1>4. FileRelated'
  BY DEF File!DrainEnd, FileInv, FileRelated, FilePending, File!data, File!request
<1>5. QED
  BY <1>1, <1>2, <1>3, <1>4 DEF FileInv, FileTypes

LEMMA FileSeekLockedInv == ASSUME FileSizes, FileInv, File!SeekLocked PROVE FileInv'
<1>1. FileConnection' /\ FileInPlace'
  BY FileQuietConnection DEF File!SeekLocked
<1>2. FilePositions' /\ FileRequests'
  BY DEF File!SeekLocked, FileInv, FileTypes, FilePositions, FileRequests, File!data, File!request
<1>3. FileSeeks'
  BY DEF File!SeekLocked, File!doing_request_block, FileInv, FileTypes, FileSeeks, File!request
<1>4. FileRelated'
  BY DEF File!SeekLocked, FileInv, FileRelated, FilePending, File!data, File!request
<1>5. QED
  BY <1>1, <1>2, <1>3, <1>4 DEF FileInv, FileTypes

\* When cmyth_file_seek sends its message, the data connection is empty.
LEMMA FileNothingLeft ==
  ASSUME FileSizes, FileInv, File!SeekMessage, ~outside
  PROVE  arrived = <<>> /\ net = <<>>
<1>1. arrived \in Seq(0..FileSize) /\ net \in Seq(0..FileSize)
  BY DEF FileInv, FileTypes, FileConnection
<1>2. backend_pos = file_req
  BY DEF File!SeekMessage, FileInv, FileTypes, FilePositions, FileSeeks, FileRelated, FilePending
<1>3. Len(arrived) = 0 /\ Len(net) = 0
  BY <1>1, <1>2 DEF File!SeekMessage, FileInv, FileTypes, FilePositions, FileRelated
<1>4. QED
  BY <1>1, <1>3

LEMMA FileSeekMessageInv == ASSUME FileSizes, FileInv, File!SeekMessage PROVE FileInv'
<1> DEFINE pos == File!Target
<1>1. pos \in Int
  BY DEF File!Target, FileInv, FileTypes, FilePositions, FileSeeks
<1>2. reader = "flush" /\ File!SeekTo(pos)
  BY DEF File!SeekMessage
<1> HIDE DEF pos
<1>3. /\ file_pos' = pos % Width /\ file_req' = pos % Width
      /\ backend_pos' = IF pos \in 0..FileSize THEN pos ELSE backend_pos
      /\ outside' = (outside \/ pos \notin 0..FileSize)
      /\ prevent' = FALSE /\ reader' = "read"
      /\ net' = net /\ arrived' = arrived /\ left' = left /\ asked' = asked
      /\ control' = control /\ target' = target /\ closed' = closed
  BY <1>2 DEF File!SeekTo
<1>4. control = "idle"
  BY <1>2 DEF FileInv, FileTypes, FileSeeks
<1>5. FilePositions'
  BY <1>1, <1>3 DEF FileSizes, FileInv, FileTypes, FilePositions
<1>6. FileConnection'
  BY <1>3 DEF FileInv, FileTypes, FileConnection
<1>7. FileRequests'
  BY <1>3, <1>4 DEF FileInv, FileTypes, FileRequests
<1>8. outside' \in BOOLEAN
  BY <1>3
<1>9. FileSeeks'
  BY <1>3, <1>8 DEF FileInv, FileTypes, FileSeeks
<1>10. ASSUME ~outside'
       PROVE  /\ arrived' = <<>> /\ net' = <<>>
              /\ file_pos' = pos /\ file_req' = pos /\ backend_pos' = pos
  <2>1. ~outside /\ pos \in 0..FileSize
    BY <1>3, <1>10
  <2>2. pos % Width = pos
    BY <2>1 DEF FileSizes
  <2>3. QED
    BY <1>3, <2>1, <2>2, FileNothingLeft
<1>11. FileRelated'
  BY <1>1, <1>3, <1>4, <1>10 DEF FileRelated, FilePending
<1>12. FileInPlace'
  BY <1>10 DEF FileInPlace
<1>13. QED
  BY <1>5, <1>6, <1>7, <1>9, <1>11, <1>12 DEF FileInv, FileTypes

LEMMA FileNextInv == ASSUME FileSizes, FileInv, [File!Next]_(File!vars) PROVE FileInv'
<1>1. CASE File!Next
  BY <1>1, FileRequestBlockInv, FileBlockAnsweredInv, FileSendInv, FileAnswerInv, FileArriveInv,
     FileHangupInv, FileReadInv, FileDrainInv, FileDrainEndInv, FileSeekLockedInv, FileFlushInv,
     FileSeekMessageInv, FileSeekStartInv
     DEF File!Next, File!ControlStep, File!BackendStep, File!ReaderStep
<1>2. CASE UNCHANGED File!vars
  BY <1>2 DEF File!vars, FileInv, FileTypes, FilePositions, FileConnection, FileRequests, FileSeeks, FileRelated,
              FilePending, FileInPlace
<1>3. QED
  BY <1>1, <1>2

LEMMA FileInvariance == ASSUME FileSizes PROVE File!Spec => []FileInv
<1>1. File!Init => FileInv
  BY FileInitInv
<1>2. FileInv /\ [File!Next]_(File!vars) => FileInv'
  BY FileNextInv
<1>3. QED
  BY <1>1, <1>2, PTL DEF File!Spec

-----------------------------------------------------------------------------
\* Type correctness of the transfer, for a file, blocks and a connection of any
\* size: the backend never leaves the file, and no request is for more than
\* a block.
THEOREM FileTransferTypes == ASSUME FileSizes PROVE File!Spec => []File!TypeOK
<1>1. FileInv => File!TypeOK
  <2> SUFFICES ASSUME FileInv PROVE File!TypeOK
    OBVIOUS
  <2>1. {file_pos, file_req} \subseteq 0..(Width - 1) /\ backend_pos \in 0..FileSize
    BY DEF FileInv, FileTypes, FilePositions
  <2>2. /\ \A i \in DOMAIN net : net[i] \in 0..FileSize
        /\ \A i \in DOMAIN arrived : arrived[i] \in 0..FileSize
    <3>1. net \in Seq(0..FileSize) /\ arrived \in Seq(0..FileSize)
      BY DEF FileInv, FileTypes, FileConnection
    <3>2. QED
      BY <3>1, FileElements
  <2>3. {prevent, outside} \subseteq BOOLEAN /\ closed \in BOOLEAN
    BY DEF FileInv, FileTypes, FileConnection, FileSeeks
  <2>4. /\ left \in 0..Block /\ asked \in 0..Block
        /\ control \in {"idle", "asked", "answered"}
        /\ reader \in {"read", "drain", "lock", "flush"}
    BY DEF FileInv, FileTypes, FileRequests, FileSeeks
  <2>5. QED
    BY <2>1, <2>2, <2>3, <2>4 DEF File!TypeOK
<1>2. QED
  BY <1>1, FileInvariance, PTL

\* Whatever is under way when mythtv_seek is called, and wherever in the file
\* it goes, no byte that was sent before the seek is taken for one after it:
\* cmyth_file_get_block always returns the bytes at file_pos.
THEOREM FileBytesInPlace == ASSUME FileSizes PROVE File!Spec => []File!BytesInPlace
<1>1. ASSUME FileInv PROVE File!BytesInPlace
  <2>1. net \in Seq(0..FileSize) /\ arrived \in Seq(0..FileSize)
    BY <1>1 DEF FileInv, FileTypes, FileConnection
  <2> DEFINE coming == arrived \o net
  <2>2. /\ DOMAIN coming = 1..(Len(arrived) + Len(net))
        /\ \A i \in DOMAIN coming :
             coming[i] = IF i <= Len(arrived) THEN arrived[i]
                                              ELSE net[i - Len(arrived)]
    BY <2>1
  <2>3. file_pos \in Int /\ Len(arrived) \in Nat /\ Len(net) \in Nat
    BY <1>1, <2>1 DEF FileInv, FileTypes, FilePositions
  <2>4. ASSUME ~outside, NEW i \in DOMAIN coming
        PROVE  coming[i] = file_pos + i - 1
    <3>1. CASE i <= Len(arrived)
      BY <1>1, <2>2, <2>3, <2>4, <3>1 DEF FileInv, FileInPlace
    <3>2. CASE i > Len(arrived)
      <4>1. i - Len(arrived) \in 1..Len(net)
        BY <2>2, <2>3, <3>2
      <4>2. net[i - Len(arrived)] = file_pos + Len(arrived) + (i - Len(arrived)) - 1
        BY <1>1, <2>4, <4>1 DEF FileInv, FileInPlace
      <4>3. QED
        BY <2>2, <2>3, <3>2, <4>2
    <3>3. QED
      BY <2>2, <2>3, <3>1, <3>2
  <2>5. QED
    BY <2>4 DEF File!BytesInPlace
<1>2. QED
  BY <1>1, FileInvariance, PTL

-----------------------------------------------------------------------------
(* All of them side by side.                                               *)
(*                                                                         *)
(* Every behaviour of Clients is a behaviour of each part: its steps are   *)
(* steps of one part and leave the others alone.  So what holds of a part  *)
(* holds of all of them together.                                          *)

LEMMA InitApart ==
  ASSUME Init
  PROVE  /\ Rtv!Init /\ Parser!Init /\ File!Init /\ List!Init /\ Events!Init
         /\ Music!Init /\ Art!Init /\ Emu!Init
  BY DEF Init

LEMMA NextApart ==
  ASSUME [Next]_all
  PROVE  /\ [Rtv!Next]_(Rtv!vars) /\ [Parser!Next]_(Parser!vars)
         /\ [File!Next]_(File!vars) /\ [List!Next]_(List!vars)
         /\ [Events!Next]_(Events!vars) /\ [Music!Next]_(Music!vars)
         /\ [Art!Next]_(Art!vars) /\ [Emu!Next]_(Emu!vars)
<1>1. [Rtv!Next]_(Rtv!vars)
  BY DEF Next, all, rtvVars, Rtv!vars
<1>2. [Parser!Next]_(Parser!vars)
  BY DEF Next, all, parserVars, Parser!vars
<1>3. [File!Next]_(File!vars)
  BY DEF Next, all, fileVars, File!vars
<1>4. [List!Next]_(List!vars)
  BY DEF Next, all, listVars, List!vars
<1>5. [Events!Next]_(Events!vars)
  BY DEF Next, all, eventsVars, Events!vars
<1>6. [Music!Next]_(Music!vars)
  BY DEF Next, all, musicVars, Music!vars
<1>7. [Art!Next]_(Art!vars)
  BY DEF Next, all, artVars, Art!vars
<1>8. [Emu!Next]_(Emu!vars)
  BY DEF Next, all, emuVars, Emu!vars
<1> QED
  BY <1>1, <1>2, <1>3, <1>4, <1>5, <1>6, <1>7, <1>8

\* Clients implements each of its parts.
LEMMA PartsImplemented ==
  Spec => /\ Rtv!Spec /\ Parser!Spec /\ File!Spec /\ List!Spec /\ Events!Spec
          /\ Music!Spec /\ Art!Spec /\ Emu!Spec
<1>1. Init => /\ Rtv!Init /\ Parser!Init /\ File!Init /\ List!Init /\ Events!Init
              /\ Music!Init /\ Art!Init /\ Emu!Init
  BY InitApart
<1>2. [Next]_all => /\ [Rtv!Next]_(Rtv!vars) /\ [Parser!Next]_(Parser!vars)
                    /\ [File!Next]_(File!vars) /\ [List!Next]_(List!vars)
                    /\ [Events!Next]_(Events!vars) /\ [Music!Next]_(Music!vars)
                    /\ [Art!Next]_(Art!vars) /\ [Emu!Next]_(Emu!vars)
  BY NextApart
<1> QED
  BY <1>1, <1>2, PTL DEF Spec, Rtv!Spec, Parser!Spec, File!Spec, List!Spec,
     Events!Spec, Music!Spec, Art!Spec, Emu!Spec

-----------------------------------------------------------------------------
(* The two parts whose proofs are in modules of their own: what those      *)
(* modules call Spec, TypeOK and so on is what Clients calls Rtv!Spec,     *)
(* Rtv!TypeOK and so on.                                                   *)

RtvP == INSTANCE ReplayTVProofs
EmuP == INSTANCE EmulateProofs WITH Presses <- EmuPresses, current <- emu_current

LEMMA RtvSame ==
  /\ Rtv!Init => RtvP!Init
  /\ [Rtv!Next]_(Rtv!vars) => [RtvP!Next]_(RtvP!vars)
  /\ RtvP!TypeOK => Rtv!TypeOK
  /\ RtvP!QueueAccounted => Rtv!QueueAccounted
  BY Zenon
     DEF Rtv!Poison, RtvP!Poison, Rtv!Nothing, RtvP!Nothing, Rtv!Slots, RtvP!Slots,
         Rtv!vars, RtvP!vars, Rtv!gui, RtvP!gui, Rtv!queue, RtvP!queue, Rtv!read,
         RtvP!read, Rtv!sems, RtvP!sems, Rtv!ghosts, RtvP!ghosts, Rtv!Init, RtvP!Init,
         Rtv!StartStream, RtvP!StartStream, Rtv!PlayShow, RtvP!PlayShow, Rtv!Abort,
         RtvP!Abort, Rtv!AbortReset, RtvP!AbortReset, Rtv!AbortState, RtvP!AbortState,
         Rtv!FlushLock, RtvP!FlushLock, Rtv!FlushOne, RtvP!FlushOne, Rtv!FlushEnd,
         RtvP!FlushEnd, Rtv!Join, RtvP!Join, Rtv!Store, RtvP!Store, Rtv!WritePoison,
         RtvP!WritePoison, Rtv!AbortEnd, RtvP!AbortEnd, Rtv!StreamInit, RtvP!StreamInit,
         Rtv!Fetch, RtvP!Fetch, Rtv!PutWait, RtvP!PutWait, Rtv!PutStore, RtvP!PutStore,
         Rtv!PutPost, RtvP!PutPost, Rtv!ReaderWake, RtvP!ReaderWake, Rtv!ReaderIdle,
         RtvP!ReaderIdle, Rtv!ReaderAgain, RtvP!ReaderAgain, Rtv!TakeWait,
         RtvP!TakeWait, Rtv!Take, RtvP!Take, Rtv!Give, RtvP!Give, Rtv!Parsed,
         RtvP!Parsed, Rtv!Stop, RtvP!Stop, Rtv!Jump, RtvP!Jump, Rtv!GuiStep,
         RtvP!GuiStep, Rtv!StreamStep, RtvP!StreamStep, Rtv!ReaderStep, RtvP!ReaderStep,
         Rtv!Next, RtvP!Next, Rtv!TypeOK, RtvP!TypeOK, Rtv!QueueAccounted,
         RtvP!QueueAccounted

LEMMA RtvImplements == Rtv!Spec => RtvP!Spec
  BY RtvSame, PTL DEF Rtv!Spec, RtvP!Spec

LEMMA EmuSame ==
  /\ Emu!Init => EmuP!Init
  /\ [Emu!Next]_(Emu!vars) => [EmuP!Next]_(EmuP!vars)
  /\ EmuP!TypeOK => Emu!TypeOK
  /\ EmuP!StopUnderWay => Emu!StopUnderWay
  BY Zenon
     DEF Emu!vars, EmuP!vars, Emu!States, EmuP!States, Emu!Stops, EmuP!Stops, Emu!Init,
         EmuP!Init, Emu!To, EmuP!To, Emu!Same, EmuP!Same, Emu!Send, EmuP!Send,
         Emu!HasStop, EmuP!HasStop, Emu!SendStop, EmuP!SendStop, Emu!ReadIn,
         EmuP!ReadIn, Emu!Answers, EmuP!Answers, Emu!Pressed, EmuP!Pressed,
         Emu!MenuKey, EmuP!MenuKey, Emu!StopKey, EmuP!StopKey, Emu!PlayKey,
         EmuP!PlayKey, Emu!PauseKey, EmuP!PauseKey, Emu!MoveKey, EmuP!MoveKey,
         Emu!PowerKey, EmuP!PowerKey, Emu!ResetKey, EmuP!ResetKey, Emu!Key, EmuP!Key,
         Emu!Play, EmuP!Play, Emu!Stop, EmuP!Stop, Emu!Scan, EmuP!Scan, Emu!Move,
         EmuP!Move, Emu!SetDisplayState, EmuP!SetDisplayState, Emu!HandleRDCMessage,
         EmuP!HandleRDCMessage, Emu!rfbRest, EmuP!rfbRest, Emu!PlayWaited,
         EmuP!PlayWaited, Emu!StopSent, EmuP!StopSent, Emu!ClientStop, EmuP!ClientStop,
         Emu!ClientStopped, EmuP!ClientStopped, Emu!StopSet, EmuP!StopSet,
         Emu!StopWaited, EmuP!StopWaited, Emu!RfbStep, EmuP!RfbStep, Emu!mediaRest,
         EmuP!mediaRest, Emu!Answered, EmuP!Answered, Emu!AnsweredWith,
         EmuP!AnsweredWith, Emu!Message, EmuP!Message, Emu!MediaEight, EmuP!MediaEight,
         Emu!MediaRequest, EmuP!MediaRequest, Emu!MediaOpen, EmuP!MediaOpen,
         Emu!MediaSeek, EmuP!MediaSeek, Emu!AfterStep, EmuP!AfterStep, Emu!AfterBlock,
         EmuP!AfterBlock, Emu!MediaBlock, EmuP!MediaBlock, Emu!MediaEnd, EmuP!MediaEnd,
         Emu!MediaStop, EmuP!MediaStop, Emu!Goes, EmuP!Goes, Emu!MediaConfirm,
         EmuP!MediaConfirm, Emu!MediaOpened, EmuP!MediaOpened, Emu!MediaState,
         EmuP!MediaState, Emu!MediaReset, EmuP!MediaReset, Emu!MediaEnded,
         EmuP!MediaEnded, Emu!MediaEmpty, EmuP!MediaEmpty, Emu!Clear, EmuP!Clear,
         Emu!Queued, EmuP!Queued, Emu!QueueData, EmuP!QueueData, Emu!MediaStep,
         EmuP!MediaStep, Emu!mvp_timer_callback, EmuP!mvp_timer_callback, Emu!ReadJump,
         EmuP!ReadJump, Emu!Next, EmuP!Next, Emu!TypeOK, EmuP!TypeOK, Emu!StopAsked,
         EmuP!StopAsked, Emu!Halting, EmuP!Halting, Emu!StopUnderWay, EmuP!StopUnderWay

LEMMA EmuImplements == Emu!Spec => EmuP!Spec
  BY EmuSame, PTL DEF Emu!Spec, EmuP!Spec

-----------------------------------------------------------------------------
\* What the parts need to know of their constants.
AllSizes ==
  /\ HasSongs /\ ArtSizes /\ Clock /\ MusicSizes /\ ParserSizes
  /\ RtvP!Sizes /\ FileSizes /\ EmuPresses \in Nat

\* Every variable of every part keeps its type.
THEOREM ClientTypes == ASSUME AllSizes PROVE Spec => []TypeOK
<1>1. HasSongs /\ ArtSizes /\ Clock /\ MusicSizes /\ ParserSizes
      /\ RtvP!Sizes /\ FileSizes /\ EmuPresses \in Nat
  BY DEF AllSizes
<1>2. Spec => []List!TypeOK
  BY <1>1, PartsImplemented, PlaylistTypes, PTL
<1>3. Spec => []Art!TypeOK
  BY <1>1, PartsImplemented, AlbumTypes, PTL
<1>4. Spec => []Events!TypeOK
  BY <1>1, PartsImplemented, EventQueueTypes, PTL
<1>5. Spec => []Music!TypeOK
  BY <1>1, PartsImplemented, MusicClientTypes, PTL
<1>6. Spec => []Parser!TypeOK
  BY <1>1, PartsImplemented, ParserTypes, PTL
<1>7. Spec => []Rtv!TypeOK
  BY <1>1, PartsImplemented, RtvImplements, RtvSame, RtvP!TypeCorrect, PTL
<1>8. Spec => []File!TypeOK
  BY <1>1, PartsImplemented, FileTransferTypes, PTL
<1>9. Spec => []Emu!TypeOK
  BY <1>1, PartsImplemented, EmuImplements, EmuSame, EmuP!TypeCorrect, PTL
<1>10. Rtv!TypeOK /\ Parser!TypeOK /\ File!TypeOK /\ List!TypeOK /\ Events!TypeOK
       /\ Music!TypeOK /\ Art!TypeOK /\ Emu!TypeOK => TypeOK
  BY DEF TypeOK
<1> QED
  BY <1>2, <1>3, <1>4, <1>5, <1>6, <1>7, <1>8, <1>9, <1>10, PTL

\* No thread uses an item of a playlist that has been freed, unless the GUI thread
\* has freed a list without waiting for the audio thread.
THEOREM ItemsAreLive == ASSUME HasSongs PROVE Spec => []ItemsLive
  BY PartsImplemented, PlaylistItemsLive, PTL DEF ItemsLive

\* Each place of the album browser has the cover of its album, unless an answer
\* was taken for another question's.
THEOREM CoversAreInPlace == ASSUME ArtSizes PROVE Spec => []CoversInPlace
  BY PartsImplemented, AlbumCoversInPlace, PTL DEF CoversInPlace

\* vid_event_wait_next finds the first event that is due, wherever pNextEvent points,
\* unless vid_event_add has put an event before pNextEvent or the window of the
\* search contains the wrap of the time stamps.
THEOREM FirstEventIsFound == ASSUME Clock PROVE Spec => []FindsFirst
  BY PartsImplemented, EventQueueFindsFirst, PTL DEF FindsFirst

\* The bytes that wait in the ring of the music client are the ones that follow what
\* the device has got, whatever is lost or comes twice, unless the ring is astray.
THEOREM MusicIsInOrder == ASSUME MusicSizes PROVE Spec => []InOrder
  BY PartsImplemented, MusicClientInOrder, PTL DEF InOrder

\* The semaphores of the ReplayTV queue account for every buffer.
THEOREM QueueIsAccounted == ASSUME RtvP!Sizes PROVE Spec => []QueueAccounted
  BY PartsImplemented, RtvImplements, RtvSame, RtvP!QueueIsAccounted, PTL
     DEF QueueAccounted

\* The read thread of the ReplayTV client gets the chunks of a show in order.
THEOREM ChunksAreInOrder == ASSUME RtvP!Sizes PROVE Spec => ChunksInOrder
<1>1. [RtvP!Take /\ ~early /\ play_state = "playing" => tsbuf' = taken + 1]_(RtvP!vars)
      => [Rtv!Take /\ ~early /\ play_state = "playing" => tsbuf' = taken + 1]_(Rtv!vars)
  BY Zenon
     DEF Rtv!Nothing, RtvP!Nothing, Rtv!vars, RtvP!vars, Rtv!gui, RtvP!gui, Rtv!sems,
         RtvP!sems, Rtv!Take, RtvP!Take
<1>2. RtvP!ChunksInOrder => Rtv!ChunksInOrder
  BY <1>1, PTL DEF Rtv!ChunksInOrder, RtvP!ChunksInOrder
<1> QED
  BY <1>2, PartsImplemented, RtvImplements, RtvP!ChunksAreInOrder, PTL
     DEF ChunksInOrder

\* No byte that the backend sent before a seek is taken for one after it, unless
\* the seek went outside the file.
THEOREM BytesAreInPlace == ASSUME FileSizes PROVE Spec => []BytesInPlace
  BY PartsImplemented, FileBytesInPlace, PTL
     DEF BytesInPlace

\* The audio packets come out of the rings whole and in order, and so does the
\* payload of the video packets, after their header unless the ring was full,
\* however read cuts the stream into chunks for demux_put and whenever
\* parse_frame finds a ring full: for every input and every pack header.
THEOREM PacketsAreWhole == ASSUME ParserSizes PROVE Spec => []PacketsWhole
  BY PartsImplemented, ParserWhole, PTL
     DEF PacketsWhole

\* The client of the Hauppauge server thinks that a show ends only while the
\* answer to its MEDIA_STOP is still to come, unless no MEDIA_STOP could be sent or
\* its answer was handled before the rfb thread had set is_stopping.
THEOREM StopIsUnderWay == Spec => []StopUnderWay
  BY PartsImplemented, EmuImplements, EmuSame, EmuP!StopIsUnderWay, PTL
     DEF StopUnderWay
=============================================================================
