---------------------------- MODULE MusicPlayer ----------------------------
(***************************************************************************)
(* playlistMgr of ttwMusicPlayer: a list of tracks on a jPlayer.  It hears *)
(* the events that jPlayer triggers, in the listener that triggers them,   *)
(* and calls jPlayer's methods from its handlers: the page of JPlayer, of  *)
(* which it makes a few of the calls only.  Tracks are numbered from 1.    *)
(* togglePlay is left out: only mbInitPlaylistAdvance calls it, and        *)
(* nothing triggers that.                                                  *)
(***************************************************************************)
EXTENDS JPlayer

CONSTANTS
  List,           \* myPlaylist: the media of the tracks, in order
  TracksToShow    \* the option tracksToShow

ASSUME ListAssumption == List \in Seq(Media) /\ List # << >>
ASSUME OptionsAssumption == TracksToShow \in Nat \ {0}

Tracks == 1..Len(List)

VARIABLES
  ready,      \* jPlayer's ready event has been handled
  current,    \* the number of the track that is set
  marked,     \* the track in the list with the class playing; 0: none
  playing,    \* what the play and pause events say
  expanded    \* showMore was called

listVars == <<ready, current, marked, playing, expanded>>
playlistVars == <<w, strict, calls, ready, current, marked, playing, expanded>>

(* The option preload is left as it is.  Only playHead sets a position     *)
(* here, and what the browser throws there does not depend on strict.      *)
PlaylistInit ==
  /\ Init /\ w = NewInstance /\ strict = FALSE
  /\ ready = FALSE /\ current = 1 /\ marked = 0 /\ playing = FALSE /\ expanded = FALSE

(* playlistConfig                                                          *)
Config(from, i) == w' = SetMedia(from, List[i]) /\ current' = i

(* Mutation of Advance: the media of the track before is set again.        *)
AdvanceStale(from, i) == /\ w' = Play(SetMedia(from, List[current]), "none", FALSE)
                         /\ current' = i
                         /\ expanded' = (expanded \/ i > TracksToShow)

(* Mutation of Advance: the first track below the fold stays hidden.       *)
AdvanceHidden(from, i) == /\ w' = Play(SetMedia(from, List[i]), "none", FALSE)
                          /\ current' = i
                          /\ expanded' = (expanded \/ i > TracksToShow + 1)

Advance(from, i) == /\ w' = Play(SetMedia(from, List[i]), "none", FALSE)
                    /\ current' = i
                    /\ expanded' = (expanded \/ i > TracksToShow)

Following == IF current < Len(List) THEN current + 1 ELSE 1
Preceding == IF current > 1 THEN current - 1 ELSE Len(List)

(* The ready handler.  The option autoPlay is read as options.autoplay,    *)
(* which is undefined: the player never starts by itself.                  *)
Ready ==
  /\ ~ready /\ ready' = TRUE
  /\ Config(w, 1)
  /\ UNCHANGED <<strict, calls, marked, playing, expanded>>

ClickTitle(i) == Call /\ ready /\ Advance(w, i)         /\ UNCHANGED <<ready, marked, playing>>
ClickNext     == Call /\ ready /\ Advance(w, Following) /\ UNCHANGED <<ready, marked, playing>>
ClickPrevious == Call /\ ready /\ Advance(w, Preceding) /\ UNCHANGED <<ready, marked, playing>>

(* The button "View More", which goes when the list is expanded.           *)
ClickMore ==
  /\ Call /\ ready /\ TracksToShow < Len(List) /\ ~expanded
  /\ expanded' = TRUE
  /\ UNCHANGED <<w, ready, current, marked, playing>>

(* The controls that jPlayer binds itself, the progress bar among them.    *)
ClickControl ==
  /\ Call
  /\ \/ w' = Play(w, "none", FALSE)
     \/ w' = Pause(w, "none", FALSE)
     \/ \E throws \in BOOLEAN : w' = PlayHead(w, throws)
  /\ UNCHANGED listVars

(* Mutation of Marked: a player that plays has its mark already.           *)
MarkedOnce(event) == IF event = "play" /\ ~playing THEN current ELSE marked

(* Mutation of Marked: rows are counted from the one before.               *)
MarkedPast(event) == IF event = "play" THEN current + 1 ELSE marked

(* The play handler.  Its pauseOthers finds no other jPlayer: the page has *)
(* one, as long as its view is not visited twice.                          *)
Marked(event) == IF event = "play" THEN current ELSE marked

Playing(event) == (playing \/ event = "playing") /\ event # "pause"

(* Mutation of EndsTrack: a pause is taken for the end.                    *)
EndsTrackOnPause(event) == event \in {"pause", "ended"}

(* Mutation of EndsTrack: nothing follows the end.                         *)
EndsTrackNever(event) == FALSE

EndsTrack(event) == event = "ended"

(* Deliver of JPlayer, whose option loop is not set, and the handlers.     *)
Hear(k) ==
  LET event   == Head(w.el[k].queue)
      handled == Handled(w, k)
  IN  /\ w.el[k].queue # << >>
      /\ UNCHANGED <<strict, calls, ready>>
      /\ IF ~Heard(w, k) \/ ~ready
           THEN w' = handled /\ UNCHANGED <<current, marked, playing, expanded>>
         ELSE /\ marked' = Marked(event) /\ playing' = Playing(event)
              /\ IF EndsTrack(event) THEN Advance(handled, Following)
                 ELSE w' = handled /\ UNCHANGED <<current, expanded>>

(* What goes on without the playlist.                                      *)
PlayerStep ==
  /\ \/ Timeout \/ Quiet
     \/ \E k \in Kinds : Loads(k) \/ Breaks(k) \/ Ends(k) \/ Seeks(k)
  /\ UNCHANGED listVars

PlaylistNext == \/ Ready \/ ClickNext \/ ClickPrevious \/ ClickMore \/ ClickControl
                \/ \E i \in Tracks : ClickTitle(i)
                \/ \E k \in Kinds : Hear(k)
                \/ PlayerStep

(* jPlayer's ready timeout fires, and the event loop gets to every task.   *)
PlaylistSpec     == PlaylistInit /\ [][PlaylistNext]_playlistVars
PlaylistFairSpec == /\ PlaylistSpec /\ WF_playlistVars(Ready)
                    /\ \A k \in Kinds : WF_playlistVars(Hear(k))

-----------------------------------------------------------------------------
(* The variables stay in their ranges.                                     *)
PlaylistTypeOK == /\ TypeOK /\ ready \in BOOLEAN /\ current \in Tracks
                  /\ marked \in Tracks \cup {0} /\ playing \in BOOLEAN
                  /\ expanded \in BOOLEAN

(* jPlayer has the media of the current track and of no other, and no      *)
(* element is heard with another: playlistConfig sets both, whatever the   *)
(* track before it was doing.                                              *)
MediaIsCurrent ==
  /\ w.srcSet => w.media = List[current]
  /\ \A k \in Kinds : Sounding(w.el[k]) => w.el[k].src = List[current]

(* When the events are handled, the track that plays is the one that is    *)
(* marked in the list: a play event is never that of an earlier track,     *)
(* even if both have the same URL.                                         *)
MarkedIsPlaying ==
  LET el == w.el[w.gate] IN
  ready /\ w.srcSet /\ ~w.waitForLoad /\ el.queue = << >> /\ Sounding(el) => marked = current

(* Without a click the player goes to the following track only, and only   *)
(* when the current one has ended: an ended event that was on its way when *)
(* the track changed does not skip another one.                            *)
AdvancesAtEnd ==
  [][ready /\ calls' = calls /\ w.srcSet /\ current' # current =>
       /\ current' = Following
       /\ Head(w.el[w.gate].queue) = "ended" /\ w.el[w.gate].src = List[current]]_playlistVars

(* The current track is not in the part of the list that the button "View  *)
(* More" hides: playlistAdvance calls showMore in time.                    *)
CurrentIsVisible == current > TracksToShow => expanded

(* The playlist goes on: after the end of a track, another is set.         *)
TracksFollow == \A k \in Kinds : w.el[k].ended ~> ~w.el[k].ended
=============================================================================
