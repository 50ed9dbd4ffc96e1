--------------------------- MODULE PlayerDisplay ---------------------------
(***************************************************************************)
(* What ttwMusicPlayer shows: ratings (ratingsMgr, setRating), the album   *)
(* cover with its fades (interfaceMgr), and how the two events that start  *)
(* it all meet (appMgr).  The playlist itself is the module MusicPlayer;   *)
(* here the current track just changes.                                    *)
(*                                                                         *)
(* A rating is counted in half stars: the ten bars of a row show it as it  *)
(* is, the five stars of the player have to round it.  A track without a   *)
(* rating shows none.  Title and artist are set together with the stars    *)
(* and left out, and so are the hover classes.                             *)
(***************************************************************************)
EXTENDS Naturals, Sequences

CONSTANTS
  NumTracks,       \* myPlaylist.length
  FirstRating,     \* the ratings the playlist came with
  Covered,         \* the tracks that have a cover,
  Broken,          \* and those whose cover cannot be loaded
  Rates,           \* what the user rates with, in half stars
  MaxClicks        \* bound: clicks, and changes of the track, in a behaviour

Tracks == 1..NumTracks

ASSUME TracksAssumption  == NumTracks \in Nat \ {0} /\ Covered \subseteq Tracks /\ Broken \subseteq Tracks
ASSUME RatingsAssumption == FirstRating \in [Tracks -> 0..10] /\ Rates \subseteq 1..10
ASSUME BoundAssumption   == MaxClicks \in Nat

VARIABLES
  loaded,     \* mbPlaylistLoaded: the list is built, the first track is set
  built,      \* mbInterfaceBuilt: the interface has slid down
  live,       \* a ratingsMgr has bound its handlers
  current, rating,
  bars,       \* of each row, the number that is on
  stars,      \* of the player, the number that is on
  fades,      \* the animations of the cover that have not ended
  images,     \* for each track, how many images of its cover are loading
  cover,      \* the track whose cover is in place; 0: none
  opaque,     \* and whether it can be seen
  clicks

display == <<bars, stars>>
covers  == <<fades, images, cover, opaque>>
vars    == <<loaded, built, live, current, rating, display, covers, clicks>>

Init == /\ loaded = FALSE /\ built = FALSE /\ live = FALSE /\ current = 1
        /\ rating = FirstRating /\ bars = [t \in Tracks |-> 0] /\ stars = 4
        /\ fades = << >> /\ images = [t \in Tracks |-> 0] /\ cover = 0 /\ opaque = TRUE
        /\ clicks = 0

HalvesUp(r)   == (r + 1) \div 2
HalvesDown(r) == r \div 2

(* The handler of mbPlaylistAdvance and mbPlaylistInit: setRating('current')*)
(* rounds up, setCover fades the cover out.                                *)
Show(t) == stars' = HalvesUp(rating[t]) /\ fades' = Append(fades, "out")

-----------------------------------------------------------------------------
(* appMgr waits for the interface only when the list has been built.       *)
InterfaceBuilt ==
  /\ ~built /\ built' = TRUE
  /\ live' = loaded
  /\ UNCHANGED <<loaded, current, rating, display, covers, clicks>>

(* buildPlaylist, and the first track.                                     *)
PlaylistLoaded ==
  /\ ~loaded /\ loaded' = TRUE
  /\ bars' = rating
  /\ Show(1)
  /\ UNCHANGED <<built, live, current, rating, images, cover, opaque, clicks>>

Click == clicks < MaxClicks /\ clicks' = clicks + 1

ChangeTrack(t) ==
  /\ Click /\ loaded
  /\ current' = t /\ Show(t)
  /\ UNCHANGED <<loaded, built, live, rating, bars, images, cover, opaque>>

(* Mutation of RateRow: the stars show the rating of any row.              *)
RateRowAny(t, r) ==
  /\ Click /\ live
  /\ stars' = HalvesDown(r) /\ bars' = [bars EXCEPT ![t] = r] /\ rating' = [rating EXCEPT ![t] = r]
  /\ UNCHANGED <<loaded, built, live, current, covers>>

(* Mutation of RateRow: the number of bars is taken for the stars.         *)
RateRowWhole(t, r) ==
  /\ Click /\ live
  /\ stars' = (IF t = current THEN r ELSE stars)
  /\ bars' = [bars EXCEPT ![t] = r] /\ rating' = [rating EXCEPT ![t] = r]
  /\ UNCHANGED <<loaded, built, live, current, covers>>

(* A click on bar r of row t; slice(0, r / 2) rounds down.                 *)
RateRow(t, r) ==
  /\ Click /\ live
  /\ stars' = (IF t = current THEN HalvesDown(r) ELSE stars)
  /\ bars' = [bars EXCEPT ![t] = r]
  /\ rating' = [rating EXCEPT ![t] = r]
  /\ UNCHANGED <<loaded, built, live, current, covers>>

(* A click on star s of the player.                                        *)
RateCurrent(s) ==
  /\ Click /\ live
  /\ bars' = [bars EXCEPT ![current] = 2 * s]
  /\ stars' = s
  /\ rating' = [rating EXCEPT ![current] = 2 * s]
  /\ UNCHANGED <<loaded, built, live, current, covers>>

-----------------------------------------------------------------------------
(* Mutation of FadeEnds: one image at a time.                              *)
FadeEndsOnce ==
  /\ fades # << >> /\ fades' = Tail(fades)
  /\ opaque' = (Head(fades) = "in")
  /\ images' = IF Head(fades) = "out" /\ current \in Covered /\ \A t \in Tracks : images[t] = 0
                 THEN [images EXCEPT ![current] = @ + 1] ELSE images
  /\ UNCHANGED <<loaded, built, live, current, rating, display, cover, clicks>>

(* The animations of an element run one after the other.  When the cover   *)
(* is faded out, that of the track that is now current is asked for.       *)
FadeEnds ==
  /\ fades # << >> /\ fades' = Tail(fades)
  /\ opaque' = (Head(fades) = "in")
  /\ images' = IF Head(fades) = "out" /\ current \in Covered
                 THEN [images EXCEPT ![current] = @ + 1] ELSE images
  /\ UNCHANGED <<loaded, built, live, current, rating, display, cover, clicks>>

(* Mutation of ImageLoads: shown for whatever track is current.            *)
ImageLoadsLate(t) ==
  /\ images[t] > 0 /\ t \notin Broken /\ images' = [images EXCEPT ![t] = @ - 1]
  /\ cover' = t /\ fades' = Append(fades, "in")
  /\ UNCHANGED <<loaded, built, live, current, rating, display, opaque, clicks>>

(* An image that was asked for when t was current.                         *)
ImageLoads(t) ==
  /\ images[t] > 0 /\ t \notin Broken
  /\ images' = [images EXCEPT ![t] = @ - 1]
  /\ IF t = current THEN cover' = t /\ fades' = Append(fades, "in")
     ELSE UNCHANGED <<cover, fades>>
  /\ UNCHANGED <<loaded, built, live, current, rating, display, opaque, clicks>>

Quiet == clicks = MaxClicks /\ UNCHANGED vars

Next == \/ InterfaceBuilt \/ PlaylistLoaded \/ FadeEnds \/ Quiet
        \/ \E t \in Tracks : ChangeTrack(t) \/ ImageLoads(t) \/ \E r \in Rates : RateRow(t, r)
        \/ \E s \in 1..5 : 2 * s \in Rates /\ RateCurrent(s)

(* Timers fire, and images that can be loaded are.                         *)
Spec     == Init /\ [][Next]_vars
FairSpec == /\ Spec /\ WF_vars(InterfaceBuilt) /\ WF_vars(PlaylistLoaded) /\ WF_vars(FadeEnds)
            /\ \A t \in Tracks : WF_vars(ImageLoads(t))

-----------------------------------------------------------------------------
(* The variables stay in their ranges.                                     *)
TypeOK == /\ loaded \in BOOLEAN /\ built \in BOOLEAN /\ live \in BOOLEAN
          /\ current \in Tracks /\ rating \in [Tracks -> 0..10]
          /\ bars \in [Tracks -> 0..10] /\ stars \in 0..5
          /\ fades \in Seq({"in", "out"}) /\ images \in [Tracks -> Nat]
          /\ cover \in Tracks \cup {0} /\ opaque \in BOOLEAN /\ clicks \in 0..MaxClicks

(* Three places know the rating of a track: the list that tracks are set   *)
(* from, its row, and the stars when it is current.  However tracks are    *)
(* changed and rated in the row or in the player, the row shows what the   *)
(* list says, and the stars too, but for the half star that they cannot    *)
(* show: a click in the row rounds it down, its next turn rounds it up.    *)
RatingsAgree ==
  loaded => /\ bars = rating
            /\ stars \in {HalvesDown(rating[current]), HalvesUp(rating[current])}

(* When no animation is left, the cover that can be seen is that of the    *)
(* current track, however fast tracks were changed and in whatever order   *)
(* the images came.                                                        *)
CoverIsCurrent == loaded /\ fades = << >> /\ opaque => cover = current

(* The cover of a track that stays current comes to be seen.               *)
CoverComes ==
  <>[](current \in Covered \ Broken => fades = << >> /\ opaque /\ cover = current)
=============================================================================
