------------------------ MODULE PlayerDisplayProofs ------------------------
(***************************************************************************)
(* The ratings that ttwMusicPlayer shows, proved of PlayerDisplay for any  *)
(* number of tracks and any ratings.                                       *)
(***************************************************************************)
EXTENDS PlayerDisplay, TLAPS

(* Ratings can be clicked only when the list has been built: before that   *)
(* neither bars nor stars say anything.                                    *)
RatingsInv ==
  /\ loaded \in BOOLEAN /\ current \in Tracks
  /\ rating \in [Tracks -> 0..10] /\ bars \in [Tracks -> 0..10]
  /\ live => loaded
  /\ ~loaded => current = 1
  /\ RatingsAgree

(* Ten half stars are five stars, and a whole number of stars is exact.    *)
LEMMA HalvesOfStars ==
  ASSUME NEW s \in 1..5
  PROVE  HalvesDown(2 * s) = s /\ 2 * s \in 0..10
  BY SMT DEF HalvesDown

LEMMA FirstTrack == 1 \in Tracks
  BY TracksAssumption DEF Tracks

LEMMA InitialRatings == Init => RatingsInv
<1> SUFFICES ASSUME Init PROVE RatingsInv
  OBVIOUS
<1>1. bars \in [Tracks -> 0..10]
  BY DEF Init, display
<1> QED
  BY <1>1, FirstTrack, RatingsAssumption DEF Init, RatingsInv, RatingsAgree

LEMMA RatingsStep == RatingsInv /\ [Next]_vars => RatingsInv'
<1> SUFFICES ASSUME RatingsInv, [Next]_vars PROVE RatingsInv'
  OBVIOUS
<1> USE DEF RatingsInv, RatingsAgree
<1>1. ASSUME UNCHANGED vars
      PROVE  RatingsInv'
  BY <1>1 DEF vars, display
<1>2. CASE InterfaceBuilt
  BY <1>2 DEF InterfaceBuilt, display
<1>3. CASE PlaylistLoaded
  BY <1>3 DEF PlaylistLoaded, Show
<1>4. ASSUME NEW t \in Tracks, ChangeTrack(t)
      PROVE  RatingsInv'
  BY <1>4 DEF ChangeTrack, Click, Show
<1>5. ASSUME NEW t \in Tracks, NEW r \in Rates, RateRow(t, r)
      PROVE  RatingsInv'
  <2>1. r \in 0..10
    BY RatingsAssumption
  <2>2. /\ loaded /\ loaded' /\ current' = current /\ live' = live
        /\ rating' = [rating EXCEPT ![t] = r] /\ bars' = [bars EXCEPT ![t] = r]
        /\ stars' = IF t = current THEN HalvesDown(r) ELSE stars
    BY <1>5 DEF RateRow
  <2>3. rating' \in [Tracks -> 0..10] /\ bars' \in [Tracks -> 0..10] /\ bars' = rating'
    BY <2>1, <2>2
  <2>4. stars' \in {HalvesDown(rating'[current]), HalvesUp(rating'[current])}
    BY <2>2
  <2> QED
    BY <2>2, <2>3, <2>4
<1>6. ASSUME NEW s \in 1..5, RateCurrent(s)
      PROVE  RatingsInv'
  <2>1. HalvesDown(2 * s) = s /\ 2 * s \in 0..10
    BY HalvesOfStars
  <2>2. /\ loaded /\ loaded' /\ current' = current /\ live' = live /\ stars' = s
        /\ rating' = [rating EXCEPT ![current] = 2 * s]
        /\ bars' = [bars EXCEPT ![current] = 2 * s]
    BY <1>6 DEF RateCurrent
  <2>3. /\ rating' \in [Tracks -> 0..10] /\ bars' \in [Tracks -> 0..10] /\ bars' = rating'
        /\ rating'[current] = 2 * s
    BY <2>1, <2>2
  <2>4. stars' \in {HalvesDown(rating'[current]), HalvesUp(rating'[current])}
    BY <2>1, <2>2, <2>3
  <2> QED
    BY <2>2, <2>3, <2>4
<1>7. CASE FadeEnds
  BY <1>7 DEF FadeEnds, display
<1>8. ASSUME NEW t \in Tracks, ImageLoads(t)
      PROVE  RatingsInv'
  BY <1>8 DEF ImageLoads, display
<1>9. CASE Quiet
  BY <1>1, <1>9 DEF Quiet
<1> QED
  BY <1>1, <1>2, <1>3, <1>4, <1>5, <1>6, <1>7, <1>8, <1>9 DEF Next

(* The list, its rows and the stars agree on the ratings, in whatever      *)
(* order tracks are changed and rated.                                     *)
THEOREM RatingsAlwaysAgree == Spec => []RatingsAgree
<1>1. RatingsInv => RatingsAgree
  BY DEF RatingsInv
<1> QED
  BY InitialRatings, RatingsStep, <1>1, PTL DEF Spec

-----------------------------------------------------------------------------
LEMMA HalvesAreStars ==
  ASSUME NEW r \in 0..10
  PROVE  HalvesUp(r) \in 0..5 /\ HalvesDown(r) \in 0..5
  BY SMT DEF HalvesUp, HalvesDown

LEMMA TypeStep == TypeOK /\ [Next]_vars => TypeOK'
<1> SUFFICES ASSUME TypeOK, [Next]_vars PROVE TypeOK'
  OBVIOUS
<1> USE BoundAssumption DEF TypeOK
<1>1. ASSUME UNCHANGED vars
      PROVE  TypeOK'
  BY <1>1 DEF vars, display, covers
<1>2. CASE InterfaceBuilt
  BY <1>2 DEF InterfaceBuilt, display, covers
<1>3. CASE PlaylistLoaded
  <2>1. stars' \in 0..5
    BY <1>3, FirstTrack, HalvesAreStars DEF PlaylistLoaded, Show
  <2> QED
    BY <1>3, <2>1 DEF PlaylistLoaded, Show
<1>4. ASSUME NEW t \in Tracks, ChangeTrack(t)
      PROVE  TypeOK'
  <2>1. stars' \in 0..5
    BY <1>4, HalvesAreStars DEF ChangeTrack, Show
  <2> QED
    BY <1>4, <2>1 DEF ChangeTrack, Click, Show
<1>5. ASSUME NEW t \in Tracks, NEW r \in Rates, RateRow(t, r)
      PROVE  TypeOK'
  <2>1. r \in 0..10
    BY RatingsAssumption
  <2>2. HalvesDown(r) \in 0..5
    BY <2>1, HalvesAreStars
  <2> QED
    BY <1>5, <2>1, <2>2 DEF RateRow, Click, covers
<1>6. ASSUME NEW s \in 1..5, RateCurrent(s)
      PROVE  TypeOK'
  BY <1>6, HalvesOfStars DEF RateCurrent, Click, covers
<1>7. CASE FadeEnds
  <2>1. fades' \in Seq({"in", "out"}) /\ opaque' \in BOOLEAN
    BY <1>7 DEF FadeEnds
  <2>2. images' \in [Tracks -> Nat]
    BY <1>7 DEF FadeEnds
  <2> QED
    BY <1>7, <2>1, <2>2 DEF FadeEnds, display
<1>8. ASSUME NEW t \in Tracks, ImageLoads(t)
      PROVE  TypeOK'
  <2>1. images' \in [Tracks -> Nat]
    BY <1>8 DEF ImageLoads
  <2>2. cover' \in Tracks \cup {0}
    BY <1>8 DEF ImageLoads
  <2>3. fades' \in Seq({"in", "out"})
    <3>1. CASE t = current
      <4>1. fades' = Append(fades, "in")
        BY <1>8, <3>1 DEF ImageLoads
      <4>2. fades \in Seq({"in", "out"}) /\ "in" \in {"in", "out"}
        OBVIOUS
      <4> QED
        BY <4>1, <4>2
    <3>2. CASE t # current
      BY <1>8, <3>2 DEF ImageLoads
    <3> QED
      BY <3>1, <3>2
  <2>4. UNCHANGED <<loaded, built, live, current, rating, bars, stars, opaque, clicks>>
    BY <1>8 DEF ImageLoads, display
  <2> QED
    BY <2>1, <2>2, <2>3, <2>4
<1>9. CASE Quiet
  BY <1>1, <1>9 DEF Quiet
<1> QED
  BY <1>1, <1>2, <1>3, <1>4, <1>5, <1>6, <1>7, <1>8, <1>9 DEF Next

(* No number of bars or stars that does not exist is ever asked for, and   *)
(* the queue of animations and the images keep their types.                *)
THEOREM TypeCorrect == Spec => []TypeOK
<1>1. ASSUME Init
      PROVE  TypeOK
  <2>1. fades = << >> /\ fades \in Seq({"in", "out"})
    BY <1>1 DEF Init
  <2>2. images = [t \in Tracks |-> 0] /\ bars = [t \in Tracks |-> 0]
    BY <1>1 DEF Init
  <2>3. images \in [Tracks -> Nat] /\ bars \in [Tracks -> 0..10]
    BY <2>2
  <2>4. loaded \in BOOLEAN /\ built \in BOOLEAN /\ live \in BOOLEAN /\ opaque \in BOOLEAN
    BY <1>1 DEF Init
  <2>5. current \in Tracks /\ rating \in [Tracks -> 0..10]
    BY <1>1, FirstTrack, RatingsAssumption DEF Init
  <2>6. stars \in 0..5 /\ cover \in Tracks \cup {0} /\ clicks \in 0..MaxClicks
    BY <1>1, BoundAssumption DEF Init
  <2> QED
    BY <2>1, <2>3, <2>4, <2>5, <2>6 DEF TypeOK
<1> QED
  BY <1>1, TypeStep, PTL DEF Spec
-----------------------------------------------------------------------------
(* CoverIsCurrent speaks of the end of the queue of animations only when   *)
(* it is empty.  What stays true of it in between is about its last one:   *)
(* when the cover is to be seen once all have run, it is the current one,  *)
(* because the fade in comes with the cover and a change of the track puts *)
(* a fade out behind it.  Before the list is built nothing moves.          *)
WillBeSeen == IF fades = << >> THEN opaque ELSE fades[Len(fades)] = "in"

CoverInv == /\ fades \in Seq({"in", "out"})
            /\ images \in [Tracks -> Nat]
            /\ ~loaded => fades = << >> /\ \A t \in Tracks : images[t] = 0
            /\ loaded /\ WillBeSeen => cover = current

(* What is last in a queue to which an animation is added, and from which  *)
(* the first one is taken.                                                 *)
LEMMA LastFade ==
  ASSUME NEW f \in Seq({"in", "out"}), NEW a \in {"in", "out"}
  PROVE  /\ Append(f, a) \in Seq({"in", "out"}) /\ Append(f, a) # << >>
         /\ Append(f, a)[Len(Append(f, a))] = a
         /\ f # << >> => /\ Tail(f) \in Seq({"in", "out"})
                         /\ Tail(f) = << >> => f[Len(f)] = Head(f)
                         /\ Tail(f) # << >> => Tail(f)[Len(Tail(f))] = f[Len(f)]
<1>1. /\ Append(f, a) \in Seq({"in", "out"}) /\ Append(f, a) # << >>
      /\ Append(f, a)[Len(Append(f, a))] = a
  OBVIOUS
<1>2. ASSUME f # << >>
      PROVE  /\ Tail(f) \in Seq({"in", "out"})
             /\ Tail(f) = << >> => f[Len(f)] = Head(f)
             /\ Tail(f) # << >> => Tail(f)[Len(Tail(f))] = f[Len(f)]
  <2>1. Tail(f) \in Seq({"in", "out"}) /\ Len(Tail(f)) = Len(f) - 1 /\ Len(f) \in Nat \ {0}
    BY <1>2
  <2>2. Tail(f) = << >> => f[Len(f)] = Head(f)
    BY <1>2, <2>1
  <2>3. Tail(f) # << >> => Tail(f)[Len(Tail(f))] = f[Len(f)]
    BY <1>2, <2>1
  <2> QED
    BY <2>1, <2>2, <2>3
<1> QED
  BY <1>1, <1>2

LEMMA CoverStep == CoverInv /\ [Next]_vars => CoverInv'
<1> SUFFICES ASSUME CoverInv, [Next]_vars PROVE CoverInv'
  OBVIOUS
<1> USE DEF CoverInv
<1>1. ASSUME UNCHANGED <<loaded, current, covers>>
      PROVE  CoverInv'
  BY <1>1 DEF covers, WillBeSeen
<1>2. ASSUME NEW t \in Tracks, Show(t), loaded', UNCHANGED <<images, cover, opaque>>
      PROVE  CoverInv'
  BY <1>2, LastFade DEF Show, WillBeSeen
<1>3. ASSUME NEW t \in Tracks, ImageLoads(t)
      PROVE  CoverInv'
  <2>1. loaded /\ UNCHANGED <<loaded, current, opaque>> /\ images' \in [Tracks -> Nat]
    BY <1>3 DEF ImageLoads
  <2>2. CASE t = current
    <3>1. cover' = current /\ fades' = Append(fades, "in")
      BY <1>3, <2>2 DEF ImageLoads
    <3> QED
      BY <2>1, <3>1, LastFade DEF WillBeSeen
  <2>3. CASE t # current
    BY <1>3, <2>1, <2>3 DEF ImageLoads, WillBeSeen
  <2> QED
    BY <2>2, <2>3
<1>4. CASE FadeEnds
  <2>1. /\ fades # << >> /\ fades' = Tail(fades) /\ opaque' = (Head(fades) = "in")
        /\ UNCHANGED <<loaded, current, cover>>
    BY <1>4 DEF FadeEnds
  <2>2. images' \in [Tracks -> Nat]
    BY <1>4, TracksAssumption DEF FadeEnds
  <2>3. WillBeSeen' = WillBeSeen
    BY <2>1, LastFade DEF WillBeSeen
  <2>4. loaded /\ fades' \in Seq({"in", "out"})
    BY <2>1, LastFade
  <2> QED
    BY <2>1, <2>2, <2>3, <2>4
<1>5. CASE InterfaceBuilt
  BY <1>1, <1>5 DEF InterfaceBuilt
<1>6. CASE PlaylistLoaded
  BY <1>2, <1>6, FirstTrack DEF PlaylistLoaded
<1>7. ASSUME NEW t \in Tracks, ChangeTrack(t)
      PROVE  CoverInv'
  BY <1>2, <1>7 DEF ChangeTrack
<1>8. ASSUME NEW t \in Tracks, NEW r \in Rates, RateRow(t, r)
      PROVE  CoverInv'
  BY <1>1, <1>8 DEF RateRow
<1>9. ASSUME NEW s \in 1..5, RateCurrent(s)
      PROVE  CoverInv'
  BY <1>1, <1>9 DEF RateCurrent
<1>10. ASSUME Quiet \/ UNCHANGED vars
       PROVE  CoverInv'
  BY <1>1, <1>10 DEF Quiet, vars
<1> QED
  BY <1>3, <1>4, <1>5, <1>6, <1>7, <1>8, <1>9, <1>10 DEF Next

(* However fast tracks change, and in whatever order the images of their   *)
(* covers arrive, the cover that is seen when the animations have run is   *)
(* that of the current track: setCover binds the track it was called for.  *)
THEOREM CoverIsAlwaysCurrent == Spec => []CoverIsCurrent
<1>1. ASSUME Init
      PROVE  CoverInv
  <2>1. fades = << >> /\ images = [t \in Tracks |-> 0] /\ loaded = FALSE
    BY <1>1 DEF Init
  <2>2. fades \in Seq({"in", "out"})
    BY <2>1
  <2> QED
    BY <2>1, <2>2 DEF CoverInv
<1>2. CoverInv => CoverIsCurrent
  BY DEF CoverInv, CoverIsCurrent, WillBeSeen
<1> QED
  BY <1>1, <1>2, CoverStep, PTL DEF Spec
=============================================================================
