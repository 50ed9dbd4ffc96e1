----------------------- MODULE JPlayerSolutionsProofs -----------------------
(***************************************************************************)
(* What setMedia leaves playing behind a closed gate, and that what it and *)
(* the solutions choose from the options agrees, proved of                 *)
(* JPlayerSolutions for any browsers, options and media.                   *)
(***************************************************************************)
EXTENDS JPlayerSolutions, WellFoundedInduction, TLAPS

Gates == {"none", "audio", "video", "flash"}

(* The fields of the record.  Which solution and format the search of      *)
(* setMedia ends with does not matter here.                                *)
Shaped(q) ==
  q \in [gate : Gates, active : {q.active}, node : {"none", "audio", "video"},
         srcSet : BOOLEAN, media : {q.media}, format : {q.format},
         waitForPlay : BOOLEAN, paused : BOOLEAN, moved : BOOLEAN,
         loud : SUBSET {"audio", "video", "flash"}]

(* What is heard may have escaped from the gate.  What is heard behind it  *)
(* belongs to the active solution and was started by play after the media  *)
(* was set; the movie is silent when its gate is closed; and a browser     *)
(* that does not throw lets nothing escape.                                *)
GatedInv(q) ==
  /\ Shaped(q)
  /\ q.active = "html" => q.gate \in {"audio", "video"} /\ q.node = q.gate
  /\ q.active = "flash" => q.gate = "flash"
  /\ q.gate \in q.loud => q.srcSet = TRUE /\ q.active \in {"html", "flash"}
  /\ "flash" \in q.loud => q.active = "flash" /\ q.waitForPlay = FALSE
  /\ b.strict = FALSE => /\ q.loud \subseteq {q.gate}
                         /\ q.loud # {} => q.waitForPlay = FALSE

Behind(q) == q.loud \subseteq {q.gate}

(* The exception that OnlyTheGateSounds makes.                             *)
Escapes(q, r) == /\ b.strict # FALSE /\ q.active = "html" /\ q.waitForPlay = TRUE
                 /\ r.gate = "none" /\ r.loud = q.loud

LEMMA ResetKeeps ==
  ASSUME NEW q, Shaped(q)
  PROVE  /\ Shaped(Reset(q)) /\ Reset(q).srcSet = FALSE
         /\ Reset(q).active = q.active /\ Reset(q).gate = q.gate /\ Reset(q).node = q.node
         /\ Reset(q).loud = q.loud /\ Reset(q).waitForPlay = TRUE
BY DEF Reset, Shaped

(* The active solution is the one behind the gate.                         *)
LEMMA SoundIsBehind ==
  ASSUME NEW q, GatedInv(q)
  PROVE  /\ Sound(q) \subseteq {q.gate}
         /\ q.active \in {"html", "flash"} => Sound(q) = {q.gate}
BY DEF GatedInv, Sound

(* Less is heard, behind the same gate.                                    *)
Quieter(r, q) == /\ Shaped(r) /\ r.active = q.active /\ r.gate = q.gate /\ r.node = q.node
                 /\ r.loud \subseteq q.loud

LEMMA QuieterIsBehind ==
  ASSUME NEW q, Behind(q), NEW r, Quieter(r, q)
  PROVE  Behind(r)
BY DEF Behind, Quieter

(* clearMedia silences the active solution.                                *)
LEMMA ClearSilences ==
  ASSUME NEW q, GatedInv(q)
  PROVE  GatedInv(Clear(q)) /\ Quieter(Clear(q), q) /\ q.gate \notin Clear(q).loud
<1> DEFINE r == Reset(q)
<1>1. /\ Shaped(r) /\ r.srcSet = FALSE /\ r.active = q.active /\ r.gate = q.gate
      /\ r.node = q.node /\ r.loud = q.loud /\ r.waitForPlay = TRUE
  BY ResetKeeps DEF GatedInv
<1>2. Clear(q) = [r EXCEPT !.loud = @ \ Sound(q)]
  BY DEF Clear
<1> HIDE DEF r
<1>3. /\ Shaped(Clear(q)) /\ Clear(q).active = q.active /\ Clear(q).gate = q.gate
      /\ Clear(q).node = q.node /\ Clear(q).loud = q.loud \ Sound(q)
  BY <1>1, <1>2 DEF Shaped
<1>4. q.gate \notin Clear(q).loud
  BY <1>3, SoundIsBehind DEF GatedInv
<1>5. "flash" \notin Clear(q).loud
  BY <1>3, SoundIsBehind DEF GatedInv
<1>6. b.strict = FALSE => Clear(q).loud = {}
  BY <1>3, <1>4 DEF GatedInv
<1> QED
  BY <1>3, <1>4, <1>5, <1>6 DEF GatedInv, Quieter

LEMMA PlayKeeps ==
  ASSUME NEW q, GatedInv(q), NEW throws \in BOOLEAN, throws = TRUE => b.strict # FALSE
  PROVE  GatedInv(Play(q, throws)) /\ (Behind(q) => Behind(Play(q, throws)))
<1> DEFINE r == Play(q, throws)
<1>1. Shaped(q) /\ q.gate \in Gates /\ q.waitForPlay \in BOOLEAN
  BY DEF GatedInv, Shaped
<1>2. CASE q.srcSet = TRUE /\ q.active \in {"html", "flash"}
  <2>1. /\ Shaped(r) /\ r.active = q.active /\ r.gate = q.gate /\ r.node = q.node
        /\ r.srcSet = TRUE /\ r.loud = q.loud \cup {q.gate}
        /\ r.waitForPlay = TRUE => throws = TRUE /\ q.active = "html"
    <3>1. CASE q.active = "html"
      <4>1. r = HtmlPlay(q, throws) /\ q.node = q.gate /\ q.gate \in {"audio", "video"}
        BY <1>2, <3>1 DEF Play, GatedInv
      <4> DEFINE n == q.gate
                 w == q.waitForPlay /\ throws
                 h == [q EXCEPT !.loud = @ \cup {n}, !.waitForPlay = w, !.paused = FALSE]
      <4>2. r = h
        BY <4>1 DEF HtmlPlay
      <4>3. w \in BOOLEAN /\ (w = TRUE => throws = TRUE) /\ n \in {"audio", "video"}
        BY <1>1, <4>1
      <4>4. q.gate = n
        OBVIOUS
      <4> HIDE DEF w, n, r
      <4>5. /\ Shaped(h) /\ h.active = q.active /\ h.gate = q.gate /\ h.node = q.node
            /\ h.srcSet = TRUE /\ h.loud = q.loud \cup {n} /\ h.waitForPlay = w
        BY <1>1, <1>2, <4>3 DEF Shaped
      <4> HIDE DEF h
      <4> QED
        BY <3>1, <4>2, <4>3, <4>4, <4>5
    <3>2. CASE q.active = "flash"
      <4>1. r = FlashPlay(q) /\ q.gate = "flash"
        BY <1>2, <3>2 DEF Play, GatedInv
      <4> HIDE DEF r
      <4> QED
        BY <1>1, <1>2, <4>1 DEF FlashPlay, Shaped
    <3> QED
      BY <1>2, <3>1, <3>2
  <2> HIDE DEF r
  <2>2. GatedInv(r)
    <3>1. r.waitForPlay \in BOOLEAN
      BY <2>1 DEF Shaped
    <3>2. "flash" \in r.loud => r.active = "flash" /\ r.waitForPlay = FALSE
      BY <1>2, <2>1, <3>1 DEF GatedInv
    <3>3. b.strict = FALSE => r.loud \subseteq {r.gate} /\ r.waitForPlay = FALSE
      BY <2>1, <3>1 DEF GatedInv
    <3> QED
      BY <1>2, <2>1, <3>2, <3>3 DEF GatedInv
  <2>3. Behind(q) => Behind(r)
    BY <2>1 DEF Behind
  <2> QED
    BY <2>2, <2>3 DEF r
<1>3. CASE ~(q.srcSet = TRUE /\ q.active \in {"html", "flash"})
  <2>1. q.srcSet \in BOOLEAN
    BY <1>1 DEF Shaped
  <2>2. r = q
    BY <1>3, <2>1 DEF Play
  <2> QED
    BY <2>2
<1> QED
  BY <1>2, <1>3

LEMMA PauseKeeps ==
  ASSUME NEW q, GatedInv(q)
  PROVE  /\ GatedInv(Pause(q)) /\ Quieter(Pause(q), q)
         /\ q.srcSet = TRUE => Pause(q).loud = q.loud \ Sound(q)
<1>1. Shaped(q)
  BY DEF GatedInv
<1>2. CASE q.srcSet = TRUE
  <2>1. Pause(q) = [q EXCEPT !.loud = @ \ Sound(q), !.paused = TRUE]
    BY <1>2 DEF Pause
  <2>2. /\ Shaped(Pause(q)) /\ Pause(q).active = q.active /\ Pause(q).gate = q.gate
        /\ Pause(q).node = q.node /\ Pause(q).loud = q.loud \ Sound(q)
        /\ Pause(q).srcSet = q.srcSet /\ Pause(q).waitForPlay = q.waitForPlay
    BY <1>1, <2>1 DEF Shaped
  <2> QED
    BY <2>2 DEF GatedInv, Quieter
<1>3. CASE q.srcSet = FALSE
  BY <1>1, <1>3 DEF Pause, Quieter
<1> QED
  BY <1>1, <1>2, <1>3 DEF Shaped

(* Whatever gate is opened for the next media: when the previous solution  *)
(* has been left, the movie is silent, and so is what was behind the gate. *)
LEMMA LeavingSilences ==
  ASSUME NEW q, GatedInv(q), NEW gate \in {"audio", "video", "flash"}
  PROVE  /\ Shaped(LeaveFor(q, gate)) /\ LeaveFor(q, gate).loud \subseteq q.loud \ {"flash"}
         /\ Behind(q) => LeaveFor(q, gate).loud = {}
<1>1. Shaped(q) /\ q.gate \in Gates
  BY DEF GatedInv, Shaped
<1>2. Shaped(Clear(q)) /\ Clear(q).loud \subseteq q.loud \ {q.gate}
  <2>1. Quieter(Clear(q), q) /\ q.gate \notin Clear(q).loud
    BY ClearSilences
  <2> QED
    BY <2>1 DEF Quieter
<1>3. "flash" \in q.loud => q.active = "flash" /\ q.gate = "flash"
  BY DEF GatedInv
<1> DEFINE flash == q.active = "flash" \/ (q.active = "html" /\ gate = "flash")
           same == \A k \in {"audio", "video"} : (q.gate = k) = (gate = k)
           other == \A k \in {"audio", "video"} : (q.gate = k) # (gate = k)
<1>4. CASE flash \/ same
  <2>1. LeaveFor(q, gate) = Clear(q)
    BY <1>4 DEF LeaveFor
  <2> QED
    BY <1>2, <1>3, <2>1 DEF Behind
<1>5. CASE ~(flash \/ same) /\ other
  <2> DEFINE r == [q EXCEPT !.loud = @ \ {q.node}]
  <2>1. LeaveFor(q, gate) = Reset(r)
    BY <1>5 DEF LeaveFor
  <2>2. Shaped(r) /\ r.loud = q.loud \ {q.node}
    BY <1>1 DEF Shaped
  <2> HIDE DEF r
  <2>3. Shaped(Reset(r)) /\ Reset(r).loud = q.loud \ {q.node}
    BY <2>2, ResetKeeps
  <2>4. "flash" \notin q.loud
    BY <1>3, <1>5
  <2>5. q.gate \in q.loud => q.node = q.gate
    BY <1>5 DEF GatedInv
  <2> QED
    BY <2>1, <2>3, <2>4, <2>5 DEF Behind
<1>6. CASE ~(flash \/ same) /\ ~other
  <2>1. LeaveFor(q, gate) = q
    BY <1>6 DEF LeaveFor
  <2>2. q.active # "html" /\ q.active # "flash"
    BY <1>1, <1>6 DEF GatedInv, Gates
  <2>3. q.gate \notin q.loud /\ "flash" \notin q.loud
    BY <1>3, <2>2 DEF GatedInv
  <2> QED
    BY <1>1, <2>1, <2>3 DEF Behind
<1> QED
  BY <1>4, <1>5, <1>6

LEMMA SetInKeeps ==
  ASSUME NEW q, NEW s, NEW kind \in {"audio", "video"}, NEW urls, Shaped(q)
  PROVE  /\ Shaped(SetIn(q, s, kind, urls)) /\ SetIn(q, s, kind, urls).loud \subseteq q.loud
         /\ SetIn(q, s, kind, urls).gate = q.gate /\ SetIn(q, s, kind, urls).active = q.active
         /\ s = "html" => SetIn(q, s, kind, urls).node = kind
         /\ s = "flash" => SetIn(q, s, kind, urls).node = q.node
         /\ SetIn(q, s, kind, urls).format = FormatFor(b, o, s, urls)
         /\ SetIn(q, s, kind, urls).media = q.media /\ SetIn(q, s, kind, urls).srcSet = q.srcSet
<1> DEFINE f == FormatFor(b, o, s, urls)
           r == [q EXCEPT !.format = f]
<1>1. /\ Shaped(r) /\ r.loud = q.loud /\ r.gate = q.gate /\ r.active = q.active
      /\ r.node = q.node /\ r.format = f /\ r.media = q.media /\ r.srcSet = q.srcSet
  <2> HIDE DEF f
  <2> QED
    BY DEF Shaped
<1>2. CASE s = "flash"
  <2>1. SetIn(q, s, kind, urls) = r
    BY <1>2 DEF SetIn
  <2> QED
    BY <1>1, <1>2, <2>1
<1>3. CASE s # "flash"
  <2> DEFINE l == IF (q.srcSet /\ ~q.waitForPlay) \/ o.preload THEN r.loud \ {kind} ELSE r.loud
  <2>1. SetIn(q, s, kind, urls) = [r EXCEPT !.node = kind, !.loud = l]
    BY <1>3 DEF SetIn
  <2>2. l \subseteq q.loud
    BY <1>1
  <2> HIDE DEF f, r, l
  <2> DEFINE h == SetIn(q, s, kind, urls)
  <2>3. /\ h.loud = l /\ h.node = kind /\ h.gate = r.gate /\ h.active = r.active
        /\ h.format = r.format /\ h.media = r.media /\ h.srcSet = r.srcSet
    BY <1>1, <2>1 DEF Shaped
  <2>4. Shaped(h)
    <3>1. l \subseteq {"audio", "video", "flash"}
      BY <1>1, <2>2 DEF Shaped
    <3> DEFINE g == [r EXCEPT !.node = kind, !.loud = l]
    <3>2. Shaped(r) /\ kind \in {"none", "audio", "video"}
      BY <1>1
    <3>3. Shaped(g)
      BY <3>1, <3>2 DEF Shaped
    <3>4. h = g
      BY <2>1
    <3> HIDE DEF g, h
    <3> QED
      BY <3>3, <3>4
  <2> HIDE DEF h
  <2> QED
    BY <1>1, <1>3, <2>2, <2>3, <2>4 DEF f, h
<1> QED
  BY <1>2, <1>3

LEMMA KindOfFormat == \A f : KindOf(f) \in {"audio", "video"}
BY DEF KindOf

(* The media has been taken, or no media is set any more.                  *)
Took(r, urls) ==
  /\ r.srcSet = TRUE /\ r.media = urls /\ r.paused = TRUE
  /\ r.active = SolutionOf(b, o, FormatOf(b, o, urls))
  /\ r.gate = IF r.active = "html" THEN KindOf(FormatOf(b, o, urls)) ELSE "flash"
  /\ r.format = FormatFor(b, o, r.active, urls)

Forgets(r, q) == /\ r.media = {} /\ r.format = "none" /\ r.active \in {q.active, "none"}
                 /\ r.srcSet = FALSE

LEMMA ResetForgets ==
  ASSUME NEW q, Shaped(q)
  PROVE  Forgets(Reset(q), q)
BY DEF Reset, Shaped, Forgets

LEMMA PauseKeepsActive ==
  ASSUME NEW q, Shaped(q)
  PROVE  Pause(q).active = q.active
BY DEF Pause, Shaped

(* When no format is supported, only the element can be heard that was     *)
(* taken for silent.                                                       *)
LEMMA UnsupportedCloses ==
  ASSUME NEW q, GatedInv(q)
  PROVE  /\ GatedInv(Unsupported(q)) /\ "flash" \notin Unsupported(q).loud
         /\ Behind(q) => Behind(Unsupported(q)) \/ Escapes(q, Unsupported(q))
         /\ Forgets(Unsupported(q), q)
<1> DEFINE quiet == IF q.srcSet /\ ~q.waitForPlay THEN Pause(q) ELSE q
           u     == Reset(quiet)
           r     == Unsupported(q)
           off   == q.srcSet = TRUE /\ q.waitForPlay = FALSE
<1>1. Shaped(q) /\ q.srcSet \in BOOLEAN /\ q.waitForPlay \in BOOLEAN
  BY DEF GatedInv, Shaped
<1>2. /\ Shaped(quiet) /\ quiet.active = q.active
      /\ off => quiet.loud = q.loud \ Sound(q)
      /\ ~off => quiet.loud = q.loud
  <2>1. CASE off
    BY <2>1, PauseKeeps DEF Quieter
  <2>2. CASE ~off
    BY <1>1, <2>2
  <2> QED
    BY <2>1, <2>2
<1>3. r = [u EXCEPT !.gate = "none", !.active = "none"]
  BY DEF Unsupported
<1> HIDE DEF quiet
<1>4. Shaped(u) /\ u.loud = quiet.loud /\ Forgets(u, q)
  BY <1>2, ResetKeeps, ResetForgets DEF Forgets
<1> HIDE DEF u, r
<1>5. /\ Shaped(r) /\ r.loud = quiet.loud /\ r.gate = "none" /\ r.active = "none"
      /\ Forgets(r, q)
  BY <1>3, <1>4 DEF Shaped, Gates, Forgets
<1>6. "none" \notin r.loud
  BY <1>5 DEF Shaped
<1>7. q.gate \in q.loud => q.srcSet = TRUE /\ q.active \in {"html", "flash"} /\ Sound(q) = {q.gate}
  BY SoundIsBehind DEF GatedInv
<1>8. "flash" \in q.loud => off /\ Sound(q) = {"flash"}
  BY <1>7 DEF GatedInv
<1>9. "flash" \notin r.loud
  BY <1>2, <1>5, <1>8
<1>10. Behind(q) => r.loud = {} \/ (q.active = "html" /\ q.waitForPlay = TRUE /\ r.loud = q.loud)
  <2> SUFFICES ASSUME Behind(q), r.loud # {}
               PROVE  q.active = "html" /\ q.waitForPlay = TRUE /\ r.loud = q.loud
    OBVIOUS
  <2>1. r.loud \subseteq q.loud
    BY <1>2, <1>5
  <2>2. q.gate \in q.loud /\ q.gate \in r.loud
    BY <2>1 DEF Behind
  <2>3. ~off
    BY <1>2, <1>5, <1>7, <2>2
  <2>4. q.waitForPlay = TRUE /\ r.loud = q.loud
    BY <1>1, <1>2, <1>5, <1>7, <2>2, <2>3
  <2>5. q.active # "flash"
    BY <1>9, <2>2 DEF GatedInv
  <2> QED
    BY <1>7, <2>2, <2>4, <2>5
<1>11. b.strict = FALSE => Behind(q) /\ (q.loud # {} => q.waitForPlay = FALSE)
  BY DEF GatedInv, Behind
<1>12. b.strict = FALSE => r.loud = {}
  BY <1>10, <1>11
<1>13. GatedInv(r)
  BY <1>5, <1>6, <1>9, <1>12 DEF GatedInv
<1>14. Behind(q) => Behind(r) \/ Escapes(q, r)
  BY <1>5, <1>10, <1>12 DEF Behind, Escapes
<1> QED
  BY <1>5, <1>9, <1>13, <1>14 DEF r

(* After setMedia nothing is heard behind the gate until the next play.    *)
LEMMA SetMediaSilences ==
  ASSUME NEW q, GatedInv(q), NEW urls
  PROVE  /\ GatedInv(SetMedia(q, urls)) /\ "flash" \notin SetMedia(q, urls).loud
         /\ Behind(q) => Behind(SetMedia(q, urls)) \/ Escapes(q, SetMedia(q, urls))
         /\ Playable(b, o, urls) = {} => Forgets(SetMedia(q, urls), q)
         /\ Playable(b, o, urls) # {} => Took(SetMedia(q, urls), urls)
<1>1. CASE Playable(b, o, urls) = {}
  <2>1. SetMedia(q, urls) = Unsupported(q)
    BY <1>1 DEF SetMedia
  <2> QED
    BY <1>1, <2>1, UnsupportedCloses
<1>2. CASE Playable(b, o, urls) # {}
  <2> DEFINE f    == FormatOf(b, o, urls)
             s    == SolutionOf(b, o, f)
             gate == IF s = "html" THEN KindOf(f) ELSE "flash"
             left == [LeaveFor(q, gate) EXCEPT !.gate = gate]
             kind == KindOf(f)
             set  == SetIn(left, s, kind, urls)
             r    == SetMedia(q, urls)
  <2>1. r = [set EXCEPT !.active = s, !.srcSet = TRUE, !.media = urls, !.paused = TRUE]
    BY <1>2 DEF SetMedia
  <2>2. kind \in {"audio", "video"}
    BY KindOfFormat
  <2>3. gate \in {"audio", "video", "flash"}
    BY <2>2
  <2> HIDE DEF f, s, kind, gate, r
  <2>4. /\ Shaped(LeaveFor(q, gate)) /\ LeaveFor(q, gate).loud \subseteq q.loud \ {"flash"}
        /\ Behind(q) => LeaveFor(q, gate).loud = {}
    BY <2>3, LeavingSilences
  <2>5. Shaped(left) /\ left.loud = LeaveFor(q, gate).loud /\ left.gate = gate
    BY <2>3, <2>4 DEF Shaped, Gates
  <2> HIDE DEF left
  <2>6. /\ Shaped(set) /\ set.loud \subseteq left.loud /\ set.gate = gate
        /\ s = "html" => set.node = kind
        /\ set.format = FormatFor(b, o, s, urls)
    <3>1. \A k \in {"audio", "video"} :
            /\ Shaped(SetIn(left, s, k, urls)) /\ SetIn(left, s, k, urls).loud \subseteq left.loud
            /\ SetIn(left, s, k, urls).gate = left.gate
            /\ s = "html" => SetIn(left, s, k, urls).node = k
            /\ SetIn(left, s, k, urls).format = FormatFor(b, o, s, urls)
      BY <2>5, SetInKeeps
    <3> QED
      BY <2>2, <2>5, <3>1
  <2> HIDE DEF set
  <2>7. /\ Shaped(r) /\ r.loud = set.loud /\ r.active = s /\ r.gate = gate
        /\ r.node = set.node /\ r.format = set.format
        /\ r.srcSet = TRUE /\ r.media = urls /\ r.paused = TRUE
    BY <2>1, <2>6 DEF Shaped
  <2>8. /\ s = "html" => gate = kind
        /\ s # "html" => gate = "flash"
    BY DEF gate, kind
  <2>9. Took(r, urls)
    BY <2>6, <2>7 DEF Took, gate, kind, s, f
  <2>10. "flash" \notin r.loud /\ (Behind(q) => r.loud = {})
    BY <2>4, <2>5, <2>6, <2>7
  <2>11. b.strict = FALSE => r.loud = {}
    BY <2>10 DEF GatedInv, Behind
  <2>12. r.gate \in r.loud => s = "html"
    BY <2>7, <2>8, <2>10
  <2>13. GatedInv(r)
    BY <2>2, <2>6, <2>7, <2>8, <2>10, <2>11, <2>12 DEF GatedInv
  <2>14. Behind(q) => Behind(r)
    BY <2>10 DEF Behind
  <2> QED
    BY <1>2, <2>9, <2>10, <2>13, <2>14 DEF r
<1> QED
  BY <1>1, <1>2

(* jPlayerFlashEvent: a movie that is ready again.                         *)
LEMMA ResumedKeeps ==
  ASSUME NEW q, GatedInv(q)
  PROVE  /\ GatedInv(Resumed(q))
         /\ Behind(q) /\ q.gate = "flash" => Behind(Resumed(q))
<1> DEFINE set == SetMedia(q, q.media)
           on  == IF q.paused THEN Pause(set) ELSE Play(set, FALSE)
<1>1. GatedInv(set)
  BY SetMediaSilences
<1>2. Behind(q) /\ q.gate = "flash" => Behind(set)
  BY SetMediaSilences DEF Escapes, GatedInv
<1>3. CASE ~q.moved
  BY <1>1, <1>2, <1>3 DEF Resumed
<1>4. CASE q.moved
  <2>1. Resumed(q) = [on EXCEPT !.waitForPlay = FALSE]
    BY <1>4 DEF Resumed
  <2> HIDE DEF set
  <2>2. GatedInv(on) /\ (Behind(set) => Behind(on))
    BY <1>1, PlayKeeps, PauseKeeps, QuieterIsBehind
  <2> HIDE DEF on
  <2>3. /\ Shaped(Resumed(q)) /\ Resumed(q).active = on.active /\ Resumed(q).gate = on.gate
        /\ Resumed(q).node = on.node /\ Resumed(q).loud = on.loud
        /\ Resumed(q).srcSet = on.srcSet /\ Resumed(q).waitForPlay = FALSE
    BY <2>1, <2>2 DEF GatedInv, Shaped
  <2> QED
    BY <1>2, <2>2, <2>3 DEF GatedInv, Behind
<1> QED
  BY <1>3, <1>4

LEMMA GatedStep ==
  ASSUME GatedInv(p), b \in Browsers, [Next]_vars
  PROVE  GatedInv(p') /\ (Behind(p) => Behind(p') \/ Escapes(p, p'))
<1>1. CASE UNCHANGED vars
  BY <1>1 DEF vars
<1>2. ASSUME NEW urls \in Medias, CallSetMedia(urls)
      PROVE  GatedInv(p') /\ (Behind(p) => Behind(p') \/ Escapes(p, p'))
  BY <1>2, SetMediaSilences DEF CallSetMedia
<1>3. CASE CallPlay
  <2>1. PICK throws \in {FALSE, b.strict} : p' = Play(p, throws)
    BY <1>3 DEF CallPlay
  <2>2. b.strict \in BOOLEAN
    BY BrowsersAssumption
  <2>3. throws \in BOOLEAN /\ (throws = TRUE => b.strict # FALSE)
    BY <2>2
  <2> QED
    BY <2>1, <2>3, PlayKeeps
<1>4. CASE CallPause \/ CallClearMedia
  BY <1>4, PauseKeeps, ClearSilences, QuieterIsBehind DEF CallPause, CallClearMedia
<1>5. CASE FlashTimeUpdate
  <2>1. p' = [p EXCEPT !.moved = TRUE]
    BY <1>5 DEF FlashTimeUpdate
  <2>2. /\ Shaped(p') /\ p'.active = p.active /\ p'.gate = p.gate /\ p'.node = p.node
        /\ p'.loud = p.loud /\ p'.srcSet = p.srcSet /\ p'.waitForPlay = p.waitForPlay
    BY <2>1 DEF GatedInv, Shaped
  <2> QED
    BY <2>2 DEF GatedInv, Behind
<1>6. CASE FlashEnded
  <2>1. p' = [p EXCEPT !.loud = @ \ {"flash"}, !.paused = TRUE, !.moved = FALSE]
    BY <1>6 DEF FlashEnded
  <2>2. /\ Shaped(p') /\ p'.active = p.active /\ p'.gate = p.gate /\ p'.node = p.node
        /\ p'.loud = p.loud \ {"flash"} /\ p'.srcSet = p.srcSet
        /\ p'.waitForPlay = p.waitForPlay
    BY <2>1 DEF GatedInv, Shaped
  <2> QED
    BY <2>2 DEF GatedInv, Behind
<1>7. CASE FlashError
  <2> DEFINE r == [p EXCEPT !.loud = @ \ {"flash"}, !.waitForPlay = TRUE]
             kind == KindOf(p.format)
  <2>1. p' = SetIn(r, "flash", kind, p.media) /\ p.gate = "flash"
    BY <1>7 DEF FlashError
  <2>2. kind \in {"audio", "video"}
    BY KindOfFormat
  <2>3. /\ Shaped(r) /\ r.active = p.active /\ r.gate = p.gate /\ r.node = p.node
        /\ r.loud = p.loud \ {"flash"}
    BY DEF GatedInv, Shaped
  <2> HIDE DEF r, kind
  <2>4. /\ Shaped(p') /\ p'.loud \subseteq p.loud \ {"flash"} /\ p'.gate = p.gate
        /\ p'.active = p.active /\ p'.node = p.node
    <3>1. \A m : \A k \in {"audio", "video"} :
            /\ Shaped(SetIn(r, "flash", k, m)) /\ SetIn(r, "flash", k, m).loud \subseteq r.loud
            /\ SetIn(r, "flash", k, m).gate = r.gate /\ SetIn(r, "flash", k, m).active = r.active
            /\ SetIn(r, "flash", k, m).node = r.node
      BY <2>3, SetInKeeps
    <3> QED
      BY <2>1, <2>2, <2>3, <3>1
  <2>5. p.gate = "flash"
    BY <2>1
  <2>6. b.strict = FALSE => p'.loud = {}
    BY <2>4, <2>5 DEF GatedInv
  <2> QED
    BY <2>4, <2>5, <2>6 DEF GatedInv, Behind
<1>8. CASE FlashReady
  <2> DEFINE silent == [p EXCEPT !.loud = @ \ {"flash"}]
  <2>1. (p' = Resumed(silent) /\ p.gate = "flash") \/ p' = silent
    BY <1>8 DEF FlashReady
  <2>2. /\ Shaped(silent) /\ silent.active = p.active /\ silent.gate = p.gate
        /\ silent.node = p.node /\ silent.loud = p.loud \ {"flash"}
        /\ silent.srcSet = p.srcSet /\ silent.waitForPlay = p.waitForPlay
    BY DEF GatedInv, Shaped
  <2> HIDE DEF silent
  <2>3. GatedInv(silent) /\ (Behind(p) => Behind(silent))
    BY <2>2 DEF GatedInv, Behind
  <2> QED
    BY <2>1, <2>2, <2>3, ResumedKeeps
<1> QED
  BY <1>1, <1>2, <1>3, <1>4, <1>5, <1>6, <1>7, <1>8 DEF Next

BoxInv == b \in Browsers /\ GatedInv(p)

LEMMA GatedIsInvariant == Spec => []BoxInv
<1>1. ASSUME Init PROVE BoxInv
  BY <1>1 DEF Init, BoxInv, GatedInv, Shaped, Gates
<1>2. ASSUME BoxInv, [Next]_vars PROVE BoxInv'
  <2>1. b' = b
    BY <1>2 DEF Next, CallSetMedia, CallPlay, CallPause, CallClearMedia, FlashTimeUpdate,
                FlashEnded, FlashError, FlashReady, Same, vars
  <2>2. GatedInv(p')
    BY <1>2, GatedStep DEF BoxInv
  <2>3. GatedInv(p)'
    BY <2>1, <2>2 DEF GatedInv, Shaped
  <2> QED
    BY <1>2, <2>1, <2>3 DEF BoxInv
<1> QED
  BY <1>1, <1>2, PTL DEF Spec

(* For any browsers, options and media, and any order of calls and events  *)
(* of the movie: a sound escapes from the gate only when a media that      *)
(* nothing can play is set after the browser has thrown out of play(time). *)
THEOREM OnlyTheGateAlwaysSounds == Spec => OnlyTheGateSounds
<1> DEFINE Keeps == p.loud \subseteq {p.gate}
                      => \/ p'.loud \subseteq {p'.gate}
                         \/ /\ b.strict /\ p.active = "html" /\ p.waitForPlay
                            /\ p'.gate = "none" /\ p'.loud = p.loud
<1>1. BoxInv /\ [Next]_vars => [Keeps]_vars
  <2> SUFFICES ASSUME BoxInv, [Next]_vars PROVE Keeps
    OBVIOUS
  <2>1. Behind(p) => Behind(p') \/ Escapes(p, p')
    BY GatedStep DEF BoxInv
  <2>2. b.strict \in BOOLEAN
    BY BrowsersAssumption DEF BoxInv
  <2> QED
    BY <2>1, <2>2 DEF Behind, Escapes
<1> HIDE DEF Keeps
<1>2. Spec => [][Keeps]_vars
  BY <1>1, GatedIsInvariant, PTL DEF Spec
<1> QED
  BY <1>2 DEF OnlyTheGateSounds, Keeps

(* In a browser that does not throw out of play(time), and current ones do *)
(* not, nothing is ever heard behind a closed gate.                        *)
THEOREM CalmBrowsersKeepTheGate == Spec => [](~b.strict => p.loud \subseteq {p.gate})
<1>1. BoxInv => (~b.strict => p.loud \subseteq {p.gate})
  BY BrowsersAssumption DEF BoxInv, GatedInv
<1> QED
  BY <1>1, GatedIsInvariant, PTL
-----------------------------------------------------------------------------
(* Every non-empty set of naturals has a least element.                    *)
LEMMA LeastElement ==
  ASSUME NEW I, I \subseteq Nat, I # {}
  PROVE  \E x \in I : \A y \in I : x <= y
<1>1. \E R : /\ IsWellFoundedOn(R, Nat)
             /\ \A x, y \in Nat : y < x => <<y, x>> \in R
  <2>1. \A x, y \in Nat : y < x => <<y, x>> \in OpToRel(<, Nat)
    BY Zenon DEF OpToRel
  <2> QED
    BY <2>1, NatLessThanWellFounded, Zenon
<1>2. PICK R : /\ IsWellFoundedOn(R, Nat)
               /\ \A x, y \in Nat : y < x => <<y, x>> \in R
  BY <1>1
<1>3. PICK x \in I : \A y \in I : ~ (<<y, x>> \in R)
  BY <1>2, WFMin
<1>4. ASSUME NEW y \in I
      PROVE  x <= y
  <2>1. x \in Nat /\ y \in Nat
    OBVIOUS
  <2>2. ~ (y < x)
    BY <1>2, <1>3, <2>1, Zenon
  <2> QED
    BY <2>1, <2>2
<1> QED
  BY <1>4

(* Earliest is a name of the sequence that is in S, and no name before it  *)
(* is; there is none when S has no name of the sequence.                   *)
LEMMA EarliestIsFirst ==
  ASSUME NEW names, names \in Seq(ToSet(names)), NEW S
  PROVE  /\ S \cap ToSet(names) # {} =>
              \E i \in 1..Len(names) :
                 /\ names[i] \in S /\ Earliest(names, S) = names[i]
                 /\ \A j \in 1..Len(names) : names[j] \in S => i <= j
         /\ S \cap ToSet(names) = {} => Earliest(names, S) = "none"
<1> DEFINE I == {i \in 1..Len(names) : names[i] \in S}
           k == IF I # {} THEN Min(I) ELSE 0
<1>1. Earliest(names, S) = IF k = 0 THEN "none" ELSE names[k]
  BY DEF Earliest, SelectInSeq
<1>2. Len(names) \in Nat /\ DOMAIN names = 1..Len(names)
  OBVIOUS
<1>3. I = {} <=> S \cap ToSet(names) = {}
  BY <1>2 DEF ToSet
<1>4. I # {} => Min(I) \in I /\ \A j \in I : Min(I) <= j
  <2> SUFFICES ASSUME I # {} PROVE Min(I) \in I /\ \A j \in I : Min(I) <= j
    OBVIOUS
  <2>1. I \subseteq Nat
    BY <1>2
  <2> HIDE DEF I
  <2>2. \E x \in I : \A y \in I : x <= y
    BY <2>1, LeastElement
  <2> QED
    BY <2>2 DEF Min
<1>5. CASE I = {}
  BY <1>1, <1>3, <1>5
<1>6. CASE I # {}
  <2>1. /\ Min(I) \in 1..Len(names) /\ names[Min(I)] \in S
        /\ \A j \in 1..Len(names) : names[j] \in S => Min(I) <= j
    BY <1>4, <1>6
  <2>2. Earliest(names, S) = names[Min(I)]
    BY <1>1, <1>2, <1>6, <2>1
  <2> HIDE DEF I
  <2> QED
    BY <1>3, <1>6, <2>1, <2>2
<1> QED
  BY <1>5, <1>6

LEMMA EarliestIsIn ==
  ASSUME NEW names, names \in Seq(ToSet(names)), NEW S
  PROVE  /\ S \cap ToSet(names) # {} => Earliest(names, S) \in S \cap ToSet(names)
         /\ S \cap ToSet(names) = {} => Earliest(names, S) = "none"
<1>1. \A i \in 1..Len(names) : names[i] \in ToSet(names)
  BY DEF ToSet
<1> QED
  BY <1>1, EarliestIsFirst

(* A search among fewer names ends at the same one if it is still there:   *)
(* the formats are searched again for the solution that has been chosen.   *)
LEMMA EarliestOfFewer ==
  ASSUME NEW names, names \in Seq(ToSet(names)), NEW R, NEW S, S \subseteq R,
         R \cap ToSet(names) # {}, Earliest(names, R) \in S
  PROVE  Earliest(names, S) = Earliest(names, R)
<1>1. PICK i \in 1..Len(names) :
        /\ names[i] \in R /\ Earliest(names, R) = names[i]
        /\ \A j \in 1..Len(names) : names[j] \in R => i <= j
  BY EarliestIsFirst
<1>2. names[i] \in S /\ names[i] \in ToSet(names)
  BY <1>1 DEF ToSet
<1>3. PICK k \in 1..Len(names) :
        /\ names[k] \in S /\ Earliest(names, S) = names[k]
        /\ \A j \in 1..Len(names) : names[j] \in S => k <= j
  BY <1>2, EarliestIsFirst
<1>4. k <= i /\ i <= k
  BY <1>1, <1>2, <1>3
<1>5. i = k
  BY <1>4
<1> QED
  BY <1>1, <1>3, <1>5
LEMMA SupportIsListed ==
  ASSUME NEW w, NEW x, NEW s
  PROVE  /\ Support(w, x, s) \subseteq Formats(x)
         /\ Support(w, x, s) # {} => s \in Solutions(x)
BY DEF Support, CanPlay, Desired

(* setMedia finds a format and a solution for it when there is one, and    *)
(* the format that is found again for the solution is the same.            *)
LEMMA ChoiceIsSupported ==
  ASSUME NEW w, NEW x \in Options, NEW urls, Playable(w, x, urls) # {},
         NEW f, f = FormatOf(w, x, urls), NEW s, s = SolutionOf(w, x, f)
  PROVE  /\ f \in Playable(w, x, urls) /\ s \in Supporting(w, x, f)
         /\ FormatFor(w, x, s, urls) = f
<1>1. x.supplied \in Seq(ToSet(x.supplied)) /\ x.solution \in Seq(ToSet(x.solution))
  BY OptionsAssumption
<1>2. Playable(w, x, urls) \subseteq ToSet(x.supplied)
  BY DEF Playable, Formats
<1>3. f \in Playable(w, x, urls)
  BY <1>1, <1>2, EarliestIsIn DEF FormatOf
<1>4. Supporting(w, x, f) # {}
  BY <1>3 DEF Playable
<1>5. Supporting(w, x, f) \subseteq ToSet(x.solution)
  BY SupportIsListed DEF Supporting, Solutions
<1>6. s \in Supporting(w, x, f)
  BY <1>1, <1>4, <1>5, EarliestIsIn DEF SolutionOf
<1>7. f \in urls \cap Support(w, x, s)
  BY <1>3, <1>6 DEF Playable, Supporting
<1>8. urls \cap Support(w, x, s) \subseteq Playable(w, x, urls)
  BY <1>6, SupportIsListed DEF Playable, Supporting
<1>9. Earliest(x.supplied, urls \cap Support(w, x, s)) = Earliest(x.supplied, Playable(w, x, urls))
  <2>1. Earliest(x.supplied, Playable(w, x, urls)) \in urls \cap Support(w, x, s)
    BY <1>7 DEF FormatOf
  <2>2. Playable(w, x, urls) \cap ToSet(x.supplied) # {}
    BY <1>2
  <2> DEFINE R == Playable(w, x, urls)
             S == urls \cap Support(w, x, s)
  <2> HIDE DEF R, S
  <2>3. S \subseteq R /\ R \cap ToSet(x.supplied) # {} /\ Earliest(x.supplied, R) \in S
    BY <1>8, <2>1, <2>2 DEF R, S
  <2>4. Earliest(x.supplied, S) = Earliest(x.supplied, R)
    BY <1>1, <2>3, EarliestOfFewer
  <2> QED
    BY <2>4 DEF R, S
<1> QED
  BY <1>3, <1>6, <1>9 DEF FormatOf, FormatFor

LEMMA FormatForIsFormat ==
  ASSUME NEW w, NEW x \in Options, NEW s, NEW urls
  PROVE  FormatFor(w, x, s, urls) \in Format \cup {"none"}
<1>1. x.supplied \in Seq(ToSet(x.supplied))
  BY OptionsAssumption
<1>2. urls \cap Support(w, x, s) \subseteq Format
  BY SupportIsListed DEF Formats
<1> QED
  BY <1>1, <1>2, EarliestIsIn DEF FormatFor
LEMMA FullMediaIsPlayable ==
  ASSUME NEW w, NEW x \in Options, NEW k, NEW s \in Solutions(x),
         NEW full, full = {f \in Formats(x) : KindOf(f) = k}, CanPlay(w, x, s) \cap full # {}
  PROVE  Playable(w, x, full) # {}
<1>1. \A r : CanPlay(w, x, r) \subseteq Formats(x)
  BY DEF CanPlay
<1>2. ASSUME NEW r \in Desired(w, x), NEW h \in CanPlay(w, x, r), KindOf(h) = k
      PROVE  Playable(w, x, full) # {}
  <2>1. h \in full \cap Formats(x)
    BY <1>1, <1>2
  <2>2. r \in Solution /\ h \in Support(w, x, r)
    BY <1>2 DEF Support, Desired, Solutions
  <2> QED
    BY <2>1, <2>2 DEF Playable, Supporting
<1>3. CASE k \in Covered(w, x)
  <2>1. PICK h \in CanPlay(w, x, Preferred(x)) : KindOf(h) = k
    BY <1>3 DEF Covered
  <2>2. Preferred(x) \in Solutions(x)
    <3>1. x.solution \in Seq(ToSet(x.solution)) /\ Solution \cap ToSet(x.solution) # {}
      BY OptionsAssumption DEF Solutions
    <3> QED
      BY <3>1, EarliestIsIn DEF Preferred, Solutions
  <2>3. Preferred(x) \in Desired(w, x)
    BY <2>2 DEF Desired
  <2> QED
    BY <1>2, <2>1, <2>3
<1>4. CASE k \notin Covered(w, x)
  <2>1. PICK g \in CanPlay(w, x, s) : g \in Formats(x) /\ KindOf(g) = k
    BY <1>1
  <2>2. k \in Required(x) \ Covered(w, x)
    BY <1>4, <2>1 DEF Required
  <2>3. s \in Desired(w, x)
    BY <2>2 DEF Desired
  <2> QED
    BY <1>2, <2>1, <2>3
<1> QED
  BY <1>3, <1>4

-----------------------------------------------------------------------------
(* While a media is set, the instance remembers the choice of setMedia,    *)
(* and makes it again when it sets the same media up again.                *)
Chosen(q) == /\ Playable(b, o, q.media) # {} /\ q.format = FormatOf(b, o, q.media)
             /\ q.active = SolutionOf(b, o, q.format)
             /\ q.gate = IF q.active = "html" THEN KindOf(q.format) ELSE "flash"

MediaInv(q) == /\ GatedInv(q)
               /\ q.media \in Medias \cup {{}} /\ q.format \in Format \cup {"none"}
               /\ q.active \in {"none"} \cup Solution
               /\ q.srcSet = TRUE => Chosen(q)

Agrees(r, q) == /\ r.media = q.media /\ r.format = q.format /\ r.active = q.active
                /\ r.gate = q.gate /\ r.srcSet = q.srcSet

LEMMA SameMedia ==
  ASSUME NEW q, MediaInv(q), NEW r, GatedInv(r), Agrees(r, q) \/ Forgets(r, q)
  PROVE  MediaInv(r)
<1>1. CASE Agrees(r, q)
  BY <1>1 DEF MediaInv, Agrees, Chosen
<1>2. CASE Forgets(r, q)
  BY <1>2 DEF MediaInv, Forgets
<1> QED
  BY <1>1, <1>2

LEMMA ClearForgets ==
  ASSUME NEW q, Shaped(q)
  PROVE  Forgets(Clear(q), q)
<1> DEFINE r == Reset(q)
<1>1. Shaped(r) /\ Forgets(r, q)
  BY ResetKeeps, ResetForgets
<1>2. Clear(q) = [r EXCEPT !.loud = @ \ Sound(q)]
  BY DEF Clear
<1> HIDE DEF r
<1> QED
  BY <1>1, <1>2 DEF Shaped, Forgets

LEMMA PlayAgrees ==
  ASSUME NEW q, Shaped(q), NEW throws
  PROVE  /\ Agrees(Play(q, throws), q)
         /\ q.srcSet = TRUE => Play(q, throws).loud = q.loud \cup Sound(q)
<1>1. CASE q.srcSet = TRUE /\ q.active = "html"
  <2>1. Play(q, throws) = HtmlPlay(q, throws) /\ Sound(q) = {q.node}
    BY <1>1 DEF Play, Sound
  <2> QED
    BY <2>1 DEF HtmlPlay, Shaped, Agrees
<1>2. CASE q.srcSet = TRUE /\ q.active = "flash"
  <2>1. Play(q, throws) = FlashPlay(q) /\ Sound(q) = {"flash"}
    BY <1>2 DEF Play, Sound
  <2> QED
    BY <2>1 DEF FlashPlay, Shaped, Agrees
<1>3. CASE ~(q.srcSet = TRUE /\ q.active \in {"html", "flash"})
  <2>1. Play(q, throws) = q /\ (q.srcSet = TRUE => Sound(q) = {})
    BY <1>3 DEF Play, Sound, Shaped
  <2>2. q.loud \cup {} = q.loud
    OBVIOUS
  <2> QED
    BY <2>1, <2>2 DEF Agrees
<1> QED
  BY <1>1, <1>2, <1>3

LEMMA PauseAgrees ==
  ASSUME NEW q, Shaped(q)
  PROVE  Agrees(Pause(q), q)
BY DEF Pause, Shaped, Agrees
LEMMA SetMediaChooses ==
  ASSUME o \in Options, NEW q, MediaInv(q), NEW urls \in Medias \cup {{}}
  PROVE  MediaInv(SetMedia(q, urls))
<1> DEFINE set == SetMedia(q, urls)
<1>1. GatedInv(set)
  BY SetMediaSilences DEF MediaInv
<1>2. CASE Playable(b, o, urls) = {}
  <2>1. Forgets(set, q)
    BY <1>2, SetMediaSilences DEF MediaInv
  <2> QED
    BY <1>1, <2>1, SameMedia
<1>3. CASE Playable(b, o, urls) # {}
  <2> DEFINE f == FormatOf(b, o, urls)
             s == SolutionOf(b, o, f)
  <2>1. Took(set, urls)
    BY <1>3, SetMediaSilences DEF MediaInv
  <2>2. f \in Playable(b, o, urls) /\ s \in Supporting(b, o, f) /\ FormatFor(b, o, s, urls) = f
    BY <1>3, ChoiceIsSupported
  <2>3. f \in Format /\ s \in Solution
    BY <2>2 DEF Playable, Supporting, Formats
  <2>4. /\ set.media = urls /\ set.active = s /\ set.format = f
        /\ set.gate = IF s = "html" THEN KindOf(f) ELSE "flash"
    BY <2>1, <2>2 DEF Took
  <2>5. f = FormatOf(b, o, urls) /\ s = SolutionOf(b, o, f)
    OBVIOUS
  <2>6. Chosen(SetMedia(q, urls))
    <3> HIDE DEF f, s
    <3> QED
      BY <1>3, <2>4, <2>5 DEF Chosen
  <2> HIDE DEF f, s
  <2> QED
    BY <1>1, <2>3, <2>4, <2>6 DEF MediaInv
<1> QED
  BY <1>2, <1>3

(* A movie that is ready again takes the same media, solution and format,  *)
(* and it plays on if it was playing.                                      *)
LEMMA ResumedChooses ==
  ASSUME o \in Options, NEW q, MediaInv(q)
  PROVE  /\ MediaInv(Resumed(q))
         /\ q.srcSet = TRUE /\ q.gate = "flash" /\ q.moved = TRUE =>
              /\ "flash" \in Resumed(q).loud <=> ~q.paused
              /\ Resumed(q).format = q.format
<1> DEFINE set == SetMedia(q, q.media)
           on  == IF q.paused THEN Pause(set) ELSE Play(set, FALSE)
<1>1. MediaInv(set)
  BY SetMediaChooses DEF MediaInv
<1>2. q.moved \in BOOLEAN /\ q.paused \in BOOLEAN /\ GatedInv(q)
  BY DEF MediaInv, GatedInv, Shaped
<1>3. CASE q.moved = FALSE
  <2>1. Resumed(q) = set
    BY <1>3 DEF Resumed
  <2> QED
    BY <1>1, <1>3, <2>1
<1>4. CASE q.moved = TRUE
  <2>1. Resumed(q) = [on EXCEPT !.waitForPlay = FALSE]
    BY <1>4 DEF Resumed
  <2>2. q.srcSet = TRUE => Took(set, q.media)
    BY <1>2, SetMediaSilences DEF MediaInv, Chosen
  <2>3. "flash" \notin set.loud
    BY <1>2, SetMediaSilences
  <2> HIDE DEF set
  <2>4. GatedInv(set) /\ Shaped(set)
    BY <1>1 DEF MediaInv, GatedInv
  <2>5. GatedInv(on) /\ Agrees(on, set)
    BY <2>4, PlayKeeps, PauseKeeps, PlayAgrees, PauseAgrees
  <2>6. MediaInv(on)
    BY <1>1, <2>5, SameMedia
  <2>7. set.srcSet = TRUE => on.loud = IF q.paused THEN set.loud \ Sound(set)
                                                   ELSE set.loud \cup Sound(set)
    BY <2>4, PlayAgrees, PauseKeeps
  <2> HIDE DEF on
  <2>8. /\ Agrees(Resumed(q), on) /\ Resumed(q).loud = on.loud
    BY <2>1, <2>5 DEF GatedInv, Shaped, Agrees
  <2>9. MediaInv(Resumed(q))
    BY <2>6, <2>8, SameMedia, ResumedKeeps, <1>2
  <2>10. ASSUME q.srcSet = TRUE, q.gate = "flash"
         PROVE  /\ "flash" \in Resumed(q).loud <=> ~q.paused
                /\ Resumed(q).format = q.format
    <3>1. Took(set, q.media) /\ Chosen(set) /\ Chosen(q)
      BY <1>1, <2>2, <2>10 DEF MediaInv, Took
    <3>2. set.format = q.format /\ set.active = q.active
      BY <3>1 DEF Chosen, Took
    <3>3. q.active # "html"
      BY <2>10, <3>1, KindOfFormat DEF Chosen
    <3>4. q.active \in Solution
      <4>1. q.active \in Supporting(b, o, q.format)
        BY <3>1, ChoiceIsSupported DEF Chosen
      <4> QED
        BY <4>1 DEF Supporting
    <3>5. Sound(set) = {"flash"}
      BY <3>2, <3>3, <3>4 DEF Sound, Solution
    <3>6. "flash" \in Resumed(q).loud <=> ~q.paused
      BY <2>3, <2>7, <2>8, <3>1, <3>5 DEF Took
    <3>7. Resumed(q).format = q.format
      BY <2>5, <2>8, <3>2 DEF Agrees
    <3> QED
      BY <3>6, <3>7
  <2> QED
    BY <2>9, <2>10
<1> QED
  BY <1>2, <1>3, <1>4
LEMMA MediaStep ==
  ASSUME MediaInv(p), b \in Browsers, o \in Options, [Next]_vars
  PROVE  MediaInv(p') /\ UNCHANGED <<b, o>>
<1> DEFINE silent == [p EXCEPT !.loud = @ \ {"flash"}]
<1>1. GatedInv(p') /\ Shaped(p) /\ GatedInv(p)
  BY GatedStep DEF MediaInv, GatedInv
<1>2. UNCHANGED <<b, o>>
  BY DEF Next, CallSetMedia, CallPlay, CallPause, CallClearMedia, FlashTimeUpdate, FlashEnded,
         FlashError, FlashReady, Same, vars
<1> SUFFICES MediaInv(p')
  BY <1>2
<1>3. CASE UNCHANGED vars
  BY <1>2, <1>3 DEF vars
<1>4. ASSUME NEW urls \in Medias, CallSetMedia(urls)
      PROVE  MediaInv(p')
  BY <1>4, SetMediaChooses DEF CallSetMedia
<1>5. CASE CallPlay \/ CallPause \/ CallClearMedia
  <2>1. Agrees(p', p) \/ Forgets(p', p)
    BY <1>1, <1>5, PlayAgrees, PauseAgrees, ClearForgets DEF CallPlay, CallPause, CallClearMedia
  <2> QED
    BY <1>1, <2>1, SameMedia
<1>6. CASE FlashTimeUpdate \/ FlashEnded
  <2>1. Agrees(p', p)
    BY <1>1, <1>6 DEF FlashTimeUpdate, FlashEnded, Shaped, Agrees
  <2> QED
    BY <1>1, <2>1, SameMedia
<1>7. CASE FlashError
  <2> DEFINE r == [p EXCEPT !.loud = @ \ {"flash"}, !.waitForPlay = TRUE]
             kind == KindOf(p.format)
  <2>1. p' = SetIn(r, "flash", kind, p.media) /\ p.gate = "flash" /\ p.srcSet = TRUE
    BY <1>1, <1>7 DEF FlashError, Shaped
  <2>2. kind \in {"audio", "video"}
    BY KindOfFormat
  <2>3. Shaped(r) /\ Agrees(r, p)
    BY <1>1 DEF Shaped, Agrees
  <2> HIDE DEF r, kind
  <2>4. \A m : \A k \in {"audio", "video"} :
          /\ SetIn(r, "flash", k, m).gate = r.gate /\ SetIn(r, "flash", k, m).active = r.active
          /\ SetIn(r, "flash", k, m).media = r.media /\ SetIn(r, "flash", k, m).srcSet = r.srcSet
          /\ SetIn(r, "flash", k, m).format = FormatFor(b, o, "flash", m)
    BY <2>3, SetInKeeps
  <2>5. /\ p'.media = p.media /\ p'.active = p.active /\ p'.gate = p.gate
        /\ p'.srcSet = p.srcSet /\ p'.format = FormatFor(b, o, "flash", p.media)
    BY <2>1, <2>2, <2>3, <2>4 DEF Agrees
  <2>6. Chosen(p)
    BY <2>1 DEF MediaInv
  <2>7. p.active = "flash"
    <3>1. p.active \in Supporting(b, o, p.format)
      BY <2>6, ChoiceIsSupported DEF Chosen
    <3>2. p.active # "html"
      BY <2>1, <2>6, KindOfFormat DEF Chosen
    <3> QED
      BY <3>1, <3>2 DEF Supporting, Solution
  <2>8. p'.format = p.format
    <3>1. /\ Playable(b, o, p.media) # {} /\ p.format = FormatOf(b, o, p.media)
          /\ p.active = SolutionOf(b, o, p.format)
      BY <2>6 DEF Chosen
    <3>2. FormatFor(b, o, p.active, p.media) = p.format
      BY <3>1, ChoiceIsSupported
    <3> QED
      BY <2>5, <2>7, <3>2
  <2>9. Agrees(p', p)
    BY <2>5, <2>8 DEF Agrees
  <2> QED
    BY <1>1, <2>9, SameMedia
<1>8. CASE FlashReady
  <2>1. p' = Resumed(silent) \/ p' = silent
    BY <1>8 DEF FlashReady
  <2>2. Agrees(silent, p)
    BY <1>1 DEF Shaped, Agrees
  <2>3. GatedInv(silent)
    <3>1. /\ Shaped(silent) /\ silent.active = p.active /\ silent.gate = p.gate
          /\ silent.node = p.node /\ silent.loud = p.loud \ {"flash"}
          /\ silent.srcSet = p.srcSet /\ silent.waitForPlay = p.waitForPlay
      BY <1>1 DEF Shaped
    <3> HIDE DEF silent
    <3> QED
      BY <1>1, <3>1 DEF GatedInv
  <2> HIDE DEF silent
  <2>4. MediaInv(silent)
    BY <2>2, <2>3, SameMedia
  <2> QED
    BY <2>1, <2>4, ResumedChooses
<1> QED
  BY <1>3, <1>4, <1>5, <1>6, <1>7, <1>8 DEF Next

ChoiceInv == b \in Browsers /\ o \in Options /\ MediaInv(p)

LEMMA ChoiceIsInvariant == Spec => []ChoiceInv
<1>1. ASSUME Init PROVE ChoiceInv
  <2>1. /\ GatedInv(p) /\ p.srcSet = FALSE /\ p.media = {} /\ p.format = "none"
        /\ p.active = "none"
    BY <1>1 DEF Init, GatedInv, Shaped, Gates
  <2> QED
    BY <1>1, <2>1 DEF Init, ChoiceInv, MediaInv
<1>2. ASSUME ChoiceInv, [Next]_vars PROVE ChoiceInv'
  <2>1. MediaInv(p') /\ b' = b /\ o' = o
    BY <1>2, MediaStep DEF ChoiceInv
  <2>2. MediaInv(p)'
    BY <2>1 DEF MediaInv, Chosen, GatedInv, Shaped
  <2> QED
    BY <1>2, <2>1, <2>2 DEF ChoiceInv
<1> QED
  BY <1>1, <1>2, PTL DEF Spec

(* No name of an option that jPlayer does not know, and no media, makes a  *)
(* field of the instance leave its range.                                  *)
THEOREM TypeCorrect == Spec => []TypeOK
<1>1. ASSUME ChoiceInv PROVE TypeOK
  <2>1. p \in Player
    BY <1>1 DEF ChoiceInv, MediaInv, GatedInv, Shaped, Gates, Player
  <2> QED
    BY <1>1, <2>1 DEF ChoiceInv, TypeOK
<1> QED
  BY <1>1, ChoiceIsInvariant, PTL

(* The comment of setMedia asks for all the formats of a kind: a media     *)
(* that has them is accepted, whatever the options leave to the solutions. *)
THEOREM FullMediaIsAlwaysAccepted == Spec => []FullMediaIsAccepted
<1>1. ASSUME ChoiceInv PROVE FullMediaIsAccepted
  <2> SUFFICES ASSUME NEW k \in {"audio", "video"}, NEW s \in Solutions(o),
                      CanPlay(b, o, s) \cap {f \in Formats(o) : KindOf(f) = k} # {}
               PROVE  Playable(b, o, {f \in Formats(o) : KindOf(f) = k}) # {}
    BY DEF FullMediaIsAccepted
  <2> QED
    BY <1>1, FullMediaIsPlayable DEF ChoiceInv
<1> QED
  BY <1>1, ChoiceIsInvariant, PTL

(* "Always finds a format due to checks in setMedia()": the one that the   *)
(* gate was opened for, also when Flash sets it up for another try.        *)
THEOREM FormatIsAlwaysTheSame == Spec => []SameFormat
<1>1. ASSUME ChoiceInv PROVE SameFormat
  <2>1. p.srcSet \in BOOLEAN
    BY <1>1 DEF ChoiceInv, MediaInv, GatedInv, Shaped
  <2> QED
    BY <1>1, <2>1 DEF ChoiceInv, MediaInv, Chosen, SameFormat
<1> QED
  BY <1>1, ChoiceIsInvariant, PTL

(* A movie that was playing plays on when it has been hidden and shown,    *)
(* and one that was paused does not.                                       *)
THEOREM FlashAlwaysResumes == Spec => FlashResumes
<1> DEFINE Resumes == FlashReady /\ p.gate = "flash" /\ p.srcSet /\ p.moved
                        => ("flash" \in p'.loud <=> ~p.paused) /\ p'.format = p.format
<1>1. ASSUME ChoiceInv, FlashReady, p.gate = "flash", p.srcSet, p.moved
      PROVE  ("flash" \in p'.loud <=> ~p.paused) /\ p'.format = p.format
  <2> DEFINE silent == [p EXCEPT !.loud = @ \ {"flash"}]
  <2>1. Shaped(p) /\ GatedInv(p) /\ p.srcSet = TRUE /\ p.moved = TRUE
    BY <1>1 DEF ChoiceInv, MediaInv, GatedInv, Shaped
  <2>2. p' = Resumed(silent)
    BY <1>1 DEF FlashReady
  <2>3. /\ Agrees(silent, p) /\ silent.moved = p.moved /\ silent.paused = p.paused
        /\ Shaped(silent) /\ silent.node = p.node /\ silent.loud = p.loud \ {"flash"}
        /\ silent.waitForPlay = p.waitForPlay
    BY <2>1 DEF Shaped, Agrees
  <2> HIDE DEF silent
  <2>4. GatedInv(silent)
    BY <2>1, <2>3 DEF GatedInv, Agrees
  <2>5. MediaInv(silent)
    BY <1>1, <2>3, <2>4, SameMedia DEF ChoiceInv
  <2>6. silent.srcSet = TRUE /\ silent.gate = "flash" /\ silent.moved = TRUE /\ o \in Options
    BY <1>1, <2>1, <2>3 DEF Agrees, ChoiceInv
  <2>7. ("flash" \in Resumed(silent).loud <=> ~silent.paused) /\ Resumed(silent).format = silent.format
    BY <2>5, <2>6, ResumedChooses
  <2> QED
    BY <2>2, <2>3, <2>7 DEF Agrees
<1>2. ChoiceInv => [Resumes]_vars
  BY <1>1
<1> HIDE DEF Resumes
<1>3. Spec => [][Resumes]_vars
  BY <1>2, ChoiceIsInvariant, PTL
<1> QED
  BY <1>3 DEF FlashResumes, Resumes
=============================================================================
