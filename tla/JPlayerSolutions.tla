------------------------- MODULE JPlayerSolutions --------------------------
(***************************************************************************)
(* A jPlayer with both its solutions, HTML and Flash, each behind its      *)
(* gates.  What an element does by itself is the module JPlayer; here an   *)
(* element or the movie plays or does not.  The movie Jplayer.swf is known *)
(* from the calls it is sent and the events it sends: it plays when told,  *)
(* and starts anew when the browser hides and shows it.  A strict browser  *)
(* throws when an element is given a position before it has its metadata.  *)
(***************************************************************************)
EXTENDS JPlayerFormats

CONSTANTS Browsers, Options, Medias   \* media: the set of formats with a URL

ASSUME BrowsersAssumption ==
  \A b \in Browsers : b.html \subseteq Format /\ b.flash \in BOOLEAN /\ b.strict \in BOOLEAN
ASSUME OptionsAssumption ==
  \A x \in Options : /\ x.supplied \in Seq(ToSet(x.supplied))
                    /\ x.solution \in Seq(ToSet(x.solution))
                    /\ x.preload \in BOOLEAN   \* FALSE stands for 'none'
ASSUME MediasAssumption == \A m \in Medias : m \subseteq Format

VARIABLES
  b, o,      \* the browser and the options
  p          \* the state of the instance

vars == <<b, o, p>>

(* gate is the one that is open, active the solution, node is              *)
(* htmlElement.media, loud what plays; moved is status.currentTime > 0.    *)
Player == [gate : {"none", "audio", "video", "flash"}, active : {"none"} \cup Solution,
           node : {"none", "audio", "video"}, srcSet : BOOLEAN, media : Medias \cup {{}},
           format : Format \cup {"none"}, waitForPlay : BOOLEAN, paused : BOOLEAN,
           moved : BOOLEAN, loud : SUBSET {"audio", "video", "flash"}]

Init == /\ b \in Browsers /\ o \in Options
        /\ p = [gate |-> "none", active |-> "none", node |-> "none", srcSet |-> FALSE,
                media |-> {}, format |-> "none", waitForPlay |-> TRUE, paused |-> TRUE,
                moved |-> FALSE, loud |-> {}]

Reset(q) == [q EXCEPT !.srcSet = FALSE, !.media = {}, !.format = "none",
                      !.waitForPlay = TRUE, !.paused = TRUE, !.moved = FALSE]

(* What the active solution plays.                                         *)
Sound(q) == CASE q.active = "html" -> {q.node} [] q.active = "flash" -> {"flash"} [] OTHER -> {}

Clear(q) == [Reset(q) EXCEPT !.loud = @ \ Sound(q)]
Pause(q) == IF q.srcSet THEN [q EXCEPT !.loud = @ \ Sound(q), !.paused = TRUE] ELSE q

(* _html_play(time): the element plays before it is given the position; a  *)
(* browser that throws then has _html_checkWaitForPlay left out.           *)
HtmlPlay(q, throws) ==
  [q EXCEPT !.loud = @ \cup {q.node}, !.waitForPlay = @ /\ throws, !.paused = FALSE]

FlashPlay(q) == [q EXCEPT !.loud = @ \cup {"flash"}, !.waitForPlay = FALSE, !.paused = FALSE]

Play(q, throws) == CASE q.srcSet /\ q.active = "html"  -> HtmlPlay(q, throws)
                     [] q.srcSet /\ q.active = "flash" -> FlashPlay(q)
                     [] OTHER -> q

(* Mutation of LeaveFor: Flash is cleared, an element is not.              *)
LeaveForFlash(q, gate) ==
  IF q.active = "flash" \/ q.gate = gate THEN Clear(q)
  ELSE IF {q.gate, gate} = {"audio", "video"} THEN Reset([q EXCEPT !.loud = @ \ {q.node}])
  ELSE q

(* The previous solution is left for the gate that is opened.              *)
LeaveFor(q, gate) ==
  IF q.active = "flash" \/ (q.active = "html" /\ gate = "flash")
     \/ \A k \in {"audio", "video"} : (q.gate = k) = (gate = k)
    THEN Clear(q)
  ELSE IF \A k \in {"audio", "video"} : (q.gate = k) # (gate = k)
    THEN Reset([q EXCEPT !.loud = @ \ {q.node}])
  ELSE q

(* Mutation of SetIn: the name of the solution is taken for the element.   *)
SetInSwapped(q, s, kind, urls) ==
  [q EXCEPT !.format = FormatFor(b, o, s, urls), !.node = s]

(* _html_setAudio and _html_setVideo, _flash_setAudio and _flash_setVideo. *)
(* An element that loads its new URL stops what it was playing.            *)
SetIn(q, s, kind, urls) ==
  LET set == [q EXCEPT !.format = FormatFor(b, o, s, urls)] IN
  IF s = "flash" THEN set
  ELSE [set EXCEPT !.node = kind, !.loud = IF (q.srcSet /\ ~q.waitForPlay) \/ o.preload
                                             THEN @ \ {kind} ELSE @]

(* No format of the media is supported.                                    *)
Unsupported(q) ==
  LET quiet == IF q.srcSet /\ ~q.waitForPlay THEN Pause(q) ELSE q
  IN  [Reset(quiet) EXCEPT !.gate = "none", !.active = "none"]

SetMedia(q, urls) ==
  IF Playable(b, o, urls) = {} THEN Unsupported(q)
  ELSE LET f    == FormatOf(b, o, urls)
           s    == SolutionOf(b, o, f)
           gate == IF s = "html" THEN KindOf(f) ELSE "flash"
           left == [LeaveFor(q, gate) EXCEPT !.gate = gate]
       IN  [SetIn(left, s, KindOf(f), urls)
              EXCEPT !.active = s, !.srcSet = TRUE, !.media = urls, !.paused = TRUE]

Same == UNCHANGED <<b, o>>

CallSetMedia(urls) == p' = SetMedia(p, urls) /\ Same
(* A position may come with it, and the timeout of a play that was thrown  *)
(* out of is one more play.                                                *)
CallPlay           == p.srcSet /\ (\E throws \in {FALSE, b.strict} : p' = Play(p, throws)) /\ Same
CallPause          == p.srcSet /\ p' = Pause(p) /\ Same
CallClearMedia     == p' = Clear(p) /\ Same

-----------------------------------------------------------------------------
(* jPlayerFlashEvent.  The movie plays on:                                 *)
FlashTimeUpdate == /\ p.gate = "flash" /\ "flash" \in p.loud
                   /\ p' = [p EXCEPT !.moved = TRUE] /\ Same

FlashEnded == /\ p.gate = "flash" /\ "flash" \in p.loud
              /\ p' = [p EXCEPT !.loud = @ \ {"flash"}, !.paused = TRUE, !.moved = FALSE] /\ Same

(* The URL cannot be loaded; it is set up for another try.                 *)
FlashError ==
  /\ p.gate = "flash" /\ p.srcSet
  /\ p' = SetIn([p EXCEPT !.loud = @ \ {"flash"}, !.waitForPlay = TRUE],
               "flash", KindOf(p.format), p.media)
  /\ Same

(* Mutation of Resumed: the status is read when setMedia has reset it.     *)
ResumedLate(q) ==
  LET set == SetMedia(q, q.media) IN
  IF ~set.moved THEN set ELSE IF set.paused THEN Pause(set) ELSE Play(set, FALSE)

(* Set up again as it was, from the position it was at.                    *)
Resumed(q) ==
  LET set == SetMedia(q, q.media) IN
  IF ~q.moved THEN set
  ELSE [(IF q.paused THEN Pause(set) ELSE Play(set, FALSE)) EXCEPT !.waitForPlay = FALSE]

(* The movie was hidden and is shown again: it is ready a second time.     *)
FlashReady ==
  LET silent == [p EXCEPT !.loud = @ \ {"flash"}] IN
  /\ "flash" \in Used(b, o)
  /\ p' = IF p.gate = "flash" /\ p.srcSet THEN Resumed(silent) ELSE silent
  /\ Same

Next == \/ \E urls \in Medias : CallSetMedia(urls)
        \/ CallPlay \/ CallPause \/ CallClearMedia
        \/ FlashTimeUpdate \/ FlashEnded \/ FlashError \/ FlashReady

Spec == Init /\ [][Next]_vars

-----------------------------------------------------------------------------
(* The record of the instance has its fields in their ranges.              *)
TypeOK == b \in Browsers /\ o \in Options /\ p \in Player

(* While only what is behind the open gate is heard, no step makes a sound *)
(* behind a closed one, whatever was used before: neither setMedia nor the *)
(* movie.  Except that a media which nothing can play closes the gate and  *)
(* leaves the element playing that waitForPlay takes for silent (1242): a  *)
(* browser has thrown out of its play(time).                               *)
OnlyTheGateSounds ==
  [][p.loud \subseteq {p.gate}
       => \/ p'.loud \subseteq {p'.gate}
          \/ /\ b.strict /\ p.active = "html" /\ p.waitForPlay
             /\ p'.gate = "none" /\ p'.loud = p.loud]_vars

(* "media[format] = String: URL of format. Must contain all of the         *)
(* supplied option's video or audio formats.": a media that does is        *)
(* accepted whenever one of the solutions can play any of these formats.   *)
FullMediaIsAccepted ==
  \A k \in {"audio", "video"} :
    LET full == {f \in Formats(o) : KindOf(f) = k} IN
    (\E s \in Solutions(o) : CanPlay(b, o, s) \cap full # {}) => Playable(b, o, full) # {}

(* The loop of _html_setAudio "Always finds a format due to checks in      *)
(* setMedia()", and it is the one that setMedia has opened the gate for.   *)
SameFormat ==
  p.srcSet => /\ p.format = FormatOf(b, o, p.media)
              /\ p.gate = IF p.active = "html" THEN KindOf(p.format) ELSE "flash"

(* A movie that was playing plays on when it has been hidden and shown.    *)
FlashResumes ==
  [][FlashReady /\ p.gate = "flash" /\ p.srcSet /\ p.moved
       => ("flash" \in p'.loud <=> ~p.paused) /\ p'.format = p.format]_vars
=============================================================================
