--------------------------- MODULE MediaElement ---------------------------
(***************************************************************************)
(* The browser's <audio> or <video> element, as far as jPlayer can tell:   *)
(* its attributes change when a method is called or when the browser gets  *)
(* on, and its events are tasks that run later, in order.  Loading another *)
(* resource throws away the events that have not run yet.                  *)
(*                                                                         *)
(* Positions and durations are left out: an element is at its end or not.  *)
(* So are the events that nobody reacts to.                                *)
(***************************************************************************)
EXTENDS Sequences

CONSTANTS Media,    \* what can be set on the player: URLs of one item each
          None      \* no URL, the empty string

ASSUME NoneAssumption == None \notin Media

Events == {"play", "playing", "pause", "waiting", "seeking", "seeked",
           "suspend", "ended", "error"}

Element == [src : Media \cup {None}, mode : {"empty", "loading", "ready", "failed"},
            paused : BOOLEAN, seeking : BOOLEAN, ended : BOOLEAN, queue : Seq(Events)]

NewElement == [src |-> None, mode |-> "empty", paused |-> TRUE, seeking |-> FALSE,
               ended |-> FALSE, queue |-> << >>]

(* It is heard now, or will be when its data arrives.                      *)
Sounding(el) == ~el.paused /\ el.mode \in {"loading", "ready"}

-----------------------------------------------------------------------------
(* Methods.                                                                *)

(* el.src = url; el.load()                                                 *)
LoadElement(el, url) == [NewElement EXCEPT !.src = url, !.mode = "loading"]

PlayElement(el) ==
  LET started == IF el.ended THEN [el EXCEPT !.ended = FALSE, !.seeking = TRUE,
                                             !.queue = Append(@, "seeking")]
                             ELSE el
  IN  IF ~el.paused THEN started
      ELSE [started EXCEPT !.paused = FALSE,
              !.queue = @ \o <<"play", IF el.mode = "ready" THEN "playing" ELSE "waiting">>]

PauseElement(el) ==
  IF el.paused THEN el ELSE [el EXCEPT !.paused = TRUE, !.queue = Append(@, "pause")]

(* el.currentTime = time.  Without metadata it throws in some browsers;    *)
(* in the others it is where the element will begin.                       *)
SeekElement(el) ==
  IF el.mode # "ready" THEN el
  ELSE [el EXCEPT !.seeking = TRUE, !.ended = FALSE, !.queue = Append(@, "seeking")]

-----------------------------------------------------------------------------
(* What the browser does by itself.                                        *)

CanFetch(el) == el.mode = "loading" /\ el.src # None
Fetched(el, suspended) ==
  [el EXCEPT !.mode = "ready",
             !.queue = @ \o (IF el.paused THEN << >> ELSE <<"playing">>) \o suspended]

(* The URL cannot be loaded, or the connection breaks later.               *)
CanFail(el) == el.mode \in {"loading", "ready"}
Failed(el)  == [el EXCEPT !.mode = "failed", !.seeking = FALSE, !.queue = Append(@, "error")]

(* The end is reached.  Newer browsers pause the element there, older ones *)
(* leave that to the page.                                                 *)
CanEnd(el) == el.mode = "ready" /\ ~el.paused /\ ~el.seeking /\ ~el.ended
Ended(el, pausing) ==
  [el EXCEPT !.ended = TRUE, !.paused = pausing,
             !.queue = @ \o (IF pausing THEN <<"pause", "ended">> ELSE <<"ended">>)]

CanArrive(el) == el.mode = "ready" /\ el.seeking
Arrived(el)   == [el EXCEPT !.seeking = FALSE, !.queue = Append(@, "seeked")]
=============================================================================
