------------------------------ MODULE JPlayer ------------------------------
(***************************************************************************)
(* A jPlayer instance between a page that calls its methods and the media  *)
(* elements of a browser.  A step is one task of the page's event loop: a  *)
(* call with all it does, an event with its listener, a timeout.           *)
(***************************************************************************)
EXTENDS JPlayerMethods

CONSTANT MaxCalls   \* bound: calls of the page in a behaviour

ASSUME BoundAssumption == MaxCalls \in Nat

VARIABLES
  w,            \* the instance
  strict,       \* the browser may throw when a position is set too early
  calls
vars == <<w, strict, calls>>

Init == /\ w \in {[NewInstance EXCEPT !.preload = p] : p \in BOOLEAN}
        /\ strict \in BOOLEAN /\ calls = 0

(* Once destroyed, the instance is no longer found by $.fn.jPlayer.        *)
Call == w.alive /\ calls < MaxCalls /\ calls' = calls + 1 /\ UNCHANGED strict

Throws == {FALSE, strict}

CallSetMedia(m) == Call /\ w' = SetMedia(w, m)
CallClearMedia  == Call /\ w' = ClearMedia(w)
CallLoad        == Call /\ w' = Load(w)
CallPlay        == Call /\ \E t \in {"none", "start", "later"}, throws \in Throws :
                             w' = Play(w, t, throws)
CallPause       == Call /\ \E t \in {"none", "start", "later"}, throws \in Throws :
                             w' = Pause(w, t, throws)
CallStop        == Call /\ \E throws \in Throws : w' = Stop(w, throws)
CallPlayHead    == Call /\ \E throws \in BOOLEAN : w' = PlayHead(w, throws)
CallLoop        == Call /\ w' = [w EXCEPT !.loop = ~@]
CallDestroy     == Call /\ w' = Destroy(w)

(* The browser gets on with an element, or runs its first event.           *)
Becomes(k, next) == w' = [w EXCEPT !.el[k] = next] /\ UNCHANGED <<strict, calls>>

Loads(k)  == \E suspended \in {<< >>, <<"suspend">>} :
               CanFetch(w.el[k]) /\ Becomes(k, Fetched(w.el[k], suspended))
Breaks(k) == CanFail(w.el[k])   /\ Becomes(k, Failed(w.el[k]))
Ends(k)   == CanEnd(w.el[k])    /\ \E pausing \in BOOLEAN : Becomes(k, Ended(w.el[k], pausing))
Seeks(k)  == CanArrive(w.el[k]) /\ Becomes(k, Arrived(w.el[k]))

Deliver(k) ==
  /\ w.el[k].queue # << >>
  /\ w' = IF Heard(w, k) THEN Repeat(Handled(w, k), Head(w.el[k].queue)) ELSE Handled(w, k)
  /\ UNCHANGED <<strict, calls>>

Timeout ==
  /\ \E i \in 1..Len(w.timers) :
       \E throws \in IF w.timers[i].op = "playHead" THEN BOOLEAN ELSE Throws :
         w' = Fire(w, i, throws)
  /\ UNCHANGED <<strict, calls>>

(* Nobody calls any more.                                                  *)
Quiet == /\ calls = MaxCalls \/ ~w.alive
         /\ UNCHANGED vars

CallAny == \/ \E m \in Media : CallSetMedia(m)
           \/ CallClearMedia \/ CallLoad \/ CallPlay \/ CallPause \/ CallStop
           \/ CallPlayHead \/ CallLoop \/ CallDestroy

Next == \/ CallAny
        \/ \E k \in Kinds : Loads(k) \/ Breaks(k) \/ Ends(k) \/ Seeks(k) \/ Deliver(k)
        \/ Timeout
        \/ Quiet

(* The browser ends what it has begun: a request is answered or given up,  *)
(* a seek arrives, and the event loop gets to every task.                  *)
Fairness == /\ \A k \in Kinds : /\ WF_vars(Loads(k) \/ Breaks(k))
                                /\ WF_vars(Seeks(k))
                                /\ WF_vars(Deliver(k))
            /\ WF_vars(Timeout)

Spec     == Init /\ [][Next]_vars
FairSpec == Spec /\ Fairness

-----------------------------------------------------------------------------
(* The record of the instance has its fields in their ranges.              *)
TypeOK == w \in Instance /\ strict \in BOOLEAN /\ calls \in 0..MaxCalls

(* Nothing is heard but the media that is set, from the element that       *)
(* _html_setAudio or _html_setVideo made htmlElement.media, and only while *)
(* its gate is open: setMedia pauses, clears or reloads whatever was used  *)
(* before, and so does a media that no format can play.  A browser that    *)
(* throws is excepted: a play(time) that it delays leaves waitForPlay set, *)
(* and then setMedia does not pause what plays for a media without format. *)
PlaysWhatIsSet ==
  ~strict => \A k \in Kinds : Sounding(w.el[k]) =>
    /\ w.srcSet /\ w.active
    /\ w.gate = k /\ w.node = k
    /\ w.el[k].src = w.media

(* htmlDlyCmdId is one handle for many timeouts: no timeout is ever set    *)
(* while another one is pending, or the first could no more be cleared.    *)
OneTimer == Len(w.timers) <= 1 /\ (w.held <=> w.timers # << >>)

(* A delayed command never acts on a media it was not given for.           *)
DelayedCommandIsCurrent ==
  w.srcSet => \A i \in 1..Len(w.timers) : w.timers[i].media = w.media

(* When the open element has no event left to be heard, the buttons agree  *)
(* with it, and the seek bar of an element that plays, and does not seek,  *)
(* shows no progress any more: whatever order the events came in, and      *)
(* whatever was dropped with the media before.                             *)
AtRest == w.alive /\ w.srcSet /\ ~w.waitForLoad /\ w.el[w.gate].queue = << >>
ControlsAgree ==
  LET el == w.el[w.gate] IN
  AtRest => /\ w.paused = el.paused
            /\ el.mode = "ready" /\ ~el.paused /\ ~el.seeking => ~w.busy

(* A command that had to wait is carried out, or given up, but is not      *)
(* retried for ever: the browser answers every request in the end.         *)
DelayedCommandsFinish == (w.timers # << >>) ~> (w.timers = << >>)
=============================================================================
