-------------------------- MODULE JPlayerMethods ---------------------------
(***************************************************************************)
(* One jPlayer instance with its HTML solution: each method and each event *)
(* handler as an operator from the instance to the instance it leaves.     *)
(* An argument that is not a number, zero, and a time further on are the   *)
(* times "none", "start" and "later"; throws says that the browser throws  *)
(* when the position of an element without metadata is set.                *)
(***************************************************************************)
EXTENDS MediaElement, Naturals

CONSTANTS
  Choice,     \* the element that setMedia finds for a media object, or "none"
  Webkit      \* $.jPlayer.browser.webkit

Kinds == {"audio", "video"}

ASSUME ChoiceAssumption == Choice \in [Media -> Kinds \cup {"none"}]
ASSUME FlagAssumption   == Webkit \in BOOLEAN

(* A command that waits for its timeout; media is what it was given for    *)
(* (observed).                                                             *)
Delayed == [op : {"play", "pause", "playHead"}, time : {"none", "start", "later"},
            media : Media \cup {None}]

(* gate is the element whose gate is open, node is htmlElement.media,      *)
(* busy is the class of the seek bar, timers are the timeouts that have    *)
(* not fired, in the order in which they were set, and htmlDlyCmdId holds  *)
(* the last of them if held.  status.paused is what the buttons show;      *)
(* preload says that the option of that name is not "none".                *)
Instance ==
  [active : BOOLEAN, gate : Kinds \cup {"none"}, node : Kinds \cup {"none"},
   el : [Kinds -> Element], srcSet : BOOLEAN, media : Media \cup {None},
   waitForPlay : BOOLEAN, waitForLoad : BOOLEAN, paused : BOOLEAN,
   busy : BOOLEAN, loop : BOOLEAN, timers : Seq(Delayed), held : BOOLEAN,
   preload : BOOLEAN, alive : BOOLEAN]

NewInstance ==
  [active |-> FALSE, gate |-> "none", node |-> "none",
   el |-> [k \in Kinds |-> NewElement], srcSet |-> FALSE, media |-> None,
   waitForPlay |-> TRUE, waitForLoad |-> TRUE, paused |-> TRUE,
   busy |-> FALSE, loop |-> FALSE, timers |-> << >>, held |-> FALSE,
   preload |-> TRUE, alive |-> TRUE]

-----------------------------------------------------------------------------
(* setTimeout and clearTimeout of htmlDlyCmdId.                            *)
Delay(w, op, time) ==
  [w EXCEPT !.timers = Append(@, [op |-> op, time |-> time, media |-> w.media]),
            !.held = TRUE]

(* Mutation of ClearTimer: the handle is forgotten, the timeout is not.    *)
ForgetTimer(w) == [w EXCEPT !.held = FALSE]

ClearTimer(w) ==
  IF ~w.held THEN w
  ELSE [w EXCEPT !.timers = SubSeq(@, 1, Len(@) - 1), !.held = FALSE]

ResetStatus(w) ==
  [w EXCEPT !.srcSet = FALSE, !.media = None, !.waitForPlay = TRUE,
            !.waitForLoad = TRUE, !.paused = TRUE]

-----------------------------------------------------------------------------
(* The HTML solution.                                                      *)
(* Mutation of HtmlLoad: what was delayed stays.                           *)
HtmlLoadOnly(w) ==
  IF ~w.waitForLoad THEN w
  ELSE [w EXCEPT !.waitForLoad = FALSE, !.el[w.node] = LoadElement(@, w.media)]

HtmlLoad(w) ==
  ClearTimer(IF ~w.waitForLoad THEN w
             ELSE [w EXCEPT !.waitForLoad = FALSE, !.el[w.node] = LoadElement(@, w.media)])

CheckWaitForPlay(w) == [w EXCEPT !.waitForPlay = FALSE]

HtmlPlay(w, time, throws) ==
  LET started == [HtmlLoad(w) EXCEPT !.el[w.node] = PlayElement(@)] IN
  IF time = "none" THEN CheckWaitForPlay(started)
  ELSE IF throws /\ started.el[w.node].mode # "ready" THEN Delay(started, "play", time)
  ELSE CheckWaitForPlay([started EXCEPT !.el[w.node] = SeekElement(@)])

HtmlPause(w, time, throws) ==
  LET cleared == IF time = "later" THEN HtmlLoad(w) ELSE ClearTimer(w)
      stopped == [cleared EXCEPT !.el[w.node] = PauseElement(@)]
      moved   == [stopped EXCEPT !.el[w.node] = SeekElement(@)]
  IN  IF time = "none" THEN stopped
      ELSE IF throws /\ stopped.el[w.node].mode # "ready" THEN Delay(stopped, "pause", time)
      ELSE IF time = "later" THEN CheckWaitForPlay(moved) ELSE moved

(* Mutation of HtmlPlayHead: delays a method that does not exist.          *)
HtmlPlayHeadNamed(w, throws) ==
  IF HtmlLoad(w).el[w.node].mode = "ready" THEN CheckWaitForPlay(HtmlLoad(w))
  ELSE Delay(HtmlLoad(w), "seek", "none")

(* Asks for the duration first, which is not known before the metadata.    *)
HtmlPlayHead(w, throws) ==
  LET loaded == HtmlLoad(w)
      mode   == loaded.el[w.node].mode
  IN  IF mode \in {"empty", "loading"} \/ (throws /\ mode = "failed")
        THEN Delay(loaded, "playHead", "none")
      ELSE CheckWaitForPlay([loaded EXCEPT !.el[w.node] = SeekElement(@)])

HtmlClearMedia(w) ==
  IF w.node = "none" THEN w
  ELSE [w EXCEPT !.el[w.node] = LoadElement(PauseElement(@), None)]

(* _html_setAudio, _html_setVideo and _html_initMedia                      *)
HtmlSet(w, kind, media) ==
  LET chosen == [w EXCEPT !.media = media, !.node = kind]
      quiet  == IF w.srcSet /\ ~w.waitForPlay
                  THEN [chosen EXCEPT !.el[kind] = PauseElement(@)] ELSE chosen
  IN  IF w.preload THEN HtmlLoad(quiet) ELSE quiet

-----------------------------------------------------------------------------
(* The methods.                                                            *)
ClearMedia(w) ==
  LET cleared == ClearTimer(ResetStatus(w)) IN
  IF w.active THEN HtmlClearMedia(cleared) ELSE cleared

(* Without a media these trigger an error event, which changes nothing.    *)
Load(w) == IF w.srcSet /\ w.active THEN HtmlLoad(w) ELSE w

Play(w, time, throws) == IF w.srcSet /\ w.active THEN HtmlPlay(w, time, throws) ELSE w

Pause(w, time, throws) == IF w.srcSet /\ w.active THEN HtmlPause(w, time, throws) ELSE w

Stop(w, throws) == IF w.srcSet /\ w.active THEN HtmlPause(w, "start", throws) ELSE w

PlayHead(w, throws) == IF w.srcSet /\ w.active THEN HtmlPlayHead(w, throws) ELSE w

(* Mutation of Switched: the element of the other kind plays on.           *)
SwitchedAloud(w, kind) ==
  LET open == [w EXCEPT !.gate = kind] IN
  IF w.gate = kind THEN ClearMedia(open)
  ELSE IF w.gate # "none" THEN ResetStatus(open)
  ELSE open

(* The element that was used before the gates were set for kind.           *)
Switched(w, kind) ==
  LET open == [w EXCEPT !.gate = kind] IN
  IF w.gate = kind THEN ClearMedia(open)
  ELSE IF w.gate # "none" THEN ResetStatus(HtmlPause(open, "none", FALSE))
  ELSE open

(* No format of the media can be played.                                   *)
Unsupported(w) ==
  LET quiet == IF w.srcSet /\ ~w.waitForPlay THEN Pause(w, "none", FALSE) ELSE w IN
  ResetStatus([quiet EXCEPT !.gate = "none", !.active = FALSE])

SetMedia(w, media) ==
  LET idle == ClearTimer([w EXCEPT !.busy = FALSE])
      kind == Choice[media]
      set  == HtmlSet(Switched(idle, kind), kind, media)
  IN  IF kind = "none" THEN Unsupported(idle)
      ELSE [set EXCEPT !.active = TRUE, !.srcSet = TRUE, !.media = media, !.paused = TRUE]

(* status is reset before it is asked for srcSet: pause is never called.   *)
(* What is taken out of the document stops, and its data is gone.          *)
Destroy(w) ==
  LET reset == [ResetStatus(w) EXCEPT !.busy = FALSE]
      quiet == IF reset.srcSet THEN Pause(reset, "none", FALSE) ELSE reset
  IN  [quiet EXCEPT !.alive = FALSE, !.loop = FALSE,
                    !.el = [k \in Kinds |-> PauseElement(@[k])]]

(* The timeout at position i fires.                                        *)
Fire(w, i, throws) ==
  LET c    == w.timers[i]
      last == i = Len(w.timers)
      rest == [w EXCEPT !.timers = SubSeq(@, 1, i - 1) \o SubSeq(@, i + 1, Len(@)),
                        !.held = @ /\ ~last]
  IN  CASE c.op = "play"     -> Play(rest, c.time, throws)
        [] c.op = "pause"    -> Pause(rest, c.time, throws)
        [] c.op = "playHead" -> PlayHead(rest, throws)

-----------------------------------------------------------------------------
(* The listeners of the elements.  Events are heard by jPlayer, and        *)
(* triggered again on its own element, when this is so:                    *)
Heard(w, kind) == w.gate = kind /\ ~w.waitForLoad

OnEnded(w) ==
  LET rewound == IF Webkit THEN w ELSE [w EXCEPT !.el[w.node] = SeekElement(@)]
  IN  [rewound EXCEPT !.el[w.node] = PauseElement(@), !.paused = TRUE]

(* Mutation of OnError: the delayed command is not given up.               *)
OnErrorAgain(w) ==
  LET shown == [w EXCEPT !.paused = TRUE, !.busy = FALSE] IN
  IF ~w.srcSet THEN shown ELSE [shown EXCEPT !.waitForLoad = TRUE, !.waitForPlay = TRUE]

OnError(w) ==
  LET shown == [w EXCEPT !.paused = TRUE, !.busy = FALSE] IN
  IF ~w.srcSet THEN shown
  ELSE [ClearTimer(shown) EXCEPT !.waitForLoad = TRUE, !.waitForPlay = TRUE]

(* Mutation of Paused: the pause event leaves the buttons alone.           *)
PausedKept(w, event) == IF event \in {"play", "playing"} THEN FALSE ELSE w.paused

(* What the buttons and the seek bar show after an event.                  *)
Paused(w, event) ==
  CASE event \in {"play", "playing"} -> FALSE
    [] event = "pause"               -> TRUE
    [] OTHER                         -> w.paused
Busy(w, event) ==
  CASE event \in {"waiting", "seeking"}           -> TRUE
    [] event \in {"playing", "seeked", "suspend"} -> FALSE
    [] OTHER                                      -> w.busy

OnEvent(w, event) ==
  CASE event = "ended" -> OnEnded(w)
    [] event = "error" -> OnError(w)
    [] OTHER -> [w EXCEPT !.paused = Paused(w, event), !.busy = Busy(w, event)]

(* The default handler of jPlayer's repeat event, bound to ended.          *)
Repeat(w, event) == IF event = "ended" /\ w.loop THEN Play(w, "none", FALSE) ELSE w

(* The first event of an element: the widget without it, handled.          *)
Taken(w, kind) == [w EXCEPT !.el[kind].queue = Tail(@)]
Handled(w, kind) ==
  LET event == Head(w.el[kind].queue) IN
  IF Heard(w, kind) THEN OnEvent(Taken(w, kind), event) ELSE Taken(w, kind)
=============================================================================
