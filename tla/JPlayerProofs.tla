--------------------------- MODULE JPlayerProofs ---------------------------
(***************************************************************************)
(* Types, delayed commands, sound and controls of JPlayer, proved for any  *)
(* media, any choice of elements, any browser and any number of calls.     *)
(*                                                                         *)
(* The invariants, Good and then Sound and Controlled, are those of the    *)
(* instance w alone: each method and each listener is shown to keep them,  *)
(* whatever its arguments are.                                             *)
(***************************************************************************)
EXTENDS JPlayer, SequenceTheorems, TLAPS

Times == {"none", "start", "later"}
Ops   == {"play", "pause", "playHead"}

(* At most one timeout is pending, its handle is held, and it was set for  *)
(* the media that is set.                                                  *)
Good(v) ==
  /\ v \in Instance
  /\ v.timers = << >> \/ Len(v.timers) = 1
  /\ v.held <=> v.timers # << >>
  /\ v.srcSet => \A i \in 1..Len(v.timers) : v.timers[i].media = v.media

Undelayed(v) == v.timers = << >>

(* What Good looks at besides the types.                                   *)
SameTimers(v, u) ==
  /\ u.timers = v.timers /\ u.held = v.held
  /\ u.srcSet = v.srcSet /\ u.media = v.media

-----------------------------------------------------------------------------
(* The elements.                                                           *)
LEMMA FewEvents == <<"playing">> \in Seq(Events) /\ <<"suspend">> \in Seq(Events)
                   /\ << >> \in Seq(Events)
BY DEF Events

LEMMA NewElementType == NewElement \in Element
BY FewEvents DEF NewElement, Element

LEMMA Enqueue ==
  ASSUME NEW el \in Element, NEW q, q \in Seq(Events)
  PROVE  el.queue \o q \in Seq(Events)
BY ConcatProperties DEF Element

LEMMA EnqueueOne ==
  ASSUME NEW el \in Element, NEW e \in Events
  PROVE  Append(el.queue, e) \in Seq(Events)
BY AppendProperties DEF Element

LEMMA LoadElementType ==
  ASSUME NEW el, NEW url \in Media \cup {None}
  PROVE  LoadElement(el, url) \in Element
BY NewElementType, FewEvents DEF LoadElement, NewElement, Element

LEMMA PauseElementType ==
  ASSUME NEW el \in Element
  PROVE  PauseElement(el) \in Element
<1>1. Append(el.queue, "pause") \in Seq(Events)
  BY EnqueueOne DEF Events
<1> QED
  BY <1>1 DEF PauseElement, Element

LEMMA SeekElementType ==
  ASSUME NEW el \in Element
  PROVE  SeekElement(el) \in Element
<1>1. Append(el.queue, "seeking") \in Seq(Events)
  BY EnqueueOne DEF Events
<1> QED
  BY <1>1 DEF SeekElement, Element

LEMMA PlayElementType ==
  ASSUME NEW el \in Element
  PROVE  PlayElement(el) \in Element
<1> DEFINE started == IF el.ended THEN [el EXCEPT !.ended = FALSE, !.seeking = TRUE,
                                                  !.queue = Append(@, "seeking")]
                                  ELSE el
           heard == <<"play", IF el.mode = "ready" THEN "playing" ELSE "waiting">>
<1>1. started \in Element
  <2>1. Append(el.queue, "seeking") \in Seq(Events)
    BY EnqueueOne DEF Events
  <2> QED
    BY <2>1 DEF Element
<1>2. heard \in Seq(Events)
  BY DEF Events
<1> HIDE DEF started, heard
<1>3. started.queue \o heard \in Seq(Events)
  BY <1>1, <1>2, Enqueue
<1>4. [started EXCEPT !.paused = FALSE, !.queue = @ \o heard] \in Element
  BY <1>1, <1>3 DEF Element
<1> QED
  BY <1>1, <1>4 DEF PlayElement, started, heard

LEMMA BrowserKeepsElements ==
  ASSUME NEW el \in Element
  PROVE  /\ \A q \in {<< >>, <<"suspend">>} : Fetched(el, q) \in Element
         /\ Failed(el) \in Element
         /\ \A pausing \in BOOLEAN : Ended(el, pausing) \in Element
         /\ Arrived(el) \in Element
<1>1. ASSUME NEW q \in {<< >>, <<"suspend">>}
      PROVE  Fetched(el, q) \in Element
  <2> DEFINE p == IF el.paused THEN << >> ELSE <<"playing">>
  <2>1. p \in Seq(Events) /\ q \in Seq(Events)
    BY FewEvents
  <2> HIDE DEF p
  <2>2. el.queue \o p \in Seq(Events)
    BY <2>1, Enqueue
  <2>3. el.queue \o p \o q \in Seq(Events)
    BY <2>1, <2>2, ConcatProperties
  <2> QED
    BY <2>3 DEF Fetched, Element, p
<1>2. Failed(el) \in Element
  <2>1. Append(el.queue, "error") \in Seq(Events)
    BY EnqueueOne DEF Events
  <2> QED
    BY <2>1 DEF Failed, Element
<1>3. ASSUME NEW pausing \in BOOLEAN
      PROVE  Ended(el, pausing) \in Element
  <2> DEFINE q == IF pausing THEN <<"pause", "ended">> ELSE <<"ended">>
  <2>1. q \in Seq(Events)
    BY DEF Events
  <2> HIDE DEF q
  <2>2. el.queue \o q \in Seq(Events)
    BY <2>1, Enqueue
  <2> QED
    BY <2>2 DEF Ended, Element, q
<1>4. Arrived(el) \in Element
  <2>1. Append(el.queue, "seeked") \in Seq(Events)
    BY EnqueueOne DEF Events
  <2> QED
    BY <2>1 DEF Arrived, Element
<1> QED
  BY <1>1, <1>2, <1>3, <1>4
-----------------------------------------------------------------------------
(* Changes of a few fields.                                                *)
LEMMA PutElement ==
  ASSUME NEW v \in Instance, NEW k, NEW e, k \in Kinds => e \in Element
  PROVE  /\ [v EXCEPT !.el[k] = e] \in Instance
         /\ SameTimers(v, [v EXCEPT !.el[k] = e])
<1>1. v.el \in [Kinds -> Element]
  BY DEF Instance
<1>2. [v.el EXCEPT ![k] = e] \in [Kinds -> Element]
  BY <1>1
<1> DEFINE f == [v.el EXCEPT ![k] = e]
<1> HIDE DEF f
<1>3. [v EXCEPT !.el = f] \in Instance /\ SameTimers(v, [v EXCEPT !.el = f])
  BY <1>2 DEF Instance, SameTimers, f
<1> QED
  BY <1>3 DEF f

LEMMA SameIsGood ==
  ASSUME NEW v, NEW u \in Instance, Good(v), SameTimers(v, u)
  PROVE  Good(u)
BY DEF Good, SameTimers

LEMMA UndelayedIsGood ==
  ASSUME NEW v \in Instance, Undelayed(v), ~v.held
  PROVE  Good(v)
BY DEF Good, Undelayed

LEMMA ClearTimerGood ==
  ASSUME NEW v, Good(v)
  PROVE  /\ Good(ClearTimer(v)) /\ Undelayed(ClearTimer(v))
         /\ ClearTimer(v).srcSet = v.srcSet /\ ClearTimer(v).media = v.media
<1>1. CASE ~v.held
  BY <1>1 DEF ClearTimer, Good, Undelayed
<1>2. CASE v.held
  <2>1. v \in Instance /\ Len(v.timers) = 1
    BY <1>2 DEF Good
  <2>3. SubSeq(v.timers, 1, Len(v.timers) - 1) = << >>
    BY <2>1
  <2>4. ClearTimer(v) = [v EXCEPT !.timers = << >>, !.held = FALSE]
    BY <1>2, <2>3 DEF ClearTimer
  <2>5. << >> \in Seq(Delayed)
    OBVIOUS
  <2>6. ClearTimer(v) \in Instance
    BY <2>1, <2>4, <2>5 DEF Instance
  <2>7. Undelayed(ClearTimer(v)) /\ ~ClearTimer(v).held
        /\ ClearTimer(v).srcSet = v.srcSet /\ ClearTimer(v).media = v.media
    BY <2>1, <2>4 DEF Instance, Undelayed
  <2> QED
    BY <2>6, <2>7, UndelayedIsGood
<1> QED
  BY <1>1, <1>2

LEMMA DelayGood ==
  ASSUME NEW v, Good(v), Undelayed(v), NEW op \in Ops, NEW t \in Times
  PROVE  Good(Delay(v, op, t))
<1> DEFINE c == [op |-> op, time |-> t, media |-> v.media]
           s == Append(v.timers, c)
<1>1. v \in Instance /\ v.timers = << >> /\ v.timers \in Seq(Delayed)
  BY DEF Good, Undelayed, Instance
<1>2. c \in Delayed /\ c.media = v.media
  BY <1>1 DEF Delayed, Instance, Ops, Times
<1> HIDE DEF c
<1>3. s \in Seq(Delayed) /\ Len(s) = 1 /\ s[1] = c /\ s # << >>
  BY <1>1, <1>2, AppendProperties
<1> HIDE DEF s
<1>4. Delay(v, op, t) = [v EXCEPT !.timers = s, !.held = TRUE]
  BY DEF Delay, s, c
<1>5. Delay(v, op, t) \in Instance
  BY <1>1, <1>3, <1>4 DEF Instance
<1>6. /\ Delay(v, op, t).timers = s /\ Delay(v, op, t).held
      /\ Delay(v, op, t).media = v.media
  BY <1>1, <1>4 DEF Instance
<1>7. \A i \in 1..Len(s) : s[i].media = v.media
  BY <1>2, <1>3
<1> DEFINE u == Delay(v, op, t)
<1> HIDE DEF u
<1>8. u \in Instance /\ u.timers = s /\ u.held /\ u.media = v.media
  BY <1>5, <1>6 DEF u
<1>9. Good(u)
  BY <1>3, <1>7, <1>8 DEF Good
<1> QED
  BY <1>9 DEF u

LEMMA ResetStatusGood ==
  ASSUME NEW v, Good(v)
  PROVE  /\ Good(ResetStatus(v)) /\ ~ResetStatus(v).srcSet
         /\ Undelayed(v) => Undelayed(ResetStatus(v))
<1>1. v \in Instance
  BY DEF Good
<1>2. ResetStatus(v) \in Instance
  BY <1>1 DEF ResetStatus, Instance
<1>3. ~ResetStatus(v).srcSet /\ ResetStatus(v).timers = v.timers
      /\ ResetStatus(v).held = v.held
  BY <1>1 DEF ResetStatus, Instance
<1> QED
  BY <1>2, <1>3 DEF Good, Undelayed

LEMMA CheckWaitForPlayGood ==
  ASSUME NEW v, Good(v)
  PROVE  Good(CheckWaitForPlay(v)) /\ SameTimers(v, CheckWaitForPlay(v))
<1>1. v \in Instance
  BY DEF Good
<1>2. CheckWaitForPlay(v) \in Instance /\ SameTimers(v, CheckWaitForPlay(v))
  BY <1>1 DEF CheckWaitForPlay, Instance, SameTimers
<1> QED
  BY <1>2, SameIsGood

-----------------------------------------------------------------------------
(* The HTML solution.                                                      *)
LEMMA HtmlLoadGood ==
  ASSUME NEW v, Good(v)
  PROVE  /\ Good(HtmlLoad(v)) /\ Undelayed(HtmlLoad(v))
         /\ HtmlLoad(v).srcSet = v.srcSet /\ HtmlLoad(v).media = v.media
<1>1. CASE ~v.waitForLoad
  BY <1>1, ClearTimerGood DEF HtmlLoad
<1>2. CASE v.waitForLoad
  <2> DEFINE e == LoadElement(v.el[v.node], v.media)
             a == [v EXCEPT !.waitForLoad = FALSE]
             b == [a EXCEPT !.el[v.node] = e]
  <2>1. v \in Instance /\ e \in Element
    BY LoadElementType DEF Good, Instance
  <2>2. a \in Instance /\ SameTimers(v, a)
    BY <2>1 DEF Instance, SameTimers
  <2>3. b = [v EXCEPT !.waitForLoad = FALSE, !.el[v.node] = LoadElement(@, v.media)]
    BY <2>1 DEF Instance
  <2> HIDE DEF e, a
  <2>4. b \in Instance /\ SameTimers(a, b)
    BY <2>1, <2>2, PutElement
  <2> HIDE DEF b
  <2>5. Good(b) /\ b.srcSet = v.srcSet /\ b.media = v.media
    BY <2>2, <2>4, SameIsGood DEF SameTimers
  <2>6. HtmlLoad(v) = ClearTimer(b)
    BY <1>2, <2>3 DEF HtmlLoad
  <2> QED
    BY <2>5, <2>6, ClearTimerGood
<1> QED
  BY <1>1, <1>2

LEMMA PauseAtGood ==
  ASSUME NEW v, Good(v), NEW k \in Kinds \cup {"none"}
  PROVE  /\ Good([v EXCEPT !.el[k] = PauseElement(@)])
         /\ SameTimers(v, [v EXCEPT !.el[k] = PauseElement(@)])
<1> DEFINE e == PauseElement(v.el[k])
<1>1. v \in Instance /\ (k \in Kinds => e \in Element)
  BY PauseElementType DEF Good, Instance
<1> HIDE DEF e
<1>2. [v EXCEPT !.el[k] = e] \in Instance /\ SameTimers(v, [v EXCEPT !.el[k] = e])
  BY <1>1, PutElement
<1> QED
  BY <1>2, SameIsGood DEF e

LEMMA SeekAtGood ==
  ASSUME NEW v, Good(v), NEW k \in Kinds \cup {"none"}
  PROVE  /\ Good([v EXCEPT !.el[k] = SeekElement(@)])
         /\ SameTimers(v, [v EXCEPT !.el[k] = SeekElement(@)])
<1> DEFINE e == SeekElement(v.el[k])
<1>1. v \in Instance /\ (k \in Kinds => e \in Element)
  BY SeekElementType DEF Good, Instance
<1> HIDE DEF e
<1>2. [v EXCEPT !.el[k] = e] \in Instance /\ SameTimers(v, [v EXCEPT !.el[k] = e])
  BY <1>1, PutElement
<1> QED
  BY <1>2, SameIsGood DEF e

LEMMA PlayAtGood ==
  ASSUME NEW v, Good(v), NEW k \in Kinds \cup {"none"}
  PROVE  /\ Good([v EXCEPT !.el[k] = PlayElement(@)])
         /\ SameTimers(v, [v EXCEPT !.el[k] = PlayElement(@)])
<1> DEFINE e == PlayElement(v.el[k])
<1>1. v \in Instance /\ (k \in Kinds => e \in Element)
  BY PlayElementType DEF Good, Instance
<1> HIDE DEF e
<1>2. [v EXCEPT !.el[k] = e] \in Instance /\ SameTimers(v, [v EXCEPT !.el[k] = e])
  BY <1>1, PutElement
<1> QED
  BY <1>2, SameIsGood DEF e

LEMMA HtmlPlayGood ==
  ASSUME NEW v, Good(v), NEW t \in Times, NEW throws
  PROVE  /\ Good(HtmlPlay(v, t, throws))
         /\ t = "none" => Undelayed(HtmlPlay(v, t, throws))
<1> DEFINE loaded  == HtmlLoad(v)
           started == [loaded EXCEPT !.el[v.node] = PlayElement(@)]
           moved   == [started EXCEPT !.el[v.node] = SeekElement(@)]
<1>1. Good(loaded) /\ Undelayed(loaded) /\ v.node \in Kinds \cup {"none"}
  BY HtmlLoadGood DEF Good, Instance
<1> HIDE DEF loaded
<1>2. Good(started) /\ Undelayed(started)
  BY <1>1, PlayAtGood DEF SameTimers, Undelayed
<1> HIDE DEF started
<1>3. Good(moved)
  BY <1>1, <1>2, SeekAtGood
<1> HIDE DEF moved
<1>4. Good(CheckWaitForPlay(started)) /\ Undelayed(CheckWaitForPlay(started))
      /\ Good(CheckWaitForPlay(moved)) /\ Good(Delay(started, "play", t))
  BY <1>2, <1>3, CheckWaitForPlayGood, DelayGood DEF SameTimers, Undelayed, Ops
<1> QED
  BY <1>4 DEF HtmlPlay, loaded, started, moved

LEMMA HtmlPauseGood ==
  ASSUME NEW v, Good(v), NEW t \in Times, NEW throws
  PROVE  /\ Good(HtmlPause(v, t, throws))
         /\ t = "none" => Undelayed(HtmlPause(v, t, throws))
<1> DEFINE cleared == IF t = "later" THEN HtmlLoad(v) ELSE ClearTimer(v)
           stopped == [cleared EXCEPT !.el[v.node] = PauseElement(@)]
           moved   == [stopped EXCEPT !.el[v.node] = SeekElement(@)]
<1>1. Good(cleared) /\ Undelayed(cleared) /\ v.node \in Kinds \cup {"none"}
  BY HtmlLoadGood, ClearTimerGood DEF Good, Instance
<1> HIDE DEF cleared
<1>2. Good(stopped) /\ Undelayed(stopped)
  BY <1>1, PauseAtGood DEF SameTimers, Undelayed
<1> HIDE DEF stopped
<1>3. Good(moved)
  BY <1>1, <1>2, SeekAtGood
<1> HIDE DEF moved
<1>4. Good(CheckWaitForPlay(moved)) /\ Good(Delay(stopped, "pause", t))
  BY <1>2, <1>3, CheckWaitForPlayGood, DelayGood DEF Ops
<1> QED
  BY <1>2, <1>3, <1>4 DEF HtmlPause, cleared, stopped, moved

LEMMA HtmlPlayHeadGood ==
  ASSUME NEW v, Good(v), NEW throws
  PROVE  Good(HtmlPlayHead(v, throws))
<1> DEFINE loaded == HtmlLoad(v)
           moved  == [loaded EXCEPT !.el[v.node] = SeekElement(@)]
<1>1. Good(loaded) /\ Undelayed(loaded) /\ v.node \in Kinds \cup {"none"}
  BY HtmlLoadGood DEF Good, Instance
<1> HIDE DEF loaded
<1>2. Good(moved)
  BY <1>1, SeekAtGood
<1> HIDE DEF moved
<1>3. Good(CheckWaitForPlay(moved)) /\ Good(Delay(loaded, "playHead", "none"))
  BY <1>1, <1>2, CheckWaitForPlayGood, DelayGood DEF Ops, Times
<1> QED
  BY <1>3 DEF HtmlPlayHead, loaded, moved

-----------------------------------------------------------------------------
(* The methods.                                                            *)
LEMMA LoadGood ==
  ASSUME NEW v, Good(v)
  PROVE  Good(Load(v))
BY HtmlLoadGood DEF Load

LEMMA PlayGood ==
  ASSUME NEW v, Good(v), NEW t \in Times, NEW throws
  PROVE  Good(Play(v, t, throws))
BY HtmlPlayGood DEF Play

LEMMA PauseGood ==
  ASSUME NEW v, Good(v), NEW t \in Times, NEW throws
  PROVE  /\ Good(Pause(v, t, throws))
         /\ t = "none" /\ Undelayed(v) => Undelayed(Pause(v, t, throws))
BY HtmlPauseGood DEF Pause

LEMMA StopGood ==
  ASSUME NEW v, Good(v), NEW throws
  PROVE  Good(Stop(v, throws))
BY HtmlPauseGood DEF Stop, Times

LEMMA PlayHeadGood ==
  ASSUME NEW v, Good(v), NEW throws
  PROVE  Good(PlayHead(v, throws))
BY HtmlPlayHeadGood DEF PlayHead

LEMMA ClearMediaGood ==
  ASSUME NEW v, Good(v)
  PROVE  Good(ClearMedia(v)) /\ Undelayed(ClearMedia(v)) /\ ~ClearMedia(v).srcSet
<1> DEFINE cleared == ClearTimer(ResetStatus(v))
           e == LoadElement(PauseElement(cleared.el[cleared.node]), None)
           emptied == [cleared EXCEPT !.el[cleared.node] = e]
<1>1. Good(cleared) /\ Undelayed(cleared) /\ ~cleared.srcSet
  BY ResetStatusGood, ClearTimerGood
<1> HIDE DEF cleared
<1>2. e \in Element /\ cleared \in Instance
  BY <1>1, LoadElementType DEF Good
<1>3. HtmlClearMedia(cleared) = IF cleared.node = "none" THEN cleared ELSE emptied
  BY DEF HtmlClearMedia
<1> HIDE DEF e
<1>4. emptied \in Instance /\ SameTimers(cleared, emptied)
  BY <1>2, PutElement
<1> HIDE DEF emptied
<1>5. Good(emptied) /\ Undelayed(emptied) /\ ~emptied.srcSet
  BY <1>1, <1>4, SameIsGood DEF SameTimers, Undelayed
<1> QED
  BY <1>1, <1>3, <1>5 DEF ClearMedia, cleared

(* Without a timeout a media may change without one being out of date.     *)
LEMMA SwitchedGood ==
  ASSUME NEW v, Good(v), Undelayed(v), NEW kind \in Kinds
  PROVE  Good(Switched(v, kind)) /\ Undelayed(Switched(v, kind))
<1> DEFINE open == [v EXCEPT !.gate = kind]
<1>1. v \in Instance
  BY DEF Good
<1>2. open \in Instance /\ SameTimers(v, open)
  BY <1>1 DEF Instance, SameTimers
<1> HIDE DEF open
<1>3. Good(open) /\ Undelayed(open)
  BY <1>2, SameIsGood DEF SameTimers, Undelayed
<1>4. Good(ClearMedia(open)) /\ Undelayed(ClearMedia(open))
  BY <1>3, ClearMediaGood
<1>5. Good(HtmlPause(open, "none", FALSE)) /\ Undelayed(HtmlPause(open, "none", FALSE))
  BY <1>3, HtmlPauseGood DEF Times
<1>6. /\ Good(ResetStatus(HtmlPause(open, "none", FALSE)))
      /\ Undelayed(ResetStatus(HtmlPause(open, "none", FALSE)))
  BY <1>5, ResetStatusGood
<1> QED
  BY <1>3, <1>4, <1>6 DEF Switched, open

LEMMA HtmlSetGood ==
  ASSUME NEW v, Good(v), Undelayed(v), NEW kind \in Kinds, NEW media \in Media
  PROVE  Good(HtmlSet(v, kind, media)) /\ Undelayed(HtmlSet(v, kind, media))
<1> DEFINE chosen == [v EXCEPT !.media = media, !.node = kind]
           paused == [chosen EXCEPT !.el[kind] = PauseElement(@)]
<1>1. v \in Instance /\ ~v.held
  BY DEF Good, Undelayed
<1>2. chosen \in Instance /\ Undelayed(chosen) /\ ~chosen.held
  BY <1>1 DEF Instance, Undelayed
<1> HIDE DEF chosen
<1>3. Good(chosen)
  BY <1>2, UndelayedIsGood
<1>4. Good(paused) /\ Undelayed(paused)
  BY <1>2, <1>3, PauseAtGood DEF SameTimers, Undelayed
<1> HIDE DEF paused
<1>5. /\ Good(HtmlLoad(chosen)) /\ Undelayed(HtmlLoad(chosen))
      /\ Good(HtmlLoad(paused)) /\ Undelayed(HtmlLoad(paused))
  BY <1>3, <1>4, HtmlLoadGood
<1> QED
  BY <1>2, <1>3, <1>4, <1>5 DEF HtmlSet, chosen, paused

LEMMA UnsupportedGood ==
  ASSUME NEW v, Good(v), Undelayed(v)
  PROVE  Good(Unsupported(v))
<1> DEFINE quiet == IF v.srcSet /\ ~v.waitForPlay THEN Pause(v, "none", FALSE) ELSE v
           shut  == [quiet EXCEPT !.gate = "none", !.active = FALSE]
<1>1. Good(quiet)
  BY PauseGood DEF Times
<1> HIDE DEF quiet
<1>2. quiet \in Instance
  BY <1>1 DEF Good
<1>3. shut \in Instance /\ SameTimers(quiet, shut)
  BY <1>2 DEF Instance, SameTimers
<1> HIDE DEF shut
<1>4. Good(shut)
  BY <1>1, <1>3, SameIsGood
<1> QED
  BY <1>4, ResetStatusGood DEF Unsupported, shut, quiet

LEMMA SetMediaGood ==
  ASSUME NEW v, Good(v), NEW media \in Media
  PROVE  Good(SetMedia(v, media))
<1> DEFINE still == [v EXCEPT !.busy = FALSE]
           idle  == ClearTimer(still)
           kind  == Choice[media]
           set   == HtmlSet(Switched(idle, kind), kind, media)
           done  == [set EXCEPT !.active = TRUE, !.srcSet = TRUE, !.media = media,
                                !.paused = TRUE]
<1>1. v \in Instance
  BY DEF Good
<1>2. still \in Instance /\ SameTimers(v, still)
  BY <1>1 DEF Instance, SameTimers
<1> HIDE DEF still
<1>3. Good(idle) /\ Undelayed(idle)
  BY <1>2, SameIsGood, ClearTimerGood
<1> HIDE DEF idle
<1>4. kind \in Kinds \cup {"none"}
  BY ChoiceAssumption
<1> HIDE DEF kind
<1>5. CASE kind = "none"
  <2>1. SetMedia(v, media) = Unsupported(idle)
    BY <1>5 DEF SetMedia, idle, still, kind
  <2> QED
    BY <1>3, <2>1, UnsupportedGood
<1>6. CASE kind # "none"
  <2>1. Good(set) /\ Undelayed(set)
    BY <1>3, <1>4, <1>6, SwitchedGood, HtmlSetGood
  <2>2. SetMedia(v, media) = done
    BY <1>6 DEF SetMedia, idle, still, kind
  <2> HIDE DEF set
  <2>3. set \in Instance /\ ~set.held
    BY <2>1 DEF Good, Undelayed
  <2>4. done \in Instance /\ Undelayed(done) /\ ~done.held
    BY <2>1, <2>3 DEF Instance, Undelayed
  <2> HIDE DEF done
  <2> QED
    BY <2>2, <2>4, UndelayedIsGood
<1> QED
  BY <1>5, <1>6

LEMMA DestroyGood ==
  ASSUME NEW v, Good(v)
  PROVE  Good(Destroy(v))
<1> DEFINE reset == [ResetStatus(v) EXCEPT !.busy = FALSE]
           still == [k \in Kinds |-> PauseElement(reset.el[k])]
           gone  == [reset EXCEPT !.alive = FALSE, !.loop = FALSE, !.el = still]
<1>1. Good(ResetStatus(v)) /\ ~ResetStatus(v).srcSet /\ ResetStatus(v) \in Instance
  BY ResetStatusGood DEF Good
<1>2. reset \in Instance /\ SameTimers(ResetStatus(v), reset)
  BY <1>1 DEF Instance, SameTimers
<1>3. Good(reset) /\ ~reset.srcSet
  BY <1>1, <1>2, SameIsGood DEF SameTimers
<1> HIDE DEF reset
<1>4. still \in [Kinds -> Element]
  BY <1>2, PauseElementType DEF Instance
<1>5. Destroy(v) = gone
  BY <1>3 DEF Destroy, reset
<1> HIDE DEF still
<1>6. gone \in Instance /\ SameTimers(reset, gone)
  BY <1>2, <1>4 DEF Instance, SameTimers
<1> QED
  BY <1>3, <1>5, <1>6, SameIsGood

(* The timeout at i is the only one.                                       *)
LEMMA RestGood ==
  ASSUME NEW v, Good(v), NEW i \in 1..Len(v.timers)
  PROVE  Good([v EXCEPT !.timers = SubSeq(@, 1, i - 1) \o SubSeq(@, i + 1, Len(@)),
                        !.held = @ /\ ~(i = Len(v.timers))])
<1> DEFINE rest == [v EXCEPT !.timers = << >>, !.held = FALSE]
<1>1. v \in Instance /\ Len(v.timers) = 1 /\ i = 1
  <2>1. v \in Instance
    BY DEF Good
  <2>2. Len(<< >>) = 0
    OBVIOUS
  <2>3. Len(v.timers) = 1
    BY <2>2 DEF Good
  <2> QED
    BY <2>1, <2>3
<1>2. SubSeq(v.timers, 1, i - 1) \o SubSeq(v.timers, i + 1, Len(v.timers)) = << >>
  BY <1>1
<1>3. rest = [v EXCEPT !.timers = SubSeq(@, 1, i - 1) \o SubSeq(@, i + 1, Len(@)),
                       !.held = @ /\ ~(i = Len(v.timers))]
  BY <1>1, <1>2
<1>4. rest \in Instance /\ Undelayed(rest) /\ ~rest.held
  <2>1. v \in Instance /\ << >> \in Seq(Delayed)
    BY <1>1
  <2> QED
    BY <2>1 DEF Instance, Undelayed
<1> HIDE DEF rest
<1>5. Good(rest)
  BY <1>4, UndelayedIsGood
<1> QED
  BY <1>3, <1>5

LEMMA FireGood ==
  ASSUME NEW v, Good(v), NEW i \in 1..Len(v.timers), NEW throws
  PROVE  Good(Fire(v, i, throws))
<1> DEFINE c == v.timers[i]
           rest == [v EXCEPT !.timers = SubSeq(@, 1, i - 1) \o SubSeq(@, i + 1, Len(@)),
                             !.held = @ /\ ~(i = Len(v.timers))]
<1>1. Good(rest)
  BY RestGood
<1>2. c \in Delayed
  BY DEF Good, Instance
<1>3. Fire(v, i, throws) = CASE c.op = "play"     -> Play(rest, c.time, throws)
                             [] c.op = "pause"    -> Pause(rest, c.time, throws)
                             [] c.op = "playHead" -> PlayHead(rest, throws)
  BY DEF Fire
<1>4. c.op \in Ops /\ c.time \in Times
  BY <1>2 DEF Delayed, Ops, Times
<1> HIDE DEF rest, c
<1>5. /\ Good(Play(rest, c.time, throws)) /\ Good(Pause(rest, c.time, throws))
      /\ Good(PlayHead(rest, throws))
  BY <1>1, <1>4, PlayGood, PauseGood, PlayHeadGood
<1> QED
  BY <1>3, <1>4, <1>5 DEF Ops

-----------------------------------------------------------------------------
(* The listeners.                                                          *)
LEMMA TakenGood ==
  ASSUME NEW v, Good(v), NEW k \in Kinds, v.el[k].queue # << >>
  PROVE  Good(Taken(v, k)) /\ Head(v.el[k].queue) \in Events
<1> DEFINE e == [v.el[k] EXCEPT !.queue = Tail(@)]
<1>1. v \in Instance /\ v.el[k] \in Element /\ v.el[k].queue \in Seq(Events)
  BY DEF Good, Instance, Element
<1>2. Tail(v.el[k].queue) \in Seq(Events) /\ Head(v.el[k].queue) \in Events
  BY <1>1, HeadTailProperties
<1>3. e \in Element
  BY <1>1, <1>2 DEF Element
<1>4. Taken(v, k) = [v EXCEPT !.el[k] = e]
  BY DEF Taken
<1> HIDE DEF e
<1> DEFINE u == [v EXCEPT !.el[k] = e]
<1>5. u \in Instance /\ SameTimers(v, u)
  BY <1>1, <1>3, PutElement
<1> HIDE DEF u
<1>6. Taken(v, k) \in Instance /\ SameTimers(v, Taken(v, k))
  BY <1>4, <1>5 DEF u
<1> QED
  BY <1>2, <1>6, SameIsGood

LEMMA OnEndedGood ==
  ASSUME NEW v, Good(v)
  PROVE  Good(OnEnded(v))
<1> DEFINE rewound == IF Webkit THEN v ELSE [v EXCEPT !.el[v.node] = SeekElement(@)]
           stopped == [rewound EXCEPT !.el[v.node] = PauseElement(@)]
           shown   == [stopped EXCEPT !.paused = TRUE]
<1>1. v.node \in Kinds \cup {"none"}
  BY DEF Good, Instance
<1>2. Good(rewound) /\ rewound.node = v.node
  BY <1>1, SeekAtGood DEF Good, Instance
<1>3. OnEnded(v) = shown
  BY <1>2 DEF OnEnded, Good, Instance
<1> HIDE DEF rewound
<1>4. Good(stopped)
  BY <1>1, <1>2, PauseAtGood
<1> HIDE DEF stopped
<1>5. shown \in Instance /\ SameTimers(stopped, shown)
  BY <1>4 DEF Good, Instance, SameTimers
<1> QED
  BY <1>3, <1>4, <1>5, SameIsGood

LEMMA OnErrorGood ==
  ASSUME NEW v, Good(v)
  PROVE  Good(OnError(v))
<1> DEFINE shown   == [v EXCEPT !.paused = TRUE, !.busy = FALSE]
           cleared == ClearTimer(shown)
           waiting == [cleared EXCEPT !.waitForLoad = TRUE, !.waitForPlay = TRUE]
<1>1. shown \in Instance /\ SameTimers(v, shown)
  BY DEF Good, Instance, SameTimers
<1>2. Good(shown)
  BY <1>1, SameIsGood
<1> HIDE DEF shown
<1>3. Good(cleared)
  BY <1>2, ClearTimerGood
<1> HIDE DEF cleared
<1>4. waiting \in Instance /\ SameTimers(cleared, waiting)
  BY <1>3 DEF Good, Instance, SameTimers
<1>5. Good(waiting)
  BY <1>3, <1>4, SameIsGood
<1> QED
  BY <1>2, <1>5 DEF OnError, shown, cleared

LEMMA HandledGood ==
  ASSUME NEW v, Good(v), NEW k \in Kinds, v.el[k].queue # << >>
  PROVE  Good(Handled(v, k))
<1> DEFINE u == Taken(v, k)
           event == Head(v.el[k].queue)
           shown == [u EXCEPT !.paused = Paused(u, event), !.busy = Busy(u, event)]
<1>1. Good(u) /\ event \in Events
  BY TakenGood
<1> HIDE DEF u, event
<1>2. Good(OnEnded(u)) /\ Good(OnError(u))
  BY <1>1, OnEndedGood, OnErrorGood
<1>3. Good(shown)
  <2>1. u \in Instance /\ u.paused \in BOOLEAN /\ u.busy \in BOOLEAN
    BY <1>1 DEF Good, Instance
  <2>2. Paused(u, event) \in BOOLEAN /\ Busy(u, event) \in BOOLEAN
    BY <2>1 DEF Paused, Busy
  <2>3. shown \in Instance /\ SameTimers(u, shown)
    BY <2>1, <2>2 DEF Instance, SameTimers
  <2> QED
    BY <1>1, <2>3, SameIsGood
<1>4. Good(OnEvent(u, event))
  BY <1>2, <1>3 DEF OnEvent
<1> QED
  BY <1>1, <1>4 DEF Handled, u, event

LEMMA RepeatGood ==
  ASSUME NEW v, Good(v), NEW event
  PROVE  Good(Repeat(v, event))
BY PlayGood DEF Repeat, Times

-----------------------------------------------------------------------------
LEMMA InitGood == Init => Good(w)
<1> SUFFICES ASSUME Init PROVE Good(w)
  OBVIOUS
<1>1. PICK p \in BOOLEAN : w = [NewInstance EXCEPT !.preload = p]
  BY DEF Init
<1>2. [k \in Kinds |-> NewElement] \in [Kinds -> Element]
  BY NewElementType
<1>3. << >> \in Seq(Delayed)
  OBVIOUS
<1> DEFINE els == [k \in Kinds |-> NewElement]
<1> HIDE DEF els
<1>4. NewInstance.el = els /\ els \in [Kinds -> Element]
  BY <1>2 DEF NewInstance, els
<1>5. w \in Instance /\ w.timers = << >> /\ ~w.held
  BY <1>1, <1>3, <1>4 DEF NewInstance, Instance, els
<1> QED
  BY <1>5, UndelayedIsGood DEF Undelayed

(* A step that puts another element into the instance.                     *)
LEMMA BecomesGood ==
  ASSUME Good(w), NEW k \in Kinds, NEW next \in Element, Becomes(k, next)
  PROVE  Good(w)'
<1>1. w \in Instance
  BY DEF Good
<1>2. w' \in Instance /\ SameTimers(w, w')
  BY <1>1, PutElement DEF Becomes
<1> QED
  BY <1>2, SameIsGood

LEMMA CallGood == Good(w) /\ CallAny => Good(w)'
<1> SUFFICES ASSUME Good(w), CallAny PROVE Good(w)'
  OBVIOUS
<1>1. ASSUME NEW m \in Media, CallSetMedia(m)
      PROVE  Good(w')
  BY <1>1, SetMediaGood DEF CallSetMedia
<1>2. CASE CallClearMedia
  BY <1>2, ClearMediaGood DEF CallClearMedia
<1>3. CASE CallLoad
  BY <1>3, LoadGood DEF CallLoad
<1>4. CASE CallPlay
  BY <1>4, PlayGood DEF CallPlay, Times
<1>5. CASE CallPause
  BY <1>5, PauseGood DEF CallPause, Times
<1>6. CASE CallStop
  BY <1>6, StopGood DEF CallStop
<1>7. CASE CallPlayHead
  BY <1>7, PlayHeadGood DEF CallPlayHead
<1>8. CASE CallLoop
  <2>1. w' \in Instance /\ SameTimers(w, w')
    BY <1>8 DEF CallLoop, Good, Instance, SameTimers
  <2> QED
    BY <2>1, SameIsGood
<1>9. CASE CallDestroy
  BY <1>9, DestroyGood DEF CallDestroy
<1> QED
  BY <1>1, <1>2, <1>3, <1>4, <1>5, <1>6, <1>7, <1>8, <1>9 DEF CallAny

LEMMA BrowserGood ==
  ASSUME Good(w), NEW k \in Kinds, Loads(k) \/ Breaks(k) \/ Ends(k) \/ Seeks(k) \/ Deliver(k)
  PROVE  Good(w)'
<1>1. w.el[k] \in Element
  BY DEF Good, Instance
<1>2. CASE Loads(k) \/ Breaks(k) \/ Ends(k) \/ Seeks(k)
  BY <1>1, <1>2, BrowserKeepsElements, BecomesGood DEF Loads, Breaks, Ends, Seeks
<1>3. CASE Deliver(k)
  BY <1>3, HandledGood, RepeatGood DEF Deliver
<1> QED
  BY <1>2, <1>3

LEMMA StepGood == Good(w) /\ [Next]_vars => Good(w)'
<1> SUFFICES ASSUME Good(w), [Next]_vars PROVE Good(w)'
  OBVIOUS
<1>1. CASE CallAny
  BY <1>1, CallGood
<1>2. ASSUME NEW k \in Kinds, Loads(k) \/ Breaks(k) \/ Ends(k) \/ Seeks(k) \/ Deliver(k)
      PROVE  Good(w')
  BY <1>2, BrowserGood
<1>3. CASE Timeout
  BY <1>3, FireGood DEF Timeout
<1>4. CASE Quiet \/ UNCHANGED vars
  BY <1>4 DEF Quiet, vars
<1> QED
  BY <1>1, <1>2, <1>3, <1>4 DEF Next

LEMMA GoodSays == Good(w) => OneTimer /\ DelayedCommandIsCurrent
<1> SUFFICES ASSUME Good(w) PROVE OneTimer /\ DelayedCommandIsCurrent
  OBVIOUS
<1>1. Len(<< >>) = 0
  OBVIOUS
<1>2. Len(w.timers) = 0 \/ Len(w.timers) = 1
  BY <1>1 DEF Good
<1>3. Len(w.timers) <= 1
  <2>1. \A n : n = 0 \/ n = 1 => n <= 1
    OBVIOUS
  <2> QED
    BY <1>2, <2>1
<1> QED
  BY <1>3 DEF Good, OneTimer, DelayedCommandIsCurrent

(* However calls, events and timeouts come in turn, no timeout is set      *)
(* while another is pending: clearTimeout always reaches it.               *)
THEOREM OneTimerAlways == Spec => []OneTimer
<1>1. Good(w) => OneTimer
  BY GoodSays
<1> QED
  BY InitGood, StepGood, <1>1, PTL DEF Spec

(* A command that had to wait never acts on another media: setMedia,       *)
(* clearMedia and an error have cleared its timeout.                       *)
THEOREM DelayedCommandsAreCurrent == Spec => []DelayedCommandIsCurrent
<1>1. Good(w) => DelayedCommandIsCurrent
  BY GoodSays
<1> QED
  BY InitGood, StepGood, <1>1, PTL DEF Spec

(* The instance keeps its types through every method and listener.         *)
THEOREM InstanceTypes == Spec => []TypeOK
<1> DEFINE Typed == Good(w) /\ strict \in BOOLEAN /\ calls \in 0..MaxCalls
<1>1. Init => Typed
  BY InitGood, BoundAssumption DEF Init
<1>2. Typed /\ [Next]_vars => Typed'
  <2> SUFFICES ASSUME Typed, [Next]_vars PROVE Typed'
    OBVIOUS
  <2>1. Good(w)'
    BY StepGood
  <2>2. strict' = strict /\ calls' \in 0..MaxCalls
    BY BoundAssumption
       DEF Next, CallAny, CallSetMedia, CallClearMedia, CallLoad, CallPlay, CallPause, CallStop,
           CallPlayHead, CallLoop, CallDestroy, Call, Loads, Breaks, Ends, Seeks, Becomes,
           Deliver, Timeout, Quiet, vars
  <2> QED
    BY <2>1, <2>2
<1>3. Typed => TypeOK
  BY DEF Good, TypeOK
<1> QED
  BY <1>1, <1>2, <1>3, PTL DEF Spec

-----------------------------------------------------------------------------
(* What may be heard.                                                      *)

(* PlaysWhatIsSet of an instance, with what makes it inductive: what plays *)
(* is waited for no more; what is set has its element, loaded or to be loaded; *)
(* an element whose error is still to be heard has failed.                 *)
Audible(v) ==
  \A k \in Kinds : Sounding(v.el[k]) =>
    /\ v.srcSet /\ v.active
    /\ v.gate = k /\ v.node = k
    /\ v.el[k].src = v.media
    /\ ~v.waitForPlay /\ ~v.waitForLoad

Prepared(v) ==
  /\ v.srcSet => /\ v.active /\ v.node = v.gate /\ v.gate \in Kinds
                 /\ ~v.waitForLoad => v.el[v.node].src = v.media
  /\ v.gate = "none" => v.waitForLoad

ErrorIn(el)     == \E i \in 1..Len(el.queue) : el.queue[i] = "error"
ErrorsAreReal(el) == ErrorIn(el) => el.mode = "failed"

Sound(v) == /\ Good(v) /\ Audible(v) /\ Prepared(v)
            /\ \A k \in Kinds : ErrorsAreReal(v.el[k])

Silent(v) == \A k \in Kinds : ~Sounding(v.el[k])

(* All that Sound looks at but for the timers.                             *)
SameSound(v, u) ==
  /\ u.active = v.active /\ u.gate = v.gate /\ u.node = v.node /\ u.el = v.el
  /\ u.srcSet = v.srcSet /\ u.media = v.media
  /\ u.waitForPlay = v.waitForPlay /\ u.waitForLoad = v.waitForLoad

(* ... and but for the elements.                                           *)
SameSetting(v, u) ==
  /\ u.active = v.active /\ u.gate = v.gate /\ u.node = v.node
  /\ u.srcSet = v.srcSet /\ u.media = v.media
  /\ u.waitForPlay = v.waitForPlay /\ u.waitForLoad = v.waitForLoad

(* An element that is not louder than another, of the same source.         *)
Calmer(e, el) ==
  /\ Sounding(e) => Sounding(el)
  /\ e.src = el.src
  /\ ErrorsAreReal(el) => ErrorsAreReal(e)

-----------------------------------------------------------------------------
(* The elements.                                                           *)
LEMMA NoErrorAppended ==
  ASSUME NEW q \in Seq(Events), NEW e \in Events, e # "error",
         NEW i \in 1..Len(Append(q, e)), Append(q, e)[i] = "error"
  PROVE  \E j \in 1..Len(q) : q[j] = "error"
BY AppendProperties, LenProperties

LEMMA NoErrorConcat ==
  ASSUME NEW q \in Seq(Events), NEW t \in Seq(Events), \A j \in 1..Len(t) : t[j] # "error",
         NEW i \in 1..Len(q \o t), (q \o t)[i] = "error"
  PROVE  \E j \in 1..Len(q) : q[j] = "error"
<1>1. Len(q) \in Nat /\ Len(t) \in Nat /\ Len(q \o t) = Len(q) + Len(t)
      /\ \A j \in 1..Len(q) + Len(t) :
           (q \o t)[j] = IF j <= Len(q) THEN q[j] ELSE t[j - Len(q)]
  BY ConcatProperties, LenProperties
<1>2. i \in 1..Len(q) + Len(t)
  BY <1>1
<1>3. i <= Len(q) \/ i - Len(q) \in 1..Len(t)
  BY <1>1, <1>2
<1>4. i <= Len(q)
  BY <1>1, <1>2, <1>3
<1> QED
  BY <1>1, <1>2, <1>4

LEMMA PauseIsCalm ==
  ASSUME NEW el \in Element
  PROVE  /\ Calmer(PauseElement(el), el) /\ ~Sounding(PauseElement(el))
         /\ PauseElement(el).mode = el.mode
<1>1. el.queue \in Seq(Events)
  BY DEF Element
<1>2. CASE el.paused
  BY <1>2 DEF PauseElement, Calmer, Sounding
<1>3. CASE ~el.paused
  <2> DEFINE u == [el EXCEPT !.paused = TRUE, !.queue = Append(@, "pause")]
  <2>1. PauseElement(el) = u
    BY <1>3 DEF PauseElement
  <2>2. u.paused /\ u.src = el.src /\ u.mode = el.mode /\ u.queue = Append(el.queue, "pause")
    BY DEF Element
  <2> HIDE DEF u
  <2>3. ErrorIn(u) => ErrorIn(el)
    BY <1>1, <2>2, NoErrorAppended DEF ErrorIn, Events
  <2>4. Calmer(u, el) /\ ~Sounding(u)
    BY <2>2, <2>3 DEF Calmer, Sounding, ErrorsAreReal
  <2> QED
    BY <2>1, <2>2, <2>4
<1> QED
  BY <1>2, <1>3

LEMMA SeekIsCalm ==
  ASSUME NEW el \in Element
  PROVE  /\ Calmer(SeekElement(el), el)
         /\ Sounding(SeekElement(el)) <=> Sounding(el)
<1>1. el.queue \in Seq(Events)
  BY DEF Element
<1>2. CASE el.mode # "ready"
  BY <1>2 DEF SeekElement, Calmer
<1>3. CASE el.mode = "ready"
  <2> DEFINE u == [el EXCEPT !.seeking = TRUE, !.ended = FALSE, !.queue = Append(@, "seeking")]
  <2>1. SeekElement(el) = u
    BY <1>3 DEF SeekElement
  <2>2. (u.paused <=> el.paused) /\ u.src = el.src /\ u.mode = el.mode
        /\ u.queue = Append(el.queue, "seeking")
    BY DEF Element
  <2> HIDE DEF u
  <2>3. ErrorIn(u) => ErrorIn(el)
    BY <1>1, <2>2, NoErrorAppended DEF ErrorIn, Events
  <2>4. Calmer(u, el) /\ (Sounding(u) <=> Sounding(el))
    BY <2>2, <2>3 DEF Calmer, Sounding, ErrorsAreReal
  <2> QED
    BY <2>1, <2>4
<1> QED
  BY <1>2, <1>3

LEMMA LoadIsSilent ==
  ASSUME NEW el, NEW url
  PROVE  /\ LoadElement(el, url).src = url /\ ~Sounding(LoadElement(el, url))
         /\ ErrorsAreReal(LoadElement(el, url))
<1> DEFINE u == LoadElement(el, url)
<1>1. u.src = url /\ u.paused /\ u.queue = << >>
  BY DEF LoadElement, NewElement
<1> HIDE DEF u
<1>2. ~Sounding(u) /\ ErrorsAreReal(u)
  BY <1>1 DEF Sounding, ErrorsAreReal, ErrorIn
<1> QED
  BY <1>1, <1>2 DEF u

(* Playing an element keeps its source and reports no error.               *)
LEMMA PlayIsReal ==
  ASSUME NEW el \in Element, ErrorsAreReal(el)
  PROVE  PlayElement(el).src = el.src /\ ErrorsAreReal(PlayElement(el))
<1> DEFINE a == IF el.ended THEN [el EXCEPT !.ended = FALSE, !.seeking = TRUE,
                                            !.queue = Append(@, "seeking")]
                            ELSE el
           e == IF el.mode = "ready" THEN "playing" ELSE "waiting"
           b == [a EXCEPT !.paused = FALSE, !.queue = @ \o <<"play", e>>]
<1>1. el.queue \in Seq(Events)
  BY DEF Element
<1>2. a \in Element /\ a.src = el.src /\ a.mode = el.mode
      /\ (a.queue = el.queue \/ a.queue = Append(el.queue, "seeking"))
  <2>1. Append(el.queue, "seeking") \in Seq(Events)
    BY EnqueueOne DEF Events
  <2> QED
    BY <2>1 DEF Element
<1>3. PlayElement(el) = IF ~el.paused THEN a ELSE b
  BY DEF PlayElement
<1>4. e \in Events /\ e # "error"
  BY DEF Events
<1> HIDE DEF a, e
<1>5. ErrorIn(a) => ErrorIn(el)
  BY <1>1, <1>2, NoErrorAppended DEF ErrorIn, Events
<1>6. b.src = el.src /\ b.mode = el.mode /\ b.queue = a.queue \o <<"play", e>>
  BY <1>2 DEF Element
<1> HIDE DEF b
<1>7. ErrorIn(b) => ErrorIn(a)
  <2> DEFINE t == <<"play", e>>
  <2>1. t \in Seq(Events) /\ Len(t) = 2 /\ t[1] # "error" /\ t[2] # "error"
    BY <1>4 DEF Events
  <2> HIDE DEF t
  <2>2. a.queue \in Seq(Events) /\ \A j \in 1..Len(t) : t[j] # "error"
    BY <1>2, <2>1 DEF Element
  <2> QED
    BY <1>6, <2>1, <2>2, NoErrorConcat DEF ErrorIn, t
<1> QED
  BY <1>2, <1>3, <1>5, <1>6, <1>7 DEF ErrorsAreReal

(* The browser makes nothing louder, and its errors are failures.          *)
LEMMA BrowserIsCalm ==
  ASSUME NEW el \in Element, ErrorsAreReal(el)
  PROVE  /\ \A s \in {<< >>, <<"suspend">>} : CanFetch(el) => Calmer(Fetched(el, s), el)
         /\ Calmer(Failed(el), el)
         /\ \A pausing \in BOOLEAN : CanEnd(el) => Calmer(Ended(el, pausing), el)
         /\ Calmer(Arrived(el), el)
<1>1. el.queue \in Seq(Events)
  BY DEF Element
<1>2. ASSUME NEW s \in {<< >>, <<"suspend">>}, CanFetch(el)
      PROVE  Calmer(Fetched(el, s), el)
  <2> DEFINE p == IF el.paused THEN << >> ELSE <<"playing">>
             u == [el EXCEPT !.mode = "ready", !.queue = @ \o p \o s]
  <2>1. p \in Seq(Events) /\ s \in Seq(Events)
    BY FewEvents
  <2>2. (\A j \in 1..Len(p) : p[j] # "error") /\ (\A j \in 1..Len(s) : s[j] # "error")
    OBVIOUS
  <2> HIDE DEF p
  <2>3. el.queue \o p \in Seq(Events)
    BY <2>1, Enqueue
  <2>4. (u.paused <=> el.paused) /\ u.src = el.src /\ u.mode = "ready"
        /\ u.queue = (el.queue \o p) \o s
    BY DEF Element
  <2>5. Fetched(el, s) = u
    BY DEF Fetched, p
  <2> HIDE DEF u
  <2>6. ErrorIn(u) => ErrorIn(el)
    <3>1. ASSUME NEW i \in 1..Len(u.queue), u.queue[i] = "error"
          PROVE  \E j \in 1..Len(el.queue \o p) : (el.queue \o p)[j] = "error"
      BY <2>1, <2>2, <2>3, <2>4, <3>1, NoErrorConcat
    <3>2. ASSUME NEW j \in 1..Len(el.queue \o p), (el.queue \o p)[j] = "error"
          PROVE  ErrorIn(el)
      BY <1>1, <2>1, <2>2, <3>2, NoErrorConcat DEF ErrorIn
    <3> QED
      BY <3>1, <3>2 DEF ErrorIn
  <2>7. ~ErrorIn(el) /\ el.mode = "loading"
    BY <1>2 DEF CanFetch, ErrorsAreReal
  <2> QED
    BY <2>4, <2>5, <2>6, <2>7 DEF Calmer, Sounding, ErrorsAreReal
<1>3. Calmer(Failed(el), el)
  <2> DEFINE u == Failed(el)
  <2>1. u.mode = "failed" /\ u.src = el.src
    BY DEF Failed, Element
  <2> HIDE DEF u
  <2>2. Calmer(u, el)
    BY <2>1 DEF Calmer, Sounding, ErrorsAreReal
  <2> QED
    BY <2>2 DEF u
<1>4. ASSUME NEW pausing \in BOOLEAN, CanEnd(el)
      PROVE  Calmer(Ended(el, pausing), el)
  <2> DEFINE t == IF pausing THEN <<"pause", "ended">> ELSE <<"ended">>
             u == [el EXCEPT !.ended = TRUE, !.paused = pausing, !.queue = @ \o t]
  <2>1. t \in Seq(Events) /\ \A j \in 1..Len(t) : t[j] # "error"
    <3> DEFINE a == <<"pause", "ended">>
               b == <<"ended">>
    <3>1. a \in Seq(Events) /\ b \in Seq(Events)
      BY DEF Events
    <3>2. \A j \in 1..Len(a) : a[j] # "error"
      OBVIOUS
    <3>3. \A j \in 1..Len(b) : b[j] # "error"
      OBVIOUS
    <3>4. t = a \/ t = b
      OBVIOUS
    <3> HIDE DEF t, a, b
    <3> QED
      BY <3>1, <3>2, <3>3, <3>4
  <2>2. Ended(el, pausing) = u
    BY DEF Ended
  <2> HIDE DEF t
  <2>3. u.src = el.src /\ u.mode = el.mode /\ u.queue = el.queue \o t
    BY DEF Element
  <2> HIDE DEF u
  <2>4. ErrorIn(u) => ErrorIn(el)
    BY <1>1, <2>1, <2>3, NoErrorConcat DEF ErrorIn
  <2>5. Sounding(el)
    BY <1>4 DEF CanEnd, Sounding
  <2> QED
    BY <2>2, <2>3, <2>4, <2>5 DEF Calmer, ErrorsAreReal
<1>5. Calmer(Arrived(el), el)
  <2> DEFINE u == Arrived(el)
  <2>1. (u.paused <=> el.paused) /\ u.src = el.src /\ u.mode = el.mode
        /\ u.queue = Append(el.queue, "seeked")
    BY DEF Arrived, Element
  <2> HIDE DEF u
  <2>2. ErrorIn(u) => ErrorIn(el)
    BY <1>1, <2>1, NoErrorAppended DEF ErrorIn, Events
  <2>3. Calmer(u, el)
    BY <2>1, <2>2 DEF Calmer, Sounding, ErrorsAreReal
  <2> QED
    BY <2>3 DEF u
<1> QED
  BY <1>2, <1>3, <1>4, <1>5

LEMMA TakingIsCalm ==
  ASSUME NEW el \in Element, el.queue # << >>
  PROVE  /\ Calmer([el EXCEPT !.queue = Tail(@)], el)
         /\ Head(el.queue) = "error" => ErrorIn(el)
<1> DEFINE u == [el EXCEPT !.queue = Tail(@)]
           q == el.queue
<1>1. (u.paused <=> el.paused) /\ u.src = el.src /\ u.mode = el.mode /\ u.queue = Tail(q)
      /\ q \in Seq(Events)
  BY DEF Element
<1> HIDE DEF u
<1>2. /\ Len(q) \in Nat \ {0} /\ Head(q) = q[1] /\ Len(Tail(q)) = Len(q) - 1
      /\ \A i \in 1..Len(Tail(q)) : Tail(q)[i] = q[i + 1]
  BY <1>1, HeadTailProperties, EmptySeq, LenProperties
<1>3. ErrorIn(u) => ErrorIn(el)
  BY <1>1, <1>2 DEF ErrorIn
<1>4. Calmer(u, el)
  BY <1>1, <1>3 DEF Calmer, Sounding, ErrorsAreReal
<1> QED
  BY <1>2, <1>4 DEF u, ErrorIn

-----------------------------------------------------------------------------
(* Changes of a few fields.                                                *)
LEMMA SameIsSound ==
  ASSUME NEW v, NEW u, Sound(v), Good(u), SameSound(v, u)
  PROVE  Sound(u)
BY DEF Sound, SameSound, Audible, Prepared

LEMMA PutFields ==
  ASSUME NEW v \in Instance, NEW k, NEW e
  PROVE  /\ SameSetting(v, [v EXCEPT !.el[k] = e])
         /\ k \in Kinds => [v EXCEPT !.el[k] = e].el[k] = e
         /\ \A j \in Kinds : j # k => [v EXCEPT !.el[k] = e].el[j] = v.el[j]
BY DEF Instance, SameSetting

LEMMA CalmerIsSound ==
  ASSUME NEW v, NEW u, Sound(v), Good(u), SameSetting(v, u),
         \A j \in Kinds : u.el[j] = v.el[j] \/ Calmer(u.el[j], v.el[j])
  PROVE  Sound(u)
<1>1. \A j \in Kinds : /\ Sounding(u.el[j]) => Sounding(v.el[j])
                       /\ u.el[j].src = v.el[j].src
                       /\ ErrorsAreReal(u.el[j])
  BY DEF Calmer, Sound
<1> QED
  BY <1>1 DEF Sound, SameSetting, Audible, Prepared

LEMMA SilentIsAudible ==
  ASSUME NEW v, Silent(v)
  PROVE  Audible(v)
BY DEF Silent, Audible

LEMMA ClearTimerSame ==
  ASSUME NEW v \in Instance
  PROVE  SameSound(v, ClearTimer(v))
BY DEF ClearTimer, Instance, SameSound

LEMMA DelaySame ==
  ASSUME NEW v \in Instance, NEW op, NEW t
  PROVE  SameSound(v, Delay(v, op, t))
BY DEF Delay, Instance, SameSound

(* Nothing sounds, and an instance that sets nothing is sound.             *)
LEMMA NothingSetIsSound ==
  ASSUME NEW v, Good(v), Silent(v), ~v.srcSet, v.waitForLoad,
         \A k \in Kinds : ErrorsAreReal(v.el[k])
  PROVE  Sound(v)
BY SilentIsAudible DEF Sound, Prepared

LEMMA ResetFields ==
  ASSUME NEW v \in Instance
  PROVE  /\ ~ResetStatus(v).srcSet /\ ResetStatus(v).waitForLoad
         /\ ResetStatus(v).el = v.el /\ ResetStatus(v).gate = v.gate
         /\ ResetStatus(v).node = v.node /\ ResetStatus(v).active = v.active
BY DEF ResetStatus, Instance

LEMMA CheckFields ==
  ASSUME NEW v \in Instance
  PROVE  LET u == CheckWaitForPlay(v) IN
         /\ u.active = v.active /\ u.gate = v.gate /\ u.node = v.node /\ u.el = v.el
         /\ u.srcSet = v.srcSet /\ u.media = v.media
         /\ u.waitForLoad = v.waitForLoad /\ u.waitForPlay = FALSE
BY DEF CheckWaitForPlay, Instance

LEMMA CheckIsSound ==
  ASSUME NEW v, Sound(v)
  PROVE  Sound(CheckWaitForPlay(v))
<1>1. Good(CheckWaitForPlay(v)) /\ v \in Instance
  BY CheckWaitForPlayGood DEF Sound, Good
<1> DEFINE u == CheckWaitForPlay(v)
<1>2. /\ u.active = v.active /\ u.gate = v.gate /\ u.node = v.node /\ u.el = v.el
      /\ u.srcSet = v.srcSet /\ u.media = v.media
      /\ u.waitForLoad = v.waitForLoad /\ u.waitForPlay = FALSE
  BY <1>1, CheckFields
<1> HIDE DEF u
<1>3. Sound(u)
  BY <1>1, <1>2 DEF Sound, Audible, Prepared, u
<1> QED
  BY <1>3 DEF u

-----------------------------------------------------------------------------
(* The HTML solution.                                                      *)
LEMMA PauseAtSound ==
  ASSUME NEW v, Sound(v), NEW k \in Kinds \cup {"none"}
  PROVE  LET u == [v EXCEPT !.el[k] = PauseElement(@)] IN
         /\ Sound(u) /\ SameSetting(v, u)
         /\ k \in Kinds => ~Sounding(u.el[k]) /\ u.el[k].mode = v.el[k].mode
         /\ \A j \in Kinds : j # k => u.el[j] = v.el[j]
<1> DEFINE e == PauseElement(v.el[k])
           u == [v EXCEPT !.el[k] = e]
<1>1. Good(v) /\ v \in Instance /\ v.el \in [Kinds -> Element]
  BY DEF Sound, Good, Instance
<1>2. k \in Kinds => Calmer(e, v.el[k]) /\ ~Sounding(e) /\ e.mode = v.el[k].mode
  BY <1>1, PauseIsCalm
<1>3. Good(u)
  BY <1>1, PauseAtGood
<1> HIDE DEF e
<1>4. SameSetting(v, u) /\ (k \in Kinds => u.el[k] = e)
      /\ \A j \in Kinds : j # k => u.el[j] = v.el[j]
  BY <1>1, PutFields
<1> HIDE DEF u
<1>5. Sound(u)
  BY <1>2, <1>3, <1>4, CalmerIsSound
<1> QED
  BY <1>2, <1>4, <1>5 DEF u, e

LEMMA SeekAtSound ==
  ASSUME NEW v, Sound(v), NEW k \in Kinds \cup {"none"}
  PROVE  LET u == [v EXCEPT !.el[k] = SeekElement(@)] IN
         Sound(u) /\ SameSetting(v, u)
<1> DEFINE e == SeekElement(v.el[k])
           u == [v EXCEPT !.el[k] = e]
<1>1. Good(v) /\ v \in Instance /\ v.el \in [Kinds -> Element]
  BY DEF Sound, Good, Instance
<1>2. k \in Kinds => Calmer(e, v.el[k])
  BY <1>1, SeekIsCalm
<1>3. Good(u)
  BY <1>1, SeekAtGood
<1> HIDE DEF e
<1>4. SameSetting(v, u) /\ (k \in Kinds => u.el[k] = e)
      /\ \A j \in Kinds : j # k => u.el[j] = v.el[j]
  BY <1>1, PutFields
<1> HIDE DEF u
<1>5. Sound(u)
  BY <1>2, <1>3, <1>4, CalmerIsSound
<1> QED
  BY <1>4, <1>5 DEF u, e

(* What _html_load does to an element that waits for it.                   *)
LEMMA HtmlLoadFields ==
  ASSUME NEW v, Good(v), v.waitForLoad, v.node \in Kinds
  PROVE  LET u == HtmlLoad(v) IN
         /\ u.active = v.active /\ u.gate = v.gate /\ u.node = v.node
         /\ u.srcSet = v.srcSet /\ u.media = v.media /\ u.waitForPlay = v.waitForPlay
         /\ ~u.waitForLoad
         /\ u.el[v.node].src = v.media /\ ~Sounding(u.el[v.node])
         /\ ErrorsAreReal(u.el[v.node])
         /\ \A j \in Kinds : j # v.node => u.el[j] = v.el[j]
<1> DEFINE e == LoadElement(v.el[v.node], v.media)
           f == [v.el EXCEPT ![v.node] = e]
           b == [v EXCEPT !.waitForLoad = FALSE, !.el = f]
           u == HtmlLoad(v)
<1>1. v \in Instance /\ v.el \in [Kinds -> Element]
  BY DEF Good, Instance
<1>2. e.src = v.media /\ ~Sounding(e) /\ ErrorsAreReal(e) /\ e \in Element
  BY <1>1, LoadIsSilent, LoadElementType DEF Instance
<1>3. u = ClearTimer(b)
  BY DEF HtmlLoad
<1> HIDE DEF e, u
<1>4. f \in [Kinds -> Element] /\ f[v.node] = e /\ \A j \in Kinds : j # v.node => f[j] = v.el[j]
  BY <1>1, <1>2
<1> HIDE DEF f
<1>5. /\ b \in Instance /\ b.active = v.active /\ b.gate = v.gate /\ b.node = v.node
      /\ b.srcSet = v.srcSet /\ b.media = v.media /\ b.waitForPlay = v.waitForPlay
      /\ ~b.waitForLoad /\ b.el = f
  BY <1>1, <1>4 DEF Instance
<1> HIDE DEF b
<1>6. SameSound(b, u)
  BY <1>3, <1>5, ClearTimerSame
<1>7. /\ u.active = v.active /\ u.gate = v.gate /\ u.node = v.node
      /\ u.srcSet = v.srcSet /\ u.media = v.media /\ u.waitForPlay = v.waitForPlay
      /\ ~u.waitForLoad /\ u.el = f
  BY <1>5, <1>6 DEF SameSound
<1> QED
  BY <1>2, <1>4, <1>7 DEF u

(* _html_load of what is set: loaded, and nothing new is heard.            *)
LEMMA HtmlLoadSound ==
  ASSUME NEW v, Sound(v), v.srcSet
  PROVE  LET u == HtmlLoad(v) IN
         /\ Sound(u) /\ Undelayed(u) /\ ~u.waitForLoad
         /\ u.srcSet /\ u.node = v.node /\ u.media = v.media
<1>1. Good(v) /\ v \in Instance /\ v.el \in [Kinds -> Element]
      /\ v.active /\ v.node = v.gate /\ v.gate \in Kinds
  BY DEF Sound, Good, Instance, Prepared
<1>2. Good(HtmlLoad(v)) /\ Undelayed(HtmlLoad(v))
  BY <1>1, HtmlLoadGood
<1>3. CASE ~v.waitForLoad
  <2>1. HtmlLoad(v) = ClearTimer(v)
    BY <1>3 DEF HtmlLoad
  <2>2. SameSound(v, ClearTimer(v))
    BY <1>1, ClearTimerSame
  <2>3. Sound(ClearTimer(v))
    BY <1>2, <2>1, <2>2, SameIsSound
  <2> QED
    BY <1>2, <1>3, <2>1, <2>2, <2>3 DEF SameSound
<1>4. CASE v.waitForLoad
  <2> DEFINE u == HtmlLoad(v)
  <2>1. /\ u.active = v.active /\ u.gate = v.gate /\ u.node = v.node
        /\ u.srcSet = v.srcSet /\ u.media = v.media /\ u.waitForPlay = v.waitForPlay
        /\ ~u.waitForLoad
        /\ u.el[v.node].src = v.media /\ ~Sounding(u.el[v.node])
        /\ ErrorsAreReal(u.el[v.node])
        /\ \A j \in Kinds : j # v.node => u.el[j] = v.el[j]
    BY <1>1, <1>4, HtmlLoadFields
  <2> HIDE DEF u
  <2>2. Audible(u)
    BY <2>1 DEF Sound, Audible
  <2>3. Prepared(u)
    BY <1>1, <2>1 DEF Prepared, Kinds
  <2>4. \A k \in Kinds : ErrorsAreReal(u.el[k])
    BY <2>1 DEF Sound
  <2>5. Sound(u)
    BY <1>2, <2>2, <2>3, <2>4 DEF Sound, u
  <2> QED
    BY <1>2, <2>1, <2>5 DEF u
<1> QED
  BY <1>3, <1>4

(* ... and what is loaded may be heard, once it is not waited for.         *)
LEMMA HtmlPlaySound ==
  ASSUME NEW v, Sound(v), v.srcSet, NEW t \in Times
  PROVE  Sound(HtmlPlay(v, t, FALSE))
<1> DEFINE loaded  == HtmlLoad(v)
           e       == PlayElement(loaded.el[v.node])
           started == [loaded EXCEPT !.el[v.node] = e]
           checked == CheckWaitForPlay(started)
<1>1. Sound(loaded) /\ ~loaded.waitForLoad /\ loaded.srcSet
      /\ loaded.node = v.node /\ loaded.media = v.media
  BY HtmlLoadSound
<1> HIDE DEF loaded
<1>2. Good(loaded) /\ loaded \in Instance /\ loaded.el \in [Kinds -> Element]
      /\ loaded.active /\ loaded.gate = v.node /\ v.node \in Kinds
      /\ loaded.el[v.node].src = loaded.media
  BY <1>1 DEF Sound, Good, Instance, Prepared
<1>3. e.src = loaded.media /\ ErrorsAreReal(e)
  BY <1>1, <1>2, PlayIsReal DEF Sound
<1>4. Good(started)
  BY <1>2, PlayAtGood
<1> HIDE DEF e
<1>5. /\ SameSetting(loaded, started) /\ started.el[v.node] = e
      /\ \A j \in Kinds : j # v.node => started.el[j] = loaded.el[j]
  BY <1>2, PutFields
<1>6. Good(checked) /\ started \in Instance
  BY <1>4, CheckWaitForPlayGood DEF Good
<1> HIDE DEF started
<1>7. /\ checked.active = started.active /\ checked.gate = started.gate
      /\ checked.node = started.node /\ checked.el = started.el
      /\ checked.srcSet = started.srcSet /\ checked.media = started.media
      /\ checked.waitForLoad = started.waitForLoad /\ checked.waitForPlay = FALSE
  BY <1>6, CheckFields
<1> HIDE DEF checked
<1>8. /\ checked.active /\ checked.gate = v.node /\ checked.node = v.node
      /\ checked.srcSet /\ checked.media = loaded.media /\ ~checked.waitForLoad
      /\ checked.el[v.node] = e
      /\ \A j \in Kinds : j # v.node => checked.el[j] = loaded.el[j]
  BY <1>1, <1>2, <1>5, <1>7 DEF SameSetting
<1>9. Audible(checked)
  BY <1>1, <1>2, <1>3, <1>7, <1>8 DEF Sound, Audible
<1>10. Prepared(checked)
  BY <1>2, <1>3, <1>7, <1>8 DEF Prepared, Kinds
<1>11. \A k \in Kinds : ErrorsAreReal(checked.el[k])
  BY <1>1, <1>3, <1>8 DEF Sound
<1>12. Sound(checked)
  BY <1>6, <1>9, <1>10, <1>11 DEF Sound
(* The position of what plays may be set after that.                       *)
<1>13. CASE t = "none"
  BY <1>12, <1>13 DEF HtmlPlay, loaded, started, checked, e
<1>14. CASE t # "none"
  <2> DEFINE s     == SeekElement(started.el[v.node])
             moved == [started EXCEPT !.el[v.node] = s]
             last  == CheckWaitForPlay(moved)
  <2>1. HtmlPlay(v, t, FALSE) = last
    BY <1>14 DEF HtmlPlay, loaded, started, e
  <2>2. started.el \in [Kinds -> Element]
    BY <1>6 DEF Instance
  <2>3. Calmer(s, started.el[v.node])
    BY <1>2, <2>2, SeekIsCalm
  <2>4. Good(moved)
    BY <1>2, <1>4, SeekAtGood
  <2> HIDE DEF s
  <2>5. /\ SameSetting(started, moved) /\ moved.el[v.node] = s
        /\ \A j \in Kinds : j # v.node => moved.el[j] = started.el[j]
    BY <1>2, <1>6, PutFields
  <2>6. Good(last)
    BY <2>4, CheckWaitForPlayGood
  <2> HIDE DEF moved
  <2>7. moved \in Instance
    BY <2>4 DEF Good
  <2>8. /\ last.active = moved.active /\ last.gate = moved.gate
        /\ last.node = moved.node /\ last.el = moved.el
        /\ last.srcSet = moved.srcSet /\ last.media = moved.media
        /\ last.waitForLoad = moved.waitForLoad /\ last.waitForPlay = FALSE
    BY <2>7, CheckFields
  <2> HIDE DEF last
  <2>9. SameSetting(checked, last)
    BY <1>7, <2>5, <2>8 DEF SameSetting
  <2>10. \A j \in Kinds : last.el[j] = checked.el[j] \/ Calmer(last.el[j], checked.el[j])
    BY <1>7, <2>3, <2>5, <2>8
  <2>11. Sound(last)
    BY <1>12, <2>6, <2>9, <2>10, CalmerIsSound
  <2> QED
    BY <2>1, <2>11
<1> QED
  BY <1>13, <1>14

(* What is paused, cleared or moved, and then silent.                      *)
LEMMA HtmlPauseSound ==
  ASSUME NEW v, Sound(v), v.srcSet, NEW t \in Times
  PROVE  Sound(HtmlPause(v, t, FALSE)) /\ Silent(HtmlPause(v, t, FALSE))
         /\ HtmlPause(v, t, FALSE).gate = v.gate
<1> DEFINE cleared == IF t = "later" THEN HtmlLoad(v) ELSE ClearTimer(v)
           stopped == [cleared EXCEPT !.el[v.node] = PauseElement(@)]
           moved   == [stopped EXCEPT !.el[v.node] = SeekElement(@)]
<1>1. Good(v) /\ v \in Instance /\ v.node = v.gate /\ v.node \in Kinds
  BY DEF Sound, Good, Prepared
<1>2. /\ Sound(cleared) /\ cleared.srcSet /\ cleared.node = v.node
      /\ Good(cleared) /\ cleared.gate = v.node
  <2>1. CASE t = "later"
    <3>1. Sound(HtmlLoad(v)) /\ HtmlLoad(v).srcSet /\ HtmlLoad(v).node = v.node
      BY HtmlLoadSound
    <3> QED
      BY <2>1, <3>1 DEF Sound, Prepared
  <2>2. CASE t # "later"
    <3>1. SameSound(v, ClearTimer(v)) /\ Good(ClearTimer(v))
      BY <1>1, ClearTimerSame, ClearTimerGood
    <3>2. Sound(ClearTimer(v))
      BY <3>1, SameIsSound
    <3> QED
      BY <1>1, <2>2, <3>1, <3>2 DEF SameSound
  <2> QED
    BY <2>1, <2>2
<1> HIDE DEF cleared
<1>3. /\ Sound(stopped) /\ SameSetting(cleared, stopped)
      /\ ~Sounding(stopped.el[v.node])
  BY <1>1, <1>2, PauseAtSound
<1> HIDE DEF stopped
<1>4. stopped.node = v.node /\ stopped.gate = v.node
  BY <1>2, <1>3 DEF SameSetting
<1>5. Silent(stopped)
  BY <1>3, <1>4 DEF Sound, Audible, Silent
<1>6. Sound(moved) /\ SameSetting(stopped, moved)
  BY <1>1, <1>3, SeekAtSound
<1>7. Silent(moved)
  <2>1. Good(stopped) /\ stopped \in Instance /\ stopped.el \in [Kinds -> Element]
    BY <1>3 DEF Sound, Good, Instance
  <2>2. ~Sounding(SeekElement(stopped.el[v.node]))
    BY <1>1, <1>3, <2>1, SeekIsCalm
  <2>3. /\ moved.el[v.node] = SeekElement(stopped.el[v.node])
        /\ \A j \in Kinds : j # v.node => moved.el[j] = stopped.el[j]
    BY <1>1, <2>1, PutFields
  <2> HIDE DEF moved
  <2> QED
    BY <1>5, <2>2, <2>3 DEF Silent
<1> HIDE DEF moved
<1>8. Good(moved) /\ moved \in Instance /\ moved.gate = v.gate
  BY <1>1, <1>4, <1>6 DEF Sound, Good, SameSetting
<1>9. Sound(CheckWaitForPlay(moved)) /\ Silent(CheckWaitForPlay(moved))
      /\ CheckWaitForPlay(moved).gate = v.gate
  BY <1>6, <1>7, <1>8, CheckIsSound, CheckFields DEF Silent
<1> QED
  BY <1>1, <1>3, <1>4, <1>5, <1>6, <1>7, <1>8, <1>9 DEF HtmlPause, cleared, stopped, moved

LEMMA HtmlPlayHeadSound ==
  ASSUME NEW v, Sound(v), v.srcSet, NEW throws
  PROVE  Sound(HtmlPlayHead(v, throws))
<1> DEFINE loaded == HtmlLoad(v)
           moved  == [loaded EXCEPT !.el[v.node] = SeekElement(@)]
           later  == Delay(loaded, "playHead", "none")
<1>1. Good(v) /\ v.node \in Kinds
  BY DEF Sound, Good, Prepared
<1>2. Sound(loaded) /\ Undelayed(loaded)
  BY HtmlLoadSound
<1> HIDE DEF loaded
<1>3. Sound(moved)
  BY <1>1, <1>2, SeekAtSound
<1> HIDE DEF moved
<1>4. Sound(CheckWaitForPlay(moved))
  BY <1>3, CheckIsSound
<1>5. Good(loaded) /\ loaded \in Instance
  BY <1>2 DEF Sound, Good
<1>6. Good(later)
  BY <1>2, <1>5, DelayGood DEF Ops, Times
<1>7. SameSound(loaded, later)
  BY <1>5, DelaySame
<1> HIDE DEF later
<1>8. Sound(later)
  BY <1>2, <1>6, <1>7, SameIsSound
<1> QED
  BY <1>4, <1>8 DEF HtmlPlayHead, loaded, moved, later

-----------------------------------------------------------------------------
(* The methods.                                                            *)
LEMMA CommandsAreSound ==
  ASSUME NEW v, Sound(v), NEW t \in Times, NEW throws
  PROVE  /\ Sound(Load(v)) /\ Sound(Play(v, t, FALSE)) /\ Sound(Pause(v, t, FALSE))
         /\ Sound(Stop(v, FALSE)) /\ Sound(PlayHead(v, throws))
BY HtmlLoadSound, HtmlPlaySound, HtmlPauseSound, HtmlPlayHeadSound
   DEF Load, Play, Pause, Stop, PlayHead, Times

(* What ClearMedia leaves of an instance is silent and waits.              *)
LEMMA ClearMediaSilent ==
  ASSUME NEW v, Good(v), \A k \in Kinds : ErrorsAreReal(v.el[k]),
         \A k \in Kinds : Sounding(v.el[k]) => v.active /\ v.node = k
  PROVE  LET u == ClearMedia(v) IN
         /\ Silent(u) /\ u.waitForLoad /\ ~u.srcSet /\ u.gate = v.gate /\ Good(u)
         /\ \A k \in Kinds : ErrorsAreReal(u.el[k])
<1> DEFINE reset   == ResetStatus(v)
           cleared == ClearTimer(reset)
           n       == cleared.node
           e       == LoadElement(PauseElement(cleared.el[n]), None)
           emptied == [cleared EXCEPT !.el[n] = e]
           u       == ClearMedia(v)
<1>1. Good(reset) /\ reset \in Instance /\ v \in Instance
  BY ResetStatusGood DEF Good
<1>2. /\ ~reset.srcSet /\ reset.waitForLoad /\ reset.el = v.el
      /\ reset.gate = v.gate /\ reset.node = v.node /\ reset.active = v.active
  BY <1>1, ResetFields
<1> HIDE DEF reset
<1>3. Good(cleared) /\ SameSound(reset, cleared)
  BY <1>1, ClearTimerGood, ClearTimerSame
<1>4. cleared \in Instance
  BY <1>3 DEF Good
<1> HIDE DEF cleared
<1>5. /\ ~cleared.srcSet /\ cleared.waitForLoad /\ cleared.el = v.el
      /\ cleared.gate = v.gate /\ cleared.node = v.node /\ cleared.active = v.active
  BY <1>2, <1>3 DEF SameSound
<1>6. ~Sounding(e) /\ ErrorsAreReal(e)
  BY LoadIsSilent
<1>7. u = IF cleared.active /\ n # "none" THEN emptied ELSE cleared
  <2>1. cleared.active = v.active
    BY <1>5
  <2>2. u = IF v.active /\ n # "none" THEN emptied ELSE cleared
    BY DEF ClearMedia, HtmlClearMedia, cleared, reset
  <2> QED
    BY <2>1, <2>2
<1>8. Good(u)
  BY ClearMediaGood
<1>9. n = cleared.node
  OBVIOUS
<1> HIDE DEF e, u, n
<1>10. CASE ~(cleared.active /\ n # "none")
  BY <1>5, <1>7, <1>8, <1>10, <1>9 DEF Silent, Kinds, u
<1>11. CASE cleared.active /\ n # "none"
  <2>1. n \in Kinds
    BY <1>4, <1>11, <1>9 DEF Instance
  <2>2. /\ SameSetting(cleared, emptied) /\ emptied.el[n] = e
        /\ \A j \in Kinds : j # n => emptied.el[j] = cleared.el[j]
    BY <1>4, <2>1, PutFields
  <2>3. u = emptied
    BY <1>7, <1>11
  <2> HIDE DEF emptied
  <2>4. Silent(emptied)
    BY <1>5, <1>6, <1>9, <2>2 DEF Silent
  <2>5. \A k \in Kinds : ErrorsAreReal(emptied.el[k])
    BY <1>5, <1>6, <2>2
  <2>6. emptied.waitForLoad /\ ~emptied.srcSet /\ emptied.gate = v.gate
    BY <1>5, <2>2 DEF SameSetting
  <2> QED
    BY <1>8, <2>3, <2>4, <2>5, <2>6 DEF u
<1> QED
  BY <1>10, <1>11

LEMMA ClearMediaSound ==
  ASSUME NEW v, Sound(v)
  PROVE  Sound(ClearMedia(v))
<1>1. Good(v) /\ (\A k \in Kinds : ErrorsAreReal(v.el[k]))
      /\ \A k \in Kinds : Sounding(v.el[k]) => v.active /\ v.node = k
  BY DEF Sound, Audible
<1>2. LET u == ClearMedia(v) IN
      /\ Silent(u) /\ u.waitForLoad /\ ~u.srcSet /\ u.gate = v.gate /\ Good(u)
      /\ \A k \in Kinds : ErrorsAreReal(u.el[k])
  BY <1>1, ClearMediaSilent
<1> QED
  BY <1>2, NothingSetIsSound

(* The element of the other kind is paused when the gate has been opened.  *)
LEMMA NodePaused ==
  ASSUME NEW v, Good(v), \A k \in Kinds : ErrorsAreReal(v.el[k]),
         \A k \in Kinds : Sounding(v.el[k]) => v.node = k
  PROVE  LET u == HtmlPause(v, "none", FALSE) IN
         /\ Good(u) /\ Silent(u) /\ u.gate = v.gate
         /\ \A k \in Kinds : ErrorsAreReal(u.el[k])
<1> DEFINE c == ClearTimer(v)
           n == v.node
           e == PauseElement(c.el[n])
           s == [c EXCEPT !.el[n] = e]
<1>1. v \in Instance /\ Good(c)
  BY ClearTimerGood DEF Good
<1>2. SameSound(v, c) /\ c \in Instance
  BY <1>1, ClearTimerSame DEF Good
<1> HIDE DEF c
<1>3. c.el = v.el /\ c.gate = v.gate /\ c.el \in [Kinds -> Element]
  BY <1>2 DEF SameSound, Instance
<1>4. HtmlPause(v, "none", FALSE) = s
  BY DEF HtmlPause, c
<1>5. Good(HtmlPause(v, "none", FALSE))
  BY HtmlPauseGood DEF Times
<1>6. n \in Kinds => Calmer(e, c.el[n]) /\ ~Sounding(e)
  BY <1>3, PauseIsCalm
<1>7. \A k \in Kinds : Sounding(v.el[k]) => n = k
  OBVIOUS
<1> HIDE DEF e, n
<1>8. /\ SameSetting(c, s) /\ (n \in Kinds => s.el[n] = e)
      /\ \A j \in Kinds : j # n => s.el[j] = c.el[j]
  BY <1>2, PutFields
<1> HIDE DEF s
<1>9. \A k \in Kinds : ~Sounding(s.el[k]) /\ ErrorsAreReal(s.el[k])
  BY <1>3, <1>6, <1>7, <1>8 DEF Calmer
<1> QED
  BY <1>3, <1>4, <1>5, <1>8, <1>9 DEF SameSetting, Silent

(* Whatever was used before, it is silent when the new gate is open.       *)
LEMMA SwitchedSilent ==
  ASSUME NEW v, Sound(v), NEW kind \in Kinds
  PROVE  LET u == Switched(v, kind) IN
         /\ Good(v) /\ Silent(u) /\ u.waitForLoad /\ ~u.srcSet /\ u.gate = kind
         /\ u \in Instance /\ \A k \in Kinds : ErrorsAreReal(u.el[k])
<1> DEFINE open == [v EXCEPT !.gate = kind]
           u == Switched(v, kind)
           paused == HtmlPause(open, "none", FALSE)
           cleared == ClearMedia(open)
<1>1. Good(v) /\ v \in Instance
  BY DEF Sound, Good
<1>2. /\ open \in Instance /\ SameTimers(v, open) /\ open.gate = kind
      /\ open.active = v.active /\ open.node = v.node /\ open.el = v.el
      /\ open.srcSet = v.srcSet /\ open.waitForLoad = v.waitForLoad
  BY <1>1 DEF Instance, SameTimers
<1>3. u = IF v.gate = kind THEN cleared
          ELSE IF v.gate # "none" THEN ResetStatus(paused) ELSE open
  BY DEF Switched
<1> HIDE DEF open, u
<1>4. Good(open)
  BY <1>1, <1>2, SameIsGood
<1>5. /\ \A k \in Kinds : ErrorsAreReal(open.el[k])
      /\ \A k \in Kinds : Sounding(open.el[k]) => open.active /\ open.node = k /\ v.gate = k
  BY <1>2 DEF Sound, Audible
<1>6. CASE v.gate = kind
  <2>1. /\ Silent(cleared) /\ cleared.waitForLoad /\ ~cleared.srcSet
        /\ cleared.gate = open.gate /\ Good(cleared)
        /\ \A k \in Kinds : ErrorsAreReal(cleared.el[k])
    BY <1>4, <1>5, ClearMediaSilent
  <2> HIDE DEF cleared
  <2>2. cleared \in Instance
    BY <2>1 DEF Good
  <2> QED
    BY <1>1, <1>2, <1>3, <1>6, <2>1, <2>2 DEF u
<1>7. CASE v.gate # kind /\ v.gate # "none"
  <2>1. /\ Good(paused) /\ Silent(paused) /\ paused.gate = open.gate
        /\ \A k \in Kinds : ErrorsAreReal(paused.el[k])
    BY <1>4, <1>5, NodePaused
  <2> HIDE DEF paused
  <2>2. paused \in Instance /\ Good(ResetStatus(paused))
    BY <2>1, ResetStatusGood DEF Good
  <2> DEFINE r == ResetStatus(paused)
  <2>3. /\ ~r.srcSet /\ r.waitForLoad /\ r.el = paused.el /\ r.gate = paused.gate
    BY <2>2, ResetFields
  <2>4. u = r
    BY <1>3, <1>7
  <2> HIDE DEF r
  <2>5. r \in Instance
    BY <2>2 DEF Good, r
  <2>6. Silent(r) /\ \A k \in Kinds : ErrorsAreReal(r.el[k])
    BY <2>1, <2>3 DEF Silent
  <2> QED
    BY <1>1, <1>2, <2>1, <2>3, <2>4, <2>5, <2>6 DEF u
<1>8. CASE v.gate = "none"
  <2>1. u = open
    BY <1>3, <1>8 DEF Kinds
  <2>2. ~open.srcSet /\ open.waitForLoad
    BY <1>2, <1>8 DEF Sound, Prepared, Kinds
  <2>3. Silent(open)
    BY <1>5, <1>8 DEF Silent, Kinds
  <2> QED
    BY <1>1, <1>2, <1>5, <2>1, <2>2, <2>3 DEF u
<1> QED
  BY <1>6, <1>7, <1>8

(* The element of the media, silent, and loaded or still to be loaded.     *)
LEMMA HtmlSetSilent ==
  ASSUME NEW v \in Instance, Good(v), Silent(v), v.waitForLoad, ~v.srcSet, Undelayed(v),
         NEW kind \in Kinds, v.gate = kind, NEW media \in Media,
         \A k \in Kinds : ErrorsAreReal(v.el[k])
  PROVE  LET u == HtmlSet(v, kind, media) IN
         /\ Silent(u) /\ u.gate = kind /\ u.node = kind
         /\ ~u.waitForLoad => u.el[kind].src = media
         /\ \A k \in Kinds : ErrorsAreReal(u.el[k])
<1> DEFINE chosen == [v EXCEPT !.media = media, !.node = kind]
           loaded == HtmlLoad(chosen)
<1>1. /\ chosen \in Instance /\ chosen.el = v.el /\ chosen.gate = kind /\ chosen.node = kind
      /\ chosen.media = media /\ chosen.waitForLoad /\ ~chosen.srcSet
      /\ chosen.timers = v.timers /\ chosen.held = v.held /\ chosen.preload = v.preload
  BY DEF Instance
<1>2. HtmlSet(v, kind, media) = IF v.preload THEN loaded ELSE chosen
  BY <1>1 DEF HtmlSet
<1> HIDE DEF chosen
<1>3. Good(chosen)
  BY <1>1 DEF Good
<1>4. /\ loaded.gate = kind /\ loaded.node = kind
      /\ loaded.el[kind].src = media /\ ~Sounding(loaded.el[kind])
      /\ ErrorsAreReal(loaded.el[kind])
      /\ \A j \in Kinds : j # kind => loaded.el[j] = v.el[j]
  BY <1>1, <1>3, HtmlLoadFields
<1> HIDE DEF loaded
<1>5. /\ Silent(loaded) /\ Silent(chosen)
      /\ \A k \in Kinds : ErrorsAreReal(loaded.el[k]) /\ ErrorsAreReal(chosen.el[k])
  BY <1>1, <1>4 DEF Silent
<1> QED
  BY <1>1, <1>2, <1>4, <1>5

(* A media that is set is silent until it is played.                       *)
LEMMA SetMediaSound ==
  ASSUME NEW v, Sound(v), NEW media \in Media
  PROVE  /\ Sound(SetMedia(v, media)) /\ Silent(SetMedia(v, media))
         /\ SetMedia(v, media).srcSet => SetMedia(v, media).media = media
<1> DEFINE still == [v EXCEPT !.busy = FALSE]
           idle  == ClearTimer(still)
           kind  == Choice[media]
           open  == Switched(idle, kind)
           set   == HtmlSet(open, kind, media)
           done  == [set EXCEPT !.active = TRUE, !.srcSet = TRUE, !.media = media,
                                !.paused = TRUE]
<1>1. Good(v) /\ v \in Instance
  BY DEF Sound, Good
<1>2. still \in Instance /\ SameTimers(v, still) /\ SameSound(v, still)
  BY <1>1 DEF Instance, SameTimers, SameSound
<1> HIDE DEF still
<1>3. Sound(still) /\ Good(still)
  BY <1>1, <1>2, SameIsGood, SameIsSound
<1>4. Good(idle) /\ Undelayed(idle) /\ SameSound(still, idle)
  BY <1>2, <1>3, ClearTimerGood, ClearTimerSame
<1> HIDE DEF idle
<1>5. Sound(idle)
  BY <1>3, <1>4, SameIsSound
<1>6. kind \in Kinds \cup {"none"} /\ Good(SetMedia(v, media))
  BY <1>1, ChoiceAssumption, SetMediaGood
<1> HIDE DEF kind
<1>7. CASE kind = "none"
  <2> DEFINE quiet == IF idle.srcSet /\ ~idle.waitForPlay THEN Pause(idle, "none", FALSE)
                      ELSE idle
             shut  == [quiet EXCEPT !.gate = "none", !.active = FALSE]
             gone  == ResetStatus(shut)
  <2>1. SetMedia(v, media) = gone
    BY <1>7 DEF SetMedia, Unsupported, idle, still, kind
  <2>2. Sound(quiet) /\ Silent(quiet)
    <3>1. CASE idle.srcSet /\ ~idle.waitForPlay
      <4>1. idle.active
        BY <1>5, <3>1 DEF Sound, Prepared
      <4>2. quiet = HtmlPause(idle, "none", FALSE)
        BY <3>1, <4>1 DEF Pause
      <4> QED
        BY <1>5, <3>1, <4>2, HtmlPauseSound DEF Times
    <3>2. CASE ~(idle.srcSet /\ ~idle.waitForPlay)
      BY <1>5, <3>2 DEF Sound, Audible, Silent
    <3> QED
      BY <3>1, <3>2
  <2> HIDE DEF quiet
  <2>3. Good(quiet) /\ quiet \in Instance
    BY <2>2 DEF Sound, Good
  <2>4. shut \in Instance /\ shut.el = quiet.el
    BY <2>3 DEF Instance
  <2> HIDE DEF shut
  <2>5. ~gone.srcSet /\ gone.waitForLoad /\ gone.el = quiet.el
    BY <2>4, ResetFields
  <2> HIDE DEF gone
  <2>6. Silent(gone) /\ \A k \in Kinds : ErrorsAreReal(gone.el[k])
    BY <2>2, <2>5 DEF Silent, Sound
  <2>7. Sound(gone)
    BY <1>6, <2>1, <2>5, <2>6, NothingSetIsSound
  <2> QED
    BY <2>1, <2>5, <2>6, <2>7
<1>8. CASE kind # "none"
  <2>1. /\ Silent(open) /\ open.waitForLoad /\ ~open.srcSet /\ open.gate = kind
        /\ open \in Instance /\ \A k \in Kinds : ErrorsAreReal(open.el[k])
    BY <1>5, <1>6, <1>8, SwitchedSilent
  <2>2. Good(open) /\ Undelayed(open)
    BY <1>4, <1>6, <1>8, SwitchedGood
  <2> HIDE DEF open
  <2>3. /\ Silent(set) /\ set.gate = kind /\ set.node = kind
        /\ ~set.waitForLoad => set.el[kind].src = media
        /\ \A k \in Kinds : ErrorsAreReal(set.el[k])
    BY <1>6, <1>8, <2>1, <2>2, HtmlSetSilent
  <2>4. Good(set)
    BY <1>6, <1>8, <2>2, HtmlSetGood
  <2>5. SetMedia(v, media) = done
    BY <1>8 DEF SetMedia, idle, still, kind, open
  <2> HIDE DEF set
  <2>6. set \in Instance
    BY <2>4 DEF Good
  <2>7. /\ done.active /\ done.srcSet /\ done.media = media /\ done.el = set.el
        /\ done.gate = set.gate /\ done.node = set.node /\ done.waitForLoad = set.waitForLoad
    BY <2>6 DEF Instance
  <2> HIDE DEF done
  <2>8. Audible(done)
    BY <2>3, <2>7 DEF Audible, Silent
  <2>9. Prepared(done)
    BY <1>6, <1>8, <2>3, <2>7 DEF Prepared
  <2>10. \A k \in Kinds : ErrorsAreReal(done.el[k])
    BY <2>3, <2>7
  <2>11. Sound(done)
    BY <1>6, <2>5, <2>8, <2>9, <2>10 DEF Sound
  <2>12. Silent(done)
    BY <2>3, <2>7 DEF Silent
  <2> QED
    BY <2>5, <2>7, <2>11, <2>12
<1> QED
  BY <1>7, <1>8

LEMMA DestroySound ==
  ASSUME NEW v, Sound(v)
  PROVE  Sound(Destroy(v))
<1> DEFINE reset == [ResetStatus(v) EXCEPT !.busy = FALSE]
           still == [k \in Kinds |-> PauseElement(reset.el[k])]
           gone  == [reset EXCEPT !.alive = FALSE, !.loop = FALSE, !.el = still]
<1>1. Good(v) /\ v \in Instance /\ v.el \in [Kinds -> Element] /\ Good(Destroy(v))
  BY DestroyGood DEF Sound, Good, Instance
<1>2. Good(ResetStatus(v)) /\ ResetStatus(v) \in Instance
  BY <1>1, ResetStatusGood DEF Good
<1>3. ~ResetStatus(v).srcSet /\ ResetStatus(v).waitForLoad /\ ResetStatus(v).el = v.el
  BY <1>1, ResetFields
<1>4. reset \in Instance /\ ~reset.srcSet /\ reset.waitForLoad /\ reset.el = v.el
  BY <1>2, <1>3 DEF Instance
<1>5. Destroy(v) = gone
  BY <1>4 DEF Destroy
<1> HIDE DEF reset
<1>6. \A k \in Kinds : ~Sounding(still[k]) /\ ErrorsAreReal(still[k])
  BY <1>1, <1>4, PauseIsCalm DEF Sound, Calmer
<1> HIDE DEF still
<1>7. ~gone.srcSet /\ gone.waitForLoad /\ gone.el = still
  BY <1>4 DEF Instance
<1> HIDE DEF gone
<1>8. Silent(gone) /\ \A k \in Kinds : ErrorsAreReal(gone.el[k])
  BY <1>6, <1>7 DEF Silent
<1>9. Sound(gone)
  BY <1>1, <1>5, <1>7, <1>8, NothingSetIsSound
<1> QED
  BY <1>5, <1>9

(* The timeout that fires acts on what is set now, as a call would.        *)
LEMMA FireSound ==
  ASSUME NEW v, Sound(v), NEW i \in 1..Len(v.timers), NEW throws,
         v.timers[i].op # "playHead" => throws = FALSE
  PROVE  Sound(Fire(v, i, throws))
<1> DEFINE c == v.timers[i]
           rest == [v EXCEPT !.timers = SubSeq(@, 1, i - 1) \o SubSeq(@, i + 1, Len(@)),
                             !.held = @ /\ ~(i = Len(v.timers))]
<1>1. Good(v) /\ v \in Instance /\ v.timers \in Seq(Delayed)
  BY DEF Sound, Good, Instance
<1>2. Good(rest)
  BY <1>1, RestGood
<1>3. SameSound(v, rest)
  BY <1>1 DEF Instance, SameSound
<1>4. c.op \in Ops /\ c.time \in Times
  <2>1. c \in Delayed
    BY <1>1
  <2> QED
    BY <2>1 DEF Delayed, Ops, Times
<1>5. Fire(v, i, throws) = CASE c.op = "play"     -> Play(rest, c.time, throws)
                             [] c.op = "pause"    -> Pause(rest, c.time, throws)
                             [] c.op = "playHead" -> PlayHead(rest, throws)
  BY DEF Fire
<1>6. c.op # "playHead" => throws = FALSE
  OBVIOUS
<1> HIDE DEF rest, c
<1>7. Sound(rest)
  BY <1>2, <1>3, SameIsSound
<1>8. /\ Sound(Play(rest, c.time, FALSE)) /\ Sound(Pause(rest, c.time, FALSE))
      /\ Sound(PlayHead(rest, throws))
  BY <1>4, <1>7, CommandsAreSound
<1> QED
  BY <1>4, <1>5, <1>6, <1>8 DEF Ops

-----------------------------------------------------------------------------
(* The listeners.                                                          *)
LEMMA TakenSound ==
  ASSUME NEW v, Sound(v), NEW k \in Kinds, v.el[k].queue # << >>
  PROVE  /\ Sound(Taken(v, k)) /\ SameSetting(v, Taken(v, k))
         /\ Head(v.el[k].queue) = "error" => Taken(v, k).el[k].mode = "failed"
<1> DEFINE e == [v.el[k] EXCEPT !.queue = Tail(@)]
           u == [v EXCEPT !.el[k] = e]
<1>1. Good(v) /\ v \in Instance /\ v.el[k] \in Element
  BY DEF Sound, Good, Instance
<1>2. Taken(v, k) = u
  BY DEF Taken
<1>3. Calmer(e, v.el[k]) /\ e.mode = v.el[k].mode
      /\ (Head(v.el[k].queue) = "error" => ErrorIn(v.el[k]))
  BY <1>1, TakingIsCalm DEF Element
<1>4. Good(Taken(v, k))
  BY <1>1, TakenGood
<1> HIDE DEF e
<1>5. SameSetting(v, u) /\ u.el[k] = e /\ \A j \in Kinds : j # k => u.el[j] = v.el[j]
  BY <1>1, PutFields
<1> HIDE DEF u
<1>6. Sound(u)
  BY <1>2, <1>3, <1>4, <1>5, CalmerIsSound
<1>7. Head(v.el[k].queue) = "error" => u.el[k].mode = "failed"
  BY <1>3, <1>5 DEF Sound, ErrorsAreReal
<1> QED
  BY <1>2, <1>5, <1>6, <1>7

LEMMA OnEndedSound ==
  ASSUME NEW v, Sound(v)
  PROVE  Sound(OnEnded(v))
<1> DEFINE rewound == IF Webkit THEN v ELSE [v EXCEPT !.el[v.node] = SeekElement(@)]
           stopped == [rewound EXCEPT !.el[v.node] = PauseElement(@)]
           shown   == [stopped EXCEPT !.paused = TRUE]
<1>1. Good(v) /\ v \in Instance /\ v.node \in Kinds \cup {"none"}
  BY DEF Sound, Good, Instance
<1>2. Sound(rewound) /\ Good(rewound) /\ rewound.node = v.node
  BY <1>1, SeekAtSound DEF SameSetting, Sound
<1>3. OnEnded(v) = shown
  BY <1>1, <1>2 DEF OnEnded, Good, Instance
<1> HIDE DEF rewound
<1>4. Sound(stopped)
  BY <1>1, <1>2, PauseAtSound
<1> HIDE DEF stopped
<1>5. Good(stopped) /\ stopped \in Instance
  BY <1>4 DEF Sound, Good
<1>6. shown \in Instance /\ SameTimers(stopped, shown) /\ SameSound(stopped, shown)
  BY <1>5 DEF Instance, SameTimers, SameSound
<1> HIDE DEF shown
<1>7. Sound(shown)
  BY <1>4, <1>5, <1>6, SameIsGood, SameIsSound
<1> QED
  BY <1>3, <1>7

(* An error that is heard is that of an element which is heard no more.    *)
LEMMA OnErrorSound ==
  ASSUME NEW v, Sound(v), v.gate \in Kinds, v.el[v.gate].mode = "failed"
  PROVE  Sound(OnError(v))
<1> DEFINE shown   == [v EXCEPT !.paused = TRUE, !.busy = FALSE]
           cleared == ClearTimer(shown)
           waiting == [cleared EXCEPT !.waitForLoad = TRUE, !.waitForPlay = TRUE]
<1>1. Good(v) /\ v \in Instance /\ Good(OnError(v))
  BY OnErrorGood DEF Sound, Good
<1>2. shown \in Instance /\ SameTimers(v, shown) /\ SameSound(v, shown)
  BY <1>1 DEF Instance, SameTimers, SameSound
<1>3. OnError(v) = IF ~v.srcSet THEN shown ELSE waiting
  BY <1>2 DEF OnError, SameSound
<1> HIDE DEF shown
<1>4. Good(shown) /\ Sound(shown)
  BY <1>1, <1>2, SameIsGood, SameIsSound
<1>5. Good(cleared) /\ SameSound(shown, cleared)
  BY <1>2, <1>4, ClearTimerGood, ClearTimerSame
<1> HIDE DEF cleared
<1>6. cleared \in Instance /\ SameSound(v, cleared)
  BY <1>2, <1>5 DEF Good, SameSound
<1>7. /\ waiting.active = v.active /\ waiting.gate = v.gate /\ waiting.node = v.node
      /\ waiting.srcSet = v.srcSet /\ waiting.media = v.media /\ waiting.el = v.el
      /\ waiting.waitForLoad /\ waiting \in Instance /\ SameTimers(cleared, waiting)
  BY <1>6 DEF Instance, SameSound, SameTimers
<1> HIDE DEF waiting
<1>8. Good(waiting)
  BY <1>5, <1>7, SameIsGood
<1>9. Silent(v)
  BY DEF Sound, Audible, Silent, Sounding
<1>10. Audible(waiting)
  BY <1>7, <1>9, SilentIsAudible DEF Silent
<1>11. Prepared(waiting)
  BY <1>7 DEF Sound, Prepared
<1>12. Sound(waiting)
  BY <1>7, <1>8, <1>10, <1>11 DEF Sound
<1> QED
  BY <1>3, <1>4, <1>12

LEMMA HandledSound ==
  ASSUME NEW v, Sound(v), NEW k \in Kinds, v.el[k].queue # << >>
  PROVE  Sound(Handled(v, k))
<1> DEFINE u == Taken(v, k)
           event == Head(v.el[k].queue)
           shown == [u EXCEPT !.paused = Paused(u, event), !.busy = Busy(u, event)]
<1>1. Good(v) /\ Sound(u) /\ SameSetting(v, u) /\ Good(u) /\ u \in Instance
      /\ (event = "error" => u.el[k].mode = "failed")
  BY TakenSound DEF Sound, Good
<1>2. event \in Events
  BY <1>1, TakenGood
<1>3. Handled(v, k) = IF Heard(v, k) THEN OnEvent(u, event) ELSE u
  BY DEF Handled
<1> HIDE DEF u, event
<1>4. Sound(OnEnded(u))
  BY <1>1, OnEndedSound
<1>5. event = "error" /\ Heard(v, k) => Sound(OnError(u))
  <2>1. Heard(v, k) => u.gate = k
    BY <1>1 DEF Heard, SameSetting
  <2> QED
    BY <1>1, <2>1, OnErrorSound
<1>6. Sound(shown)
  <2>1. Paused(u, event) \in BOOLEAN /\ Busy(u, event) \in BOOLEAN
    <3>1. u.paused \in BOOLEAN /\ u.busy \in BOOLEAN
      BY <1>1 DEF Instance
    <3> QED
      BY <3>1 DEF Paused, Busy
  <2>2. shown \in Instance /\ SameTimers(u, shown) /\ SameSound(u, shown)
    BY <1>1, <2>1 DEF Instance, SameTimers, SameSound
  <2> HIDE DEF shown
  <2> QED
    BY <1>1, <2>2, SameIsGood, SameIsSound
<1>7. Heard(v, k) => Sound(OnEvent(u, event))
  BY <1>4, <1>5, <1>6 DEF OnEvent
<1> QED
  BY <1>1, <1>3, <1>7

-----------------------------------------------------------------------------
LEMMA InitSound == Init => Sound(w)
<1> SUFFICES ASSUME Init PROVE Sound(w)
  OBVIOUS
<1>1. PICK p \in BOOLEAN : w = [NewInstance EXCEPT !.preload = p]
  BY DEF Init
<1>2. /\ w.el = [k \in Kinds |-> NewElement] /\ ~w.srcSet /\ w.waitForLoad
  BY <1>1 DEF NewInstance
<1>3. ~Sounding(NewElement) /\ ErrorsAreReal(NewElement)
  BY DEF NewElement, Sounding, ErrorsAreReal, ErrorIn
<1>4. Silent(w) /\ \A k \in Kinds : ErrorsAreReal(w.el[k])
  BY <1>2, <1>3 DEF Silent
<1> QED
  BY <1>2, <1>4, InitGood, NothingSetIsSound

LEMMA CallSound == Sound(w) /\ strict = FALSE /\ CallAny => Sound(w')
<1> SUFFICES ASSUME Sound(w), strict = FALSE, CallAny PROVE Sound(w')
  OBVIOUS
<1>1. \A throws \in Throws : throws = FALSE
  BY DEF Throws
<1>2. ASSUME NEW m \in Media, CallSetMedia(m)
      PROVE  Sound(w')
  BY <1>2, SetMediaSound DEF CallSetMedia
<1>3. CASE CallClearMedia
  BY <1>3, ClearMediaSound DEF CallClearMedia
<1>4. CASE CallLoad
  BY <1>4, CommandsAreSound DEF CallLoad, Times
<1>5. CASE CallPlay
  BY <1>1, <1>5, CommandsAreSound DEF CallPlay, Times
<1>6. CASE CallPause
  BY <1>1, <1>6, CommandsAreSound DEF CallPause, Times
<1>7. CASE CallStop
  BY <1>1, <1>7, CommandsAreSound DEF CallStop, Times
<1>8. CASE CallPlayHead
  BY <1>8, CommandsAreSound DEF CallPlayHead, Times
<1>9. CASE CallLoop
  <2>1. Good(w) /\ w \in Instance
    BY DEF Sound, Good
  <2>2. w' \in Instance /\ SameTimers(w, w') /\ SameSound(w, w')
    BY <1>9, <2>1 DEF CallLoop, Instance, SameTimers, SameSound
  <2> QED
    BY <2>1, <2>2, SameIsGood, SameIsSound
<1>10. CASE CallDestroy
  BY <1>10, DestroySound DEF CallDestroy
<1> QED
  BY <1>2, <1>3, <1>4, <1>5, <1>6, <1>7, <1>8, <1>9, <1>10 DEF CallAny

LEMMA BecomesSound ==
  ASSUME Sound(w), NEW k \in Kinds, NEW next \in Element, Becomes(k, next),
         Calmer(next, w.el[k])
  PROVE  Sound(w')
<1>1. Good(w) /\ w \in Instance
  BY DEF Sound, Good
<1>2. Good(w')
  BY <1>1, BecomesGood
<1>3. w' = [w EXCEPT !.el[k] = next]
  BY DEF Becomes
<1>4. SameSetting(w, w') /\ w'.el[k] = next /\ \A j \in Kinds : j # k => w'.el[j] = w.el[j]
  BY <1>1, <1>3, PutFields
<1> QED
  BY <1>2, <1>4, CalmerIsSound

LEMMA BrowserSound ==
  ASSUME Sound(w), NEW k \in Kinds,
         Loads(k) \/ Breaks(k) \/ Ends(k) \/ Seeks(k) \/ Deliver(k)
  PROVE  Sound(w')
<1>1. w.el[k] \in Element /\ ErrorsAreReal(w.el[k])
  BY DEF Sound, Good, Instance
<1>2. CASE Loads(k)
  BY <1>1, <1>2, BrowserKeepsElements, BrowserIsCalm, BecomesSound DEF Loads
<1>3. CASE Breaks(k)
  BY <1>1, <1>3, BrowserKeepsElements, BrowserIsCalm, BecomesSound DEF Breaks
<1>4. CASE Ends(k)
  BY <1>1, <1>4, BrowserKeepsElements, BrowserIsCalm, BecomesSound DEF Ends
<1>5. CASE Seeks(k)
  BY <1>1, <1>5, BrowserKeepsElements, BrowserIsCalm, BecomesSound DEF Seeks
<1>6. CASE Deliver(k)
  <2>1. Sound(Handled(w, k))
    BY <1>6, HandledSound DEF Deliver
  <2>2. Sound(Repeat(Handled(w, k), Head(w.el[k].queue)))
    BY <2>1, CommandsAreSound DEF Repeat, Times
  <2> QED
    BY <1>6, <2>1, <2>2 DEF Deliver
<1> QED
  BY <1>2, <1>3, <1>4, <1>5, <1>6

LEMMA StepSound == Sound(w) /\ strict = FALSE /\ [Next]_vars => Sound(w')
<1> SUFFICES ASSUME Sound(w), strict = FALSE, [Next]_vars PROVE Sound(w')
  OBVIOUS
<1>1. CASE CallAny
  BY <1>1, CallSound
<1>2. ASSUME NEW k \in Kinds, Loads(k) \/ Breaks(k) \/ Ends(k) \/ Seeks(k) \/ Deliver(k)
      PROVE  Sound(w')
  BY <1>2, BrowserSound
<1>3. CASE Timeout
  <2>1. PICK i \in 1..Len(w.timers) :
          \E throws \in IF w.timers[i].op = "playHead" THEN BOOLEAN ELSE Throws :
            w' = Fire(w, i, throws)
    BY <1>3 DEF Timeout
  <2>2. PICK throws \in IF w.timers[i].op = "playHead" THEN BOOLEAN ELSE Throws :
          w' = Fire(w, i, throws)
    BY <2>1
  <2>3. w.timers[i].op # "playHead" => throws = FALSE
    BY <2>2 DEF Throws
  <2> QED
    BY <2>2, <2>3, FireSound
<1>4. CASE Quiet \/ UNCHANGED vars
  BY <1>4 DEF Quiet, vars
<1> QED
  BY <1>1, <1>2, <1>3, <1>4 DEF Next

(* Whatever is called and whatever the browser does, nothing is heard but  *)
(* the media that is set, from its own element while its gate is open; of  *)
(* a browser that accepts a position before the metadata.                  *)
THEOREM OnlyWhatIsSetPlays == Spec => []PlaysWhatIsSet
<1> DEFINE SInv == strict \in BOOLEAN /\ (~strict => Sound(w))
<1>1. Init => SInv
  BY InitSound DEF Init
<1>2. SInv /\ [Next]_vars => SInv'
  <2> SUFFICES ASSUME SInv, [Next]_vars PROVE SInv'
    OBVIOUS
  <2>1. strict' = strict
    BY DEF Next, CallAny, CallSetMedia, CallClearMedia, CallLoad, CallPlay, CallPause, CallStop,
           CallPlayHead, CallLoop, CallDestroy, Call, Loads, Breaks, Ends, Seeks, Becomes,
           Deliver, Timeout, Quiet, vars
  <2>2. ~strict => Sound(w')
    BY StepSound
  <2> QED
    BY <2>1, <2>2
<1>3. SInv => PlaysWhatIsSet
  BY DEF Sound, Audible, PlaysWhatIsSet
<1> QED
  BY <1>1, <1>2, <1>3, PTL DEF Spec

-----------------------------------------------------------------------------
(* What the controls show.                                                 *)

(* The events after which the buttons, and the seek bar, show this or that.*)
Plays   == {"play", "playing"}
Pauses  == {"pause", "ended"}
Begins  == {"waiting", "seeking"}
Settles == {"playing", "seeked", "suspend"}

(* Once the events of q have been handled, value is shown: the last event  *)
(* of those that show it or another (in T) shows it (in S), or there is    *)
(* none, and it is shown already.                                          *)
EndsIn(shown, value, q, S, T) ==
  \/ \E i \in 1..Len(q) : q[i] \in S /\ \A j \in 1..Len(q) : j > i => q[j] \notin T
  \/ shown = value /\ \A j \in 1..Len(q) : q[j] \notin T

Contains(q, e) == \E i \in 1..Len(q) : q[i] = e

(* What the buttons will show agrees with the element, when its queue has  *)
(* been heard: if it plays, or else if an end is still to be handled, for  *)
(* then it will be paused.  An error starts all over.                      *)
Agrees(paused, busy, el) ==
  ~Contains(el.queue, "error") =>
    /\ el.paused = TRUE => EndsIn(paused, TRUE, el.queue, Pauses, Plays)
    /\ el.paused = FALSE => \/ Contains(el.queue, "ended")
                            \/ EndsIn(paused, FALSE, el.queue, Plays, Pauses)
    /\ el.mode = "ready" /\ el.paused = FALSE /\ el.seeking = FALSE
         => EndsIn(busy, FALSE, el.queue, Settles, Begins)

(* ControlsAgree of an instance, with what makes it inductive.             *)
Controlled(v) ==
  /\ Good(v)
  /\ v.waitForLoad = TRUE => v.paused = TRUE
  /\ v.waitForLoad = FALSE => v.srcSet = TRUE
  /\ v.srcSet = TRUE => v.node = v.gate /\ v.gate \in Kinds
  /\ v.waitForLoad = FALSE => Agrees(v.paused, v.busy, v.el[v.gate])

LEMMA EventSets ==
  /\ Plays \subseteq Events /\ Pauses \subseteq Events
  /\ Begins \subseteq Events /\ Settles \subseteq Events
  /\ Plays \cap Pauses = {} /\ Begins \cap Settles = {}
BY DEF Plays, Pauses, Begins, Settles, Events

(* An event that is added shows the value, or does not matter.             *)
LEMMA AddedShows ==
  ASSUME NEW q \in Seq(Events), NEW x \in Events, NEW s, NEW t, NEW S, NEW T, x \notin T
  PROVE  /\ EndsIn(s, t, q, S, T) => EndsIn(s, t, Append(q, x), S, T)
         /\ x \in S => EndsIn(s, t, Append(q, x), S, T)
<1> DEFINE u == Append(q, x)
<1>1. /\ Len(q) \in Nat /\ Len(u) = Len(q) + 1 /\ u[Len(q) + 1] = x
      /\ \A i \in 1..Len(q) : u[i] = q[i]
  BY AppendProperties, LenProperties
<1> HIDE DEF u
<1>2. \A i \in 1..Len(u) : i \in 1..Len(q) \/ i = Len(q) + 1
  BY <1>1
<1>3. \A i \in 1..Len(q) : i \in 1..Len(u)
  BY <1>1
<1>4. ASSUME EndsIn(s, t, q, S, T)
      PROVE  EndsIn(s, t, u, S, T)
  BY <1>1, <1>2, <1>3, <1>4 DEF EndsIn
<1>5. ASSUME x \in S
      PROVE  EndsIn(s, t, u, S, T)
  <2>1. Len(q) + 1 \in 1..Len(u) /\ \A j \in 1..Len(u) : ~(j > Len(q) + 1)
    BY <1>1
  <2> QED
    BY <1>1, <1>5, <2>1 DEF EndsIn
<1> QED
  BY <1>4, <1>5 DEF u

(* An event that is handled shows the value, or does not matter, or there  *)
(* is a later one that does.                                               *)
LEMMA TakenShows ==
  ASSUME NEW q \in Seq(Events), q # << >>, NEW s, NEW r, NEW t, NEW S, NEW T,
         S \cap T = {}, EndsIn(s, t, q, S, T),
         Head(q) \in S => r = t,
         Head(q) \notin S \cup T => r = s
  PROVE  EndsIn(r, t, Tail(q), S, T)
<1> DEFINE u == Tail(q)
<1>1. /\ Len(q) \in Nat /\ Len(q) >= 1 /\ Len(u) = Len(q) - 1 /\ q[1] = Head(q)
      /\ \A i \in 1..Len(u) : u[i] = q[i + 1]
  BY LenProperties, HeadTailProperties, EmptySeq
<1>2. Len(u) \in Nat
  BY <1>1
<1> HIDE DEF u
<1>3. \A i \in 1..Len(u) : i + 1 \in 1..Len(q)
  BY <1>1, <1>2
<1>4. CASE \E i \in 1..Len(q) : q[i] \in S /\ \A j \in 1..Len(q) : j > i => q[j] \notin T
  <2>1. PICK i \in 1..Len(q) : q[i] \in S /\ \A j \in 1..Len(q) : j > i => q[j] \notin T
    BY <1>4
  <2>2. CASE i = 1
    <3>1. r = t
      BY <1>1, <2>1, <2>2
    <3>2. \A j \in 1..Len(u) : u[j] \notin T
      <4> SUFFICES ASSUME NEW j \in 1..Len(u) PROVE u[j] \notin T
        OBVIOUS
      <4>1. j + 1 \in 1..Len(q) /\ j + 1 > i
        BY <1>2, <1>3, <2>2
      <4> QED
        BY <1>1, <2>1, <4>1
    <3> QED
      BY <3>1, <3>2 DEF EndsIn, u
  <2>3. CASE i # 1
    <3>1. i - 1 \in 1..Len(u) /\ (i - 1) + 1 = i
      BY <1>1, <2>3
    <3>2. u[i - 1] \in S
      BY <1>1, <2>1, <3>1
    <3>3. \A j \in 1..Len(u) : j > i - 1 => u[j] \notin T
      <4> SUFFICES ASSUME NEW j \in 1..Len(u), j > i - 1 PROVE u[j] \notin T
        OBVIOUS
      <4>1. j + 1 \in 1..Len(q) /\ j + 1 > i
        BY <1>2, <1>3
      <4> QED
        BY <1>1, <2>1, <4>1
    <3> QED
      BY <3>1, <3>2, <3>3 DEF EndsIn, u
  <2> QED
    BY <2>2, <2>3
<1>5. CASE s = t /\ \A j \in 1..Len(q) : q[j] \notin T
  <2>1. \A j \in 1..Len(u) : u[j] \notin T
    BY <1>1, <1>3, <1>5
  <2>2. Head(q) \notin T
    BY <1>1, <1>5
  <2>3. r = t
    BY <1>5, <2>2
  <2> QED
    BY <2>1, <2>3 DEF EndsIn, u
<1> QED
  BY <1>4, <1>5 DEF EndsIn

LEMMA AddedContains ==
  ASSUME NEW q \in Seq(Events), NEW x \in Events, NEW e
  PROVE  Contains(Append(q, x), e) <=> Contains(q, e) \/ x = e
<1> DEFINE u == Append(q, x)
<1>1. /\ Len(q) \in Nat /\ Len(u) = Len(q) + 1 /\ u[Len(q) + 1] = x
      /\ \A i \in 1..Len(q) : u[i] = q[i]
  BY AppendProperties, LenProperties
<1> HIDE DEF u
<1>2. \A i \in 1..Len(u) : i \in 1..Len(q) \/ i = Len(q) + 1
  BY <1>1
<1>3. /\ \A i \in 1..Len(q) : i \in 1..Len(u)
      /\ Len(q) + 1 \in 1..Len(u)
  BY <1>1
<1>4. Contains(u, e) <=> Contains(q, e) \/ x = e
  BY <1>1, <1>2, <1>3 DEF Contains
<1> QED
  BY <1>4 DEF u

LEMMA TakenContains ==
  ASSUME NEW q \in Seq(Events), q # << >>, NEW e
  PROVE  Contains(q, e) <=> Head(q) = e \/ Contains(Tail(q), e)
<1> DEFINE u == Tail(q)
<1>1. /\ Len(q) \in Nat /\ Len(q) >= 1 /\ Len(u) = Len(q) - 1 /\ q[1] = Head(q)
      /\ \A i \in 1..Len(u) : u[i] = q[i + 1]
  BY LenProperties, HeadTailProperties, EmptySeq
<1> HIDE DEF u
<1>2. Len(u) \in Nat /\ 1 \in 1..Len(q)
  BY <1>1
<1>3. \A i \in 1..Len(u) : i + 1 \in 1..Len(q)
  BY <1>1, <1>2
<1>4. ASSUME NEW i \in 1..Len(q), q[i] = e, i # 1
      PROVE  Contains(u, e)
  <2>1. i - 1 \in 1..Len(u) /\ (i - 1) + 1 = i
    BY <1>1, <1>4
  <2>2. u[i - 1] = e
    BY <1>1, <1>4, <2>1
  <2> QED
    BY <2>1, <2>2 DEF Contains
<1>5. Contains(q, e) <=> Head(q) = e \/ Contains(u, e)
  BY <1>1, <1>2, <1>3, <1>4 DEF Contains
<1> QED
  BY <1>5 DEF u

LEMMA EventsAssociate ==
  ASSUME NEW x \in Seq(Events), NEW y \in Seq(Events), NEW z \in Seq(Events)
  PROVE  (x \o y) \o z = x \o (y \o z)
BY ConcatAssociative

LEMMA ShortConcat ==
  ASSUME NEW q \in Seq(Events), NEW a \in Events, NEW b \in Events
  PROVE  /\ q \o << >> = q /\ q \o <<a>> = Append(q, a)
         /\ q \o <<a, b>> = Append(Append(q, a), b)
<1>1. /\ q \o << >> = q /\ q \o <<a>> = Append(q, a)
  BY ConcatEmptySeq, AppendIsConcat
<1>2. Append(Append(q, a), b) = (q \o <<a>>) \o <<b>>
  BY AppendIsConcat, AppendProperties
<1>3. \A x, y, z \in Seq(Events) : (x \o y) \o z = x \o (y \o z)
  BY EventsAssociate
<1>4. <<a>> \in Seq(Events) /\ <<b>> \in Seq(Events) /\ <<a, b>> \in Seq(Events)
  OBVIOUS
<1>5. <<a>> \o <<b>> = <<a, b>>
  <2> DEFINE c == <<a>> \o <<b>>
  <2>1. Len(<<a>>) = 1 /\ Len(<<b>>) = 1 /\ Len(<<a, b>>) = 2
    OBVIOUS
  <2>2. /\ c \in Seq(Events) /\ Len(c) = 2
        /\ \A i \in 1..2 : c[i] = IF i <= 1 THEN <<a>>[i] ELSE <<b>>[i - 1]
    BY <1>4, <2>1, ConcatProperties
  <2>3. c[1] = a /\ c[2] = b
    BY <2>2
  <2> HIDE DEF c
  <2>4. \A i \in 1..2 : c[i] = <<a, b>>[i]
    BY <2>3
  <2>5. c = <<a, b>>
    BY <1>4, <2>1, <2>2, <2>4, SeqEqual
  <2> QED
    BY <2>5 DEF c
<1>6. (q \o <<a>>) \o <<b>> = q \o (<<a>> \o <<b>>)
  BY <1>3, <1>4
<1> QED
  BY <1>1, <1>2, <1>5, <1>6

(* An event that does not matter to the buttons is added to an element     *)
(* that plays no more and no less than before.                             *)
LEMMA NeutralAgrees ==
  ASSUME NEW p, NEW b, NEW el \in Element, NEW e, NEW x \in {"seeking", "seeked", "suspend", "ended"},
         Agrees(p, b, el), e.queue = Append(el.queue, x), e.paused = el.paused,
         \/ e.seeking = TRUE
         \/ x \in Settles
         \/ /\ x = "ended" /\ e.mode = el.mode /\ e.seeking = el.seeking
  PROVE  Agrees(p, b, e)
<1> DEFINE q == el.queue
<1> SUFFICES ASSUME ~Contains(e.queue, "error") PROVE Agrees(p, b, e)
  BY DEF Agrees
<1>1. q \in Seq(Events) /\ x \in Events /\ x \notin Plays /\ x # "error"
  BY DEF Element, Events, Plays
<1> HIDE DEF q
<1>2. e.queue = Append(q, x) /\ ~Contains(q, "error")
  BY <1>1, AddedContains DEF q
<1>3. el.paused = TRUE => EndsIn(p, TRUE, q, Pauses, Plays)
  BY <1>2 DEF Agrees, q
<1>4. el.paused = FALSE => Contains(q, "ended") \/ EndsIn(p, FALSE, q, Plays, Pauses)
  BY <1>2 DEF Agrees, q
<1>5. e.paused = TRUE => EndsIn(p, TRUE, e.queue, Pauses, Plays)
  BY <1>1, <1>2, <1>3, AddedShows
<1>6. e.paused = FALSE => \/ Contains(e.queue, "ended")
                          \/ EndsIn(p, FALSE, e.queue, Plays, Pauses)
  <2>1. CASE x = "ended"
    BY <1>1, <1>2, <2>1, AddedContains
  <2>2. CASE x # "ended"
    <3>1. x \notin Pauses
      BY <2>2 DEF Pauses
    <3>2. EndsIn(p, FALSE, q, Plays, Pauses) => EndsIn(p, FALSE, e.queue, Plays, Pauses)
      BY <1>1, <1>2, <3>1, AddedShows
    <3>3. Contains(q, "ended") => Contains(e.queue, "ended")
      BY <1>1, <1>2, AddedContains
    <3> QED
      BY <1>4, <3>2, <3>3
  <2> QED
    BY <2>1, <2>2
<1>7. e.mode = "ready" /\ e.paused = FALSE /\ e.seeking = FALSE
        => EndsIn(b, FALSE, e.queue, Settles, Begins)
  <2>1. CASE x \in Settles
    <3>1. x \notin Begins
      BY <2>1, EventSets
    <3> QED
      BY <1>1, <1>2, <2>1, <3>1, AddedShows
  <2>2. CASE x \notin Settles /\ e.seeking = FALSE
    <3>1. x = "ended" /\ e.mode = el.mode /\ e.seeking = el.seeking /\ x \notin Begins
      BY <2>2 DEF Begins
    <3>2. e.mode = "ready" /\ e.paused = FALSE => EndsIn(b, FALSE, q, Settles, Begins)
      BY <1>2, <2>2, <3>1 DEF Agrees, q
    <3> QED
      BY <1>1, <1>2, <3>1, <3>2, AddedShows
  <2> QED
    BY <2>1, <2>2
<1> QED
  BY <1>5, <1>6, <1>7 DEF Agrees

LEMMA PauseAgrees ==
  ASSUME NEW p, NEW b, NEW el \in Element, Agrees(p, b, el) \/ el.paused = FALSE
  PROVE  Agrees(p, b, PauseElement(el))
<1> DEFINE e == PauseElement(el)
<1>1. CASE el.paused # FALSE
  BY <1>1 DEF PauseElement, Element
<1>2. CASE el.paused = FALSE
  <2>1. e.queue = Append(el.queue, "pause") /\ e.paused = TRUE
    BY <1>2 DEF PauseElement, Element
  <2>2. el.queue \in Seq(Events) /\ "pause" \in Events /\ "pause" \in Pauses /\ "pause" \notin Plays
    BY DEF Element, Events, Pauses, Plays
  <2> HIDE DEF e
  <2>3. EndsIn(p, TRUE, e.queue, Pauses, Plays)
    BY <2>1, <2>2, AddedShows
  <2>4. Agrees(p, b, e)
    BY <2>1, <2>3 DEF Agrees
  <2> QED
    BY <2>4 DEF e
<1> QED
  BY <1>1, <1>2

LEMMA SeekAgrees ==
  ASSUME NEW p, NEW b, NEW el \in Element, Agrees(p, b, el)
  PROVE  Agrees(p, b, SeekElement(el))
<1>1. CASE el.mode # "ready"
  BY <1>1 DEF SeekElement
<1>2. CASE el.mode = "ready"
  <2> DEFINE e == SeekElement(el)
  <2>1. e.queue = Append(el.queue, "seeking") /\ e.paused = el.paused /\ e.seeking = TRUE
    BY <1>2 DEF SeekElement, Element
  <2> HIDE DEF e
  <2>2. Agrees(p, b, e)
    BY <2>1, NeutralAgrees
  <2> QED
    BY <2>2 DEF e
<1> QED
  BY <1>1, <1>2

LEMMA LoadAgrees ==
  ASSUME NEW b, NEW el, NEW url
  PROVE  Agrees(TRUE, b, LoadElement(el, url))
BY DEF Agrees, LoadElement, NewElement, EndsIn

LEMMA PlayAgrees ==
  ASSUME NEW p, NEW b, NEW el \in Element, Agrees(p, b, el)
  PROVE  Agrees(p, b, PlayElement(el))
<1> DEFINE started == IF el.ended THEN [el EXCEPT !.ended = FALSE, !.seeking = TRUE,
                                                  !.queue = Append(@, "seeking")]
                                  ELSE el
           x == IF el.mode = "ready" THEN "playing" ELSE "waiting"
           e == PlayElement(el)
<1>1. started \in Element /\ started.paused = el.paused /\ started.mode = el.mode
  <2>1. Append(el.queue, "seeking") \in Seq(Events)
    BY EnqueueOne DEF Events
  <2> QED
    BY <2>1 DEF Element
<1>2. Agrees(p, b, started)
  <2>1. CASE el.ended = TRUE
    <3>1. /\ started.queue = Append(el.queue, "seeking") /\ started.paused = el.paused
          /\ started.seeking = TRUE
      BY <2>1 DEF Element
    <3> HIDE DEF started
    <3> QED
      BY <3>1, NeutralAgrees
  <2>2. CASE el.ended # TRUE
    <3>1. started = el
      BY <2>2 DEF Element
    <3> QED
      BY <3>1
  <2> QED
    BY <2>1, <2>2
<1>3. e = IF el.paused = FALSE THEN started
          ELSE [started EXCEPT !.paused = FALSE, !.queue = @ \o <<"play", x>>]
  BY DEF PlayElement, Element
<1> HIDE DEF started, e
<1>4. CASE el.paused = FALSE
  BY <1>2, <1>3, <1>4 DEF e
<1>5. CASE el.paused # FALSE
  <2> DEFINE q == started.queue
             r == Append(q, "play")
  <2>1. /\ e.queue = q \o <<"play", x>> /\ e.paused = FALSE /\ e.mode = el.mode
        /\ q \in Seq(Events)
    BY <1>1, <1>3, <1>5 DEF Element
  <2>2. /\ "play" \in Events /\ "play" \in Plays /\ "play" \notin Pauses
        /\ x \in Events /\ x \notin Pauses
        /\ el.mode = "ready" => x \in Settles /\ x \notin Begins
    BY DEF Events, Plays, Pauses, Settles, Begins
  <2> HIDE DEF x, q
  <2>3. e.queue = Append(r, x) /\ r \in Seq(Events)
    BY <2>1, <2>2, ShortConcat, AppendProperties
  <2>4. EndsIn(p, FALSE, r, Plays, Pauses)
    BY <2>1, <2>2, AddedShows
  <2> HIDE DEF r
  <2>5. EndsIn(p, FALSE, e.queue, Plays, Pauses)
    BY <2>2, <2>3, <2>4, AddedShows
  <2>6. e.mode = "ready" => EndsIn(b, FALSE, e.queue, Settles, Begins)
    BY <2>1, <2>2, <2>3, AddedShows
  <2>7. Agrees(p, b, e)
    BY <2>1, <2>5, <2>6 DEF Agrees
  <2> QED
    BY <2>7 DEF e
<1> QED
  BY <1>4, <1>5

LEMMA FetchedAgrees ==
  ASSUME NEW p, NEW b, NEW el \in Element, NEW s \in {<< >>, <<"suspend">>}, Agrees(p, b, el)
  PROVE  Agrees(p, b, Fetched(el, s))
<1> DEFINE q == el.queue
           r == Append(q, "playing")
           e == Fetched(el, s)
<1>1. /\ q \in Seq(Events) /\ "playing" \in Events /\ "suspend" \in Events
      /\ "playing" \in Plays /\ "playing" \notin Pauses
      /\ "playing" \in Settles /\ "playing" \notin Begins
      /\ "suspend" \in Settles /\ "suspend" \notin Begins /\ "suspend" \notin Pauses
  BY DEF Element, Events, Plays, Pauses, Settles, Begins
<1>2. r \in Seq(Events)
  BY <1>1, AppendProperties
<1>3. /\ e.queue = q \o (IF el.paused THEN << >> ELSE <<"playing">>) \o s
      /\ e.paused = el.paused /\ e.mode = "ready" /\ e.seeking = el.seeking
  BY DEF Fetched, Element
<1> HIDE DEF q, e
<1>4. CASE el.paused = TRUE
  <2>1. e.queue = q \o s
    BY <1>1, <1>3, <1>4, ShortConcat
  <2>2. CASE s = << >>
    <3>1. e.queue = q
      BY <1>1, <2>1, <2>2, ShortConcat
    <3> QED
      BY <1>3, <1>4, <3>1 DEF Agrees, q, e
  <2>3. CASE s = <<"suspend">>
    <3>1. e.queue = Append(el.queue, "suspend")
      BY <1>1, <2>1, <2>3, ShortConcat DEF q
    <3>2. Agrees(p, b, e)
      BY <1>1, <1>3, <3>1, NeutralAgrees
    <3> QED
      BY <3>2 DEF e
  <2> QED
    BY <2>2, <2>3
<1>5. CASE el.paused # TRUE
  <2>1. e.queue = r \o s /\ e.paused = FALSE
    <3>1. el.paused = FALSE
      BY <1>5 DEF Element
    <3>2. e.queue = (q \o <<"playing">>) \o s
      BY <1>3, <3>1
    <3>3. q \o <<"playing">> = r
      BY <1>1, ShortConcat
    <3> QED
      BY <1>3, <3>1, <3>2, <3>3
  <2>2. EndsIn(p, FALSE, r, Plays, Pauses) /\ EndsIn(b, FALSE, r, Settles, Begins)
    BY <1>1, AddedShows
  <2> HIDE DEF r
  <2>3. EndsIn(p, FALSE, e.queue, Plays, Pauses) /\ EndsIn(b, FALSE, e.queue, Settles, Begins)
    <3>1. CASE s = << >>
      <4>1. e.queue = r
        BY <1>2, <2>1, <3>1, ConcatEmptySeq
      <4> QED
        BY <2>2, <4>1
    <3>2. CASE s = <<"suspend">>
      <4>1. e.queue = Append(r, "suspend")
        BY <1>1, <1>2, <2>1, <3>2, ShortConcat
      <4> QED
        BY <1>1, <1>2, <2>2, <4>1, AddedShows
    <3> QED
      BY <3>1, <3>2
  <2>4. Agrees(p, b, e)
    BY <2>1, <2>3 DEF Agrees
  <2> QED
    BY <2>4 DEF e
<1> QED
  BY <1>4, <1>5

LEMMA BrowserAgrees ==
  ASSUME NEW p, NEW b, NEW el \in Element, Agrees(p, b, el)
  PROVE  /\ \A s \in {<< >>, <<"suspend">>} : Agrees(p, b, Fetched(el, s))
         /\ Agrees(p, b, Failed(el))
         /\ \A pausing \in BOOLEAN : CanEnd(el) => Agrees(p, b, Ended(el, pausing))
         /\ Agrees(p, b, Arrived(el))
<1>1. el.queue \in Seq(Events) /\ "error" \in Events
  BY DEF Element, Events
<1>2. Agrees(p, b, Failed(el))
  <2>1. Failed(el).queue = Append(el.queue, "error")
    BY DEF Failed, Element
  <2>2. Contains(Failed(el).queue, "error")
    BY <1>1, <2>1, AddedContains
  <2> QED
    BY <2>2 DEF Agrees
<1>3. Agrees(p, b, Arrived(el))
  <2> DEFINE e == Arrived(el)
  <2>1. e.queue = Append(el.queue, "seeked") /\ e.paused = el.paused /\ "seeked" \in Settles
    BY DEF Arrived, Element, Settles
  <2> HIDE DEF e
  <2>2. Agrees(p, b, e)
    BY <2>1, NeutralAgrees
  <2> QED
    BY <2>2 DEF e
<1>4. CanEnd(el) => Agrees(p, b, Ended(el, FALSE))
  <2> DEFINE e == Ended(el, FALSE)
  <2> SUFFICES ASSUME CanEnd(el) PROVE Agrees(p, b, e)
    OBVIOUS
  <2>1. /\ e.queue = el.queue \o <<"ended">> /\ e.paused = el.paused
        /\ e.mode = el.mode /\ e.seeking = el.seeking
    BY DEF Ended, Element, CanEnd
  <2>2. e.queue = Append(el.queue, "ended")
    BY <1>1, <2>1, ShortConcat DEF Events
  <2> HIDE DEF e
  <2> QED
    BY <2>1, <2>2, NeutralAgrees
<1>5. Agrees(p, b, Ended(el, TRUE))
  <2> DEFINE e == Ended(el, TRUE)
             r == Append(el.queue, "pause")
  <2>1. /\ e.queue = el.queue \o <<"pause", "ended">> /\ e.paused = TRUE
    BY DEF Ended, Element
  <2>2. /\ "pause" \in Events /\ "ended" \in Events /\ "pause" \in Pauses /\ "ended" \in Pauses
        /\ "pause" \notin Plays /\ "ended" \notin Plays
    BY DEF Events, Pauses, Plays
  <2>3. e.queue = Append(r, "ended") /\ r \in Seq(Events)
    <3>1. el.queue \o <<"pause", "ended">> = Append(r, "ended")
      BY <1>1, <2>2, ShortConcat
    <3>2. r \in Seq(Events)
      BY <1>1, <2>2, AppendProperties
    <3> QED
      BY <2>1, <3>1, <3>2
  <2> HIDE DEF e, r
  <2>4. EndsIn(p, TRUE, e.queue, Pauses, Plays)
    BY <2>2, <2>3, AddedShows
  <2>5. Agrees(p, b, e)
    BY <2>1, <2>4 DEF Agrees
  <2> QED
    BY <2>5 DEF e
<1> QED
  BY <1>2, <1>3, <1>4, <1>5, FetchedAgrees

(* The first event has been handled: r and d are what is shown then.       *)
LEMMA TakenAgrees ==
  ASSUME NEW p, NEW b, NEW el \in Element, el.queue # << >>, Agrees(p, b, el),
         NEW r, NEW d, Head(el.queue) # "error",
         Head(el.queue) \in Plays  => r = FALSE,
         Head(el.queue) \in Pauses => r = TRUE,
         Head(el.queue) \notin Plays \cup Pauses => r = p,
         Head(el.queue) \in Settles => d = FALSE,
         Head(el.queue) \notin Begins \cup Settles => d = b,
         Head(el.queue) = "ended" => el.paused = TRUE
  PROVE  Agrees(r, d, [el EXCEPT !.queue = Tail(@)])
<1> DEFINE q == el.queue
           x == Head(q)
           e == [el EXCEPT !.queue = Tail(@)]
<1>1. q \in Seq(Events) /\ q # << >>
  BY DEF Element
<1>2. e.queue = Tail(q) /\ e.paused = el.paused /\ e.mode = el.mode /\ e.seeking = el.seeking
  BY DEF Element
<1>3. /\ x \in Plays => r = FALSE
      /\ x \in Pauses => r = TRUE
      /\ x \notin Plays \cup Pauses => r = p
      /\ x \in Settles => d = FALSE
      /\ x \notin Begins \cup Settles => d = b
      /\ x = "ended" => el.paused = TRUE
      /\ x # "error"
  OBVIOUS
<1> HIDE DEF e, q
<1> SUFFICES ASSUME ~Contains(e.queue, "error") PROVE Agrees(r, d, e)
  BY DEF Agrees, e
<1>4. ~Contains(q, "error")
  BY <1>1, <1>2, <1>3, TakenContains
<1>5. ASSUME el.paused = TRUE
      PROVE  EndsIn(r, TRUE, Tail(q), Pauses, Plays)
  <2>1. EndsIn(p, TRUE, q, Pauses, Plays)
    BY <1>4, <1>5 DEF Agrees, q
  <2>2. Pauses \cap Plays = {} /\ (x \notin Pauses \cup Plays => r = p)
    BY <1>3, EventSets
  <2> QED
    BY <1>1, <1>3, <2>1, <2>2, TakenShows
<1>6. ASSUME el.paused = FALSE
      PROVE  Contains(Tail(q), "ended") \/ EndsIn(r, FALSE, Tail(q), Plays, Pauses)
  <2>1. CASE Contains(q, "ended")
    BY <1>1, <1>3, <1>6, <2>1, TakenContains
  <2>2. CASE EndsIn(p, FALSE, q, Plays, Pauses)
    <3>1. Plays \cap Pauses = {}
      BY EventSets
    <3> QED
      BY <1>1, <1>3, <2>2, <3>1, TakenShows
  <2> QED
    BY <1>4, <1>6, <2>1, <2>2 DEF Agrees, q
<1>7. ASSUME el.mode = "ready", el.paused = FALSE, el.seeking = FALSE
      PROVE  EndsIn(d, FALSE, Tail(q), Settles, Begins)
  <2>1. EndsIn(b, FALSE, q, Settles, Begins)
    BY <1>4, <1>7 DEF Agrees, q
  <2>2. Settles \cap Begins = {} /\ (x \notin Settles \cup Begins => d = b)
    BY <1>3, EventSets
  <2> QED
    BY <1>1, <1>3, <2>1, <2>2, TakenShows
<1> QED
  BY <1>2, <1>5, <1>6, <1>7 DEF Agrees, e

-----------------------------------------------------------------------------
(* The controls of an instance.                                            *)
SameControls(v, u) ==
  /\ u.gate = v.gate /\ u.node = v.node /\ u.el = v.el /\ u.srcSet = v.srcSet
  /\ u.waitForLoad = v.waitForLoad /\ u.paused = v.paused /\ u.busy = v.busy

LEMMA SameIsControlled ==
  ASSUME NEW v, NEW u, Controlled(v), Good(u), SameControls(v, u)
  PROVE  Controlled(u)
BY DEF Controlled, SameControls

LEMMA NothingSetIsControlled ==
  ASSUME NEW v, Good(v), v.srcSet = FALSE, v.waitForLoad = TRUE, v.paused = TRUE
  PROVE  Controlled(v)
BY DEF Controlled

LEMMA TimersKeepControls ==
  ASSUME NEW v \in Instance
  PROVE  /\ SameControls(v, ClearTimer(v)) /\ SameControls(v, CheckWaitForPlay(v))
         /\ \A op, t : SameControls(v, Delay(v, op, t))
BY DEF ClearTimer, CheckWaitForPlay, Delay, Instance, SameControls

LEMMA PutControlled ==
  ASSUME NEW v, Controlled(v), NEW k, NEW e, Good([v EXCEPT !.el[k] = e]),
         k \in Kinds /\ Agrees(v.paused, v.busy, v.el[k]) => Agrees(v.paused, v.busy, e)
  PROVE  Controlled([v EXCEPT !.el[k] = e])
<1> DEFINE u == [v EXCEPT !.el[k] = e]
<1>1. v \in Instance
  BY DEF Controlled, Good
<1>2. /\ u.gate = v.gate /\ u.node = v.node /\ u.srcSet = v.srcSet
      /\ u.waitForLoad = v.waitForLoad /\ u.paused = v.paused /\ u.busy = v.busy
  BY <1>1 DEF Instance
<1>3. k \in Kinds => u.el[k] = e
  BY <1>1 DEF Instance
<1>4. \A j \in Kinds : j # k => u.el[j] = v.el[j]
  BY <1>1, PutFields
<1>5. Good(u)
  OBVIOUS
<1> HIDE DEF u
<1>6. v.waitForLoad = FALSE => v.gate \in Kinds /\ Agrees(v.paused, v.busy, v.el[v.gate])
  BY DEF Controlled
<1>7. v.waitForLoad = FALSE => Agrees(u.paused, u.busy, u.el[u.gate])
  <2>1. CASE v.gate = k
    BY <1>2, <1>3, <1>6, <2>1
  <2>2. CASE v.gate # k
    BY <1>2, <1>4, <1>6, <2>2
  <2> QED
    BY <2>1, <2>2
<1>8. Controlled(u)
  BY <1>2, <1>5, <1>7 DEF Controlled
<1> QED
  BY <1>8 DEF u

LEMMA ElementsControlled ==
  ASSUME NEW v, Controlled(v), NEW k \in Kinds \cup {"none"}
  PROVE  /\ Controlled([v EXCEPT !.el[k] = PauseElement(@)])
         /\ Controlled([v EXCEPT !.el[k] = SeekElement(@)])
         /\ Controlled([v EXCEPT !.el[k] = PlayElement(@)])
<1>1. Good(v) /\ v.el \in [Kinds -> Element]
  BY DEF Controlled, Good, Instance
<1>2. ASSUME k \in Kinds, Agrees(v.paused, v.busy, v.el[k])
      PROVE  /\ Agrees(v.paused, v.busy, PauseElement(v.el[k]))
             /\ Agrees(v.paused, v.busy, SeekElement(v.el[k]))
             /\ Agrees(v.paused, v.busy, PlayElement(v.el[k]))
  <2>1. v.el[k] \in Element
    BY <1>1, <1>2
  <2> QED
    BY <1>2, <2>1, PauseAgrees, SeekAgrees, PlayAgrees
<1>3. Controlled([v EXCEPT !.el[k] = PauseElement(v.el[k])])
  <2> DEFINE e == PauseElement(v.el[k])
  <2>1. k \in Kinds /\ Agrees(v.paused, v.busy, v.el[k]) => Agrees(v.paused, v.busy, e)
    BY <1>2
  <2>2. Good([v EXCEPT !.el[k] = e])
    BY <1>1, PauseAtGood
  <2> HIDE DEF e
  <2>3. Controlled([v EXCEPT !.el[k] = e])
    BY <2>1, <2>2, PutControlled
  <2> QED
    BY <2>3 DEF e
<1>4. Controlled([v EXCEPT !.el[k] = SeekElement(v.el[k])])
  <2> DEFINE e == SeekElement(v.el[k])
  <2>1. k \in Kinds /\ Agrees(v.paused, v.busy, v.el[k]) => Agrees(v.paused, v.busy, e)
    BY <1>2
  <2>2. Good([v EXCEPT !.el[k] = e])
    BY <1>1, SeekAtGood
  <2> HIDE DEF e
  <2>3. Controlled([v EXCEPT !.el[k] = e])
    BY <2>1, <2>2, PutControlled
  <2> QED
    BY <2>3 DEF e
<1>5. Controlled([v EXCEPT !.el[k] = PlayElement(v.el[k])])
  <2> DEFINE e == PlayElement(v.el[k])
  <2>1. k \in Kinds /\ Agrees(v.paused, v.busy, v.el[k]) => Agrees(v.paused, v.busy, e)
    BY <1>2
  <2>2. Good([v EXCEPT !.el[k] = e])
    BY <1>1, PlayAtGood
  <2> HIDE DEF e
  <2>3. Controlled([v EXCEPT !.el[k] = e])
    BY <2>1, <2>2, PutControlled
  <2> QED
    BY <2>3 DEF e
<1> QED
  BY <1>3, <1>4, <1>5

(* What is loaded begins paused, and so do the buttons.                    *)
LEMMA HtmlLoadControlled ==
  ASSUME NEW v, Controlled(v), v.srcSet = TRUE
  PROVE  Controlled(HtmlLoad(v))
<1> DEFINE u == HtmlLoad(v)
<1>1. Good(v) /\ v \in Instance /\ Good(u) /\ v.node = v.gate /\ v.gate \in Kinds
  BY HtmlLoadGood DEF Controlled, Good
<1>2. CASE v.waitForLoad = FALSE
  <2>1. u = ClearTimer(v)
    BY <1>2 DEF HtmlLoad
  <2> HIDE DEF u
  <2>2. Controlled(u)
    BY <1>1, <2>1, TimersKeepControls, SameIsControlled
  <2> QED
    BY <2>2 DEF u
<1>3. CASE v.waitForLoad # FALSE
  <2> DEFINE e   == LoadElement(v.el[v.node], v.media)
             put == [v EXCEPT !.waitForLoad = FALSE, !.el[v.node] = e]
  <2>1. v.waitForLoad = TRUE
    BY <1>1, <1>3 DEF Instance
  <2>2. u = ClearTimer(put)
    BY <2>1 DEF HtmlLoad
  <2>3. v.paused = TRUE
    BY <2>1 DEF Controlled
  <2>4. Agrees(v.paused, v.busy, e)
    BY <2>3, LoadAgrees
  <2>5. e \in Element
    <3>1. v.media \in Media \cup {None}
      BY <1>1 DEF Instance
    <3> QED
      BY <3>1, LoadElementType
  <2> HIDE DEF e, u
  <2>6. /\ put \in Instance /\ put.gate = v.gate /\ put.node = v.node /\ put.srcSet = v.srcSet
        /\ put.waitForLoad = FALSE /\ put.paused = v.paused /\ put.busy = v.busy
        /\ put.el[v.node] = e
    BY <1>1, <2>5 DEF Instance
  <2> HIDE DEF put
  <2>7. SameControls(put, u)
    BY <2>2, <2>6, TimersKeepControls
  <2>8. /\ u.gate = v.gate /\ u.node = v.gate /\ u.srcSet = TRUE /\ u.waitForLoad = FALSE
        /\ u.el[u.gate] = e /\ u.paused = v.paused /\ u.busy = v.busy
    BY <1>1, <2>6, <2>7 DEF SameControls
  <2>9. Agrees(u.paused, u.busy, u.el[u.gate])
    BY <2>4, <2>8
  <2>10. Good(u)
    BY <1>1 DEF u
  <2>11. Controlled(u)
    BY <1>1, <2>8, <2>9, <2>10 DEF Controlled
  <2> QED
    BY <2>11 DEF u
<1> QED
  BY <1>2, <1>3

LEMMA HtmlPlayControlled ==
  ASSUME NEW v, Controlled(v), v.srcSet = TRUE, NEW t \in Times, NEW throws
  PROVE  Controlled(HtmlPlay(v, t, throws))
<1> DEFINE loaded  == HtmlLoad(v)
           started == [loaded EXCEPT !.el[v.node] = PlayElement(@)]
           moved   == [started EXCEPT !.el[v.node] = SeekElement(@)]
           played  == HtmlPlay(v, t, throws)
<1>1. Good(v) /\ v.node \in Kinds \cup {"none"} /\ Good(played)
  BY HtmlPlayGood DEF Controlled, Good, Instance
<1>2. Controlled(loaded)
  BY HtmlLoadControlled
<1>3. played = IF t = "none" THEN CheckWaitForPlay(started)
               ELSE IF throws /\ started.el[v.node].mode # "ready" THEN Delay(started, "play", t)
               ELSE CheckWaitForPlay(moved)
  BY DEF HtmlPlay
<1> HIDE DEF loaded, played
<1>4. Controlled(started)
  BY <1>1, <1>2, ElementsControlled
<1> HIDE DEF started
<1>5. Controlled(moved)
  BY <1>1, <1>4, ElementsControlled
<1> HIDE DEF moved
<1>6. started \in Instance /\ moved \in Instance
  BY <1>4, <1>5 DEF Controlled, Good
<1>7. SameControls(started, played) \/ SameControls(moved, played)
  BY <1>3, <1>6, TimersKeepControls
<1>8. Controlled(played)
  BY <1>1, <1>4, <1>5, <1>7, SameIsControlled
<1> QED
  BY <1>8 DEF played

LEMMA HtmlPauseControlled ==
  ASSUME NEW v, Controlled(v), v.srcSet = TRUE, NEW t \in Times, NEW throws
  PROVE  Controlled(HtmlPause(v, t, throws))
<1> DEFINE cleared == IF t = "later" THEN HtmlLoad(v) ELSE ClearTimer(v)
           stopped == [cleared EXCEPT !.el[v.node] = PauseElement(@)]
           moved   == [stopped EXCEPT !.el[v.node] = SeekElement(@)]
           paused  == HtmlPause(v, t, throws)
<1>1. Good(v) /\ v \in Instance /\ v.node \in Kinds \cup {"none"} /\ Good(paused)
  BY HtmlPauseGood DEF Controlled, Good, Instance
<1>2. Controlled(cleared)
  <2>1. Controlled(HtmlLoad(v))
    BY HtmlLoadControlled
  <2>2. Controlled(ClearTimer(v))
    BY <1>1, ClearTimerGood, TimersKeepControls, SameIsControlled
  <2> QED
    BY <2>1, <2>2
<1>3. paused = IF t = "none" THEN stopped
               ELSE IF throws /\ stopped.el[v.node].mode # "ready" THEN Delay(stopped, "pause", t)
               ELSE IF t = "later" THEN CheckWaitForPlay(moved) ELSE moved
  BY DEF HtmlPause
<1> HIDE DEF cleared, paused
<1>4. Controlled(stopped)
  BY <1>1, <1>2, ElementsControlled
<1> HIDE DEF stopped
<1>5. Controlled(moved)
  BY <1>1, <1>4, ElementsControlled
<1> HIDE DEF moved
<1>6. stopped \in Instance /\ moved \in Instance
  BY <1>4, <1>5 DEF Controlled, Good
<1>7. \/ paused = stopped \/ paused = moved
      \/ SameControls(stopped, paused) \/ SameControls(moved, paused)
  BY <1>3, <1>6, TimersKeepControls
<1>8. Controlled(paused)
  BY <1>1, <1>4, <1>5, <1>7, SameIsControlled
<1> QED
  BY <1>8 DEF paused

LEMMA HtmlPlayHeadControlled ==
  ASSUME NEW v, Controlled(v), v.srcSet = TRUE, NEW throws
  PROVE  Controlled(HtmlPlayHead(v, throws))
<1> DEFINE loaded == HtmlLoad(v)
           moved  == [loaded EXCEPT !.el[v.node] = SeekElement(@)]
           placed == HtmlPlayHead(v, throws)
<1>1. Good(v) /\ v.node \in Kinds \cup {"none"} /\ Good(placed)
  BY HtmlPlayHeadGood DEF Controlled, Good, Instance
<1>2. Controlled(loaded)
  BY HtmlLoadControlled
<1>3. placed = Delay(loaded, "playHead", "none") \/ placed = CheckWaitForPlay(moved)
  BY DEF HtmlPlayHead
<1> HIDE DEF loaded, placed
<1>4. Controlled(moved)
  BY <1>1, <1>2, ElementsControlled
<1> HIDE DEF moved
<1>5. loaded \in Instance /\ moved \in Instance
  BY <1>2, <1>4 DEF Controlled, Good
<1>6. SameControls(loaded, placed) \/ SameControls(moved, placed)
  BY <1>3, <1>5, TimersKeepControls
<1>7. Controlled(placed)
  BY <1>1, <1>2, <1>4, <1>6, SameIsControlled
<1> QED
  BY <1>7 DEF placed

LEMMA CommandsAreControlled ==
  ASSUME NEW v, Controlled(v), NEW t \in Times, NEW throws
  PROVE  /\ Controlled(Load(v)) /\ Controlled(Play(v, t, throws))
         /\ Controlled(Pause(v, t, throws)) /\ Controlled(Stop(v, throws))
         /\ Controlled(PlayHead(v, throws))
<1>1. v.srcSet \in BOOLEAN /\ "start" \in Times
  BY DEF Controlled, Good, Instance, Times
<1>2. CASE v.srcSet = TRUE
  BY <1>1, <1>2, HtmlLoadControlled, HtmlPlayControlled, HtmlPauseControlled,
     HtmlPlayHeadControlled
     DEF Load, Play, Pause, Stop, PlayHead
<1>3. CASE v.srcSet = FALSE
  BY <1>3 DEF Load, Play, Pause, Stop, PlayHead
<1> QED
  BY <1>1, <1>2, <1>3

LEMMA ResetIsPaused ==
  ASSUME NEW v \in Instance
  PROVE  /\ ResetStatus(v) \in Instance /\ ResetStatus(v).gate = v.gate
         /\ ResetStatus(v).srcSet = FALSE /\ ResetStatus(v).waitForLoad = TRUE
         /\ ResetStatus(v).paused = TRUE
BY DEF ResetStatus, Instance

LEMMA ClearMediaWaits ==
  ASSUME NEW v, Good(v)
  PROVE  /\ ClearMedia(v).srcSet = FALSE /\ ClearMedia(v).waitForLoad = TRUE
         /\ ClearMedia(v).paused = TRUE /\ ClearMedia(v).gate = v.gate
<1> DEFINE reset   == ResetStatus(v)
           cleared == ClearTimer(reset)
           e       == LoadElement(PauseElement(cleared.el[cleared.node]), None)
           put     == [cleared EXCEPT !.el[cleared.node] = e]
<1>1. /\ reset \in Instance /\ reset.gate = v.gate
      /\ reset.srcSet = FALSE /\ reset.waitForLoad = TRUE /\ reset.paused = TRUE
  BY ResetIsPaused DEF Good
<1>2. cleared \in Instance
  BY ResetStatusGood, ClearTimerGood DEF Good
<1> HIDE DEF reset
<1>3. /\ cleared.gate = v.gate /\ cleared.srcSet = FALSE /\ cleared.waitForLoad = TRUE
      /\ cleared.paused = TRUE
  BY <1>1, TimersKeepControls DEF SameControls
<1>4. ClearMedia(v) = cleared \/ ClearMedia(v) = put
  BY DEF ClearMedia, HtmlClearMedia, reset
<1> HIDE DEF cleared, e
<1>5. /\ put.gate = cleared.gate /\ put.srcSet = cleared.srcSet
      /\ put.waitForLoad = cleared.waitForLoad /\ put.paused = cleared.paused
  BY <1>2 DEF Instance
<1> QED
  BY <1>3, <1>4, <1>5

(* Whatever was used before, nothing is loaded when the new gate is open.  *)
LEMMA SwitchedWaits ==
  ASSUME NEW v, Good(v), NEW kind \in Kinds, v.gate = "none" => v.waitForLoad = TRUE
  PROVE  Switched(v, kind).waitForLoad = TRUE /\ Switched(v, kind).gate = kind
<1> DEFINE open == [v EXCEPT !.gate = kind]
<1>1. v \in Instance
  BY DEF Good
<1>2. /\ open \in Instance /\ SameTimers(v, open) /\ open.gate = kind
      /\ open.waitForLoad = v.waitForLoad
  BY <1>1 DEF Instance, SameTimers
<1>3. Switched(v, kind) = IF v.gate = kind THEN ClearMedia(open)
                          ELSE IF v.gate # "none" THEN ResetStatus(HtmlPause(open, "none", FALSE))
                          ELSE open
  BY DEF Switched
<1> HIDE DEF open
<1>4. Good(open)
  BY <1>2, SameIsGood
<1>5. ClearMedia(open).waitForLoad = TRUE /\ ClearMedia(open).gate = kind
  BY <1>2, <1>4, ClearMediaWaits
<1>6. /\ ResetStatus(HtmlPause(open, "none", FALSE)).waitForLoad = TRUE
      /\ ResetStatus(HtmlPause(open, "none", FALSE)).gate = kind
  <2> DEFINE c == ClearTimer(open)
             e == PauseElement(c.el[open.node])
             u == HtmlPause(open, "none", FALSE)
  <2>1. u = [c EXCEPT !.el[open.node] = e]
    BY DEF HtmlPause
  <2>2. c \in Instance /\ c.gate = kind
    BY <1>2, <1>4, ClearTimerGood, TimersKeepControls DEF SameControls, Good
  <2>3. u \in Instance
    BY <1>4, HtmlPauseGood DEF Good, Times
  <2> HIDE DEF c, e, u
  <2>4. u.gate = kind
    BY <2>1, <2>2 DEF Instance
  <2> QED
    BY <2>3, <2>4, ResetIsPaused DEF u
<1> QED
  BY <1>2, <1>3, <1>5, <1>6

(* The element of this kind is used and, if it loads at all, loads media.  *)
LoadsOnly(u, kind, media) ==
  /\ u.gate = kind /\ u.node = kind
  /\ u.waitForLoad = FALSE => u.el[kind] = LoadElement(NewElement, media)

LEMMA HtmlSetLoads ==
  ASSUME NEW v, Good(v), v.waitForLoad = TRUE, NEW kind \in Kinds, v.gate = kind,
         NEW media \in Media
  PROVE  LoadsOnly(HtmlSet(v, kind, media), kind, media)
<1> DEFINE chosen == [v EXCEPT !.media = media, !.node = kind]
           calm   == [chosen EXCEPT !.el[kind] = PauseElement(@)]
           quiet  == IF v.srcSet /\ ~v.waitForPlay THEN calm ELSE chosen
           e      == LoadElement(quiet.el[quiet.node], quiet.media)
           put    == [quiet EXCEPT !.waitForLoad = FALSE, !.el[quiet.node] = e]
           u      == HtmlSet(v, kind, media)
<1>1. v \in Instance
  BY DEF Good
<1>2. /\ chosen \in Instance /\ chosen.gate = kind /\ chosen.node = kind
      /\ chosen.waitForLoad = TRUE /\ chosen.media = media
  BY <1>1 DEF Instance
<1>3. u = IF v.preload THEN HtmlLoad(quiet) ELSE quiet
  BY DEF HtmlSet
<1> HIDE DEF chosen, u
<1>4. /\ calm \in Instance /\ calm.gate = kind /\ calm.node = kind
      /\ calm.waitForLoad = TRUE /\ calm.media = media
  <2> DEFINE p == PauseElement(chosen.el[kind])
  <2>1. p \in Element
    BY <1>2, PauseElementType DEF Instance
  <2> HIDE DEF p
  <2>2. /\ [chosen EXCEPT !.el[kind] = p] \in Instance
        /\ SameSetting(chosen, [chosen EXCEPT !.el[kind] = p])
    BY <1>2, <2>1, PutElement, PutFields
  <2> QED
    BY <1>2, <2>2 DEF p, SameSetting
<1> HIDE DEF calm
<1>5. /\ quiet \in Instance /\ quiet.gate = kind /\ quiet.node = kind
      /\ quiet.waitForLoad = TRUE /\ quiet.media = media
  BY <1>2, <1>4
<1> HIDE DEF quiet
<1>6. HtmlLoad(quiet) = ClearTimer(put)
  BY <1>5 DEF HtmlLoad
<1>7. e \in Element
  <2>1. quiet.media \in Media \cup {None}
    BY <1>5
  <2> QED
    BY <2>1, LoadElementType
<1>8. e = LoadElement(NewElement, media)
  BY <1>5 DEF LoadElement
<1> HIDE DEF e
<1>9. put \in Instance /\ put.gate = kind /\ put.node = kind /\ put.el[kind] = e
  BY <1>5, <1>7 DEF Instance
<1> HIDE DEF put
<1>10. /\ ClearTimer(put).gate = kind /\ ClearTimer(put).node = kind
       /\ ClearTimer(put).el[kind] = e
  BY <1>9, TimersKeepControls DEF SameControls
<1>11. /\ u.gate = kind /\ u.node = kind
       /\ u.waitForLoad = FALSE => u.el[kind] = LoadElement(NewElement, media)
  BY <1>3, <1>5, <1>6, <1>8, <1>10
<1> QED
  BY <1>11 DEF u, LoadsOnly

LEMMA SetMediaControlled ==
  ASSUME NEW v, Controlled(v), NEW media \in Media
  PROVE  Controlled(SetMedia(v, media))
<1> DEFINE still == [v EXCEPT !.busy = FALSE]
           idle  == ClearTimer(still)
           kind  == Choice[media]
           open  == Switched(idle, kind)
           set   == HtmlSet(open, kind, media)
           done  == [set EXCEPT !.active = TRUE, !.srcSet = TRUE, !.media = media,
                                !.paused = TRUE]
           u     == SetMedia(v, media)
<1>1. Good(v) /\ v \in Instance /\ Good(u)
  BY SetMediaGood DEF Controlled, Good
<1>2. still \in Instance /\ SameTimers(v, still)
      /\ still.gate = v.gate /\ still.waitForLoad = v.waitForLoad
  BY <1>1 DEF Instance, SameTimers
<1> HIDE DEF still
<1>3. Good(still)
  BY <1>1, <1>2, SameIsGood
<1>4. Good(idle) /\ Undelayed(idle) /\ SameControls(still, idle) /\ idle \in Instance
  BY <1>2, <1>3, ClearTimerGood, TimersKeepControls DEF Good
<1> HIDE DEF idle
<1>5. idle.gate = "none" => idle.waitForLoad = TRUE
  <2>1. v.gate = "none" => v.srcSet # TRUE
    BY DEF Controlled, Kinds
  <2>2. v.gate = "none" => v.waitForLoad = TRUE
    <3>1. v.waitForLoad \in BOOLEAN
      BY <1>1 DEF Instance
    <3> QED
      BY <2>1, <3>1 DEF Controlled
  <2> QED
    BY <1>2, <1>4, <2>2 DEF SameControls
<1>6. kind \in Kinds \cup {"none"}
  BY ChoiceAssumption
<1>7. u = IF kind = "none" THEN Unsupported(idle) ELSE done
  BY DEF SetMedia, idle, still
<1> HIDE DEF kind, u
<1>8. CASE kind = "none"
  <2> DEFINE quiet == IF idle.srcSet /\ ~idle.waitForPlay THEN Pause(idle, "none", FALSE)
                      ELSE idle
             shut  == [quiet EXCEPT !.gate = "none", !.active = FALSE]
  <2>1. u = ResetStatus(shut)
    BY <1>7, <1>8 DEF Unsupported
  <2>2. quiet \in Instance
    BY <1>4, PauseGood DEF Good, Times
  <2> HIDE DEF quiet
  <2>3. shut \in Instance
    BY <2>2 DEF Instance
  <2> HIDE DEF shut
  <2>4. u.srcSet = FALSE /\ u.waitForLoad = TRUE /\ u.paused = TRUE
    BY <2>1, <2>3, ResetIsPaused
  <2>5. Controlled(u)
    BY <1>1, <2>4, NothingSetIsControlled
  <2> QED
    BY <2>5 DEF u
<1>9. CASE kind # "none"
  <2>1. kind \in Kinds /\ u = done
    BY <1>6, <1>7, <1>9
  <2> HIDE DEF done
  <2>2. Good(open) /\ Undelayed(open) /\ open.waitForLoad = TRUE /\ open.gate = kind
    BY <1>4, <1>5, <2>1, SwitchedGood, SwitchedWaits
  <2> HIDE DEF open
  <2>3. Good(set) /\ set \in Instance
    BY <2>1, <2>2, HtmlSetGood DEF Good
  <2>4. LoadsOnly(set, kind, media)
    BY <2>1, <2>2, HtmlSetLoads
  <2> HIDE DEF set
  <2>5. /\ done.gate = set.gate /\ done.node = set.node /\ done.el = set.el
        /\ done.srcSet = TRUE /\ done.paused = TRUE /\ done.waitForLoad = set.waitForLoad
    BY <2>3 DEF Instance, done
  <2>6. u.waitForLoad = FALSE => Agrees(u.paused, u.busy, u.el[u.gate])
    <3> SUFFICES ASSUME u.waitForLoad = FALSE PROVE Agrees(u.paused, u.busy, u.el[u.gate])
      OBVIOUS
    <3>1. u.el[kind] = LoadElement(NewElement, media)
      BY <2>1, <2>4, <2>5 DEF LoadsOnly
    <3>2. Agrees(TRUE, u.busy, LoadElement(NewElement, media))
      BY LoadAgrees
    <3>3. u.gate = kind /\ u.paused = TRUE
      BY <2>1, <2>4, <2>5 DEF LoadsOnly
    <3> QED
      BY <3>1, <3>2, <3>3
  <2>7. Controlled(u)
    BY <1>1, <2>1, <2>4, <2>5, <2>6 DEF Controlled, LoadsOnly
  <2> QED
    BY <2>7 DEF u
<1> QED
  BY <1>8, <1>9

LEMMA ClearMediaControlled ==
  ASSUME NEW v, Controlled(v)
  PROVE  Controlled(ClearMedia(v))
<1>1. Good(v) /\ Good(ClearMedia(v))
  BY ClearMediaGood DEF Controlled
<1> QED
  BY <1>1, ClearMediaWaits, NothingSetIsControlled

LEMMA DestroyControlled ==
  ASSUME NEW v, Controlled(v)
  PROVE  Controlled(Destroy(v))
<1> DEFINE status == ResetStatus(v)
           reset  == [status EXCEPT !.busy = FALSE]
           still  == [k \in Kinds |-> PauseElement(reset.el[k])]
           gone   == [reset EXCEPT !.alive = FALSE, !.loop = FALSE, !.el = still]
<1>1. Good(v) /\ v \in Instance /\ Good(Destroy(v))
  BY DestroyGood DEF Controlled, Good
<1>2. /\ status \in Instance /\ status.srcSet = FALSE /\ status.waitForLoad = TRUE
      /\ status.paused = TRUE
  BY <1>1, ResetIsPaused
<1>3. reset.srcSet = FALSE => Destroy(v) = gone
  BY DEF Destroy
<1> HIDE DEF status
<1>4. /\ reset \in Instance /\ reset.srcSet = FALSE /\ reset.waitForLoad = TRUE
      /\ reset.paused = TRUE
  BY <1>2 DEF Instance
<1> HIDE DEF reset, still
<1>5. Destroy(v) = gone
  BY <1>3, <1>4
<1>6. gone.srcSet = FALSE /\ gone.waitForLoad = TRUE /\ gone.paused = TRUE
  BY <1>4 DEF Instance
<1> HIDE DEF gone
<1> QED
  BY <1>1, <1>5, <1>6, NothingSetIsControlled

LEMMA FireControlled ==
  ASSUME NEW v, Controlled(v), NEW i \in 1..Len(v.timers), NEW throws
  PROVE  Controlled(Fire(v, i, throws))
<1> DEFINE c == v.timers[i]
           rest == [v EXCEPT !.timers = SubSeq(@, 1, i - 1) \o SubSeq(@, i + 1, Len(@)),
                             !.held = @ /\ ~(i = Len(v.timers))]
<1>1. Good(v) /\ v \in Instance /\ v.timers \in Seq(Delayed)
  BY DEF Controlled, Good, Instance
<1>2. Good(rest)
  BY <1>1, RestGood
<1>3. SameControls(v, rest)
  BY <1>1 DEF Instance, SameControls
<1>4. c.op \in Ops /\ c.time \in Times
  <2>1. c \in Delayed
    BY <1>1
  <2> QED
    BY <2>1 DEF Delayed, Ops, Times
<1>5. Fire(v, i, throws) = CASE c.op = "play"     -> Play(rest, c.time, throws)
                             [] c.op = "pause"    -> Pause(rest, c.time, throws)
                             [] c.op = "playHead" -> PlayHead(rest, throws)
  BY DEF Fire
<1> HIDE DEF rest, c
<1>6. Controlled(rest)
  BY <1>2, <1>3, SameIsControlled
<1>7. /\ Controlled(Play(rest, c.time, throws)) /\ Controlled(Pause(rest, c.time, throws))
      /\ Controlled(PlayHead(rest, throws))
  BY <1>4, <1>6, CommandsAreControlled
<1> QED
  BY <1>4, <1>5, <1>7 DEF Ops

-----------------------------------------------------------------------------
(* The listeners and the controls.                                         *)
TakenElement(el) == [el EXCEPT !.queue = Tail(@)]

(* What the handler of ended does to the element of htmlElement.media.     *)
StoppedElement(el) == PauseElement(IF Webkit THEN el ELSE SeekElement(el))

(* An event that is not heard is lost on an element that is not shown.     *)
LEMMA UnheardControlled ==
  ASSUME NEW v, Controlled(v), NEW k \in Kinds, v.el[k].queue # << >>, ~Heard(v, k)
  PROVE  Controlled(Taken(v, k))
<1> DEFINE e == TakenElement(v.el[k])
           u == [v EXCEPT !.el[k] = e]
<1>1. Good(v) /\ v \in Instance /\ v.waitForLoad \in BOOLEAN
  BY DEF Controlled, Good, Instance
<1>2. Taken(v, k) = u
  BY DEF Taken, TakenElement
<1>3. Good(u)
  BY <1>1, <1>2, TakenGood
<1> HIDE DEF e
<1>4. SameSetting(v, u) /\ \A j \in Kinds : j # k => u.el[j] = v.el[j]
  BY <1>1, PutFields
<1>5. u.paused = v.paused /\ u.busy = v.busy
  BY <1>1 DEF Instance
<1> HIDE DEF u
<1>6. v.waitForLoad = FALSE => v.gate # k
  BY DEF Heard
<1>7. v.waitForLoad = FALSE => u.el[v.gate] = v.el[v.gate]
  BY <1>4, <1>6 DEF Controlled
<1>8. Controlled(u)
  BY <1>3, <1>4, <1>5, <1>7 DEF Controlled, SameSetting
<1> QED
  BY <1>2, <1>8

(* What is heard comes from the element that is used, with a media set.    *)
LEMMA HeardElement ==
  ASSUME NEW v, Controlled(v), NEW k \in Kinds, v.el[k].queue # << >>, Heard(v, k)
  PROVE  /\ v \in Instance /\ v.el[k] \in Element /\ Agrees(v.paused, v.busy, v.el[k])
         /\ v.gate = k /\ v.node = k /\ v.srcSet = TRUE /\ v.waitForLoad = FALSE
         /\ Good(Taken(v, k)) /\ Taken(v, k) \in Instance /\ SameSetting(v, Taken(v, k))
         /\ Taken(v, k).el[k] = TakenElement(v.el[k])
         /\ Taken(v, k).paused = v.paused /\ Taken(v, k).busy = v.busy
<1> DEFINE e == TakenElement(v.el[k])
           u == [v EXCEPT !.el[k] = e]
<1>1. Good(v) /\ v \in Instance /\ v.waitForLoad \in BOOLEAN /\ v.el[k] \in Element
  BY DEF Controlled, Good, Instance
<1>2. Taken(v, k) = u
  BY DEF Taken, TakenElement
<1>3. Good(Taken(v, k)) /\ Taken(v, k) \in Instance
  BY <1>1, TakenGood DEF Good
<1>4. v.gate = k /\ v.waitForLoad = FALSE
  BY <1>1 DEF Heard
<1>5. v.node = k /\ v.srcSet = TRUE /\ Agrees(v.paused, v.busy, v.el[k])
  BY <1>4 DEF Controlled
<1> HIDE DEF e
<1>6. SameSetting(v, u) /\ u.el[k] = e
  <2>1. u.el[k] = e
    BY <1>1 DEF Instance
  <2> QED
    BY <1>1, <2>1, PutFields
<1>7. u.paused = v.paused /\ u.busy = v.busy
  BY <1>1 DEF Instance
<1> HIDE DEF u
<1> QED
  BY <1>1, <1>2, <1>3, <1>4, <1>5, <1>6, <1>7 DEF e

LEMMA StoppedAgrees ==
  ASSUME NEW p, NEW b, NEW el \in Element, Agrees(p, b, el), el.queue # << >>,
         Head(el.queue) = "ended"
  PROVE  Agrees(TRUE, b, StoppedElement(TakenElement(el)))
<1> DEFINE t == TakenElement(el)
           s == IF Webkit THEN t ELSE SeekElement(t)
<1>1. el.paused \in BOOLEAN /\ el.queue \in Seq(Events)
  BY DEF Element
<1>2. Tail(el.queue) \in Seq(Events)
  BY <1>1, HeadTailProperties
<1>3. t \in Element /\ t.paused = el.paused
  BY <1>2 DEF Element, TakenElement
<1> HIDE DEF t
<1>4. s \in Element /\ s.paused = el.paused
  <2>1. SeekElement(t) \in Element
    BY <1>3, SeekElementType
  <2>2. SeekElement(t).paused = t.paused
    BY <1>3 DEF SeekElement, Element
  <2> QED
    BY <1>3, <2>1, <2>2
<1>5. el.paused = TRUE => Agrees(TRUE, b, s)
  <2> SUFFICES ASSUME el.paused = TRUE PROVE Agrees(TRUE, b, s)
    OBVIOUS
  <2>1. "ended" \notin Plays /\ "ended" \notin Begins \cup Settles /\ "ended" # "error"
        /\ "ended" \in Pauses
    BY DEF Plays, Begins, Settles, Pauses
  <2>2. Agrees(TRUE, b, t)
    BY <2>1, TakenAgrees DEF t, TakenElement
  <2>3. Agrees(TRUE, b, SeekElement(t))
    BY <1>3, <2>2, SeekAgrees
  <2> QED
    BY <2>2, <2>3
<1>6. StoppedElement(t) = PauseElement(s)
  BY DEF StoppedElement
<1> HIDE DEF s
<1>7. Agrees(TRUE, b, PauseElement(s))
  BY <1>1, <1>4, <1>5, PauseAgrees
<1> QED
  BY <1>6, <1>7 DEF t

LEMMA EndedControlled ==
  ASSUME NEW v, Controlled(v), NEW k \in Kinds, v.el[k].queue # << >>, Heard(v, k),
         Head(v.el[k].queue) = "ended"
  PROVE  Controlled(OnEnded(Taken(v, k)))
<1> DEFINE u       == Taken(v, k)
           rewound == IF Webkit THEN u ELSE [u EXCEPT !.el[u.node] = SeekElement(@)]
           stopped == [rewound EXCEPT !.el[u.node] = PauseElement(@)]
           shown   == [stopped EXCEPT !.paused = TRUE]
<1>1. /\ u \in Instance /\ Good(u) /\ u.gate = k /\ u.node = k /\ u.srcSet = TRUE
      /\ u.waitForLoad = FALSE /\ u.el[k] = TakenElement(v.el[k]) /\ u.busy = v.busy
  <2>1. /\ v.gate = k /\ v.node = k /\ v.srcSet = TRUE /\ v.waitForLoad = FALSE
        /\ Good(u) /\ u \in Instance /\ SameSetting(v, u)
        /\ u.el[k] = TakenElement(v.el[k]) /\ u.busy = v.busy
    BY HeardElement
  <2> QED
    BY <2>1 DEF SameSetting
<1>2. Agrees(TRUE, v.busy, StoppedElement(TakenElement(v.el[k])))
  BY HeardElement, StoppedAgrees
<1>3. OnEnded(u) = [rewound EXCEPT !.el[rewound.node] = PauseElement(@), !.paused = TRUE]
  BY DEF OnEnded
<1>4. Good(OnEnded(u))
  BY <1>1, OnEndedGood
<1> HIDE DEF u
<1>5. /\ rewound \in Instance /\ SameSetting(u, rewound) /\ rewound.busy = u.busy
      /\ rewound.el[k] = IF Webkit THEN u.el[k] ELSE SeekElement(u.el[k])
  <2> DEFINE e == SeekElement(u.el[k])
             z == [u EXCEPT !.el[k] = e]
  <2>1. e \in Element
    BY <1>1, SeekElementType DEF Instance
  <2>2. rewound = IF Webkit THEN u ELSE z
    BY <1>1
  <2> HIDE DEF e
  <2>3. z \in Instance /\ SameSetting(u, z) /\ z.el[k] = e /\ z.busy = u.busy
    BY <1>1, <2>1 DEF Instance, SameSetting
  <2> HIDE DEF z, rewound
  <2> QED
    BY <1>1, <2>2, <2>3 DEF e, SameSetting
<1> HIDE DEF rewound
<1>6. /\ OnEnded(u).el[k] = PauseElement(rewound.el[k]) /\ SameSetting(rewound, OnEnded(u))
      /\ OnEnded(u).busy = rewound.busy /\ OnEnded(u).paused = TRUE
  <2> DEFINE e == PauseElement(rewound.el[k])
  <2>1. OnEnded(u) = [rewound EXCEPT !.el[k] = e, !.paused = TRUE]
    BY <1>1, <1>3, <1>5 DEF SameSetting
  <2> HIDE DEF e
  <2>2. /\ OnEnded(u).el[k] = e /\ SameSetting(rewound, OnEnded(u))
        /\ OnEnded(u).busy = rewound.busy /\ OnEnded(u).paused = TRUE
    BY <1>5, <2>1 DEF Instance, SameSetting
  <2> QED
    BY <2>2 DEF e
<1>7. Agrees(OnEnded(u).paused, OnEnded(u).busy, OnEnded(u).el[k])
  BY <1>1, <1>2, <1>5, <1>6 DEF StoppedElement
<1>8. Controlled(OnEnded(u))
  BY <1>1, <1>4, <1>5, <1>6, <1>7 DEF Controlled, SameSetting
<1> QED
  BY <1>8 DEF u

LEMMA ShownControlled ==
  ASSUME NEW v, Controlled(v), NEW k \in Kinds, v.el[k].queue # << >>, Heard(v, k),
         Head(v.el[k].queue) \notin {"ended", "error"}
  PROVE  Controlled(OnEvent(Taken(v, k), Head(v.el[k].queue)))
<1> DEFINE u     == Taken(v, k)
           event == Head(v.el[k].queue)
           r     == Paused(u, event)
           d     == Busy(u, event)
           shown == [u EXCEPT !.paused = r, !.busy = d]
<1>1. /\ v.gate = k /\ v.node = k /\ v.srcSet = TRUE /\ v.waitForLoad = FALSE
      /\ Good(u) /\ u \in Instance /\ SameSetting(v, u)
      /\ u.el[k] = TakenElement(v.el[k]) /\ u.paused = v.paused /\ u.busy = v.busy
  BY HeardElement
<1>2. v.el[k] \in Element /\ Agrees(v.paused, v.busy, v.el[k])
  BY HeardElement
<1>3. OnEvent(u, event) = shown
  BY DEF OnEvent
<1> HIDE DEF u
<1>4. r \in BOOLEAN /\ d \in BOOLEAN
  <2>1. u.paused \in BOOLEAN /\ u.busy \in BOOLEAN
    BY <1>1 DEF Instance
  <2> QED
    BY <2>1 DEF Paused, Busy
<1>5. /\ event \in Plays  => r = FALSE
      /\ event \in Pauses => r = TRUE
      /\ event \notin Plays \cup Pauses => r = v.paused
      /\ event \in Settles => d = FALSE
      /\ event \notin Begins \cup Settles => d = v.busy
      /\ event # "error" /\ event # "ended"
  BY <1>1 DEF Paused, Busy, Plays, Pauses, Begins, Settles
<1> HIDE DEF r, d
<1>6. Agrees(r, d, TakenElement(v.el[k]))
  BY <1>2, <1>5, TakenAgrees DEF TakenElement
<1>7. /\ shown \in Instance /\ SameTimers(u, shown) /\ SameSetting(u, shown)
      /\ shown.el = u.el /\ shown.paused = r /\ shown.busy = d
  BY <1>1, <1>4 DEF Instance, SameTimers, SameSetting
<1> HIDE DEF shown
<1>8. Good(shown)
  BY <1>1, <1>7, SameIsGood
<1>9. Controlled(shown)
  BY <1>1, <1>6, <1>7, <1>8 DEF Controlled, SameSetting
<1> QED
  BY <1>3, <1>9 DEF u

(* An error makes everything wait for the next load.                       *)
LEMMA ErrorControlled ==
  ASSUME NEW v, Controlled(v), NEW k \in Kinds, v.el[k].queue # << >>, Heard(v, k)
  PROVE  Controlled(OnError(Taken(v, k)))
<1> DEFINE u       == Taken(v, k)
           shown   == [u EXCEPT !.paused = TRUE, !.busy = FALSE]
           cleared == ClearTimer(shown)
           waiting == [cleared EXCEPT !.waitForLoad = TRUE, !.waitForPlay = TRUE]
<1>1. /\ v.gate = k /\ v.node = k /\ v.srcSet = TRUE
      /\ Good(u) /\ u \in Instance /\ SameSetting(v, u)
  BY HeardElement
<1>2. Good(OnError(u))
  BY <1>1, OnErrorGood
<1> HIDE DEF u
<1>3. u.gate = k /\ u.node = k /\ u.srcSet = TRUE
  BY <1>1 DEF SameSetting
<1>4. OnError(u) = IF ~u.srcSet THEN shown ELSE waiting
  BY DEF OnError
<1>5. /\ shown \in Instance /\ SameTimers(u, shown) /\ shown.gate = k /\ shown.node = k
      /\ shown.srcSet = TRUE /\ shown.paused = TRUE
  BY <1>1, <1>3 DEF Instance, SameTimers
<1> HIDE DEF shown
<1>6. Good(shown)
  BY <1>1, <1>5, SameIsGood
<1>7. cleared \in Instance /\ SameControls(shown, cleared)
  BY <1>5, <1>6, ClearTimerGood, TimersKeepControls DEF Good
<1> HIDE DEF cleared
<1>8. /\ waiting.gate = k /\ waiting.node = k /\ waiting.srcSet = TRUE
      /\ waiting.paused = TRUE /\ waiting.waitForLoad = TRUE
  BY <1>5, <1>7 DEF Instance, SameControls
<1> HIDE DEF waiting
<1>9. OnError(u) = waiting
  BY <1>3, <1>4
<1>10. Controlled(waiting)
  BY <1>2, <1>8, <1>9 DEF Controlled
<1> QED
  BY <1>9, <1>10 DEF u

LEMMA HandledControlled ==
  ASSUME NEW v, Controlled(v), NEW k \in Kinds, v.el[k].queue # << >>
  PROVE  Controlled(Handled(v, k))
<1> DEFINE event == Head(v.el[k].queue)
<1>1. CASE ~Heard(v, k)
  BY <1>1, UnheardControlled DEF Handled
<1>2. CASE Heard(v, k)
  <2>1. Handled(v, k) = OnEvent(Taken(v, k), event)
    BY <1>2 DEF Handled
  <2>2. CASE event = "ended"
    BY <1>2, <2>1, <2>2, EndedControlled DEF OnEvent
  <2>3. CASE event = "error"
    BY <1>2, <2>1, <2>3, ErrorControlled DEF OnEvent
  <2>4. CASE event \notin {"ended", "error"}
    BY <1>2, <2>1, <2>4, ShownControlled
  <2> QED
    BY <2>2, <2>3, <2>4
<1> QED
  BY <1>1, <1>2

-----------------------------------------------------------------------------
LEMMA InitControlled == Init => Controlled(w)
<1> SUFFICES ASSUME Init PROVE Controlled(w)
  OBVIOUS
<1>1. PICK p \in BOOLEAN : w = [NewInstance EXCEPT !.preload = p]
  BY DEF Init
<1>2. w.srcSet = FALSE /\ w.waitForLoad = TRUE /\ w.paused = TRUE
  BY <1>1 DEF NewInstance
<1> QED
  BY <1>2, InitGood, NothingSetIsControlled

LEMMA CallControlled == Controlled(w) /\ CallAny => Controlled(w')
<1> SUFFICES ASSUME Controlled(w), CallAny PROVE Controlled(w')
  OBVIOUS
<1>1. ASSUME NEW m \in Media, CallSetMedia(m)
      PROVE  Controlled(w')
  BY <1>1, SetMediaControlled DEF CallSetMedia
<1>2. CASE CallClearMedia
  BY <1>2, ClearMediaControlled DEF CallClearMedia
<1>3. CASE CallLoad
  BY <1>3, CommandsAreControlled DEF CallLoad, Times
<1>4. CASE CallPlay
  BY <1>4, CommandsAreControlled DEF CallPlay, Times
<1>5. CASE CallPause
  BY <1>5, CommandsAreControlled DEF CallPause, Times
<1>6. CASE CallStop
  BY <1>6, CommandsAreControlled DEF CallStop, Times
<1>7. CASE CallPlayHead
  BY <1>7, CommandsAreControlled DEF CallPlayHead, Times
<1>8. CASE CallLoop
  <2>1. Good(w) /\ w \in Instance
    BY DEF Controlled, Good
  <2>2. w' \in Instance /\ SameTimers(w, w') /\ SameControls(w, w')
    BY <1>8, <2>1 DEF CallLoop, Instance, SameTimers, SameControls
  <2> QED
    BY <2>1, <2>2, SameIsGood, SameIsControlled
<1>9. CASE CallDestroy
  BY <1>9, DestroyControlled DEF CallDestroy
<1> QED
  BY <1>1, <1>2, <1>3, <1>4, <1>5, <1>6, <1>7, <1>8, <1>9 DEF CallAny

LEMMA BecomesControlled ==
  ASSUME Controlled(w), NEW k \in Kinds, NEW next \in Element, Becomes(k, next),
         Agrees(w.paused, w.busy, w.el[k]) => Agrees(w.paused, w.busy, next)
  PROVE  Controlled(w')
<1>1. Good(w)
  BY DEF Controlled
<1>2. Good(w')
  BY <1>1, BecomesGood
<1>3. w' = [w EXCEPT !.el[k] = next]
  BY DEF Becomes
<1> QED
  BY <1>2, <1>3, PutControlled

LEMMA BrowserControlled ==
  ASSUME Controlled(w), NEW k \in Kinds,
         Loads(k) \/ Breaks(k) \/ Ends(k) \/ Seeks(k) \/ Deliver(k)
  PROVE  Controlled(w')
<1>1. w.el[k] \in Element
  BY DEF Controlled, Good, Instance
<1>2. CASE Loads(k)
  BY <1>1, <1>2, BrowserKeepsElements, BrowserAgrees, BecomesControlled DEF Loads
<1>3. CASE Breaks(k)
  BY <1>1, <1>3, BrowserKeepsElements, BrowserAgrees, BecomesControlled DEF Breaks
<1>4. CASE Ends(k)
  BY <1>1, <1>4, BrowserKeepsElements, BrowserAgrees, BecomesControlled DEF Ends
<1>5. CASE Seeks(k)
  BY <1>1, <1>5, BrowserKeepsElements, BrowserAgrees, BecomesControlled DEF Seeks
<1>6. CASE Deliver(k)
  <2>1. Controlled(Handled(w, k))
    BY <1>6, HandledControlled DEF Deliver
  <2>2. Controlled(Repeat(Handled(w, k), Head(w.el[k].queue)))
    BY <2>1, CommandsAreControlled DEF Repeat, Times
  <2> QED
    BY <1>6, <2>1, <2>2 DEF Deliver
<1> QED
  BY <1>2, <1>3, <1>4, <1>5, <1>6

LEMMA StepControlled == Controlled(w) /\ [Next]_vars => Controlled(w')
<1> SUFFICES ASSUME Controlled(w), [Next]_vars PROVE Controlled(w')
  OBVIOUS
<1>1. CASE CallAny
  BY <1>1, CallControlled
<1>2. ASSUME NEW k \in Kinds, Loads(k) \/ Breaks(k) \/ Ends(k) \/ Seeks(k) \/ Deliver(k)
      PROVE  Controlled(w')
  BY <1>2, BrowserControlled
<1>3. CASE Timeout
  BY <1>3, FireControlled DEF Timeout
<1>4. CASE Quiet \/ UNCHANGED vars
  BY <1>4 DEF Quiet, vars
<1> QED
  BY <1>1, <1>2, <1>3, <1>4 DEF Next

(* With no event left to be heard, what will be shown is what is shown.    *)
LEMMA RestAgrees ==
  ASSUME NEW p \in BOOLEAN, NEW b \in BOOLEAN, NEW el \in Element, Agrees(p, b, el),
         el.queue = << >>
  PROVE  /\ p = el.paused
         /\ el.mode = "ready" /\ ~el.paused /\ ~el.seeking => ~b
<1>1. Len(el.queue) = 0
  OBVIOUS
<1>2. \A e : ~Contains(el.queue, e)
  BY <1>1 DEF Contains
<1>3. \A shown, value, S, T : EndsIn(shown, value, el.queue, S, T) => shown = value
  BY <1>1 DEF EndsIn
<1>4. el.paused \in BOOLEAN /\ el.seeking \in BOOLEAN
  BY DEF Element
<1>5. /\ el.paused = TRUE  => p = TRUE
      /\ el.paused = FALSE => p = FALSE
      /\ el.mode = "ready" /\ el.paused = FALSE /\ el.seeking = FALSE => b = FALSE
  BY <1>2, <1>3 DEF Agrees
<1> QED
  BY <1>4, <1>5

LEMMA ControlledSays == Controlled(w) => ControlsAgree
<1> SUFFICES ASSUME Controlled(w), AtRest
             PROVE  /\ w.paused = w.el[w.gate].paused
                    /\ w.el[w.gate].mode = "ready" /\ ~w.el[w.gate].paused
                         /\ ~w.el[w.gate].seeking => ~w.busy
  BY DEF ControlsAgree
<1>1. w \in Instance
  BY DEF Controlled, Good
<1>2. w.paused \in BOOLEAN /\ w.busy \in BOOLEAN /\ w.waitForLoad \in BOOLEAN
  BY <1>1 DEF Instance
<1>3. w.waitForLoad = FALSE /\ w.el[w.gate].queue = << >>
  BY <1>2 DEF AtRest
<1>4. w.gate \in Kinds /\ Agrees(w.paused, w.busy, w.el[w.gate])
  BY <1>3 DEF Controlled
<1>5. w.el[w.gate] \in Element
  BY <1>1, <1>4 DEF Instance
<1> QED
  BY <1>2, <1>3, <1>4, <1>5, RestAgrees

(* ControlsAgree: whatever is called, in whatever order the events come,   *)
(* and whatever the browser throws, with no event left to be heard the     *)
(* buttons agree with the element that is set, and the seek bar of one     *)
(* that plays is idle.                                                     *)
THEOREM ControlsAlwaysAgree == Spec => []ControlsAgree
<1> DEFINE Agreed == Controlled(w)
<1>1. Init => Agreed
  BY InitControlled
<1>2. Agreed /\ [Next]_vars => Agreed'
  BY StepControlled
<1>3. Agreed => ControlsAgree
  BY ControlledSays
<1> QED
  BY <1>1, <1>2, <1>3, PTL DEF Spec
=============================================================================
