------------------------- MODULE MusicPlayerProofs -------------------------
(***************************************************************************)
(* The playlist and its player, proved for any list, any media and any     *)
(* choice of elements: ListInv is inductive.                               *)
(*                                                                         *)
(* It rests on Sound, the invariant of the player alone (JPlayerProofs),   *)
(* and adds what the player does not know: which track its media is, and   *)
(* that a play event is still to come for what plays and is not marked.    *)
(***************************************************************************)
EXTENDS MusicPlayer, JPlayerProofs

(* It plays, and the event that says so has been handled.                  *)
Announced(el) ==
  Sounding(el) /\ \A i \in 1..Len(el.queue) : el.queue[i] # "play"

(* From v to u the media stays, and nothing is announced that was not.     *)
Keeps(v, u) ==
  /\ u.srcSet = v.srcSet /\ u.media = v.media
  /\ \A k \in Kinds : Announced(u.el[k]) => Announced(v.el[k])

ListInv ==
  /\ PlaylistTypeOK /\ strict = FALSE /\ Sound(w)
  /\ ~ready => ~w.srcSet
  /\ w.srcSet => w.media = List[current]
  /\ \A k \in Kinds : Announced(w.el[k]) => marked = current
  /\ CurrentIsVisible

-----------------------------------------------------------------------------
(* The elements.                                                           *)

(* Events that are added at the end of a queue announce nothing.           *)
LEMMA LongerQueue ==
  ASSUME NEW e \in Element, NEW el \in Element, Sounding(e) => Sounding(el),
         \/ e.queue = el.queue
         \/ \E x \in Events : e.queue = Append(el.queue, x)
         \/ \E t \in Seq(Events) : e.queue = el.queue \o t
  PROVE  Announced(e) => Announced(el)
<1> SUFFICES ASSUME Announced(e) PROVE Announced(el)
  OBVIOUS
<1>1. el.queue \in Seq(Events)
  BY DEF Element
<1>2. CASE e.queue = el.queue
  BY <1>2 DEF Announced
<1>3. CASE \E x \in Events : e.queue = Append(el.queue, x)
  <2>1. PICK x \in Events : e.queue = Append(el.queue, x)
    BY <1>3
  <2>2. Len(el.queue) \in Nat /\ Len(e.queue) = Len(el.queue) + 1
        /\ \A i \in 1..Len(el.queue) : e.queue[i] = el.queue[i]
    BY <1>1, <2>1, AppendProperties, LenProperties
  <2>3. \A i \in 1..Len(el.queue) : i \in 1..Len(e.queue)
    BY <2>2
  <2> QED
    BY <2>2, <2>3 DEF Announced
<1>4. CASE \E t \in Seq(Events) : e.queue = el.queue \o t
  <2>1. PICK t \in Seq(Events) : e.queue = el.queue \o t
    BY <1>4
  <2>2. Len(el.queue) \in Nat /\ Len(t) \in Nat /\ Len(e.queue) = Len(el.queue) + Len(t)
    BY <1>1, <2>1, ConcatProperties, LenProperties
  <2>3. \A i \in 1..Len(el.queue) : i \in 1..Len(e.queue) /\ e.queue[i] = el.queue[i]
    BY <1>1, <2>1, <2>2, ConcatProperties
  <2> QED
    BY <2>2, <2>3 DEF Announced
<1> QED
  BY <1>2, <1>3, <1>4

LEMMA SeekAnnouncesNothing ==
  ASSUME NEW el \in Element
  PROVE  Announced(SeekElement(el)) => Announced(el)
<1>1. SeekElement(el) \in Element /\ (Sounding(SeekElement(el)) => Sounding(el))
  BY SeekElementType, SeekIsCalm DEF Calmer
<1>2. SeekElement(el).queue = el.queue \/ SeekElement(el).queue = Append(el.queue, "seeking")
  BY DEF SeekElement, Element
<1>3. "seeking" \in Events
  BY DEF Events
<1> QED
  BY <1>1, <1>2, <1>3, LongerQueue

(* What was silent is not announced when it plays; what played already is  *)
(* not asked to.                                                           *)
LEMMA PlayAnnouncesNothing ==
  ASSUME NEW el \in Element
  PROVE  Announced(PlayElement(el)) => Announced(el)
<1> DEFINE started == IF el.ended THEN [el EXCEPT !.ended = FALSE, !.seeking = TRUE,
                                                  !.queue = Append(@, "seeking")]
                                  ELSE el
           heard == <<"play", IF el.mode = "ready" THEN "playing" ELSE "waiting">>
           u == PlayElement(el)
<1>1. started \in Element /\ "seeking" \in Events
  <2>1. Append(el.queue, "seeking") \in Seq(Events)
    BY EnqueueOne DEF Events
  <2> QED
    BY <2>1 DEF Element, Events
<1>2. /\ started.queue = el.queue \/ started.queue = Append(el.queue, "seeking")
      /\ started.paused = el.paused /\ started.mode = el.mode
  BY DEF Element
<1>3. heard \in Seq(Events) /\ Len(heard) = 2 /\ heard[1] = "play"
  BY DEF Events
<1>4. u = IF el.paused = FALSE THEN started
          ELSE [started EXCEPT !.paused = FALSE, !.queue = @ \o heard]
  BY DEF PlayElement, Element
<1> HIDE DEF started, heard
<1>5. CASE el.paused = FALSE
  <2>1. u = started
    BY <1>4, <1>5
  <2>2. u \in Element /\ (Sounding(u) => Sounding(el))
    BY <1>1, <1>2, <1>5, <2>1 DEF Sounding
  <2>3. u.queue = el.queue \/ u.queue = Append(el.queue, "seeking")
    BY <1>2, <2>1
  <2> HIDE DEF u
  <2>4. Announced(u) => Announced(el)
    BY <1>1, <2>2, <2>3, LongerQueue
  <2> QED
    BY <2>4 DEF u
<1>6. CASE el.paused # FALSE
  <2>1. u.queue = started.queue \o heard
    BY <1>1, <1>4, <1>6 DEF Element
  <2> HIDE DEF u
  <2>2. started.queue \in Seq(Events) /\ Len(started.queue) \in Nat
    BY <1>1, LenProperties DEF Element
  <2> DEFINE q == started.queue
             n == Len(q) + 1
  <2> HIDE DEF q
  <2>3. u.queue = q \o heard /\ q \in Seq(Events) /\ Len(q) \in Nat
    BY <2>1, <2>2 DEF q
  <2>4. n \in 1..Len(q) + 2 /\ ~(n <= Len(q)) /\ n - Len(q) = 1
    BY <2>3
  <2> HIDE DEF n, u
  <2>5. /\ Len(q \o heard) = Len(q) + Len(heard)
        /\ \A i \in 1..Len(q) + Len(heard) :
             (q \o heard)[i] = IF i <= Len(q) THEN q[i] ELSE heard[i - Len(q)]
    <3>1. heard \in Seq(Events)
      BY <1>3
    <3> QED
      BY <2>3, <3>1, ConcatProperties
  <2>6. n \in 1..Len(u.queue)
    BY <1>3, <2>3, <2>4, <2>5
  <2>7. n \in 1..Len(q) + Len(heard)
    BY <1>3, <2>4
  <2>8. (q \o heard)[n] = heard[1]
    BY <2>4, <2>5, <2>7
  <2>9. ~Announced(u)
    BY <1>3, <2>3, <2>6, <2>8 DEF Announced
  <2> QED
    BY <2>9 DEF u
<1> QED
  BY <1>5, <1>6

LEMMA BrowserAnnouncesNothing ==
  ASSUME NEW el \in Element
  PROVE  /\ \A s \in {<< >>, <<"suspend">>} : CanFetch(el) /\ Announced(Fetched(el, s)) => Announced(el)
         /\ Announced(Failed(el)) => Announced(el)
         /\ \A pausing \in BOOLEAN :
              CanEnd(el) /\ Announced(Ended(el, pausing)) => Announced(el)
         /\ Announced(Arrived(el)) => Announced(el)
<1>1. ASSUME NEW s \in {<< >>, <<"suspend">>}, CanFetch(el)
      PROVE  Announced(Fetched(el, s)) => Announced(el)
  <2> DEFINE p == IF el.paused THEN << >> ELSE <<"playing">>
             u == Fetched(el, s)
  <2>1. p \in Seq(Events) /\ s \in Seq(Events)
    BY FewEvents
  <2>2. u.queue = el.queue \o p \o s /\ el.queue \in Seq(Events)
    BY DEF Fetched, Element
  <2>3. u \in Element /\ (Sounding(u) => Sounding(el))
    <3>1. u \in Element
      BY <1>1, BrowserKeepsElements
    <3>2. u.paused = el.paused /\ el.mode = "loading"
      BY <1>1 DEF Fetched, CanFetch, Element
    <3> QED
      BY <3>1, <3>2 DEF Sounding
  <2> HIDE DEF p, u
  <2>4. u.queue = el.queue \o (p \o s) /\ p \o s \in Seq(Events)
    <3>1. \A a, b, c \in Seq(Events) : (a \o b) \o c = a \o (b \o c)
      BY EventsAssociate
    <3>2. p \o s \in Seq(Events)
      BY <2>1, ConcatProperties
    <3>3. (el.queue \o p) \o s = el.queue \o (p \o s)
      BY <2>1, <2>2, <3>1
    <3> QED
      BY <2>2, <3>2, <3>3
  <2>5. Announced(u) => Announced(el)
    BY <2>3, <2>4, LongerQueue
  <2> QED
    BY <2>5 DEF u
<1>2. ~Announced(Failed(el))
  BY DEF Announced, Sounding, Failed, Element
<1>3. ASSUME NEW pausing \in BOOLEAN, CanEnd(el)
      PROVE  Announced(Ended(el, pausing)) => Announced(el)
  <2> DEFINE t == IF pausing THEN <<"pause", "ended">> ELSE <<"ended">>
             u == Ended(el, pausing)
  <2>1. t \in Seq(Events)
    BY DEF Events
  <2>2. u.queue = el.queue \o t
    BY DEF Ended, Element
  <2>3. u \in Element
    BY BrowserKeepsElements
  <2>4. Sounding(el)
    BY <1>3 DEF CanEnd, Sounding
  <2> HIDE DEF t, u
  <2>5. Announced(u) => Announced(el)
    BY <2>1, <2>2, <2>3, <2>4, LongerQueue
  <2> QED
    BY <2>5 DEF u
<1>4. Announced(Arrived(el)) => Announced(el)
  <2>1. Arrived(el) \in Element /\ (Sounding(Arrived(el)) => Sounding(el))
    BY BrowserKeepsElements DEF Arrived, Sounding, Element
  <2>2. Arrived(el).queue = Append(el.queue, "seeked") /\ "seeked" \in Events
    BY DEF Arrived, Element, Events
  <2> QED
    BY <2>1, <2>2, LongerQueue
<1> QED
  BY <1>1, <1>2, <1>3, <1>4

(* An event that is handled announces something only if it is play.        *)
LEMMA TakingAnnouncesPlay ==
  ASSUME NEW el \in Element, el.queue # << >>, Head(el.queue) # "play"
  PROVE  Announced([el EXCEPT !.queue = Tail(@)]) => Announced(el)
<1> DEFINE u == [el EXCEPT !.queue = Tail(@)]
<1> SUFFICES ASSUME Announced(u) PROVE Announced(el)
  OBVIOUS
<1>1. u.queue = Tail(el.queue) /\ u.paused = el.paused /\ u.mode = el.mode
  BY DEF Element
<1> HIDE DEF u
<1>2. el.queue \in Seq(Events) /\ Len(el.queue) \in Nat
      /\ el.queue[1] = Head(el.queue)
  BY LenProperties, HeadTailProperties DEF Element
<1>3. /\ Len(u.queue) = Len(el.queue) - 1
      /\ \A i \in 1..Len(u.queue) : u.queue[i] = el.queue[i + 1]
  BY <1>1, <1>2, HeadTailProperties
<1>4. ASSUME NEW i \in 1..Len(el.queue), i # 1
      PROVE  el.queue[i] # "play"
  <2>1. i - 1 \in 1..Len(u.queue) /\ (i - 1) + 1 = i
    BY <1>2, <1>3, <1>4
  <2>2. u.queue[i - 1] = el.queue[i]
    BY <1>3, <2>1
  <2> QED
    BY <2>1, <2>2 DEF Announced
<1> QED
  BY <1>1, <1>2, <1>4 DEF Announced, Sounding

-----------------------------------------------------------------------------
(* The methods of the player.                                              *)
LEMMA SameKeeps ==
  ASSUME NEW v, NEW u, u.srcSet = v.srcSet, u.media = v.media, u.el = v.el
  PROVE  Keeps(v, u)
BY DEF Keeps

LEMMA KeepsOn ==
  ASSUME NEW v, NEW u, NEW x, Keeps(v, u), Keeps(u, x)
  PROVE  Keeps(v, x)
BY DEF Keeps

LEMMA PutKeeps ==
  ASSUME NEW v \in Instance, NEW k, NEW e, k \in Kinds => (Announced(e) => Announced(v.el[k]))
  PROVE  Keeps(v, [v EXCEPT !.el[k] = e])
<1> DEFINE u == [v EXCEPT !.el[k] = e]
<1>1. SameSetting(v, u)
  BY PutFields
<1>2. k \in Kinds => u.el[k] = e
  BY DEF Instance
<1>3. \A j \in Kinds : j # k => u.el[j] = v.el[j]
  BY PutFields
<1> HIDE DEF u
<1>4. Keeps(v, u)
  BY <1>1, <1>2, <1>3 DEF Keeps, SameSetting
<1> QED
  BY <1>4 DEF u

LEMMA ElementsKeep ==
  ASSUME NEW v, Good(v), NEW k \in Kinds \cup {"none"}
  PROVE  /\ Keeps(v, [v EXCEPT !.el[k] = PauseElement(@)])
         /\ Keeps(v, [v EXCEPT !.el[k] = SeekElement(@)])
         /\ Keeps(v, [v EXCEPT !.el[k] = PlayElement(@)])
<1>1. v \in Instance /\ v.el \in [Kinds -> Element]
  BY DEF Good, Instance
<1>2. ASSUME k \in Kinds
      PROVE  /\ Announced(PauseElement(v.el[k])) => Announced(v.el[k])
             /\ Announced(SeekElement(v.el[k])) => Announced(v.el[k])
             /\ Announced(PlayElement(v.el[k])) => Announced(v.el[k])
  <2>1. v.el[k] \in Element
    BY <1>1, <1>2
  <2>2. ~Announced(PauseElement(v.el[k]))
    BY <2>1, PauseIsCalm DEF Announced
  <2> QED
    BY <2>1, <2>2, SeekAnnouncesNothing, PlayAnnouncesNothing
<1>3. Keeps(v, [v EXCEPT !.el[k] = PauseElement(v.el[k])])
  <2> DEFINE e == PauseElement(v.el[k])
  <2>1. k \in Kinds => (Announced(e) => Announced(v.el[k]))
    BY <1>2
  <2> HIDE DEF e
  <2>2. Keeps(v, [v EXCEPT !.el[k] = e])
    BY <1>1, <2>1, PutKeeps
  <2> QED
    BY <2>2 DEF e
<1>4. Keeps(v, [v EXCEPT !.el[k] = SeekElement(v.el[k])])
  <2> DEFINE e == SeekElement(v.el[k])
  <2>1. k \in Kinds => (Announced(e) => Announced(v.el[k]))
    BY <1>2
  <2> HIDE DEF e
  <2>2. Keeps(v, [v EXCEPT !.el[k] = e])
    BY <1>1, <2>1, PutKeeps
  <2> QED
    BY <2>2 DEF e
<1>5. Keeps(v, [v EXCEPT !.el[k] = PlayElement(v.el[k])])
  <2> DEFINE e == PlayElement(v.el[k])
  <2>1. k \in Kinds => (Announced(e) => Announced(v.el[k]))
    BY <1>2
  <2> HIDE DEF e
  <2>2. Keeps(v, [v EXCEPT !.el[k] = e])
    BY <1>1, <2>1, PutKeeps
  <2> QED
    BY <2>2 DEF e
<1> QED
  BY <1>3, <1>4, <1>5

(* The timers, waitForPlay and what the buttons show do not matter.        *)
LEMMA SettingsKeep ==
  ASSUME NEW v \in Instance
  PROVE  /\ Keeps(v, ClearTimer(v)) /\ Keeps(v, CheckWaitForPlay(v))
         /\ \A op, t : Keeps(v, Delay(v, op, t))
<1>1. SameSound(v, ClearTimer(v)) /\ \A op, t : SameSound(v, Delay(v, op, t))
  BY ClearTimerSame, DelaySame
<1>2. Keeps(v, ClearTimer(v)) /\ \A op, t : Keeps(v, Delay(v, op, t))
  BY <1>1, SameKeeps DEF SameSound
<1>3. Keeps(v, CheckWaitForPlay(v))
  <2>1. /\ CheckWaitForPlay(v).srcSet = v.srcSet /\ CheckWaitForPlay(v).media = v.media
        /\ CheckWaitForPlay(v).el = v.el
    BY CheckFields
  <2> QED
    BY <2>1, SameKeeps
<1> QED
  BY <1>2, <1>3

LEMMA HtmlLoadKeeps ==
  ASSUME NEW v, Good(v)
  PROVE  Keeps(v, HtmlLoad(v))
<1> DEFINE e   == LoadElement(v.el[v.node], v.media)
           put == [v EXCEPT !.el[v.node] = e]
           now == [put EXCEPT !.waitForLoad = FALSE]
<1>1. v \in Instance
  BY DEF Good
<1>2. CASE ~v.waitForLoad
  BY <1>1, <1>2, SettingsKeep DEF HtmlLoad
<1>3. CASE v.waitForLoad
  <2>1. ~Announced(e)
    BY LoadIsSilent DEF Announced
  <2>2. HtmlLoad(v) = ClearTimer(now)
    <3>1. now = [v EXCEPT !.waitForLoad = FALSE, !.el[v.node] = e]
      BY <1>1 DEF Instance
    <3> QED
      BY <1>3, <3>1 DEF HtmlLoad
  <2>3. v.media \in Media \cup {None} /\ v.node \in Kinds \cup {"none"}
    BY <1>1 DEF Instance
  <2>4. e \in Element
    BY <2>3, LoadElementType
  <2> HIDE DEF e
  <2>5. Keeps(v, put) /\ put \in Instance
    BY <1>1, <2>1, <2>4, PutKeeps, PutElement
  <2> HIDE DEF put
  <2>6. Keeps(put, now) /\ now \in Instance
    <3>1. /\ now \in Instance
          /\ now.srcSet = put.srcSet /\ now.media = put.media /\ now.el = put.el
      BY <2>5 DEF Instance
    <3> HIDE DEF now
    <3> QED
      BY <3>1, SameKeeps
  <2> HIDE DEF now
  <2> QED
    BY <2>2, <2>5, <2>6, SettingsKeep, KeepsOn
<1> QED
  BY <1>2, <1>3

LEMMA HtmlPlayKeeps ==
  ASSUME NEW v, Good(v), NEW t \in Times, NEW throws
  PROVE  Keeps(v, HtmlPlay(v, t, throws))
<1> DEFINE loaded  == HtmlLoad(v)
           started == [loaded EXCEPT !.el[v.node] = PlayElement(@)]
           moved   == [started EXCEPT !.el[v.node] = SeekElement(@)]
<1>1. v.node \in Kinds \cup {"none"}
  BY DEF Good, Instance
<1>2. Good(loaded) /\ Keeps(v, loaded)
  BY HtmlLoadGood, HtmlLoadKeeps
<1>3. HtmlPlay(v, t, throws) =
        IF t = "none" THEN CheckWaitForPlay(started)
        ELSE IF throws /\ started.el[v.node].mode # "ready" THEN Delay(started, "play", t)
        ELSE CheckWaitForPlay(moved)
  BY DEF HtmlPlay
<1> HIDE DEF loaded
<1>4. Good(started) /\ Keeps(loaded, started)
  BY <1>1, <1>2, PlayAtGood, ElementsKeep
<1> HIDE DEF started
<1>5. Good(moved) /\ Keeps(started, moved)
  BY <1>1, <1>4, SeekAtGood, ElementsKeep
<1> HIDE DEF moved
<1>6. Keeps(v, started) /\ Keeps(v, moved)
  BY <1>2, <1>4, <1>5, KeepsOn
<1>7. /\ Keeps(started, CheckWaitForPlay(started)) /\ Keeps(moved, CheckWaitForPlay(moved))
      /\ Keeps(started, Delay(started, "play", t))
  BY <1>4, <1>5, SettingsKeep DEF Good
<1>8. /\ Keeps(v, CheckWaitForPlay(started)) /\ Keeps(v, CheckWaitForPlay(moved))
      /\ Keeps(v, Delay(started, "play", t))
  BY <1>6, <1>7, KeepsOn
<1> QED
  BY <1>3, <1>8

LEMMA HtmlPauseKeeps ==
  ASSUME NEW v, Good(v), NEW t \in Times, NEW throws
  PROVE  Keeps(v, HtmlPause(v, t, throws))
<1> DEFINE cleared == IF t = "later" THEN HtmlLoad(v) ELSE ClearTimer(v)
           stopped == [cleared EXCEPT !.el[v.node] = PauseElement(@)]
           moved   == [stopped EXCEPT !.el[v.node] = SeekElement(@)]
<1>1. v.node \in Kinds \cup {"none"} /\ v \in Instance
  BY DEF Good, Instance
<1>2. Good(cleared) /\ Keeps(v, cleared)
  BY <1>1, HtmlLoadGood, HtmlLoadKeeps, ClearTimerGood, SettingsKeep
<1>3. HtmlPause(v, t, throws) =
        IF t = "none" THEN stopped
        ELSE IF throws /\ stopped.el[v.node].mode # "ready" THEN Delay(stopped, "pause", t)
        ELSE IF t = "later" THEN CheckWaitForPlay(moved) ELSE moved
  BY DEF HtmlPause
<1> HIDE DEF cleared
<1>4. Good(stopped) /\ Keeps(cleared, stopped)
  BY <1>1, <1>2, PauseAtGood, ElementsKeep
<1> HIDE DEF stopped
<1>5. Good(moved) /\ Keeps(stopped, moved)
  BY <1>1, <1>4, SeekAtGood, ElementsKeep
<1> HIDE DEF moved
<1>6. Keeps(v, stopped) /\ Keeps(v, moved)
  BY <1>2, <1>4, <1>5, KeepsOn
<1>7. /\ Keeps(moved, CheckWaitForPlay(moved))
      /\ Keeps(stopped, Delay(stopped, "pause", t))
  BY <1>4, <1>5, SettingsKeep DEF Good
<1>8. Keeps(v, CheckWaitForPlay(moved)) /\ Keeps(v, Delay(stopped, "pause", t))
  BY <1>6, <1>7, KeepsOn
<1> QED
  BY <1>3, <1>6, <1>8

LEMMA HtmlPlayHeadKeeps ==
  ASSUME NEW v, Good(v), NEW throws
  PROVE  Keeps(v, HtmlPlayHead(v, throws))
<1> DEFINE loaded == HtmlLoad(v)
           moved  == [loaded EXCEPT !.el[v.node] = SeekElement(@)]
<1>1. v.node \in Kinds \cup {"none"}
  BY DEF Good, Instance
<1>2. Good(loaded) /\ Keeps(v, loaded)
  BY HtmlLoadGood, HtmlLoadKeeps
<1>3. \/ HtmlPlayHead(v, throws) = Delay(loaded, "playHead", "none")
      \/ HtmlPlayHead(v, throws) = CheckWaitForPlay(moved)
  BY DEF HtmlPlayHead
<1> HIDE DEF loaded
<1>4. Good(moved) /\ Keeps(loaded, moved)
  BY <1>1, <1>2, SeekAtGood, ElementsKeep
<1> HIDE DEF moved
<1>5. /\ Keeps(loaded, Delay(loaded, "playHead", "none"))
      /\ Keeps(moved, CheckWaitForPlay(moved))
  BY <1>2, <1>4, SettingsKeep DEF Good
<1>6. Keeps(v, Delay(loaded, "playHead", "none")) /\ Keeps(v, CheckWaitForPlay(moved))
  BY <1>2, <1>4, <1>5, KeepsOn
<1> QED
  BY <1>3, <1>6

LEMMA CommandsKeep ==
  ASSUME NEW v, Good(v), NEW t \in Times, NEW throws
  PROVE  /\ Keeps(v, Play(v, t, throws)) /\ Keeps(v, Pause(v, t, throws))
         /\ Keeps(v, PlayHead(v, throws))
<1>1. Keeps(v, v)
  BY SameKeeps
<1> QED
  BY <1>1, HtmlPlayKeeps, HtmlPauseKeeps, HtmlPlayHeadKeeps DEF Play, Pause, PlayHead

LEMMA FireKeeps ==
  ASSUME NEW v, Good(v), NEW i \in 1..Len(v.timers), NEW throws
  PROVE  Keeps(v, Fire(v, i, throws))
<1> DEFINE c == v.timers[i]
           rest == [v EXCEPT !.timers = SubSeq(@, 1, i - 1) \o SubSeq(@, i + 1, Len(@)),
                             !.held = @ /\ ~(i = Len(v.timers))]
<1>1. v \in Instance /\ v.timers \in Seq(Delayed)
  BY DEF Good, Instance
<1>2. Good(rest)
  BY <1>1, RestGood
<1>3. Keeps(v, rest)
  <2>1. rest.srcSet = v.srcSet /\ rest.media = v.media /\ rest.el = v.el
    BY <1>1 DEF Instance
  <2> HIDE DEF rest
  <2> QED
    BY <2>1, SameKeeps
<1>4. c.op \in Ops /\ c.time \in Times
  <2>1. c \in Delayed
    BY <1>1
  <2> QED
    BY <2>1 DEF Delayed, Ops, Times
<1>5. Fire(v, i, throws) = CASE c.op = "play"     -> Play(rest, c.time, throws)
                             [] c.op = "pause"    -> Pause(rest, c.time, throws)
                             [] c.op = "playHead" -> PlayHead(rest, throws)
  BY DEF Fire
<1> HIDE DEF rest, c
<1>6. /\ Keeps(rest, Play(rest, c.time, throws)) /\ Keeps(rest, Pause(rest, c.time, throws))
      /\ Keeps(rest, PlayHead(rest, throws))
  BY <1>2, <1>4, CommandsKeep
<1>7. /\ Keeps(v, Play(rest, c.time, throws)) /\ Keeps(v, Pause(rest, c.time, throws))
      /\ Keeps(v, PlayHead(rest, throws))
  BY <1>3, <1>6, KeepsOn
<1> QED
  BY <1>4, <1>5, <1>7 DEF Ops

LEMMA OnEventKeeps ==
  ASSUME NEW v, Good(v), NEW event \in Events
  PROVE  Keeps(v, OnEvent(v, event))
<1>1. v \in Instance /\ v.node \in Kinds \cup {"none"}
  BY DEF Good, Instance
<1>2. Keeps(v, OnEnded(v))
  <2> DEFINE rewound == IF Webkit THEN v ELSE [v EXCEPT !.el[v.node] = SeekElement(@)]
             stopped == [rewound EXCEPT !.el[v.node] = PauseElement(@)]
             shown   == [stopped EXCEPT !.paused = TRUE]
  <2>1. Good(rewound) /\ Keeps(v, rewound) /\ rewound.node = v.node
    <3>1. Keeps(v, v)
      BY SameKeeps
    <3>2. [v EXCEPT !.el[v.node] = SeekElement(@)].node = v.node
      BY <1>1 DEF Instance
    <3> QED
      BY <1>1, <3>1, <3>2, SeekAtGood, ElementsKeep
  <2>2. OnEnded(v) = shown
    BY <1>1, <2>1 DEF OnEnded, Good, Instance
  <2> HIDE DEF rewound
  <2>3. Good(stopped) /\ Keeps(rewound, stopped)
    BY <1>1, <2>1, PauseAtGood, ElementsKeep
  <2> HIDE DEF stopped
  <2>4. shown.srcSet = stopped.srcSet /\ shown.media = stopped.media /\ shown.el = stopped.el
    BY <2>3 DEF Good, Instance
  <2> HIDE DEF shown
  <2> QED
    BY <2>1, <2>2, <2>3, <2>4, SameKeeps, KeepsOn
<1>3. Keeps(v, OnError(v))
  <2> DEFINE shown   == [v EXCEPT !.paused = TRUE, !.busy = FALSE]
             cleared == ClearTimer(shown)
             waiting == [cleared EXCEPT !.waitForLoad = TRUE, !.waitForPlay = TRUE]
  <2>1. /\ shown \in Instance /\ SameTimers(v, shown)
        /\ shown.srcSet = v.srcSet /\ shown.media = v.media /\ shown.el = v.el
    BY <1>1 DEF Instance, SameTimers
  <2>2. OnError(v) = shown \/ OnError(v) = waiting
    BY DEF OnError
  <2> HIDE DEF shown
  <2>3. Good(shown) /\ Keeps(v, shown)
    BY <2>1, SameIsGood, SameKeeps
  <2>4. Good(cleared) /\ Keeps(shown, cleared)
    BY <2>1, <2>3, ClearTimerGood, SettingsKeep
  <2> HIDE DEF cleared
  <2>5. /\ waiting.srcSet = cleared.srcSet /\ waiting.media = cleared.media
        /\ waiting.el = cleared.el
    BY <2>4 DEF Good, Instance
  <2> HIDE DEF waiting
  <2>6. Keeps(v, waiting)
    BY <2>3, <2>4, <2>5, SameKeeps, KeepsOn
  <2> QED
    BY <2>2, <2>3, <2>6
<1>4. Keeps(v, [v EXCEPT !.paused = Paused(v, event), !.busy = Busy(v, event)])
  <2> DEFINE u == [v EXCEPT !.paused = Paused(v, event), !.busy = Busy(v, event)]
  <2>1. u.srcSet = v.srcSet /\ u.media = v.media /\ u.el = v.el
    BY <1>1 DEF Instance
  <2> HIDE DEF u
  <2>2. Keeps(v, u)
    BY <2>1, SameKeeps
  <2> QED
    BY <2>2 DEF u
<1> QED
  BY <1>2, <1>3, <1>4 DEF OnEvent

(* The listener of an element announces nothing but with its play event.   *)
LEMMA HandledKeeps ==
  ASSUME NEW v, Good(v), NEW k \in Kinds, v.el[k].queue # << >>
  PROVE  /\ Handled(v, k).srcSet = v.srcSet /\ Handled(v, k).media = v.media
         /\ Head(v.el[k].queue) # "play" => Keeps(v, Handled(v, k))
<1> DEFINE u     == Taken(v, k)
           e     == [v.el[k] EXCEPT !.queue = Tail(@)]
           event == Head(v.el[k].queue)
<1>1. v \in Instance /\ v.el[k] \in Element /\ Good(u) /\ event \in Events
  BY TakenGood DEF Good, Instance
<1>2. u.srcSet = v.srcSet /\ u.media = v.media
  BY <1>1 DEF Taken, Instance
<1>3. event # "play" => Keeps(v, u)
  <2> SUFFICES ASSUME event # "play" PROVE Keeps(v, u)
    OBVIOUS
  <2>1. Announced(e) => Announced(v.el[k])
    BY <1>1, TakingAnnouncesPlay
  <2>2. u = [v EXCEPT !.el[k] = e]
    BY DEF Taken
  <2> HIDE DEF e, u
  <2> QED
    BY <1>1, <2>1, <2>2, PutKeeps
<1>4. Handled(v, k) = u \/ Handled(v, k) = OnEvent(u, event)
  BY DEF Handled
<1> HIDE DEF u, event
<1>5. Keeps(u, OnEvent(u, event)) /\ Keeps(u, u)
  BY <1>1, OnEventKeeps, SameKeeps
<1>6. Keeps(u, Handled(v, k))
  BY <1>4, <1>5
<1>7. event # "play" => Keeps(v, Handled(v, k))
  BY <1>3, <1>6, KeepsOn
<1> QED
  BY <1>2, <1>6, <1>7 DEF Keeps, event

-----------------------------------------------------------------------------
(* The steps of the playlist.                                              *)

(* A track that is set, and then played, is silent until its play event.   *)
LEMMA AdvanceSets ==
  ASSUME NEW v, Sound(v), NEW media \in Media
  PROVE  LET u == Play(SetMedia(v, media), "none", FALSE) IN
         /\ Sound(u) /\ (u.srcSet => u.media = media)
         /\ \A k \in Kinds : ~Announced(u.el[k])
<1> DEFINE s == SetMedia(v, media)
           u == Play(s, "none", FALSE)
<1>1. Sound(s) /\ Good(s) /\ Silent(s) /\ (s.srcSet => s.media = media)
  BY SetMediaSound DEF Sound
<1> HIDE DEF s
<1>2. "none" \in Times
  BY DEF Times
<1>3. Sound(u) /\ Keeps(s, u)
  BY <1>1, <1>2, CommandsAreSound, CommandsKeep
<1> HIDE DEF u
<1>4. (u.srcSet => u.media = media) /\ \A k \in Kinds : ~Announced(u.el[k])
  BY <1>1, <1>3 DEF Keeps, Silent, Announced
<1> QED
  BY <1>3, <1>4 DEF u, s

LEMMA TracksAreMedia ==
  /\ Len(List) \in Nat \ {0} /\ Tracks = 1..Len(List)
  /\ \A i \in Tracks : List[i] \in Media
BY ListAssumption, LenProperties, EmptySeq, ElementOfSeq DEF Tracks

LEMMA NeighboursAreTracks ==
  current \in Tracks => Following \in Tracks /\ Preceding \in Tracks
BY TracksAreMedia DEF Following, Preceding

LEMMA ListInvInit == PlaylistInit => ListInv
<1> SUFFICES ASSUME PlaylistInit PROVE ListInv
  OBVIOUS
<1>1. Init
  BY DEF PlaylistInit
<1>2. Sound(w) /\ Good(w) /\ w \in Instance
  BY <1>1, InitSound, InitGood DEF Good
<1>3. PlaylistTypeOK /\ strict = FALSE
  <2>1. TypeOK
    BY <1>1, <1>2, BoundAssumption DEF Init, TypeOK
  <2>2. 1 \in Tracks
    BY TracksAreMedia
  <2> QED
    BY <2>1, <2>2 DEF PlaylistInit, PlaylistTypeOK
<1>4. ~w.srcSet /\ \A k \in Kinds : ~Announced(w.el[k])
  BY DEF PlaylistInit, NewInstance, NewElement, Announced, Sounding
<1>5. CurrentIsVisible
  BY OptionsAssumption DEF PlaylistInit, CurrentIsVisible
<1> QED
  BY <1>2, <1>3, <1>4, <1>5 DEF ListInv

(* What the player does by itself keeps the invariant.                     *)
LEMMA KeepingIsEnough ==
  ASSUME ListInv, Sound(w'), Keeps(w, w'), strict' = strict, calls' \in 0..MaxCalls,
         UNCHANGED listVars
  PROVE  ListInv'
<1>1. PlaylistTypeOK'
  BY DEF ListInv, PlaylistTypeOK, TypeOK, Sound, Good, listVars
<1>2. /\ (~ready => ~w.srcSet)'
      /\ (w.srcSet => w.media = List[current])'
      /\ (\A k \in Kinds : Announced(w.el[k]) => marked = current)'
  BY DEF ListInv, Keeps, listVars
<1>3. CurrentIsVisible' /\ (strict = FALSE)'
  BY DEF ListInv, CurrentIsVisible, listVars
<1> QED
  BY <1>1, <1>2, <1>3 DEF ListInv

LEMMA AdvanceKeepsInv ==
  ASSUME ListInv, NEW v, Sound(v), NEW i \in Tracks, Advance(v, i), ready,
         strict' = strict, calls' \in 0..MaxCalls, ready' = ready,
         marked' \in Tracks \cup {0}, playing' \in BOOLEAN
  PROVE  ListInv'
<1>1. List[i] \in Media /\ i \in Nat
  BY TracksAreMedia
<1>2. /\ Sound(w') /\ (w'.srcSet => w'.media = List[i])
      /\ \A k \in Kinds : ~Announced(w'.el[k])
  BY <1>1, AdvanceSets DEF Advance
<1>3. PlaylistTypeOK' /\ (strict = FALSE)'
  BY <1>2 DEF ListInv, PlaylistTypeOK, TypeOK, Sound, Good, Advance
<1>4. /\ (~ready => ~w.srcSet)'
      /\ (w.srcSet => w.media = List[current])'
      /\ (\A k \in Kinds : Announced(w.el[k]) => marked = current)'
  BY <1>2 DEF Advance
<1>5. CurrentIsVisible'
  BY <1>1 DEF Advance, CurrentIsVisible
<1> QED
  BY <1>2, <1>3, <1>4, <1>5 DEF ListInv

LEMMA ReadyKeepsInv == ListInv /\ Ready => ListInv'
<1> SUFFICES ASSUME ListInv, Ready PROVE ListInv'
  OBVIOUS
<1>1. 1 \in Tracks /\ List[1] \in Media
  BY TracksAreMedia
<1>2. /\ Sound(w') /\ Silent(w') /\ (w'.srcSet => w'.media = List[1])
  BY <1>1, SetMediaSound DEF ListInv, Ready, Config
<1>3. PlaylistTypeOK' /\ (strict = FALSE)'
  BY <1>1, <1>2 DEF ListInv, PlaylistTypeOK, TypeOK, Sound, Good, Ready, Config
<1>4. /\ (~ready => ~w.srcSet)'
      /\ (w.srcSet => w.media = List[current])'
      /\ (\A k \in Kinds : Announced(w.el[k]) => marked = current)'
  BY <1>2 DEF Ready, Config, Silent, Announced
<1>5. CurrentIsVisible'
  BY OptionsAssumption DEF Ready, Config, CurrentIsVisible
<1> QED
  BY <1>2, <1>3, <1>4, <1>5 DEF ListInv

LEMMA ClicksKeepInv ==
  /\ ListInv /\ (ClickNext \/ ClickPrevious \/ ClickMore \/ ClickControl) => ListInv'
  /\ ListInv /\ (\E i \in Tracks : ClickTitle(i)) => ListInv'
<1>1. ASSUME ListInv, NEW i \in Tracks, Advance(w, i), Call, ready, UNCHANGED <<ready, marked, playing>>
      PROVE  ListInv'
  <2>1. strict' = strict /\ calls' \in 0..MaxCalls
    BY <1>1, BoundAssumption DEF Call, ListInv, PlaylistTypeOK, TypeOK
  <2> QED
    BY <1>1, <2>1, AdvanceKeepsInv DEF ListInv, PlaylistTypeOK
<1>2. ASSUME ListInv
      PROVE  Following \in Tracks /\ Preceding \in Tracks
  BY <1>2, NeighboursAreTracks DEF ListInv, PlaylistTypeOK
<1>3. ListInv /\ (ClickNext \/ ClickPrevious) => ListInv'
  BY <1>1, <1>2 DEF ClickNext, ClickPrevious
<1>4. ListInv /\ (\E i \in Tracks : ClickTitle(i)) => ListInv'
  BY <1>1 DEF ClickTitle
<1>5. ASSUME ListInv, ClickMore
      PROVE  ListInv'
  <2>1. strict' = strict /\ calls' \in 0..MaxCalls /\ w' = w
    BY <1>5, BoundAssumption DEF ClickMore, Call, ListInv, PlaylistTypeOK, TypeOK
  <2>2. PlaylistTypeOK' /\ CurrentIsVisible'
    BY <1>5, <2>1 DEF ListInv, PlaylistTypeOK, TypeOK, ClickMore, CurrentIsVisible
  <2> QED
    BY <1>5, <2>1, <2>2 DEF ListInv, ClickMore
<1>6. ASSUME ListInv, ClickControl
      PROVE  ListInv'
  <2>1. strict' = strict /\ calls' \in 0..MaxCalls /\ UNCHANGED listVars
    BY <1>6, BoundAssumption DEF ClickControl, Call, ListInv, PlaylistTypeOK, TypeOK
  <2>2. Sound(w) /\ Good(w) /\ "none" \in Times
    BY <1>6 DEF ListInv, Sound, Times
  <2>3. /\ Sound(Play(w, "none", FALSE)) /\ Keeps(w, Play(w, "none", FALSE))
        /\ Sound(Pause(w, "none", FALSE)) /\ Keeps(w, Pause(w, "none", FALSE))
    BY <2>2, CommandsAreSound, CommandsKeep
  <2>4. \A throws \in BOOLEAN : Sound(PlayHead(w, throws)) /\ Keeps(w, PlayHead(w, throws))
    BY <2>2, CommandsAreSound, CommandsKeep
  <2>5. Sound(w') /\ Keeps(w, w')
    BY <1>6, <2>3, <2>4 DEF ClickControl
  <2> QED
    BY <1>6, <2>1, <2>5, KeepingIsEnough
<1> QED
  BY <1>3, <1>4, <1>5, <1>6

LEMMA PlayerStepKeepsInv == ListInv /\ PlayerStep => ListInv'
<1> SUFFICES ASSUME ListInv, PlayerStep PROVE ListInv'
  OBVIOUS
<1>1. Sound(w) /\ Good(w) /\ w \in Instance /\ w.el \in [Kinds -> Element]
  BY DEF ListInv, Sound, Good, Instance
<1>2. strict = FALSE /\ calls \in 0..MaxCalls /\ UNCHANGED listVars
  BY DEF ListInv, PlaylistTypeOK, TypeOK, PlayerStep
<1>3. CASE Timeout
  <2>1. strict' = strict /\ calls' = calls
    BY <1>3 DEF Timeout
  <2>2. PICK i \in 1..Len(w.timers) :
          \E throws \in IF w.timers[i].op = "playHead" THEN BOOLEAN ELSE Throws :
            w' = Fire(w, i, throws)
    BY <1>3 DEF Timeout
  <2>3. PICK throws : /\ w.timers[i].op # "playHead" => throws = FALSE
                      /\ w' = Fire(w, i, throws)
    BY <1>2, <2>2 DEF Throws
  <2>4. Sound(Fire(w, i, throws)) /\ Keeps(w, Fire(w, i, throws))
    BY <1>1, <2>3, FireSound, FireKeeps
  <2> QED
    BY <1>2, <2>1, <2>3, <2>4, KeepingIsEnough
<1>4. CASE Quiet
  <2>1. w' = w /\ strict' = strict /\ calls' = calls
    BY <1>4 DEF Quiet, vars
  <2>2. Keeps(w, w')
    BY <2>1, SameKeeps
  <2>3. Sound(w')
    BY <1>1, <2>1
  <2> QED
    BY <1>2, <2>1, <2>2, <2>3, KeepingIsEnough
<1>5. ASSUME NEW k \in Kinds, Loads(k) \/ Breaks(k) \/ Ends(k) \/ Seeks(k)
      PROVE  ListInv'
  <2>1. w.el[k] \in Element
    BY <1>1, <1>5
  <2>2. PICK next : Becomes(k, next) /\ (Announced(next) => Announced(w.el[k]))
    BY <1>5, <2>1, BrowserAnnouncesNothing DEF Loads, Breaks, Ends, Seeks
  <2>3. w' = [w EXCEPT !.el[k] = next] /\ strict' = strict /\ calls' = calls
    BY <2>2 DEF Becomes
  <2>4. Keeps(w, w')
    <3>1. Keeps(w, [w EXCEPT !.el[k] = next])
      BY <1>1, <2>2, PutKeeps
    <3> QED
      BY <2>3, <3>1
  <2>5. Sound(w')
    BY <1>1, <1>5, BrowserSound
  <2> QED
    BY <1>2, <2>3, <2>4, <2>5, KeepingIsEnough
<1> QED
  BY <1>3, <1>4, <1>5 DEF PlayerStep

(* The player hears a play event of the track that is current: an element  *)
(* that plays is that of the open gate, and is loaded.                     *)
LEMMA HearKeepsInv ==
  ASSUME ListInv, NEW k \in Kinds, Hear(k)
  PROVE  ListInv'
<1> DEFINE event   == Head(w.el[k].queue)
           handled == Handled(w, k)
<1>1. Sound(w) /\ Good(w) /\ w \in Instance /\ w.el[k].queue # << >>
  BY DEF ListInv, Sound, Good, Hear
<1>2. /\ Sound(handled) /\ handled.srcSet = w.srcSet /\ handled.media = w.media
      /\ (event # "play" => Keeps(w, handled))
  BY <1>1, HandledSound, HandledKeeps
<1>3. strict' = strict /\ calls' = calls /\ ready' = ready
      /\ calls \in 0..MaxCalls /\ current \in Tracks /\ marked \in Tracks \cup {0}
  BY DEF Hear, ListInv, PlaylistTypeOK, TypeOK
<1>4. CASE Heard(w, k) /\ ready /\ EndsTrack(event)
  <2>1. marked' = Marked(event) /\ playing' = Playing(event) /\ Advance(handled, Following)
    BY <1>4 DEF Hear
  <2>2. marked' \in Tracks \cup {0} /\ playing' \in BOOLEAN
    BY <1>3, <2>1 DEF Marked, Playing, ListInv, PlaylistTypeOK
  <2>3. Following \in Tracks
    BY <1>3, NeighboursAreTracks
  <2> QED
    BY <1>2, <1>3, <1>4, <2>1, <2>2, <2>3, AdvanceKeepsInv
<1>5. CASE Heard(w, k) /\ ready /\ ~EndsTrack(event)
  <2>1. /\ w' = handled /\ current' = current /\ expanded' = expanded
        /\ marked' = Marked(event) /\ playing' = Playing(event)
    BY <1>5 DEF Hear
  <2> HIDE DEF event, handled
  <2>2. PlaylistTypeOK' /\ (strict = FALSE)' /\ CurrentIsVisible'
    <3>1. w' \in Instance
      BY <1>2, <2>1 DEF Sound, Good
    <3>2. marked' \in Tracks \cup {0} /\ playing' \in BOOLEAN
      BY <1>3, <2>1 DEF Marked, Playing, ListInv, PlaylistTypeOK
    <3> QED
      BY <1>3, <2>1, <3>1, <3>2 DEF ListInv, PlaylistTypeOK, TypeOK, CurrentIsVisible
  <2>3. \A j \in Kinds : Announced(w'.el[j]) => marked' = current'
    <3>1. CASE event = "play"
      BY <2>1, <3>1 DEF Marked
    <3>2. CASE event # "play"
      BY <1>2, <2>1, <3>2 DEF Marked, Keeps, ListInv
    <3> QED
      BY <3>1, <3>2
  <2> QED
    BY <1>2, <1>3, <1>5, <2>1, <2>2, <2>3 DEF ListInv
<1>6. CASE ~Heard(w, k) \/ ~ready
  <2>1. w' = handled /\ UNCHANGED listVars
    BY <1>3, <1>6 DEF Hear, listVars
  <2>2. \A j \in Kinds : Sounding(handled.el[j]) =>
          handled.srcSet /\ handled.gate = j /\ ~handled.waitForLoad
    BY <1>2 DEF Sound, Audible
  <2>3. ASSUME ~ready, NEW j \in Kinds
        PROVE  ~Announced(handled.el[j])
    BY <1>2, <2>2, <2>3 DEF ListInv, Announced
  <2>4. ASSUME ~Heard(w, k), NEW j \in Kinds, Announced(handled.el[j])
        PROVE  Announced(w.el[j])
    <3>1. handled = Taken(w, k)
      BY <2>4 DEF Handled
    <3>2. SameSetting(w, handled)
      BY <1>1, <3>1, TakenSound DEF ListInv
    <3>3. Sounding(handled.el[j])
      BY <2>4 DEF Announced
    <3>4. w.gate = j /\ ~w.waitForLoad
      BY <2>2, <3>2, <3>3 DEF SameSetting
    <3>5. j # k
      BY <2>4, <3>4 DEF Heard
    <3>6. handled.el[j] = w.el[j]
      BY <1>1, <3>1, <3>5 DEF Taken, Instance
    <3> QED
      BY <2>4, <3>6
  <2>5. Keeps(w, handled)
    BY <1>2, <1>6, <2>3, <2>4 DEF Keeps
  <2> QED
    BY <1>2, <1>3, <2>1, <2>5, KeepingIsEnough
<1> QED
  BY <1>4, <1>5, <1>6

LEMMA ListInvStep == ListInv /\ [PlaylistNext]_playlistVars => ListInv'
<1> SUFFICES ASSUME ListInv, [PlaylistNext]_playlistVars PROVE ListInv'
  OBVIOUS
<1>1. CASE Ready
  BY <1>1, ReadyKeepsInv
<1>2. CASE ClickNext \/ ClickPrevious \/ ClickMore \/ ClickControl
  BY <1>2, ClicksKeepInv
<1>3. CASE \E i \in Tracks : ClickTitle(i)
  BY <1>3, ClicksKeepInv
<1>4. CASE \E k \in Kinds : Hear(k)
  BY <1>4, HearKeepsInv
<1>5. CASE PlayerStep
  BY <1>5, PlayerStepKeepsInv
<1>6. CASE UNCHANGED playlistVars
  BY <1>6 DEF playlistVars, ListInv, PlaylistTypeOK, TypeOK, CurrentIsVisible
<1> QED
  BY <1>1, <1>2, <1>3, <1>4, <1>5, <1>6 DEF PlaylistNext

LEMMA ListInvAlways == PlaylistSpec => []ListInv
<1> QED
  BY ListInvInit, ListInvStep, PTL DEF PlaylistSpec

-----------------------------------------------------------------------------
(* The theorems.                                                           *)

(* PlaylistTypeOK always holds: the number of the current track, the mark  *)
(* and the player's record stay in their ranges, whatever playlistNext and *)
(* playlistPrev count.                                                     *)
THEOREM TypeCorrect == PlaylistSpec => []PlaylistTypeOK
<1>1. ListInv => PlaylistTypeOK
  BY DEF ListInv
<1> QED
  BY <1>1, ListInvAlways, PTL

(* MediaIsCurrent: jPlayer has the media of the current track and no       *)
(* element is heard with another, however clicks, events and the timeout   *)
(* of playHead interleave.                                                 *)
THEOREM MediaIsAlwaysCurrent == PlaylistSpec => []MediaIsCurrent
<1>1. ListInv => MediaIsCurrent
  BY DEF ListInv, MediaIsCurrent, Sound, Audible
<1> QED
  BY <1>1, ListInvAlways, PTL

(* MarkedIsPlaying: what plays when its events have been handled is the    *)
(* track that the play handler marked.                                     *)
THEOREM MarkIsAlwaysPlaying == PlaylistSpec => []MarkedIsPlaying
<1>1. ListInv => MarkedIsPlaying
  <2> SUFFICES ASSUME ListInv, w.srcSet, w.el[w.gate].queue = << >>, Sounding(w.el[w.gate])
               PROVE  marked = current
    BY DEF MarkedIsPlaying
  <2>1. w.gate \in Kinds
    BY DEF ListInv, Sound, Prepared
  <2>2. Announced(w.el[w.gate])
    BY DEF Announced
  <2> QED
    BY <2>1, <2>2 DEF ListInv
<1> QED
  BY <1>1, ListInvAlways, PTL

(* CurrentIsVisible: the list is expanded before the playlist goes below   *)
(* its fold.                                                               *)
THEOREM CurrentIsAlwaysVisible == PlaylistSpec => []CurrentIsVisible
<1>1. ListInv => CurrentIsVisible
  BY DEF ListInv
<1> QED
  BY <1>1, ListInvAlways, PTL

(* AdvancesAtEnd: without a click only the end of the current track, heard *)
(* from the element that has its media, sets another, and it sets the next.*)
THEOREM AdvancesOnlyAtEnd == PlaylistSpec => AdvancesAtEnd
<1> DEFINE Advances ==
      ready /\ calls' = calls /\ w.srcSet /\ current' # current =>
        /\ current' = Following
        /\ Head(w.el[w.gate].queue) = "ended" /\ w.el[w.gate].src = List[current]
<1>1. ListInv /\ [PlaylistNext]_playlistVars => Advances
  <2> SUFFICES ASSUME ListInv, [PlaylistNext]_playlistVars, ready, calls' = calls, w.srcSet,
                      current' # current
               PROVE  /\ current' = Following /\ Head(w.el[w.gate].queue) = "ended"
                      /\ w.el[w.gate].src = List[current]
    OBVIOUS
  <2>1. PICK k \in Kinds : Hear(k)
    <3>1. ~Ready /\ current' # current
      BY DEF Ready
    <3>2. ~Call
      BY DEF Call, ListInv, PlaylistTypeOK, TypeOK
    <3>3. ~PlayerStep /\ ~UNCHANGED playlistVars
      BY <3>1 DEF PlayerStep, listVars, playlistVars
    <3> QED
      BY <3>1, <3>2, <3>3 DEF PlaylistNext, ClickNext, ClickPrevious, ClickMore, ClickControl,
                              ClickTitle
  <2>2. /\ Heard(w, k) /\ Head(w.el[k].queue) = "ended" /\ current' = Following
    BY <2>1 DEF Hear, EndsTrack, Advance
  <2>3. w.gate = k /\ ~w.waitForLoad
    BY <2>2 DEF Heard
  <2>4. w.el[k].src = w.media /\ w.media = List[current]
    BY <2>3 DEF ListInv, Sound, Prepared
  <2> QED
    BY <2>2, <2>3, <2>4
<1> QED
  BY <1>1, ListInvAlways, PTL DEF PlaylistSpec, AdvancesAtEnd

-----------------------------------------------------------------------------
(* The player under the playlist.                                          *)

LEMMA AdvanceControlled ==
  ASSUME NEW v, Controlled(v), NEW i \in Tracks, Advance(v, i)
  PROVE  Controlled(w')
<1>1. List[i] \in Media
  BY TracksAreMedia
<1>2. Controlled(SetMedia(v, List[i]))
  BY <1>1, SetMediaControlled
<1> QED
  BY <1>2, CommandsAreControlled DEF Advance, Times

LEMMA PlaylistStepControlled ==
  Controlled(w) /\ current \in Tracks /\ [PlaylistNext]_playlistVars => Controlled(w')
<1> SUFFICES ASSUME Controlled(w), current \in Tracks, [PlaylistNext]_playlistVars
             PROVE  Controlled(w')
  OBVIOUS
<1>1. 1 \in Tracks /\ List[1] \in Media
  BY TracksAreMedia
<1>2. CASE Ready
  BY <1>1, <1>2, SetMediaControlled DEF Ready, Config
<1>3. CASE ClickNext \/ ClickPrevious
  BY <1>3, NeighboursAreTracks, AdvanceControlled DEF ClickNext, ClickPrevious
<1>4. CASE \E i \in Tracks : ClickTitle(i)
  BY <1>4, AdvanceControlled DEF ClickTitle
<1>5. CASE ClickMore \/ UNCHANGED playlistVars
  BY <1>5 DEF ClickMore, playlistVars
<1>6. CASE ClickControl
  BY <1>6, CommandsAreControlled DEF ClickControl, Times
<1>7. ASSUME NEW k \in Kinds, Hear(k)
      PROVE  Controlled(w')
  <2>1. Controlled(Handled(w, k))
    BY <1>7, HandledControlled DEF Hear
  <2> QED
    BY <1>7, <2>1, NeighboursAreTracks, AdvanceControlled DEF Hear
<1>8. CASE PlayerStep
  BY <1>8, StepControlled DEF PlayerStep, Next
<1> QED
  BY <1>2, <1>3, <1>4, <1>5, <1>6, <1>7, <1>8 DEF PlaylistNext

(* PlaysWhatIsSet, OneTimer, DelayedCommandIsCurrent and ControlsAgree: a  *)
(* playlist that calls jPlayer from within its event handlers leaves it    *)
(* every promise that it makes to a page that calls it from outside.       *)
THEOREM PlayerKeepsItsPromises ==
  PlaylistSpec => [](PlaysWhatIsSet /\ OneTimer /\ DelayedCommandIsCurrent /\ ControlsAgree)
<1> DEFINE Promised == ListInv /\ Controlled(w)
<1>1. PlaylistInit => Promised
  BY ListInvInit, InitControlled DEF PlaylistInit
<1>2. Promised /\ [PlaylistNext]_playlistVars => Promised'
  BY ListInvStep, PlaylistStepControlled DEF ListInv, PlaylistTypeOK
<1>3. Promised => PlaysWhatIsSet /\ OneTimer /\ DelayedCommandIsCurrent /\ ControlsAgree
  BY GoodSays, ControlledSays DEF ListInv, Sound, Audible, PlaysWhatIsSet
<1> QED
  BY <1>1, <1>2, <1>3, PTL DEF PlaylistSpec
=============================================================================
