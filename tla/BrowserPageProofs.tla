------------------------- MODULE BrowserPageProofs -------------------------
(***************************************************************************)
(* The page shows the songs that are stored: PageShowsStore, proved of     *)
(* BrowserPage for any lists, songs and connections, any number of clicks, *)
(* visits and errors.                                                      *)
(***************************************************************************)
EXTENDS BrowserPage, FiniteSetTheorems, SequenceTheorems, TLAPS

(* Saved, and the page does not know yet.                                  *)
Saved(c) ==
  req[c] # Null /\ req[c].op # "lists" /\ req[c].pc = "answered" /\ req[c].ok = TRUE

Shown(l, s) == {i \in items : i.ul = l /\ i.song = s}

(* What the requests look like.                                            *)
RequestInv(r) ==
  /\ r.visit <= Len(opens)
  /\ r.pc # "answered" => r.ok = FALSE
  /\ r.op = "lists" => r.list = Null /\ r.pc # "read" /\ (r.ok => r.copy \in Content)
  /\ r.op # "lists" => /\ r.list \in Lists /\ r.song \in Songs
                       /\ r.pc = "read" => r.copy \in Content
  /\ r.op = "rate" => r.click < clicks
  /\ r.op = "delete" => /\ r.item \in Item
                        /\ r.list = r.item.list /\ r.song = r.item.song

(* Requests and elements can be told apart.                                *)
ApartInv ==
  /\ \A c, d \in Conns : c # d /\ req[c] # Null /\ req[d] # Null /\ req[c].op = req[d].op =>
       /\ req[c].op = "lists" => req[c].visit # req[d].visit
       /\ req[c].op = "rate" => <<req[c].click, req[c].visit>> # <<req[d].click, req[d].visit>>
  /\ \A i \in items : i.by = <<0, 0>> \/ i.by[1] < clicks
  /\ \A i \in items, c \in Conns :
       req[c] # Null /\ req[c].op = "rate" => i.by # <<req[c].click, req[c].visit>>

(* What is open, loaded and shown goes together.                           *)
ViewInv ==
  /\ loaded => view = "lists"
  /\ view = "lists" => Len(opens) # 0
  /\ items # {} => loaded
  /\ modal # "hidden" => loaded /\ chosen \in Item
  /\ chosen # Null => loaded
  /\ \A i \in items : i.ul = i.list \/ {i.ul, i.list} \subseteq disturbed
  /\ loaded => \A c \in Conns : req[c] # Null /\ req[c].op = "lists" => req[c].visit # Len(opens)

(* The lists that the user is patient with have one request at a time; its *)
(* answer goes to the list that it is about, to an element that is there.  *)
PatienceInv ==
  /\ Crowded(req) \subseteq disturbed
  /\ view = "lists" /\ ~loaded => Awaited \subseteq disturbed
  /\ \A c \in Conns : req[c] # Null /\ req[c].op = "rate" =>
       \/ opens[req[c].visit] = req[c].list
       \/ req[c].list \in disturbed /\ opens[req[c].visit] \in disturbed \cup {Null}
  /\ \A c \in Conns : view = "lists" /\ req[c] # Null /\ req[c].op = "delete" =>
       req[c].list \in disturbed \/ req[c].item \in items

(* What was read for these lists is what is stored.                        *)
CopyInv ==
  /\ \A c \in Conns : At(c, "read") /\ req[c].list \notin disturbed =>
       req[c].copy[req[c].list] = store[req[c].list]
  /\ \A c \in Conns : view = "lists" /\ ~loaded /\ At(c, "answered") /\ req[c].op = "lists"
                      /\ req[c].ok /\ req[c].visit = Len(opens) =>
       \A l \in Lists \ disturbed : req[c].copy[l] = store[l]

(* The page shows what is stored, but for what is saved and not yet        *)
(* answered.                                                               *)
SavedFor(c, l, s) == Saved(c) /\ req[c].list = l /\ req[c].song = s

Balance(l, s) ==
  /\ IsFiniteSet(Shown(l, s))
  /\ (\A c \in Conns : ~SavedFor(c, l, s)) => Count(l, s) = store[l][s]
  /\ \A c \in Conns : SavedFor(c, l, s) =>
       /\ req[c].op = "rate" => store[l][s] = Count(l, s) + 1
       /\ req[c].op = "delete" => Count(l, s) = store[l][s] + 1

ShownInv == loaded => \A l \in Lists \ disturbed, s \in Songs : Balance(l, s)

PageInv ==
  /\ TypeOK
  /\ \A c \in Conns : req[c] # Null => RequestInv(req[c])
  /\ ApartInv /\ ViewInv /\ PatienceInv /\ CopyInv /\ ShownInv

-----------------------------------------------------------------------------
(* What the steps of the server and the answers do to a request.           *)
OthersKept(c) == \A d \in Conns : d # c => req'[d] = req[d]

Kept(c) ==
  /\ OthersKept(c)
  /\ req[c] \in Request /\ req'[c] \in Request /\ req'[c] # Null
  /\ req'[c].op = req[c].op /\ req'[c].visit = req[c].visit /\ req'[c].list = req[c].list
  /\ req'[c].song = req[c].song /\ req'[c].click = req[c].click /\ req'[c].item = req[c].item

LEMMA ReadEffect ==
  ASSUME TypeOK, NEW c \in Conns, Read(c)
  PROVE  /\ Kept(c) /\ req[c].pc = "sent" /\ req'[c].copy = store
         /\ req[c].op = "lists" => req'[c].pc = "answered" /\ req'[c].ok = TRUE
         /\ req[c].op # "lists" => req'[c].pc = "read" /\ req'[c].ok = req[c].ok
<1>1. req[c] \in Request /\ req[c].pc = "sent" /\ store \in Content
  BY DEF TypeOK, Read, At
<1>2. CASE req[c].op = "lists"
  <2>1. req' = [req EXCEPT ![c] = [req[c] EXCEPT !.pc = "answered", !.copy = store, !.ok = TRUE]]
    BY <1>2 DEF Read
  <2> DEFINE r == [req[c] EXCEPT !.pc = "answered", !.copy = store, !.ok = TRUE]
  <2>2. /\ r \in Request /\ r.op = req[c].op /\ r.visit = req[c].visit /\ r.list = req[c].list
        /\ r.song = req[c].song /\ r.click = req[c].click /\ r.item = req[c].item
        /\ r.pc = "answered" /\ r.copy = store /\ r.ok = TRUE
    BY <1>1 DEF Request
  <2>3. req'[c] = r /\ \A d \in Conns : d # c => req'[d] = req[d]
    BY <2>1 DEF TypeOK
  <2> HIDE DEF r
  <2> QED
    BY <1>1, <1>2, <2>2, <2>3, NullRequestAssumption DEF Kept, OthersKept
<1>3. CASE req[c].op # "lists"
  <2> DEFINE r == [req[c] EXCEPT !.pc = "read", !.copy = store]
  <2>1. req' = [req EXCEPT ![c] = r]
    BY <1>3 DEF Read
  <2>2. /\ r \in Request /\ r.op = req[c].op /\ r.visit = req[c].visit /\ r.list = req[c].list
        /\ r.song = req[c].song /\ r.click = req[c].click /\ r.item = req[c].item
        /\ r.pc = "read" /\ r.copy = store /\ r.ok = req[c].ok
    BY <1>1 DEF Request
  <2>3. req'[c] = r /\ \A d \in Conns : d # c => req'[d] = req[d]
    BY <2>1 DEF TypeOK
  <2> HIDE DEF r
  <2> QED
    BY <1>1, <1>3, <2>2, <2>3, NullRequestAssumption DEF Kept, OthersKept
<1> QED
  BY <1>2, <1>3

LEMMA WriteEffect ==
  ASSUME TypeOK, NEW c \in Conns, Write(c)
  PROVE  /\ Kept(c) /\ req[c].pc = "read" /\ req'[c].pc = "answered"
         /\ req'[c].copy = req[c].copy
         /\ \/ /\ req'[c].ok = TRUE
               /\ UNCHANGED <<disturbed, failures>>
            \/ /\ failures < MaxFailures /\ failures' = failures + 1
               /\ req'[c].ok = req[c].ok /\ disturbed' = disturbed \cup {req[c].list}
<1>1. req[c] \in Request /\ req[c].pc = "read"
  BY DEF TypeOK, Write, At
<1>2. CASE req' = [req EXCEPT ![c] = [req[c] EXCEPT !.pc = "answered", !.ok = TRUE]]
           /\ UNCHANGED <<disturbed, failures>>
  <2> DEFINE r == [req[c] EXCEPT !.pc = "answered", !.ok = TRUE]
  <2>2. /\ r \in Request /\ r.op = req[c].op /\ r.visit = req[c].visit /\ r.list = req[c].list
        /\ r.song = req[c].song /\ r.click = req[c].click /\ r.item = req[c].item
        /\ r.pc = "answered" /\ r.copy = req[c].copy /\ r.ok = TRUE
    BY <1>1 DEF Request
  <2>3. req'[c] = r /\ \A d \in Conns : d # c => req'[d] = req[d]
    BY <1>2 DEF TypeOK
  <2> HIDE DEF r
  <2> QED
    BY <1>1, <1>2, <2>2, <2>3, NullRequestAssumption DEF Kept, OthersKept
<1>3. CASE /\ failures < MaxFailures /\ failures' = failures + 1
           /\ req' = [req EXCEPT ![c].pc = "answered"]
           /\ disturbed' = disturbed \cup {req[c].list}
  <2> DEFINE r == [req[c] EXCEPT !.pc = "answered"]
  <2>2. /\ r \in Request /\ r.op = req[c].op /\ r.visit = req[c].visit /\ r.list = req[c].list
        /\ r.song = req[c].song /\ r.click = req[c].click /\ r.item = req[c].item
        /\ r.pc = "answered" /\ r.copy = req[c].copy /\ r.ok = req[c].ok
    BY <1>1 DEF Request
  <2>3. req'[c] = r /\ \A d \in Conns : d # c => req'[d] = req[d]
    BY <1>3 DEF TypeOK
  <2> HIDE DEF r
  <2> QED
    BY <1>1, <1>3, <2>2, <2>3, NullRequestAssumption DEF Kept, OthersKept
<1> QED
  BY <1>2, <1>3 DEF Write

LEMMA FailEffect ==
  ASSUME TypeOK, NEW c \in Conns, Fail(c)
  PROVE  /\ Kept(c) /\ req[c].pc \in {"sent", "read"} /\ req'[c].pc = "answered"
         /\ req'[c].copy = req[c].copy /\ req'[c].ok = req[c].ok
<1>1. req[c] \in Request /\ req[c].pc \in {"sent", "read"}
  BY DEF TypeOK, Fail, At
<1> DEFINE r == [req[c] EXCEPT !.pc = "answered"]
<1>2. /\ r \in Request /\ r.op = req[c].op /\ r.visit = req[c].visit /\ r.list = req[c].list
      /\ r.song = req[c].song /\ r.click = req[c].click /\ r.item = req[c].item
      /\ r.pc = "answered" /\ r.copy = req[c].copy /\ r.ok = req[c].ok
  BY <1>1 DEF Request
<1>3. req'[c] = r /\ \A d \in Conns : d # c => req'[d] = req[d]
  BY DEF Fail, TypeOK
<1> HIDE DEF r
<1> QED
  BY <1>1, <1>2, <1>3, NullRequestAssumption DEF Kept, OthersKept

LEMMA GoneEffect ==
  ASSUME TypeOK, NEW c \in Conns, Gone(c)
  PROVE  OthersKept(c) /\ req'[c] = Null
BY DEF TypeOK, Gone, OthersKept

(* The requests of a step that sends some, on the connections D.           *)
SentOn(D) ==
  /\ \A c \in Conns \ D : req'[c] = req[c]
  /\ \A c \in D : req[c] = Null /\ req'[c].pc = "sent" /\ req'[c].ok = FALSE
                   /\ req'[c].click = clicks

LEMMA ShowViewEffect ==
  ASSUME TypeOK, NEW c \in Conns, ShowView(c)
  PROVE  /\ SentOn({c}) /\ req'[c].op = "lists" /\ req'[c].list = Null
         /\ req'[c].visit = Len(opens) + 1 /\ req'[c] \in Request
<1>1. Len(opens) \in Nat /\ Len(opens) < MaxVisits /\ MaxVisits \in Nat
      /\ clicks \in 0 .. MaxClicks
  BY LenProperties, BoundAssumption DEF ShowView, TypeOK
<1>2. req'[c] = Sent("lists", Len(opens) + 1, Null, Null, Null)
      /\ \A d \in Conns : d # c => req'[d] = req[d]
  BY DEF ShowView, TypeOK
<1>3. req[c] = Null
  BY DEF ShowView
<1> QED
  BY <1>1, <1>2, <1>3 DEF SentOn, Sent, Request

LEMMA ConfirmEffect ==
  ASSUME TypeOK, ViewInv, NEW c \in Conns, Confirm(c)
  PROVE  /\ SentOn({c}) /\ req'[c].op = "delete" /\ req'[c].list = chosen.list
         /\ req'[c].song = chosen.song /\ req'[c].item = chosen
         /\ req'[c].visit = Len(opens) /\ req'[c] \in Request
<1>1. chosen \in Item /\ clicks \in 0 .. MaxClicks
  BY DEF Confirm, ViewInv, TypeOK
<1>2. req'[c] = Sent("delete", Len(opens), chosen.list, chosen.song, chosen)
      /\ \A d \in Conns : d # c => req'[d] = req[d]
  BY DEF Confirm, TypeOK
<1>3. req[c] = Null
  BY DEF Confirm
<1>4. chosen.list \in Lists /\ chosen.song \in Songs
  BY <1>1 DEF Item
<1>5. Len(opens) \in 1 .. MaxVisits
  BY LenProperties, BoundAssumption DEF Confirm, ViewInv, TypeOK
<1> QED
  BY <1>1, <1>2, <1>3, <1>4, <1>5 DEF SentOn, Sent, Request

(* One request of each closure that has an open list.                      *)
RatedOn(D, s) ==
  /\ \A c \in D : /\ req'[c].op = "rate" /\ req'[c].song = s /\ req'[c] \in Request
                   /\ req'[c].visit \in DOMAIN opens /\ req'[c].list \in Lists
                   /\ opens[req'[c].visit] = req'[c].list
  /\ \A c, d \in D : c # d => req'[c].visit # req'[d].visit

LEMMA RateEffect ==
  ASSUME TypeOK, NEW s \in Songs, Rate(s)
  PROVE  \E D \in SUBSET Conns : SentOn(D) /\ RatedOn(D, s)
<1> DEFINE raters == {v \in DOMAIN opens : opens[v] # Null}
           sent(v) == Sent("rate", v, opens[v], s, Null)
<1>1. PICK on \in [raters -> {c \in Conns : req[c] = Null}] :
        /\ \A v, w \in raters : on[v] = on[w] => v = w
        /\ req' = [c \in Conns |->
             IF \E v \in raters : on[v] = c
               THEN LET v == CHOOSE v \in raters : on[v] = c IN sent(v)
               ELSE req[c]]
  BY DEF Rate
<1> DEFINE D == {c \in Conns : \E v \in raters : on[v] = c}
           of(c) == CHOOSE v \in raters : on[v] = c
<1>2. \A c \in Conns \ D : req'[c] = req[c]
  BY <1>1
<1>3. \A c \in D : req'[c] = sent(of(c)) /\ of(c) \in raters /\ on[of(c)] = c /\ req[c] = Null
  <2> TAKE c \in D
  <2>1. \E v \in raters : on[v] = c
    OBVIOUS
  <2>2. of(c) \in raters /\ on[of(c)] = c
    BY <2>1
  <2>3. req'[c] = sent(of(c))
    BY <1>1, <2>1
  <2>4. req[c] = Null
    BY <1>1, <2>2
  <2> QED
    BY <2>2, <2>3, <2>4
<1>4. \A v \in raters : /\ v \in DOMAIN opens /\ opens[v] \in Lists
                         /\ v \in 1 .. MaxVisits
  <2>1. /\ Len(opens) \in Nat /\ Len(opens) <= MaxVisits /\ MaxVisits \in Nat
        /\ DOMAIN opens = 1 .. Len(opens)
        /\ \A v \in 1 .. Len(opens) : opens[v] \in Lists \cup {Null}
    BY LenProperties, ElementOfSeq, BoundAssumption DEF TypeOK
  <2> QED
    BY <2>1
<1>5. \A v \in raters : /\ sent(v) \in Request /\ sent(v).op = "rate" /\ sent(v).song = s
                         /\ sent(v).visit = v /\ sent(v).list = opens[v] /\ sent(v).pc = "sent"
                         /\ sent(v).ok = FALSE /\ sent(v).click = clicks
  <2> TAKE v \in raters
  <2>1. clicks \in 0 .. MaxClicks
    BY DEF TypeOK
  <2> QED
    BY <1>4, <2>1 DEF Sent, Request
<1> HIDE DEF sent, of, raters
<1>6. SentOn(D)
  BY <1>2, <1>3, <1>5 DEF SentOn
<1>7. RatedOn(D, s)
  BY <1>3, <1>4, <1>5 DEF RatedOn
<1> QED
  BY <1>6, <1>7

-----------------------------------------------------------------------------
(* The types.                                                              *)
LEMMA EditedType ==
  ASSUME NEW op, NEW row \in [Songs -> Nat], NEW s \in Songs
  PROVE  /\ Edited(op, row, s) \in [Songs -> Nat]
         /\ \A t \in Songs \ {s} : Edited(op, row, s)[t] = row[t]
         /\ op = "rate" => Edited(op, row, s)[s] = row[s] + 1
         /\ op # "rate" => Edited(op, row, s)[s] = IF row[s] > 0 THEN row[s] - 1 ELSE row[s]
<1>1. row[s] \in Nat
  OBVIOUS
<1>2. row[s] > 0 => row[s] - 1 \in Nat
  BY <1>1
<1> QED
  BY <1>1, <1>2 DEF Edited

LEMMA StoreType ==
  ASSUME PageInv, NEW c \in Conns, Write(c)
  PROVE  /\ store' \in Content
         /\ req[c].list \in Lists /\ req[c].song \in Songs /\ req[c].op \in {"rate", "delete"}
         /\ req[c].copy[req[c].list] \in [Songs -> Nat]
         /\ store'[req[c].list] = Edited(req[c].op, req[c].copy[req[c].list], req[c].song)
         /\ \A l \in Lists : l # req[c].list => store'[l] = store[l]
<1>1. req[c] \in Request /\ req[c] # Null /\ req[c].pc = "read" /\ RequestInv(req[c])
      /\ store \in Content
  BY DEF PageInv, TypeOK, Write, At
<1>2. /\ req[c].op \in {"rate", "delete"} /\ req[c].list \in Lists /\ req[c].song \in Songs
      /\ req[c].copy \in Content
  BY <1>1 DEF RequestInv, Request
<1>3. req[c].copy[req[c].list] \in [Songs -> Nat]
  BY <1>2 DEF Content
<1> DEFINE e == Edited(req[c].op, req[c].copy[req[c].list], req[c].song)
<1>4. e \in [Songs -> Nat]
  BY <1>2, <1>3, EditedType
<1>5. store' = [store EXCEPT ![req[c].list] = e]
  BY DEF Write
<1> HIDE DEF e
<1>6. /\ store' \in Content /\ store'[req[c].list] = e
      /\ \A l \in Lists : l # req[c].list => store'[l] = store[l]
  BY <1>1, <1>2, <1>4, <1>5 DEF Content
<1> QED
  BY <1>2, <1>3, <1>6 DEF e

LEMMA NewItem ==
  ASSUME PageInv, NEW c \in Conns, AppendItem(c), opens[req[c].visit] # Null
  PROVE  LET new == [visit |-> Len(opens), ul |-> opens[req[c].visit], list |-> req[c].list,
                     song |-> req[c].song, by |-> <<req[c].click, req[c].visit>>]
         IN  new \in Item
<1>1. req[c] \in Request /\ req[c] # Null /\ req[c].op = "rate" /\ RequestInv(req[c])
  BY DEF PageInv, TypeOK, AppendItem, At
<1>2. /\ Len(opens) \in Nat /\ Len(opens) <= MaxVisits /\ MaxVisits \in Nat
      /\ \A v \in 1 .. Len(opens) : opens[v] \in Lists \cup {Null}
  BY LenProperties, ElementOfSeq, BoundAssumption DEF PageInv, TypeOK
<1>3. /\ req[c].visit \in 1 .. Len(opens) /\ req[c].visit \in 0 .. MaxVisits
      /\ Len(opens) \in 1 .. MaxVisits
      /\ req[c].click \in 0 .. MaxClicks /\ req[c].list \in Lists /\ req[c].song \in Songs
  BY <1>1, <1>2 DEF RequestInv, Request
<1>4. opens[req[c].visit] \in Lists
  BY <1>2, <1>3
<1> QED
  BY <1>3, <1>4 DEF Item

LEMMA LoadedItem ==
  ASSUME TypeOK, Len(opens) # 0, NEW l \in Lists, NEW s \in Songs
  PROVE  /\ Loaded(Len(opens), l, s) \in Item
         /\ Loaded(Len(opens), l, s).ul = l /\ Loaded(Len(opens), l, s).list = l
         /\ Loaded(Len(opens), l, s).song = s /\ Loaded(Len(opens), l, s).by = <<0, 0>>
<1>1. Len(opens) \in 1 .. MaxVisits /\ 0 \in 0 .. MaxClicks /\ 0 \in 0 .. MaxVisits
  BY LenProperties, BoundAssumption DEF TypeOK
<1> QED
  BY <1>1 DEF Loaded, Item

(* What ShowLists renders.                                                 *)
Rendered(copy) ==
  {Loaded(Len(opens), p[1], p[2]) : p \in {q \in (Lists \ Twice(copy)) \X Songs :
                                             copy[q[1]][q[2]] = 1}}

LEMMA RenderedItems ==
  ASSUME TypeOK, Len(opens) # 0, NEW copy, NEW i \in Rendered(copy)
  PROVE  /\ i \in Item /\ i.ul = i.list /\ i.by = <<0, 0>>
         /\ i = Loaded(Len(opens), i.ul, i.song)
         /\ i.ul \in Lists \ Twice(copy) /\ i.song \in Songs /\ copy[i.ul][i.song] = 1
<1>1. PICK l \in Lists \ Twice(copy), s \in Songs :
        copy[l][s] = 1 /\ i = Loaded(Len(opens), l, s)
  BY DEF Rendered
<1> QED
  BY <1>1, LoadedItem

LEMMA TypeStep ==
  ASSUME PageInv, Next
  PROVE  TypeOK'
<1>1. TypeOK /\ ViewInv
  BY DEF PageInv
<1>2. ASSUME NEW c \in Conns, ShowView(c) PROVE TypeOK'
  <2>1. SentOn({c}) /\ req'[c] \in Request
    BY <1>1, <1>2, ShowViewEffect
  <2>2. req' \in [Conns -> Request \cup {Null}]
    BY <1>1, <1>2, <2>1 DEF SentOn, ShowView, TypeOK
  <2>3. opens' \in Seq(Lists \cup {Null}) /\ Len(opens') <= MaxVisits
    <3>1. opens' = Append(opens, Null) /\ Len(opens) < MaxVisits
          /\ opens \in Seq(Lists \cup {Null}) /\ MaxVisits \in Nat
      BY <1>1, <1>2, BoundAssumption DEF ShowView, TypeOK
    <3>2. opens' \in Seq(Lists \cup {Null}) /\ Len(opens') = Len(opens) + 1
      BY <3>1, AppendProperties
    <3> QED
      BY <3>1, <3>2, LenProperties
  <2>4. Targets \subseteq Lists /\ Awaited \subseteq Lists
    BY DEF Targets, Awaited
  <2> QED
    BY <1>1, <1>2, <2>2, <2>3, <2>4 DEF TypeOK, ShowView, server
<1>3. ASSUME NEW c \in Conns, Confirm(c) PROVE TypeOK'
  <2>1. SentOn({c}) /\ req'[c] \in Request
    BY <1>1, <1>3, ConfirmEffect
  <2>2. req' \in [Conns -> Request \cup {Null}]
    BY <1>1, <1>3, <2>1 DEF SentOn, Confirm, TypeOK
  <2>3. clicks' \in 0 .. MaxClicks
    BY <1>1, <1>3, BoundAssumption DEF Confirm, Click, TypeOK
  <2>4. chosen.list \in Lists
    BY <1>1, <1>3 DEF Confirm, ViewInv, Item
  <2>5. disturbed' \subseteq Lists
    BY <1>1, <1>3, <2>4 DEF Confirm, Crowded, TypeOK
  <2> QED
    BY <1>1, <1>3, <2>2, <2>3, <2>5 DEF TypeOK, Confirm, server
<1>4. ASSUME NEW c \in Conns, Read(c) PROVE TypeOK'
  <2>1. Kept(c)
    BY <1>1, <1>4, ReadEffect
  <2>2. req' \in [Conns -> Request \cup {Null}]
    BY <1>1, <1>4, <2>1 DEF Kept, OthersKept, Read, TypeOK
  <2> QED
    BY <1>1, <1>4, <2>2 DEF TypeOK, Read, server, Page
<1>5. ASSUME NEW c \in Conns, Write(c) PROVE TypeOK'
  <2>1. Kept(c)
    BY <1>1, <1>5, WriteEffect
  <2>2. req' \in [Conns -> Request \cup {Null}]
    BY <1>1, <1>5, <2>1 DEF Kept, OthersKept, Write, TypeOK
  <2>3. store' \in Content /\ req[c].list \in Lists
    BY <1>5, StoreType
  <2>4. disturbed' \subseteq Lists /\ failures' \in 0 .. MaxFailures
    <3>1. \/ UNCHANGED <<disturbed, failures>>
          \/ /\ failures < MaxFailures /\ failures' = failures + 1
             /\ disturbed' = disturbed \cup {req[c].list}
      BY <1>1, <1>5, WriteEffect
    <3> QED
      BY <1>1, <2>3, <3>1, BoundAssumption DEF TypeOK
  <2> QED
    BY <1>1, <1>5, <2>2, <2>3, <2>4 DEF TypeOK, Write, Page
<1>6. ASSUME NEW c \in Conns, Fail(c) PROVE TypeOK'
  <2>1. Kept(c)
    BY <1>1, <1>6, FailEffect
  <2>2. req' \in [Conns -> Request \cup {Null}]
    BY <1>1, <1>6, <2>1 DEF Kept, OthersKept, Fail, TypeOK
  <2>3. failures' \in 0 .. MaxFailures
    BY <1>1, <1>6, BoundAssumption DEF TypeOK, Fail
  <2> QED
    BY <1>1, <1>6, <2>2, <2>3 DEF TypeOK, Fail, Page
<1>7. ASSUME NEW c \in Conns, Gone(c) PROVE req' \in [Conns -> Request \cup {Null}]
  BY <1>1, <1>7 DEF Gone, TypeOK
<1>8. ASSUME NEW c \in Conns, ShowLists(c) PROVE TypeOK'
  <2>1. req' \in [Conns -> Request \cup {Null}]
    BY <1>7, <1>8 DEF ShowLists
  <2>2. items' \subseteq Item
    <3>1. CASE view = "lists" /\ req[c].visit = Len(opens)
      <4>1. items' = Rendered(req[c].copy)
        BY <1>8, <3>1 DEF ShowLists, Rendered
      <4>2. Len(opens) # 0
        BY <1>1, <3>1 DEF ViewInv
      <4> QED
        BY <1>1, <4>1, <4>2, RenderedItems
    <3>2. CASE ~(view = "lists" /\ req[c].visit = Len(opens))
      BY <1>1, <1>8, <3>2 DEF ShowLists, TypeOK
    <3> QED
      BY <3>1, <3>2
  <2>3. disturbed' \subseteq Lists /\ loaded' \in BOOLEAN
    BY <1>1, <1>8 DEF ShowLists, Twice, TypeOK
  <2> QED
    BY <1>1, <1>8, <2>1, <2>2, <2>3 DEF TypeOK, ShowLists, server
<1>9. ASSUME NEW c \in Conns, AppendItem(c) PROVE TypeOK'
  <2>1. req' \in [Conns -> Request \cup {Null}]
    BY <1>7, <1>9 DEF AppendItem
  <2>2. items' \subseteq Item
    BY <1>1, <1>9, NewItem DEF AppendItem, TypeOK
  <2> QED
    BY <1>1, <1>9, <2>1, <2>2 DEF TypeOK, AppendItem, server
<1>10. ASSUME NEW c \in Conns, RemoveItem(c) PROVE TypeOK'
  BY <1>1, <1>7, <1>10 DEF TypeOK, RemoveItem, server
<1>11. ASSUME NEW c \in Conns, Refused(c) PROVE TypeOK'
  BY <1>1, <1>7, <1>11 DEF TypeOK, Refused, server, Page
<1>12. ASSUME NEW l \in Lists, Toggle(l) PROVE TypeOK'
  <2>1. opens' \in Seq(Lists \cup {Null}) /\ Len(opens') = Len(opens)
    <3>1. opens \in Seq(Lists \cup {Null}) /\ DOMAIN opens = 1 .. Len(opens) /\ Len(opens) \in Nat
      BY <1>1, LenProperties DEF TypeOK
    <3>2. opens' \in [1 .. Len(opens) -> Lists \cup {Null}]
      BY <1>12, <3>1 DEF Toggle
    <3> QED
      BY <3>1, <3>2, LenProperties, SeqDef DEF Toggle
  <2>2. clicks' \in 0 .. MaxClicks
    BY <1>1, <1>12, BoundAssumption DEF Toggle, Click, TypeOK
  <2>3. disturbed' \subseteq Lists
    BY <1>1, <1>12 DEF Toggle, Rated, TypeOK
  <2> QED
    BY <1>1, <1>12, <2>1, <2>2, <2>3 DEF TypeOK, Toggle, server
<1>13. ASSUME NEW s \in Songs, Rate(s) PROVE TypeOK'
  <2>1. PICK D \in SUBSET Conns : SentOn(D) /\ RatedOn(D, s)
    BY <1>1, <1>13, RateEffect
  <2>2. req' \in [Conns -> Request \cup {Null}]
    <3>1. \A d \in Conns : req'[d] \in Request \cup {Null}
      BY <1>1, <2>1 DEF SentOn, RatedOn, TypeOK
    <3>2. \E f : req' = [d \in Conns |-> f[d]]
      BY <1>13 DEF Rate
    <3> QED
      BY <3>1, <3>2
  <2>3. clicks' \in 0 .. MaxClicks
    BY <1>1, <1>13, BoundAssumption DEF Rate, Click, TypeOK
  <2>4. disturbed' \subseteq Lists
    <3>1. \A v \in DOMAIN opens : opens[v] \in Lists \cup {Null}
      BY <1>1, ElementOfSeq, LenProperties DEF TypeOK
    <3> QED
      BY <1>1, <1>13, <3>1 DEF Rate, Crowded, TypeOK
  <2> QED
    BY <1>1, <1>13, <2>2, <2>3, <2>4 DEF TypeOK, Rate, server
<1>14. ASSUME NEW i \in items, Trash(i) PROVE TypeOK'
  BY <1>1, <1>14, BoundAssumption DEF TypeOK, Trash, Click, server
<1>15. CASE LeaveView \/ Cancel \/ Faded \/ Finished
  BY <1>1, <1>15 DEF TypeOK, LeaveView, Cancel, Faded, Finished, server, vars
<1> QED
  BY <1>2, <1>3, <1>4, <1>5, <1>6, <1>8, <1>9, <1>10, <1>11, <1>12, <1>13, <1>14, <1>15 DEF Next

-----------------------------------------------------------------------------
(* Visits and clicks only get more.                                        *)
LEMMA Counted ==
  ASSUME PageInv, Next
  PROVE  /\ Len(opens) \in Nat /\ Len(opens') \in Nat
         /\ \/ Len(opens') = Len(opens)
            \/ Len(opens') = Len(opens) + 1 /\ \E c \in Conns : ShowView(c)
         /\ clicks \in Nat /\ clicks' \in Nat
         /\ clicks' = clicks \/ clicks' = clicks + 1
<1>1. TypeOK /\ TypeOK' /\ Len(opens) \in Nat /\ Len(opens') \in Nat
      /\ clicks \in Nat /\ clicks' \in Nat
  BY TypeStep, LenProperties, BoundAssumption DEF PageInv, TypeOK
<1>2. ASSUME NEW c \in Conns, ShowView(c)
      PROVE  Len(opens') = Len(opens) + 1
  BY <1>1, <1>2, AppendProperties DEF ShowView, TypeOK
<1>3. ASSUME NEW l \in Lists, Toggle(l)
      PROVE  Len(opens') = Len(opens)
  <2>1. DOMAIN opens' = DOMAIN opens
    BY <1>3 DEF Toggle
  <2> QED
    BY <1>1, <2>1, LenProperties DEF TypeOK
<1>4. \/ Len(opens') = Len(opens)
      \/ Len(opens') = Len(opens) + 1 /\ \E c \in Conns : ShowView(c)
  BY <1>2, <1>3 DEF Next, Confirm, Read, Write, Fail, ShowLists, AppendItem, RemoveItem, Refused,
       Rate, Trash, LeaveView, Cancel, Faded, Finished, Page, vars
<1>5. clicks' = clicks \/ clicks' = clicks + 1
  BY DEF Next, ShowView, Toggle, Confirm, Read, Write, Fail, ShowLists, AppendItem, RemoveItem,
       Refused, Rate, Trash, LeaveView, Cancel, Faded, Finished, Click, Page, vars
<1> QED
  BY <1>1, <1>4, <1>5

(* The requests.                                                           *)
LEMMA RequestStep ==
  ASSUME PageInv, Next
  PROVE  \A c \in Conns : req'[c] # Null => RequestInv(req[c])'
<1>1. /\ TypeOK /\ ViewInv /\ \A c \in Conns : req[c] # Null => RequestInv(req[c])
      /\ Len(opens) \in Nat /\ clicks \in Nat
  BY LenProperties, BoundAssumption DEF PageInv, TypeOK
<1>2. /\ Len(opens') \in Nat /\ Len(opens) <= Len(opens')
      /\ clicks' \in Nat /\ clicks <= clicks'
  BY <1>1, Counted
<1>3. ASSUME NEW c \in Conns, req'[c] = req[c], req'[c] # Null
      PROVE  RequestInv(req[c])'
  <2>1. RequestInv(req[c]) /\ req[c] \in Request
    BY <1>1, <1>3 DEF TypeOK
  <2>2. req[c].visit \in Nat /\ req[c].click \in Nat
    BY <2>1, BoundAssumption DEF Request
  <2> QED
    BY <1>1, <1>2, <1>3, <2>1, <2>2 DEF RequestInv
<1>4. ASSUME NEW c \in Conns, Read(c) \/ Write(c) \/ Fail(c)
      PROVE  RequestInv(req[c])' /\ OthersKept(c)
  <2>1. Kept(c) /\ RequestInv(req[c])
    BY <1>1, <1>4, ReadEffect, WriteEffect, FailEffect DEF Read, Write, Fail, At
  <2>2. /\ req'[c].visit <= Len(opens')
        /\ req'[c].op = "rate" => req'[c].click < clicks'
    <3>1. req[c].visit \in Nat /\ req[c].click \in Nat
      BY <2>1, BoundAssumption DEF Kept, Request
    <3> QED
      BY <1>1, <1>2, <2>1, <3>1 DEF Kept, RequestInv
  <2>3. CASE Read(c)
    <3>1. /\ req[c].pc = "sent" /\ req'[c].copy = store /\ store \in Content
          /\ req[c].op = "lists" => req'[c].pc = "answered"
          /\ req[c].op # "lists" => req'[c].pc = "read" /\ req'[c].ok = req[c].ok
      BY <1>1, <2>3, ReadEffect DEF TypeOK
    <3> QED
      BY <2>1, <2>2, <3>1 DEF Kept, RequestInv
  <2>4. CASE Write(c) \/ Fail(c)
    <3>1. /\ req[c].pc \in {"sent", "read"} /\ req'[c].pc = "answered"
          /\ req[c].op = "lists" => req'[c].ok = req[c].ok
      BY <1>1, <2>1, <2>4, WriteEffect, FailEffect DEF RequestInv
    <3> QED
      BY <2>1, <2>2, <3>1 DEF Kept, RequestInv
  <2> QED
    BY <1>4, <2>1, <2>3, <2>4 DEF Kept
<1>5. ASSUME NEW c \in Conns, ShowView(c)
      PROVE  RequestInv(req[c])' /\ \A d \in Conns : d # c => req'[d] = req[d]
  <2>1. /\ SentOn({c}) /\ req'[c].op = "lists" /\ req'[c].list = Null
        /\ req'[c].visit = Len(opens) + 1
    BY <1>1, <1>5, ShowViewEffect
  <2>2. Len(opens') = Len(opens) + 1
    BY <1>1, <1>5, AppendProperties DEF ShowView, TypeOK
  <2> QED
    BY <1>1, <2>1, <2>2 DEF SentOn, RequestInv
<1>6. ASSUME NEW c \in Conns, Confirm(c)
      PROVE  RequestInv(req[c])' /\ \A d \in Conns : d # c => req'[d] = req[d]
  <2>1. /\ SentOn({c}) /\ req'[c].op = "delete" /\ req'[c].list = chosen.list
        /\ req'[c].song = chosen.song /\ req'[c].item = chosen
        /\ req'[c].visit = Len(opens) /\ chosen \in Item
    BY <1>1, <1>6, ConfirmEffect DEF Confirm, ViewInv
  <2>2. chosen.list \in Lists /\ chosen.song \in Songs
    BY <2>1 DEF Item
  <2> QED
    BY <1>1, <1>2, <2>1, <2>2 DEF SentOn, RequestInv
<1>7. ASSUME NEW s \in Songs, Rate(s), NEW c \in Conns, req'[c] # Null
      PROVE  RequestInv(req[c])'
  <2>1. PICK D \in SUBSET Conns : SentOn(D) /\ RatedOn(D, s)
    BY <1>1, <1>7, RateEffect
  <2>2. CASE c \in D
    <3>1. /\ req'[c].op = "rate" /\ req'[c].song = s /\ req'[c].visit \in DOMAIN opens
          /\ req'[c].list \in Lists /\ req'[c].pc = "sent" /\ req'[c].ok = FALSE
          /\ req'[c].click = clicks /\ clicks' = clicks + 1
      BY <1>7, <2>1, <2>2 DEF SentOn, RatedOn, Rate, Click
    <3>2. req'[c].visit <= Len(opens')
      BY <1>1, <1>2, <3>1, LenProperties DEF TypeOK
    <3> QED
      BY <1>1, <3>1, <3>2 DEF RequestInv
  <2>3. CASE c \notin D
    BY <1>3, <1>7, <2>1, <2>3 DEF SentOn
  <2> QED
    BY <2>2, <2>3
<1>8. ASSUME NEW c \in Conns, ShowLists(c) \/ AppendItem(c) \/ RemoveItem(c) \/ Refused(c)
      PROVE  OthersKept(c) /\ req'[c] = Null
  BY <1>1, <1>8, GoneEffect DEF ShowLists, AppendItem, RemoveItem, Refused
<1>9. SUFFICES ASSUME NEW d \in Conns, req'[d] # Null PROVE RequestInv(req[d])'
  OBVIOUS
<1>10. CASE \E c \in Conns : ShowView(c) \/ Confirm(c) \/ Read(c) \/ Write(c) \/ Fail(c)
                             \/ ShowLists(c) \/ AppendItem(c) \/ RemoveItem(c) \/ Refused(c)
  BY <1>3, <1>4, <1>5, <1>6, <1>8, <1>9, <1>10 DEF OthersKept
<1>11. CASE \/ \E l \in Lists : Toggle(l)
            \/ \E i \in items : Trash(i)
            \/ LeaveView \/ Cancel \/ Faded \/ Finished
  BY <1>3, <1>9, <1>11 DEF Toggle, Trash, LeaveView, Cancel, Faded, Finished, vars
<1> QED
  BY <1>7, <1>9, <1>10, <1>11 DEF Next

(* A request stays the one that it is, or is new and comes of a click.     *)
SameRequest(c) ==
  /\ req'[c].op = req[c].op /\ req'[c].visit = req[c].visit /\ req'[c].list = req[c].list
  /\ req'[c].song = req[c].song /\ req'[c].click = req[c].click /\ req'[c].item = req[c].item

LEMMA OldOrNew ==
  ASSUME PageInv, Next, NEW c \in Conns, req'[c] # Null
  PROVE  /\ req[c] # Null => SameRequest(c)
         /\ req[c] = Null /\ req'[c].op = "lists" => ShowView(c) /\ req'[c].visit = Len(opens) + 1
         /\ req[c] = Null /\ req'[c].op = "rate" =>
              /\ \E s \in Songs : Rate(s)
              /\ req'[c].click = clicks /\ clicks' = clicks + 1
              /\ req'[c].visit \in DOMAIN opens /\ opens[req'[c].visit] = req'[c].list
         /\ req[c] = Null /\ req'[c].op = "delete" =>
              /\ Confirm(c) /\ req'[c].item = chosen /\ req'[c].list = chosen.list
         /\ req[c] = Null => req'[c].pc = "sent" /\ req'[c].op \in {"lists", "rate", "delete"}
<1>1. TypeOK /\ ViewInv
  BY DEF PageInv
<1>2. ASSUME NEW d \in Conns, Read(d) \/ Write(d) \/ Fail(d)
      PROVE  OthersKept(d) /\ SameRequest(d) /\ req[d] # Null
  BY <1>1, <1>2, ReadEffect, WriteEffect, FailEffect
     DEF Kept, SameRequest, Read, Write, Fail, At
<1>3. ASSUME NEW d \in Conns, ShowLists(d) \/ AppendItem(d) \/ RemoveItem(d) \/ Refused(d)
      PROVE  OthersKept(d) /\ req'[d] = Null
  BY <1>1, <1>3, GoneEffect DEF ShowLists, AppendItem, RemoveItem, Refused
<1>4. CASE \/ req' = req
           \/ \E d \in Conns : \/ Read(d) \/ Write(d) \/ Fail(d)
                               \/ ShowLists(d) \/ AppendItem(d) \/ RemoveItem(d) \/ Refused(d)
  BY <1>2, <1>3, <1>4 DEF OthersKept, SameRequest
<1>5. CASE \E d \in Conns : ShowView(d)
  BY <1>1, <1>5, ShowViewEffect DEF SentOn, SameRequest
<1>6. CASE \E d \in Conns : Confirm(d)
  BY <1>1, <1>6, ConfirmEffect DEF SentOn, SameRequest
<1>7. CASE \E s \in Songs : Rate(s)
  <2>1. PICK s \in Songs, D \in SUBSET Conns : Rate(s) /\ SentOn(D) /\ RatedOn(D, s)
    BY <1>1, <1>7, RateEffect
  <2>2. clicks' = clicks + 1
    BY <2>1 DEF Rate, Click
  <2>3. CASE c \in D
    BY <2>1, <2>2, <2>3 DEF SentOn, RatedOn
  <2>4. CASE c \notin D
    BY <2>1, <2>4 DEF SentOn, SameRequest
  <2> QED
    BY <2>3, <2>4
<1> QED
  BY <1>4, <1>5, <1>6, <1>7 DEF Next, Toggle, Trash, LeaveView, Cancel, Faded, Finished, vars

(* The elements of the page after a step.                                  *)
LEMMA OldOrNewItem ==
  ASSUME PageInv, Next, NEW i \in items'
  PROVE  \/ i \in items
         \/ /\ \E c \in Conns : ShowLists(c)
            /\ i.ul = i.list /\ i.by = <<0, 0>>
         \/ \E c \in Conns :
              /\ AppendItem(c) /\ loaded /\ opens[req[c].visit] # Null
              /\ i.ul = opens[req[c].visit] /\ i.list = req[c].list /\ i.song = req[c].song
              /\ i.by = <<req[c].click, req[c].visit>>
<1>1. TypeOK /\ ViewInv
  BY DEF PageInv
<1>2. ASSUME NEW c \in Conns, ShowLists(c), i \notin items
      PROVE  i.ul = i.list /\ i.by = <<0, 0>>
  <2>1. view = "lists" /\ items' = Rendered(req[c].copy)
    BY <1>2 DEF ShowLists, Rendered
  <2>2. Len(opens) # 0
    BY <1>1, <2>1 DEF ViewInv
  <2> QED
    BY <1>1, <2>1, <2>2, RenderedItems
<1>3. ASSUME NEW c \in Conns, AppendItem(c), i \notin items
      PROVE  /\ loaded /\ opens[req[c].visit] # Null
             /\ i.ul = opens[req[c].visit] /\ i.list = req[c].list /\ i.song = req[c].song
             /\ i.by = <<req[c].click, req[c].visit>>
  BY <1>3 DEF AppendItem
<1> QED
  BY <1>2, <1>3 DEF Next, ShowView, Confirm, Read, Write, Fail, RemoveItem, Refused, Toggle, Rate,
     Trash, LeaveView, Cancel, Faded, Finished, Page, vars

LEMMA ApartStep ==
  ASSUME PageInv, Next
  PROVE  ApartInv'
<1>1. /\ TypeOK /\ ApartInv /\ Len(opens) \in Nat /\ clicks \in Nat
      /\ \A c \in Conns : req[c] # Null => RequestInv(req[c])
      /\ \A c \in Conns : req[c] # Null =>
           req[c].visit \in Nat \ {0} /\ req[c].click \in Nat
           /\ req[c].op \in {"lists", "rate", "delete"}
  BY LenProperties, BoundAssumption DEF PageInv, TypeOK, Request
<1>2. clicks' = clicks \/ clicks' = clicks + 1
  BY Counted
<1>3. ASSUME NEW c \in Conns, NEW d \in Conns, c # d, req'[c] # Null, req'[d] # Null,
             req'[c].op = req'[d].op
      PROVE  /\ req'[c].op = "lists" => req'[c].visit # req'[d].visit
             /\ req'[c].op = "rate" =>
                  <<req'[c].click, req'[c].visit>> # <<req'[d].click, req'[d].visit>>
  <2>1. CASE req[c] # Null /\ req[d] # Null
    BY <1>1, <1>3, <2>1, OldOrNew DEF ApartInv, SameRequest
  <2>2. ASSUME NEW e \in Conns, NEW f \in Conns, req[e] # Null, req[f] = Null,
               req'[e] # Null, req'[f] # Null, req'[e].op = req'[f].op
        PROVE  /\ req'[e].op = "lists" => req'[e].visit # req'[f].visit
               /\ req'[e].op = "rate" => req'[e].click # req'[f].click
    <3>1. /\ req'[e].op = req[e].op /\ req'[e].visit = req[e].visit /\ req'[e].click = req[e].click
      BY <2>2, OldOrNew DEF SameRequest
    <3>2. /\ req[e].visit <= Len(opens) /\ req[e].op = "rate" => req[e].click < clicks
          /\ req[e].visit <= Len(opens)
      BY <1>1, <2>2 DEF RequestInv
    <3>3. /\ req'[f].op = "lists" => req'[f].visit = Len(opens) + 1
          /\ req'[f].op = "rate" => req'[f].click = clicks
      BY <2>2, OldOrNew
    <3>4. req[e].visit \in Nat /\ req[e].click \in Nat
      BY <1>1, <2>2
    <3> QED
      BY <1>1, <2>2, <3>1, <3>2, <3>3, <3>4
  <2>3. CASE req[c] = Null /\ req[d] = Null
    <3>1. CASE req'[c].op = "lists"
      <4>1. ShowView(c)
        BY <1>3, <2>3, <3>1, OldOrNew
      <4> QED
        BY <1>1, <1>3, <2>3, <4>1, ShowViewEffect DEF SentOn
    <3>2. CASE req'[c].op = "rate"
      <4>1. PICK s \in Songs : Rate(s)
        BY <1>3, <2>3, <3>2, OldOrNew
      <4>2. PICK D \in SUBSET Conns : SentOn(D) /\ RatedOn(D, s)
        BY <1>1, <4>1, RateEffect
      <4>3. c \in D /\ d \in D
        BY <1>3, <2>3, <4>2 DEF SentOn
      <4> QED
        BY <1>3, <3>2, <4>2, <4>3 DEF RatedOn
    <3> QED
      BY <3>1, <3>2
  <2> QED
    BY <1>3, <2>1, <2>2, <2>3
<1>4. ASSUME NEW i \in items'
      PROVE  i.by = <<0, 0>> \/ i.by[1] < clicks'
  <2>1. CASE i \in items
    <3>1. i.by = <<0, 0>> \/ (i.by[1] < clicks /\ i.by[1] \in Nat)
      BY <1>1, <2>1, BoundAssumption DEF ApartInv, TypeOK, Item
    <3> QED
      BY <1>1, <1>2, <3>1
  <2>2. ASSUME NEW c \in Conns, AppendItem(c), i.by = <<req[c].click, req[c].visit>>
        PROVE  i.by[1] < clicks'
    <3>1. req[c] # Null /\ req[c].op = "rate"
      BY <2>2 DEF AppendItem, At
    <3>2. req[c].click < clicks /\ req[c].click \in Nat
      BY <1>1, <3>1 DEF RequestInv
    <3> QED
      BY <1>1, <1>2, <2>2, <3>2
  <2> QED
    BY <2>1, <2>2, OldOrNewItem
<1>5. ASSUME NEW i \in items', NEW c \in Conns, req'[c] # Null, req'[c].op = "rate"
      PROVE  i.by # <<req'[c].click, req'[c].visit>>
  <2>1. req'[c].visit \in Nat \ {0} /\ req'[c].click \in Nat
    BY <1>5, TypeStep, BoundAssumption DEF TypeOK, Request
  <2>2. CASE i.by = <<0, 0>>
    BY <2>1, <2>2
  <2>3. CASE i \in items /\ req[c] # Null
    BY <1>1, <1>5, <2>3, OldOrNew DEF ApartInv, SameRequest
  <2>4. CASE i \in items /\ req[c] = Null /\ i.by # <<0, 0>>
    <3>1. i.by[1] < clicks /\ i.by[1] \in Nat
      BY <1>1, <2>4, BoundAssumption DEF ApartInv, TypeOK, Item
    <3>2. req'[c].click = clicks
      BY <1>5, <2>4, OldOrNew
    <3> QED
      BY <1>1, <3>1, <3>2
  <2>5. ASSUME NEW d \in Conns, AppendItem(d), i.by = <<req[d].click, req[d].visit>>
        PROVE  i.by # <<req'[c].click, req'[c].visit>>
    <3>1. req[d] # Null /\ req[d].op = "rate" /\ OthersKept(d) /\ req'[d] = Null
      BY <1>1, <2>5, GoneEffect DEF AppendItem, At
    <3>2. c # d /\ req'[c] = req[c]
      BY <1>5, <3>1 DEF OthersKept
    <3> QED
      BY <1>1, <1>5, <2>5, <3>1, <3>2 DEF ApartInv
  <2> QED
    BY <2>2, <2>3, <2>4, <2>5, OldOrNewItem
<1> QED
  BY <1>3, <1>4, <1>5 DEF ApartInv

-----------------------------------------------------------------------------
(* Only a new visit forgets what was disturbed.                            *)
LEMMA Disturbed ==
  ASSUME PageInv, Next
  PROVE  disturbed \subseteq disturbed' \/ \E c \in Conns : ShowView(c)
BY DEF Next, Confirm, Read, Write, Fail, ShowLists, AppendItem, RemoveItem, Refused, Rate,
     Toggle, Trash, LeaveView, Cancel, Faded, Finished, Page, vars

LEMMA ViewStep ==
  ASSUME PageInv, Next
  PROVE  ViewInv'
<1>1. /\ TypeOK /\ ViewInv /\ ApartInv /\ PatienceInv /\ Len(opens) \in Nat
  BY LenProperties DEF PageInv, TypeOK
<1>2. ASSUME NEW c \in Conns, ShowView(c)
      PROVE  ViewInv'
  <2>1. items = {} /\ loaded = FALSE /\ modal = "hidden" /\ chosen = Null
    BY <1>1, <1>2 DEF ShowView, ViewInv, TypeOK
  <2>2. Len(opens') = Len(opens) + 1
    BY <1>1, <1>2, AppendProperties DEF ShowView, TypeOK
  <2> QED
    BY <1>1, <1>2, <2>1, <2>2 DEF ShowView, ViewInv
<1>3. ASSUME ~\E c \in Conns : ShowView(c)
      PROVE  Len(opens') = Len(opens) /\ disturbed \subseteq disturbed'
  BY <1>3, Counted, Disturbed
<1>4. /\ loaded' => view' = "lists"
      /\ (~\E c \in Conns : ShowView(c)) => (view' = "lists" => Len(opens') # 0)
  <2>1. loaded' => view' = "lists"
    BY <1>1 DEF ViewInv, Next, ShowView, Confirm, Read, Write, Fail, ShowLists, AppendItem,
       RemoveItem, Refused, Rate, Toggle, Trash, LeaveView, Cancel, Faded, Finished, Page, vars
  <2>2. view' \in {view, "other"} \/ \E c \in Conns : ShowView(c)
    BY DEF Next, Confirm, Read, Write, Fail, ShowLists, AppendItem,
       RemoveItem, Refused, Rate, Toggle, Trash, LeaveView, Cancel, Faded, Finished, Page, vars
  <2> QED
    BY <1>1, <1>3, <2>1, <2>2 DEF ViewInv
<1>5. items' # {} => loaded'
  BY <1>1 DEF ViewInv, Next, ShowView, Confirm, Read, Write, Fail, ShowLists, AppendItem,
     RemoveItem, Refused, Rate, Toggle, Trash, LeaveView, Cancel, Faded, Finished, Page, vars
<1>6. /\ modal' # "hidden" => loaded' /\ chosen' \in Item
      /\ chosen' # Null => loaded'
  BY <1>1 DEF ViewInv, TypeOK, Next, ShowView, Confirm, Read, Write, Fail, ShowLists, AppendItem,
     RemoveItem, Refused, Rate, Toggle, Trash, LeaveView, Cancel, Faded, Finished, Page, vars
<1>7. ASSUME ~\E c \in Conns : ShowView(c), NEW i \in items'
      PROVE  i.ul = i.list \/ {i.ul, i.list} \subseteq disturbed'
  <2>1. CASE i \in items
    BY <1>1, <1>3, <1>7, <2>1 DEF ViewInv
  <2>2. ASSUME NEW c \in Conns, AppendItem(c), opens[req[c].visit] # Null,
               i.ul = opens[req[c].visit], i.list = req[c].list
        PROVE  i.ul = i.list \/ {i.ul, i.list} \subseteq disturbed'
    <3>1. req[c] # Null /\ req[c].op = "rate"
      BY <2>2 DEF AppendItem, At
    <3> QED
      BY <1>1, <1>3, <1>7, <2>2, <3>1 DEF PatienceInv
  <2> QED
    BY <2>1, <2>2, OldOrNewItem
<1>8. ASSUME ~\E c \in Conns : ShowView(c), loaded', NEW d \in Conns, req'[d] # Null,
             req'[d].op = "lists"
      PROVE  req'[d].visit # Len(opens')
  <2>1. req[d] # Null /\ req[d].op = "lists" /\ req'[d].visit = req[d].visit
    BY <1>8, OldOrNew DEF SameRequest
  <2>2. CASE loaded
    BY <1>1, <1>3, <1>8, <2>1, <2>2 DEF ViewInv
  <2>3. CASE ~loaded
    <3>1. PICK c \in Conns : ShowLists(c) /\ req[c].visit = Len(opens)
      BY <1>8, <2>3 DEF Next, Confirm, Read, Write, Fail, ShowLists, AppendItem,
         RemoveItem, Refused, Rate, Toggle, Trash, LeaveView, Cancel, Faded, Finished, Page, vars
    <3>2. req[c] # Null /\ req[c].op = "lists" /\ req'[c] = Null
      BY <1>1, <3>1, GoneEffect DEF ShowLists, At
    <3>3. c # d
      BY <1>8, <3>2
    <3> QED
      BY <1>1, <1>3, <1>8, <2>1, <3>1, <3>2, <3>3 DEF ApartInv
  <2> QED
    BY <2>2, <2>3
<1> QED
  BY <1>2, <1>4, <1>5, <1>6, <1>7, <1>8 DEF ViewInv

-----------------------------------------------------------------------------
(* What the user was patient with.                                         *)
LEMMA PatienceStep ==
  ASSUME PageInv, Next
  PROVE  PatienceInv'
<1>1. /\ TypeOK /\ ViewInv /\ PatienceInv /\ Len(opens) \in Nat
      /\ \A c \in Conns : req[c] # Null => RequestInv(req[c])
      /\ \A v \in 1 .. Len(opens) : opens[v] \in Lists \cup {Null}
  BY LenProperties, ElementOfSeq DEF PageInv, TypeOK
<1>2. ASSUME NEW e \in Conns, ShowView(e), NEW c \in Conns, req'[c] # Null, req'[c].op # "lists"
      PROVE  req[c] # Null /\ SameRequest(c) /\ req[c].op # "lists" /\ req[c].list \in Awaited
             /\ Awaited \subseteq disturbed'
  <2>1. req[c] # Null
    BY <1>1, <1>2, ShowViewEffect DEF SentOn
  <2>2. SameRequest(c) /\ req[c].op # "lists"
    BY <1>2, <2>1, OldOrNew DEF SameRequest
  <2>3. req[c].list \in Lists
    BY <1>1, <2>1, <2>2 DEF RequestInv
  <2> QED
    BY <1>2, <2>1, <2>2, <2>3 DEF Awaited, Edits, ShowView
<1>3. ASSUME NEW c \in Conns, req'[c] # Null, req'[c].list \in Lists
      PROVE  req'[c].op # "lists"
  BY <1>3, RequestStep, NullAssumption DEF RequestInv
<1>4. Crowded(req') \subseteq disturbed'
  <2>1. SUFFICES ASSUME NEW l \in Crowded(req') PROVE l \in disturbed'
    OBVIOUS
  <2>2. PICK c \in Conns, d \in Conns :
          c # d /\ req'[c] # Null /\ req'[d] # Null /\ req'[c].list = l /\ req'[d].list = l
    BY <2>1 DEF Crowded, Edits
  <2>3. l \in Lists /\ req'[c].op # "lists" /\ req'[d].op # "lists"
    BY <1>3, <2>1, <2>2 DEF Crowded
  <2>4. CASE \E e \in Conns : ShowView(e)
    <3>1. req[c].list \in disturbed' /\ SameRequest(c)
      BY <1>2, <2>2, <2>3, <2>4
    <3> QED
      BY <2>2, <3>1 DEF SameRequest
  <2>5. CASE (~\E e \in Conns : ShowView(e)) /\ req[c] # Null /\ req[d] # Null
    <3>1. req[c].list = l /\ req[d].list = l
      BY <2>2, <2>5, OldOrNew DEF SameRequest
    <3>2. l \in Crowded(req)
      BY <2>2, <2>3, <2>5, <3>1 DEF Crowded, Edits
    <3> QED
      BY <1>1, <2>5, <3>2, Disturbed DEF PatienceInv
  <2>6. ASSUME NEW e \in Conns, req[e] = Null, req'[e] # Null, req'[e].op # "lists"
        PROVE  Crowded(req') \subseteq disturbed'
    BY <2>6, OldOrNew DEF Confirm, Rate
  <2> QED
    BY <2>2, <2>3, <2>4, <2>5, <2>6
<1>5. ASSUME ~\E e \in Conns : ShowView(e)
      PROVE  /\ view' = "lists" => view = "lists"
             /\ view' = "lists" /\ ~loaded' => ~loaded
  <2>1. view' = view \/ view' = "other"
    BY <1>5 DEF Next, Confirm, Read, Write, Fail, ShowLists, AppendItem, RemoveItem, Refused, Rate,
       Toggle, Trash, LeaveView, Cancel, Faded, Finished, Page, vars
  <2>2. loaded' = loaded \/ loaded' = TRUE \/ LeaveView
    BY <1>5 DEF Next, Confirm, Read, Write, Fail, ShowLists, AppendItem, RemoveItem, Refused, Rate,
       Toggle, Trash, Cancel, Faded, Finished, Page, vars
  <2> QED
    BY <2>1, <2>2 DEF LeaveView
<1>6. ASSUME view' = "lists", ~loaded', NEW l \in Awaited'
      PROVE  l \in disturbed'
  <2>1. PICK c \in Conns : req'[c] # Null /\ req'[c].list = l /\ l \in Lists
    BY <1>6 DEF Awaited, Edits
  <2>2. req'[c].op # "lists"
    BY <1>3, <2>1
  <2>3. CASE \E e \in Conns : ShowView(e)
    BY <1>2, <2>1, <2>2, <2>3 DEF SameRequest
  <2>4. CASE (~\E e \in Conns : ShowView(e)) /\ req[c] # Null
    <3>1. req[c].list = l
      BY <2>1, <2>4, OldOrNew DEF SameRequest
    <3>2. l \in Awaited
      BY <2>1, <2>4, <3>1 DEF Awaited, Edits
    <3> QED
      BY <1>1, <1>5, <1>6, <2>4, <3>2, Disturbed DEF PatienceInv
  <2>5. CASE (~\E e \in Conns : ShowView(e)) /\ req[c] = Null
    <3>1. ~loaded
      BY <1>5, <1>6, <2>5
    <3>2. ~Confirm(c)
      BY <1>1, <3>1 DEF Confirm, ViewInv
    <3>3. req'[c].op = "rate"
      BY <2>1, <2>2, <2>5, <3>2, OldOrNew
    <3>4. /\ \E s \in Songs : Rate(s)
          /\ req'[c].visit \in DOMAIN opens /\ opens[req'[c].visit] = l
      BY <2>1, <2>5, <3>3, OldOrNew
    <3>5. {opens[v] : v \in {v \in DOMAIN opens : opens[v] # Null}} \subseteq disturbed'
      BY <3>1, <3>4 DEF Rate
    <3> QED
      BY <2>1, <3>4, <3>5, NullAssumption
  <2> QED
    BY <2>3, <2>4, <2>5
<1>7. ASSUME NEW c \in Conns, req'[c] # Null, req'[c].op = "rate"
      PROVE  \/ opens'[req'[c].visit] = req'[c].list
             \/ req'[c].list \in disturbed' /\ opens'[req'[c].visit] \in disturbed' \cup {Null}
  <2>1. CASE req[c] = Null
    BY <1>7, <2>1, OldOrNew DEF Rate
  <2> DEFINE v == req[c].visit
             l == req[c].list
  <2>2. ASSUME req[c] # Null
        PROVE  /\ req'[c].visit = v /\ req'[c].list = l /\ req[c].op = "rate"
               /\ v \in 1 .. Len(opens) /\ l \in Lists /\ opens[v] \in Lists \cup {Null}
               /\ opens[v] = l \/ (l \in disturbed /\ opens[v] \in disturbed \cup {Null})
    <3>1. req'[c].visit = v /\ req'[c].list = l /\ req[c].op = "rate"
      BY <1>7, <2>2, OldOrNew DEF SameRequest
    <3>2. v \in 1 .. Len(opens) /\ l \in Lists
      BY <1>1, <2>2, <3>1, BoundAssumption DEF RequestInv, TypeOK, Request
    <3> QED
      BY <1>1, <2>2, <3>1, <3>2 DEF PatienceInv
  <2>3. CASE req[c] # Null /\ opens' = opens /\ ~\E e \in Conns : ShowView(e)
    BY <2>2, <2>3, Disturbed
  <2>4. ASSUME NEW e \in Conns, ShowView(e), req[c] # Null
        PROVE  l \in disturbed' /\ opens'[v] \in disturbed' \cup {Null}
    <3>1. opens'[v] = opens[v]
      BY <1>1, <2>2, <2>4, AppendProperties DEF ShowView, TypeOK
    <3>2. l \in disturbed'
      BY <1>2, <1>7, <2>4
    <3>3. opens[v] \in Lists => opens[v] \in Targets
      BY <2>2, <2>4 DEF Targets
    <3> QED
      BY <2>2, <2>4, <3>1, <3>2, <3>3 DEF ShowView
  <2>5. ASSUME NEW m \in Lists, Toggle(m), req[c] # Null
        PROVE  l \in disturbed' /\ opens'[v] \in disturbed' \cup {Null}
    <3>1. l \in Rated
      BY <2>2, <2>5 DEF Rated, Edits
    <3>2. l \in disturbed' /\ m \in disturbed'
      BY <2>5, <3>1 DEF Toggle
    <3>3. v \in DOMAIN opens
      BY <1>1, <2>2, <2>5, LenProperties DEF TypeOK
    <3>4. opens'[v] \in {m, Null}
      BY <2>5, <3>3 DEF Toggle
    <3> QED
      BY <3>2, <3>4
  <2>6. opens' = opens \/ (\E e \in Conns : ShowView(e)) \/ \E m \in Lists : Toggle(m)
    BY DEF Next, Confirm, Read, Write, Fail, ShowLists, AppendItem, RemoveItem, Refused, Rate,
       Trash, LeaveView, Cancel, Faded, Finished, Page, vars
  <2> HIDE DEF v, l
  <2> QED
    BY <2>1, <2>2, <2>3, <2>4, <2>5, <2>6
<1>8. ASSUME NEW c \in Conns, view' = "lists", req'[c] # Null, req'[c].op = "delete"
      PROVE  req'[c].list \in disturbed' \/ req'[c].item \in items'
  <2>1. CASE req[c] = Null
    <3>1. Confirm(c) /\ req'[c].item = chosen /\ req'[c].list = chosen.list
      BY <1>8, <2>1, OldOrNew
    <3> QED
      BY <3>1 DEF Confirm
  <2>2. CASE req[c] # Null /\ \E e \in Conns : ShowView(e)
    BY <1>2, <1>8, <2>2 DEF SameRequest
  <2>3. CASE req[c] # Null /\ ~\E e \in Conns : ShowView(e)
    <3>1. /\ req'[c].list = req[c].list /\ req'[c].item = req[c].item /\ req[c].op = "delete"
          /\ view = "lists" /\ disturbed \subseteq disturbed'
      BY <1>5, <1>8, <2>3, OldOrNew, Disturbed DEF SameRequest
    <3>2. req[c].list \in disturbed \/ req[c].item \in items
      BY <1>1, <2>3, <3>1 DEF PatienceInv
    <3>3. ASSUME req[c].item \in items, req[c].item \notin items'
          PROVE  req[c].list \in disturbed
      <4>1. (\E d \in Conns : ShowLists(d) \/ RemoveItem(d)) \/ LeaveView
        BY <2>3, <3>3 DEF Next, Confirm, Read, Write, Fail, AppendItem, Refused, Rate,
           Toggle, Trash, Cancel, Faded, Finished, Page, vars
      <4>2. ~LeaveView
        BY <1>8 DEF LeaveView
      <4>3. ASSUME NEW d \in Conns, ShowLists(d) PROVE FALSE
        <5>1. req[d] # Null /\ req[d].op = "lists" /\ req[d].visit = Len(opens)
          BY <3>3, <4>3 DEF ShowLists, At
        <5> QED
          BY <1>1, <3>3, <5>1 DEF ViewInv
      <4>4. ASSUME NEW d \in Conns, RemoveItem(d) PROVE req[c].list \in disturbed
        <5>1. req[d] # Null /\ req[d].op = "delete" /\ req[d].item = req[c].item /\ req'[d] = Null
          BY <1>1, <3>3, <4>4, GoneEffect DEF RemoveItem, At
        <5>2. c # d /\ req[c].list = req[d].list /\ req[c].list \in Lists
          BY <1>1, <1>8, <2>3, <3>1, <5>1 DEF RequestInv
        <5>3. req[c].list \in Crowded(req)
          BY <2>3, <5>1, <5>2 DEF Crowded, Edits
        <5> QED
          BY <1>1, <5>3 DEF PatienceInv
      <4> QED
        BY <4>1, <4>2, <4>3, <4>4
    <3> QED
      BY <3>1, <3>2, <3>3
  <2> QED
    BY <2>1, <2>2, <2>3
<1> QED
  BY <1>4, <1>6, <1>7, <1>8 DEF PatienceInv

-----------------------------------------------------------------------------
(* What was read.                                                          *)
LEMMA Progress ==
  ASSUME PageInv, Next, NEW c \in Conns, req[c] # Null
  PROVE  \/ req'[c] = req[c]
         \/ Read(c) \/ Write(c) \/ Fail(c)
         \/ ShowLists(c) \/ AppendItem(c) \/ RemoveItem(c) \/ Refused(c)
<1>1. TypeOK /\ ViewInv
  BY DEF PageInv
<1>2. ASSUME NEW d \in Conns, Read(d) \/ Write(d) \/ Fail(d)
      PROVE  OthersKept(d)
  BY <1>1, <1>2, ReadEffect, WriteEffect, FailEffect DEF Kept
<1>3. ASSUME NEW d \in Conns, ShowLists(d) \/ AppendItem(d) \/ RemoveItem(d) \/ Refused(d)
      PROVE  OthersKept(d)
  BY <1>1, <1>3, GoneEffect DEF ShowLists, AppendItem, RemoveItem, Refused
<1>4. ASSUME NEW d \in Conns, ShowView(d) \/ Confirm(d)
      PROVE  req'[c] = req[c]
  BY <1>1, <1>4, ShowViewEffect, ConfirmEffect DEF SentOn
<1>5. ASSUME NEW s \in Songs, Rate(s)
      PROVE  req'[c] = req[c]
  BY <1>1, <1>5, RateEffect DEF SentOn
<1> QED
  BY <1>2, <1>3, <1>4, <1>5 DEF OthersKept, Next, Toggle, Trash, LeaveView, Cancel, Faded,
     Finished, vars

(* Two requests for a list that the user is patient with are one.          *)
LEMMA Alone ==
  ASSUME PageInv, NEW c \in Conns, NEW d \in Conns, req[c] # Null, req[d] # Null,
         req[c].list \in Lists \ disturbed, req[d].list = req[c].list
  PROVE  c = d
BY DEF PageInv, PatienceInv, Crowded, Edits

LEMMA CopyStep ==
  ASSUME PageInv, Next
  PROVE  CopyInv'
<1>1. /\ TypeOK /\ PatienceInv /\ CopyInv /\ Len(opens) \in Nat
      /\ \A c \in Conns : req[c] # Null => RequestInv(req[c])
  BY LenProperties DEF PageInv, TypeOK
<1>2. store' = store \/ \E d \in Conns : Write(d)
  BY DEF Next, ShowView, Confirm, Read, Fail, ShowLists, AppendItem, RemoveItem, Refused, Rate,
     Toggle, Trash, LeaveView, Cancel, Faded, Finished, Page, server, vars
<1>3. ASSUME NEW c \in Conns, At(c, "read")', req'[c].list \notin disturbed'
      PROVE  req'[c].copy[req'[c].list] = store'[req'[c].list]
  <2> DEFINE l == req'[c].list
  <2>1. /\ req'[c] # Null /\ req'[c].pc = "read" /\ req'[c].op # "lists" /\ l \in Lists
        /\ req[c] # Null /\ req[c].list = l
    <3>1. req'[c] # Null /\ req'[c].pc = "read"
      BY <1>3 DEF At
    <3>2. req'[c].op # "lists" /\ l \in Lists
      BY <3>1, RequestStep DEF RequestInv
    <3>3. req[c] # Null /\ req[c].list = l
      BY <3>1, OldOrNew DEF SameRequest
    <3> QED
      BY <3>1, <3>2, <3>3
  <2>2. ~\E e \in Conns : ShowView(e)
    <3>1. ASSUME NEW e \in Conns, ShowView(e) PROVE l \in disturbed'
      BY <2>1, <3>1 DEF ShowView, Awaited, Edits
    <3> QED
      BY <1>3, <3>1
  <2>3. l \notin disturbed
    BY <1>3, <2>2, Disturbed
  <2>4. CASE Read(c)
    BY <1>1, <2>4, ReadEffect DEF Read, server
  <2>5. CASE req'[c] = req[c]
    <3>1. req[c].copy[l] = store[l]
      BY <1>1, <2>1, <2>3, <2>5 DEF CopyInv, At
    <3>2. ASSUME NEW d \in Conns, Write(d) PROVE store'[l] = store[l]
      <4>1. req[d] # Null /\ req[d].pc = "read" /\ req'[d].pc = "answered"
        BY <1>1, <3>2, WriteEffect DEF Write, At
      <4>2. c # d
        BY <2>1, <4>1
      <4>3. req[d].list # l
        BY <2>1, <2>3, <4>1, <4>2, Alone
      <4> QED
        BY <2>1, <3>2, <4>3, StoreType
    <3> QED
      BY <1>2, <2>5, <3>1, <3>2
  <2>6. ~(Write(c) \/ Fail(c))
    BY <1>1, <2>1, WriteEffect, FailEffect
  <2>7. ~(ShowLists(c) \/ AppendItem(c) \/ RemoveItem(c) \/ Refused(c))
    BY <1>1, <2>1, GoneEffect DEF ShowLists, AppendItem, RemoveItem, Refused
  <2> QED
    BY <2>1, <2>4, <2>5, <2>6, <2>7, Progress
<1>4. ASSUME NEW c \in Conns, view' = "lists", ~loaded', At(c, "answered")',
             req'[c].op = "lists", req'[c].ok, req'[c].visit = Len(opens'),
             NEW l \in Lists \ disturbed'
      PROVE  req'[c].copy[l] = store'[l]
  <2>1. req'[c] # Null /\ req'[c].pc = "answered"
    BY <1>4 DEF At
  <2>2. /\ req[c] # Null /\ req[c].op = "lists" /\ req[c].visit = req'[c].visit
        /\ req[c].visit <= Len(opens)
    <3>1. req[c] # Null /\ SameRequest(c)
      BY <2>1, OldOrNew
    <3> QED
      BY <1>1, <1>4, <3>1 DEF SameRequest, RequestInv
  <2>3. ~\E e \in Conns : ShowView(e)
    <3>1. ASSUME NEW e \in Conns, ShowView(e) PROVE Len(opens') = Len(opens) + 1
      BY <1>1, <3>1, AppendProperties DEF ShowView, TypeOK
    <3> QED
      BY <1>1, <1>4, <2>2, <3>1
  <2>4. view = "lists" /\ ~loaded
    <3>1. view' = view \/ view' = "other"
      BY <2>3 DEF Next, Confirm, Read, Write, Fail, ShowLists, AppendItem, RemoveItem, Refused, Rate,
         Toggle, Trash, LeaveView, Cancel, Faded, Finished, Page, vars
    <3>2. loaded' = loaded \/ loaded' = TRUE \/ LeaveView
      BY <2>3 DEF Next, Confirm, Read, Write, Fail, ShowLists, AppendItem, RemoveItem, Refused, Rate,
         Toggle, Trash, Cancel, Faded, Finished, Page, vars
    <3> QED
      BY <1>4, <3>1, <3>2 DEF LeaveView
  <2>5. l \notin disturbed /\ l \notin Awaited /\ Len(opens') = Len(opens)
    BY <1>1, <1>4, <2>3, <2>4, Disturbed, Counted DEF PatienceInv
  <2>6. store'[l] = store[l]
    <3>1. ASSUME NEW d \in Conns, Write(d) PROVE req[d].list # l
      BY <2>5, <3>1 DEF Write, At, Awaited, Edits
    <3> QED
      BY <1>2, <1>4, <3>1, StoreType
  <2>7. CASE req'[c] = req[c]
    BY <1>1, <1>4, <2>1, <2>4, <2>5, <2>6, <2>7 DEF CopyInv, At
  <2>8. CASE Read(c)
    BY <1>1, <2>6, <2>8, ReadEffect
  <2>9. ~Write(c)
    BY <1>1, <2>2, StoreType
  <2>10. ~Fail(c)
    <3>1. ASSUME Fail(c) PROVE req'[c].ok = FALSE
      BY <1>1, <2>2, <3>1, FailEffect DEF RequestInv
    <3> QED
      BY <1>4, <3>1
  <2>11. ~(ShowLists(c) \/ AppendItem(c) \/ RemoveItem(c) \/ Refused(c))
    BY <1>1, <2>1, GoneEffect DEF ShowLists, AppendItem, RemoveItem, Refused
  <2> QED
    BY <2>2, <2>7, <2>8, <2>9, <2>10, <2>11, Progress
<1> QED
  BY <1>3, <1>4 DEF CopyInv

-----------------------------------------------------------------------------
(* What the page shows.                                                    *)
LEMMA BalanceKept ==
  ASSUME NEW l, NEW s, Balance(l, s), Shown(l, s)' = Shown(l, s), store'[l][s] = store[l][s],
         \A c \in Conns : /\ SavedFor(c, l, s)' <=> SavedFor(c, l, s)
                          /\ SavedFor(c, l, s) => req'[c].op = req[c].op
  PROVE  Balance(l, s)'
<1>1. Count(l, s) = Cardinality(Shown(l, s)) /\ Count(l, s)' = Cardinality(Shown(l, s)')
  BY DEF Count, Shown
<1>2. Count(l, s)' = Count(l, s)
  BY <1>1
<1>3. IsFiniteSet(Shown(l, s)')
  BY DEF Balance
<1> QED
  BY <1>2, <1>3 DEF Balance

(* A step that neither saves nor answers leaves what is saved.             *)
LEMMA SavedKept ==
  ASSUME PageInv, Next, NEW c \in Conns, ~Write(c), ~AppendItem(c), ~RemoveItem(c), NEW l, NEW s
  PROVE  /\ SavedFor(c, l, s)' <=> SavedFor(c, l, s)
         /\ SavedFor(c, l, s) => req'[c].op = req[c].op
<1>1. TypeOK /\ \A d \in Conns : req[d] # Null => RequestInv(req[d])
  BY DEF PageInv
<1>2. CASE req[c] = Null
  BY <1>2, OldOrNew DEF SavedFor, Saved
<1>3. CASE req[c] # Null /\ req'[c] = req[c]
  BY <1>3 DEF SavedFor, Saved
<1>4. CASE Read(c)
  <2>1. /\ Kept(c) /\ req[c].pc = "sent"
        /\ req[c].op = "lists" \/ req'[c].pc = "read"
    BY <1>1, <1>4, ReadEffect
  <2>2. ~Saved(c) /\ (req[c].op = "lists" \/ ~Saved(c)')
    BY <2>1 DEF Saved
  <2> QED
    BY <2>1, <2>2 DEF SavedFor, Saved, Kept
<1>5. CASE Fail(c)
  <2>1. req[c] # Null
    BY <1>5 DEF Fail, At
  <2>2. req[c].pc # "answered" /\ req[c].ok = FALSE /\ req'[c].ok = FALSE
    BY <1>1, <1>5, <2>1, FailEffect DEF RequestInv
  <2> QED
    BY <2>2 DEF SavedFor, Saved
<1>6. CASE ShowLists(c) \/ Refused(c)
  <2>1. req'[c] = Null /\ (req[c].op = "lists" \/ ~req[c].ok)
    BY <1>1, <1>6, GoneEffect DEF ShowLists, Refused
  <2> QED
    BY <2>1 DEF SavedFor, Saved
<1> QED
  BY <1>2, <1>3, <1>4, <1>5, <1>6, Progress

(* The lists arrive.                                                       *)
LEMMA ListsShown ==
  ASSUME PageInv, Next, NEW c \in Conns, ShowLists(c), view = "lists",
         req[c].visit = Len(opens), NEW l \in Lists \ disturbed', NEW s \in Songs
  PROVE  Balance(l, s)'
<1>1. /\ TypeOK /\ ViewInv /\ PatienceInv /\ CopyInv
      /\ req[c] # Null /\ req[c].op = "lists" /\ req[c].ok /\ RequestInv(req[c])
      /\ At(c, "answered") /\ Len(opens) # 0
  BY DEF PageInv, ViewInv, ShowLists, At
<1> DEFINE copy == req[c].copy
<1>2. /\ ~loaded /\ items' = Rendered(copy) /\ disturbed' = disturbed \cup Twice(copy)
      /\ store' = store
  BY <1>1 DEF ShowLists, Rendered, ViewInv, server
<1>3. l \notin disturbed /\ l \notin Twice(copy) /\ l \notin Awaited
  BY <1>1, <1>2 DEF PatienceInv
<1>4. copy \in Content /\ copy[l] = store[l]
  BY <1>1, <1>2, <1>3 DEF RequestInv, CopyInv
<1>5. copy[l][s] \in Nat /\ ~(copy[l][s] > 1)
  BY <1>3, <1>4 DEF Content, Twice
<1>6. copy[l][s] = 0 \/ copy[l][s] = 1
  BY <1>5
<1>7. \A d \in Conns : ~SavedFor(d, l, s)'
  <2>1. SUFFICES ASSUME NEW d \in Conns, SavedFor(d, l, s)' PROVE FALSE
    OBVIOUS
  <2>2. req'[d] # Null /\ req'[c] = Null /\ OthersKept(c)
    BY <1>1, <2>1, GoneEffect DEF SavedFor, Saved, ShowLists
  <2>3. req[d] # Null /\ req[d].list = l
    BY <2>1, <2>2 DEF OthersKept, SavedFor
  <2> QED
    BY <1>3, <2>3 DEF Awaited, Edits
<1>8. Count(l, s)' = Cardinality(Shown(l, s)')
  BY DEF Count, Shown
<1> HIDE DEF copy
<1>9. CASE copy[l][s] = 0
  <2>1. Shown(l, s)' = {}
    BY <1>1, <1>2, <1>9, RenderedItems DEF Shown
  <2>2. IsFiniteSet(Shown(l, s)') /\ Count(l, s)' = 0
    BY <1>8, <2>1, FS_EmptySet
  <2> QED
    BY <1>2, <1>4, <1>7, <1>9, <2>2 DEF Balance
<1>10. CASE copy[l][s] = 1
  <2> DEFINE i == Loaded(Len(opens), l, s)
  <2>1. i \in Rendered(copy)
    <3>1. <<l, s>> \in {q \in (Lists \ Twice(copy)) \X Songs : copy[q[1]][q[2]] = 1}
      BY <1>3, <1>10
    <3> QED
      BY <3>1 DEF Rendered
  <2>2. i.ul = l /\ i.song = s
    BY <1>1, LoadedItem
  <2>3. \A j \in Rendered(copy) : j.ul = l /\ j.song = s => j = i
    BY <1>1, RenderedItems
  <2> HIDE DEF i
  <2>4. Shown(l, s)' = {i}
    BY <1>2, <2>1, <2>2, <2>3 DEF Shown
  <2>5. IsFiniteSet(Shown(l, s)') /\ Count(l, s)' = 1
    BY <1>8, <2>4, FS_Singleton
  <2> QED
    BY <1>2, <1>4, <1>7, <1>10, <2>5 DEF Balance
<1> QED
  BY <1>6, <1>9, <1>10

(* A rating or a deletion is saved.                                        *)
LEMMA SaveShown ==
  ASSUME PageInv, Next, NEW c \in Conns, Write(c), loaded, NEW l \in Lists \ disturbed',
         NEW s \in Songs
  PROVE  Balance(l, s)'
<1>1. /\ TypeOK /\ ViewInv /\ PatienceInv /\ CopyInv /\ ShownInv /\ store \in Content
      /\ req[c] # Null /\ req[c].pc = "read" /\ RequestInv(req[c])
      /\ items' = items
  BY DEF PageInv, TypeOK, Write, At, Page
<1>2. /\ Kept(c) /\ req'[c].pc = "answered" /\ OthersKept(c) /\ disturbed \subseteq disturbed'
      /\ (disturbed' = disturbed /\ req'[c].ok = TRUE) \/ req[c].list \in disturbed'
  BY <1>1, WriteEffect DEF Kept
<1>3. l \notin disturbed /\ Balance(l, s) /\ Shown(l, s)' = Shown(l, s)
  BY <1>1, <1>2 DEF ShownInv, Shown
<1>4. ~SavedFor(c, l, s)
  BY <1>1 DEF SavedFor, Saved
<1>5. \A d \in Conns : d # c => /\ SavedFor(d, l, s)' <=> SavedFor(d, l, s)
                                /\ SavedFor(d, l, s) => req'[d].op = req[d].op
  BY <1>2 DEF OthersKept, SavedFor, Saved
<1>6. CASE req[c].list # l \/ req[c].song # s
  <2>1. ~SavedFor(c, l, s)'
    BY <1>2, <1>6 DEF SavedFor, Kept
  <2>2. store'[l][s] = store[l][s]
    <3>1. CASE req[c].list # l
      BY <3>1, StoreType
    <3>2. CASE req[c].list = l
      <4>1. req[c].song # s /\ req[c].copy[l] = store[l]
        BY <1>1, <1>3, <1>6, <3>2 DEF CopyInv, At
      <4>2. store'[l] = Edited(req[c].op, store[l], req[c].song) /\ req[c].song \in Songs
            /\ store[l] \in [Songs -> Nat]
        BY <1>1, <3>2, <4>1, StoreType DEF Content
      <4>3. Edited(req[c].op, store[l], req[c].song)[s] = store[l][s]
        BY <4>1, <4>2 DEF Edited
      <4> QED
        BY <4>2, <4>3
    <3> QED
      BY <3>1, <3>2
  <2>3. \A d \in Conns : /\ SavedFor(d, l, s)' <=> SavedFor(d, l, s)
                         /\ SavedFor(d, l, s) => req'[d].op = req[d].op
    BY <1>4, <1>5, <2>1 DEF SavedFor, Saved
  <2> QED
    BY <1>3, <2>2, <2>3, BalanceKept
<1>7. CASE req[c].list = l /\ req[c].song = s
  <2>1. req'[c].ok = TRUE /\ req[c].copy[l] = store[l]
    BY <1>1, <1>2, <1>3, <1>7 DEF CopyInv, At
  <2>2. /\ store[l] \in [Songs -> Nat] /\ store[l][s] \in Nat
        /\ store'[l] = Edited(req[c].op, store[l], s) /\ req[c].op \in {"rate", "delete"}
    BY <1>1, <1>7, <2>1, StoreType DEF Content
  <2>3. \A d \in Conns : ~SavedFor(d, l, s)
    BY <1>3, <1>4, <1>7, Alone, <1>1 DEF SavedFor, Saved
  <2>4. Count(l, s) = store[l][s] /\ IsFiniteSet(Shown(l, s)) /\ IsFiniteSet(Shown(l, s)')
    BY <1>3, <2>3 DEF Balance
  <2>5. Count(l, s)' = Count(l, s) /\ Count(l, s) = Cardinality(Shown(l, s))
    BY <1>1 DEF Count, Shown
  <2>6. SavedFor(c, l, s)' /\ \A d \in Conns : d # c => ~SavedFor(d, l, s)'
    <3>1. /\ req'[c] # Null /\ req'[c].op # "lists" /\ req'[c].pc = "answered" /\ req'[c].ok
          /\ req'[c].list = l /\ req'[c].song = s
      BY <1>2, <1>7, <2>1, <2>2 DEF Kept
    <3>2. SavedFor(c, l, s)'
      BY <3>1 DEF SavedFor, Saved
    <3> QED
      BY <1>5, <2>3, <3>2 DEF SavedFor, Saved
  <2>7. req'[c].op = req[c].op
    BY <1>2 DEF Kept
  <2>8. CASE req[c].op = "rate"
    <3>1. Edited(req[c].op, store[l], s)[s] = store[l][s] + 1
      BY <2>2, <2>8 DEF Edited
    <3>2. store'[l][s] = store[l][s] + 1
      BY <2>2, <3>1
    <3> QED
      BY <2>4, <2>5, <2>6, <2>7, <2>8, <3>2 DEF Balance
  <2>9. CASE req[c].op = "delete"
    <3>1. req[c].item \in items /\ req[c].item.ul = l /\ req[c].item.song = s
      BY <1>1, <1>3, <1>7, <2>9 DEF PatienceInv, ViewInv, RequestInv
    <3>2. Shown(l, s) # {}
      BY <3>1 DEF Shown
    <3>3. Count(l, s) # 0
      BY <2>4, <2>5, <3>2, FS_EmptySet
    <3>4. store[l][s] > 0
      BY <2>2, <2>4, <3>3
    <3>5. Edited(req[c].op, store[l], s)[s] = store[l][s] - 1
      BY <2>2, <2>9, <3>4 DEF Edited
    <3>6. Count(l, s)' = store'[l][s] + 1
      <4>1. store'[l][s] = store[l][s] - 1
        BY <2>2, <3>5
      <4>2. \A m, n : n \in Nat /\ m = n - 1 => n = m + 1
        OBVIOUS
      <4>3. Count(l, s)' = store[l][s] /\ store[l][s] \in Nat
        BY <2>2, <2>4, <2>5
      <4> QED
        BY <4>1, <4>2, <4>3
    <3> QED
      BY <2>4, <2>6, <2>7, <2>9, <3>6 DEF Balance
  <2> QED
    BY <2>2, <2>8, <2>9
<1> QED
  BY <1>6, <1>7

(* A rating is answered.                                                   *)
LEMMA AppendShown ==
  ASSUME PageInv, Next, NEW c \in Conns, AppendItem(c), loaded, NEW l \in Lists \ disturbed',
         NEW s \in Songs
  PROVE  Balance(l, s)'
<1>1. /\ TypeOK /\ ViewInv /\ ApartInv /\ PatienceInv /\ ShownInv /\ store \in Content
      /\ req[c] # Null /\ req[c].pc = "answered" /\ req[c].ok /\ req[c].op = "rate"
      /\ RequestInv(req[c]) /\ store' = store /\ disturbed' = disturbed
      /\ req'[c] = Null /\ OthersKept(c)
  BY GoneEffect DEF PageInv, TypeOK, AppendItem, At, server
<1>2. Balance(l, s)
  BY <1>1 DEF ShownInv
<1>3. \A d \in Conns : d # c => /\ SavedFor(d, l, s)' <=> SavedFor(d, l, s)
                                /\ SavedFor(d, l, s) => req'[d].op = req[d].op
  BY <1>1 DEF OthersKept, SavedFor, Saved
<1> DEFINE ul  == opens[req[c].visit]
           new == [visit |-> Len(opens), ul |-> ul, list |-> req[c].list,
                   song |-> req[c].song, by |-> <<req[c].click, req[c].visit>>]
<1>4. /\ items' = IF ul # Null THEN items \cup {new} ELSE items
      /\ new.ul = ul /\ new.list = req[c].list /\ new.song = req[c].song
      /\ new.by = <<req[c].click, req[c].visit>>
  BY DEF AppendItem
<1>5. ~SavedFor(c, l, s)'
  BY <1>1 DEF SavedFor, Saved
<1> HIDE DEF new
<1>6. CASE req[c].list # l \/ req[c].song # s
  <2>1. Shown(l, s)' = Shown(l, s)
    <3>1. ul = l => req[c].list = l
      BY <1>1, NullAssumption DEF PatienceInv
    <3>2. ul = l => new.song # s
      BY <1>4, <1>6, <3>1
    <3> QED
      BY <1>4, <3>2 DEF Shown
  <2>2. ~SavedFor(c, l, s)
    BY <1>6 DEF SavedFor
  <2>3. store'[l][s] = store[l][s]
    BY <1>1
  <2>4. \A d \in Conns : /\ SavedFor(d, l, s)' <=> SavedFor(d, l, s)
                         /\ SavedFor(d, l, s) => req'[d].op = req[d].op
    BY <1>3, <1>5, <2>2 DEF SavedFor, Saved
  <2> QED
    BY <1>2, <2>1, <2>3, <2>4, BalanceKept
<1>7. CASE req[c].list = l /\ req[c].song = s
  <2>1. ul = l /\ ul # Null
    BY <1>1, <1>7, NullAssumption DEF PatienceInv
  <2>2. new \notin items
    BY <1>1, <1>4 DEF ApartInv
  <2>3. Shown(l, s)' = Shown(l, s) \cup {new} /\ new \notin Shown(l, s)
    BY <1>4, <1>7, <2>1, <2>2 DEF Shown
  <2>4. SavedFor(c, l, s)
    BY <1>1, <1>7 DEF SavedFor, Saved
  <2>5. IsFiniteSet(Shown(l, s)) /\ store[l][s] = Count(l, s) + 1
    BY <1>1, <1>2, <2>4 DEF Balance
  <2>6. IsFiniteSet(Shown(l, s)') /\ Cardinality(Shown(l, s)') = Cardinality(Shown(l, s)) + 1
    BY <2>3, <2>5, FS_AddElement
  <2>7. Count(l, s)' = store'[l][s]
    BY <1>1, <2>5, <2>6 DEF Count, Shown
  <2>8. \A d \in Conns : ~SavedFor(d, l, s)'
    <3>1. ASSUME NEW d \in Conns, SavedFor(d, l, s)' PROVE FALSE
      <4>1. d # c /\ SavedFor(d, l, s)
        BY <1>3, <1>5, <3>1 DEF SavedFor, Saved
      <4>2. req[d] # Null /\ req[d].list = l
        BY <4>1 DEF SavedFor, Saved
      <4> QED
        BY <1>1, <1>7, <4>1, <4>2, Alone
    <3> QED
      BY <3>1
  <2> QED
    BY <2>6, <2>7, <2>8 DEF Balance
<1> QED
  BY <1>6, <1>7

(* A deletion is answered.                                                 *)
LEMMA RemoveShown ==
  ASSUME PageInv, Next, NEW c \in Conns, RemoveItem(c), loaded, NEW l \in Lists \ disturbed',
         NEW s \in Songs
  PROVE  Balance(l, s)'
<1>1. /\ TypeOK /\ ViewInv /\ PatienceInv /\ ShownInv /\ store \in Content
      /\ req[c] # Null /\ req[c].pc = "answered" /\ req[c].ok /\ req[c].op = "delete"
      /\ RequestInv(req[c]) /\ store' = store /\ disturbed' = disturbed
      /\ req'[c] = Null /\ OthersKept(c) /\ items' = items \ {req[c].item}
  BY GoneEffect DEF PageInv, TypeOK, RemoveItem, At, server
<1>2. Balance(l, s)
  BY <1>1 DEF ShownInv
<1>3. \A d \in Conns : d # c => /\ SavedFor(d, l, s)' <=> SavedFor(d, l, s)
                                /\ SavedFor(d, l, s) => req'[d].op = req[d].op
  BY <1>1 DEF OthersKept, SavedFor, Saved
<1>4. ~SavedFor(c, l, s)'
  BY <1>1 DEF SavedFor, Saved
<1>5. CASE req[c].list # l \/ req[c].song # s
  <2>1. req[c].item \notin Shown(l, s)
    BY <1>1, <1>5 DEF Shown, ViewInv, RequestInv
  <2>2. Shown(l, s)' = Shown(l, s)
    BY <1>1, <2>1 DEF Shown
  <2>3. ~SavedFor(c, l, s)
    BY <1>5 DEF SavedFor
  <2>4. store'[l][s] = store[l][s]
    BY <1>1
  <2>5. \A d \in Conns : /\ SavedFor(d, l, s)' <=> SavedFor(d, l, s)
                         /\ SavedFor(d, l, s) => req'[d].op = req[d].op
    BY <1>3, <1>4, <2>3 DEF SavedFor, Saved
  <2> QED
    BY <1>2, <2>2, <2>4, <2>5, BalanceKept
<1>6. CASE req[c].list = l /\ req[c].song = s
  <2>1. req[c].item \in Shown(l, s)
    BY <1>1, <1>6 DEF PatienceInv, ViewInv, RequestInv, Shown
  <2>2. Shown(l, s)' = Shown(l, s) \ {req[c].item}
    BY <1>1 DEF Shown
  <2>3. SavedFor(c, l, s)
    BY <1>1, <1>6 DEF SavedFor, Saved
  <2>4. IsFiniteSet(Shown(l, s)) /\ Count(l, s) = store[l][s] + 1 /\ store[l][s] \in Nat
    BY <1>1, <1>2, <2>3 DEF Balance, Content
  <2>5. IsFiniteSet(Shown(l, s)') /\ Cardinality(Shown(l, s)') = Cardinality(Shown(l, s)) - 1
    <3>1. \A S, x : IsFiniteSet(S) /\ x \in S =>
            IsFiniteSet(S \ {x}) /\ Cardinality(S \ {x}) = Cardinality(S) - 1
      BY FS_RemoveElement
    <3> QED
      BY <2>1, <2>2, <2>4, <3>1
  <2>6. Count(l, s)' = store'[l][s]
    <3>1. Count(l, s) = Cardinality(Shown(l, s)) /\ Count(l, s)' = Cardinality(Shown(l, s)')
      BY DEF Count, Shown
    <3> QED
      BY <1>1, <2>4, <2>5, <3>1
  <2>7. \A d \in Conns : ~SavedFor(d, l, s)'
    <3>1. ASSUME NEW d \in Conns, SavedFor(d, l, s)' PROVE FALSE
      <4>1. d # c /\ SavedFor(d, l, s)
        BY <1>3, <1>4, <3>1 DEF SavedFor, Saved
      <4>2. req[d] # Null /\ req[d].list = l
        BY <4>1 DEF SavedFor, Saved
      <4> QED
        BY <1>1, <1>6, <4>1, <4>2, Alone
    <3> QED
      BY <3>1
  <2> QED
    BY <2>5, <2>6, <2>7 DEF Balance
<1> QED
  BY <1>5, <1>6

LEMMA ShownStep ==
  ASSUME PageInv, Next
  PROVE  ShownInv'
<1>1. /\ TypeOK /\ ViewInv /\ ShownInv
  BY DEF PageInv
<1>2. SUFFICES ASSUME loaded', NEW l \in Lists \ disturbed', NEW s \in Songs
               PROVE  Balance(l, s)'
  BY DEF ShownInv
<1>3. CASE \E c \in Conns : ShowLists(c) /\ view = "lists" /\ req[c].visit = Len(opens)
  BY <1>2, <1>3, ListsShown
<1>4. CASE ~\E c \in Conns : ShowLists(c) /\ view = "lists" /\ req[c].visit = Len(opens)
  <2>1. loaded /\ ~\E c \in Conns : ShowView(c)
    <3>1. ASSUME NEW c \in Conns, ShowView(c) PROVE FALSE
      BY <1>1, <1>2, <3>1 DEF ShowView, ViewInv
    <3>2. loaded' = loaded \/ LeaveView
      BY <1>4, <3>1 DEF Next, Confirm, Read, Write, Fail, ShowLists, AppendItem, RemoveItem,
         Refused, Rate, Toggle, Trash, Cancel, Faded, Finished, Page, vars
    <3> QED
      BY <1>2, <3>1, <3>2 DEF LeaveView
  <2>2. CASE \E c \in Conns : Write(c)
    BY <1>2, <2>1, <2>2, SaveShown
  <2>3. CASE \E c \in Conns : AppendItem(c)
    BY <1>2, <2>1, <2>3, AppendShown
  <2>4. CASE \E c \in Conns : RemoveItem(c)
    BY <1>2, <2>1, <2>4, RemoveShown
  <2>5. CASE ~\E c \in Conns : Write(c) \/ AppendItem(c) \/ RemoveItem(c)
    <3>1. items' = items /\ store' = store
      <4>1. ~LeaveView
        BY <1>2 DEF LeaveView
      <4> QED
        BY <1>4, <2>1, <2>5, <4>1 DEF Next, Confirm, Read, Fail, ShowLists, Refused, Rate, Toggle,
           Trash, Cancel, Faded, Finished, Page, server, vars
    <3>2. Shown(l, s)' = Shown(l, s) /\ store'[l][s] = store[l][s]
      BY <3>1 DEF Shown
    <3>3. Balance(l, s)
      BY <1>1, <1>2, <2>1, Disturbed DEF ShownInv
    <3>4. \A c \in Conns : /\ SavedFor(c, l, s)' <=> SavedFor(c, l, s)
                           /\ SavedFor(c, l, s) => req'[c].op = req[c].op
      BY <2>5, SavedKept
    <3> QED
      BY <3>2, <3>3, <3>4, BalanceKept
  <2> QED
    BY <2>2, <2>3, <2>4, <2>5
<1> QED
  BY <1>3, <1>4

-----------------------------------------------------------------------------
LEMMA PageInit ==
  ASSUME Init
  PROVE  PageInv
<1>1. TypeOK
  <2>1. store \in Content
    <3>1. store \in [Lists -> [Songs -> 0 .. MaxCopies]] /\ MaxCopies \in Nat
      BY BoundAssumption DEF Init
    <3> QED
      BY <3>1 DEF Content
  <2>2. opens \in Seq(Lists \cup {Null}) /\ Len(opens) = 0
    BY EmptySeq DEF Init
  <2>3. 0 \in 0 .. MaxClicks /\ 0 \in 0 .. MaxFailures /\ 0 <= MaxVisits
    BY BoundAssumption
  <2> QED
    BY <2>1, <2>2, <2>3 DEF Init, TypeOK
<1>2. /\ loaded = FALSE /\ items = {} /\ view = "other" /\ modal = "hidden" /\ chosen = Null
      /\ \A c \in Conns : req[c] = Null
  BY DEF Init
<1>3. ApartInv /\ CopyInv /\ ShownInv
  BY <1>2 DEF ApartInv, CopyInv, At, ShownInv
<1>4. ViewInv
  BY <1>2 DEF ViewInv
<1>5. PatienceInv
  BY <1>2 DEF PatienceInv, Crowded, Edits
<1> QED
  BY <1>1, <1>2, <1>3, <1>4, <1>5 DEF PageInv

LEMMA PageStutters ==
  ASSUME PageInv, UNCHANGED vars
  PROVE  PageInv'
<1> USE DEF vars
<1>1. TypeOK' /\ \A c \in Conns : req'[c] # Null => RequestInv(req[c])'
  BY DEF PageInv, TypeOK, RequestInv
<1>2. ApartInv'
  BY DEF PageInv, ApartInv
<1>3. ViewInv'
  BY DEF PageInv, ViewInv
<1>4. PatienceInv'
  BY DEF PageInv, PatienceInv, Crowded, Edits, Awaited
<1>5. CopyInv'
  BY DEF PageInv, CopyInv, At
<1>6. ShownInv'
  BY DEF PageInv, ShownInv, Balance, Shown, Count, SavedFor, Saved
<1> QED
  BY <1>1, <1>2, <1>3, <1>4, <1>5, <1>6 DEF PageInv

LEMMA PageAlways == Spec => []PageInv
<1>1. Init => PageInv
  BY PageInit
<1>2. PageInv /\ [Next]_vars => PageInv'
  <2>1. PageInv /\ Next => PageInv'
    BY TypeStep, RequestStep, ApartStep, ViewStep, PatienceStep, CopyStep, ShownStep DEF PageInv
  <2>2. PageInv /\ UNCHANGED vars => PageInv'
    BY PageStutters
  <2> QED
    BY <2>1, <2>2
<1> QED
  BY <1>1, <1>2, PTL DEF Spec

(* Every variable of the page keeps its type, whatever the user clicks and *)
(* in whatever order the answers come.                                     *)
THEOREM PageTypes == Spec => []TypeOK
<1>1. PageInv => TypeOK
  BY DEF PageInv
<1> QED
  BY <1>1, PageAlways, PTL

(* Under a list with no request under way, the page shows the songs that   *)
(* are stored in it, however many clicks, visits and errors there were, if *)
(* the user was patient with the list since the view was shown.            *)
THEOREM PageAlwaysShowsStore == Spec => []PageShowsStore
<1>1. PageInv => PageShowsStore
  <2>1. SUFFICES ASSUME PageInv, loaded, NEW l \in Lists \ (disturbed \cup Awaited),
                        NEW s \in Songs
                 PROVE  Count(l, s) = store[l][s]
    BY DEF PageShowsStore
  <2>2. Balance(l, s)
    BY <2>1 DEF PageInv, ShownInv
  <2>3. \A c \in Conns : ~SavedFor(c, l, s)
    BY <2>1 DEF SavedFor, Saved, Awaited, Edits
  <2> QED
    BY <2>2, <2>3 DEF Balance
<1> QED
  BY <1>1, PageAlways, PTL
=============================================================================
