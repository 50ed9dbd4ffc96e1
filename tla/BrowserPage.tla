---------------------------- MODULE BrowserPage ----------------------------
(***************************************************************************)
(* The view #/main of the page: which list a rating goes to, and whether   *)
(* the songs under each list are those that the server has stored.         *)
(*                                                                         *)
(* The view is a template with a script.  Every time the router shows it,  *)
(* the script runs again with variables of its own, a closure, and binds   *)
(* its click handlers to the document, where those of the earlier closures *)
(* still are: one click runs them all.  The item that answers a rating is  *)
(* appended by the closure that sent it, to the list that is open in that  *)
(* closure when the answer arrives.                                        *)
(*                                                                         *)
(* The order of songs is left out, so a list is the number of times it     *)
(* holds each song.  The page is the only writer of its lists.             *)
(***************************************************************************)
EXTENDS Naturals, Sequences, FiniteSets

CONSTANTS
  Lists, Songs,     \* the user's playlists, and the tracks of the player
  Conns,            \* connections of the browser to the server
  Null,             \* JavaScript's null
  MaxCopies,        \* bound: copies of a song in a list at the beginning
  MaxClicks,        \* bound: clicks in a behaviour
  MaxVisits,        \* bound: times the view is shown
  MaxFailures       \* bound: answers that are an error

ASSUME NullAssumption  == Null \notin Lists \cup Songs
ASSUME BoundAssumption == {MaxCopies, MaxClicks, MaxVisits, MaxFailures} \subseteq Nat

VARIABLES
  store,      \* the lists in the database
  opens,      \* _openplaylist of the closure of every visit
  view,       \* what the router shows
  loaded,     \* $scope.playlists of this visit has arrived
  items,      \* the <li> elements on the page
  chosen,     \* _nodeToDelete, with its _songName and _playListId
  modal,      \* the dialog "Are you sure"
  req,        \* the request on every connection
  disturbed,  \* lists that the user was not patient with (observed)
  clicks,     \* clicks so far (bounded by MaxClicks)
  failures    \* errors so far (bounded by MaxFailures)

vars == <<store, opens, view, loaded, items, chosen, modal, req, disturbed,
          clicks, failures>>
server == <<store, failures>>

Content == [Lists -> [Songs -> Nat]]

(* ul is the list under which an element is, list the one that its button  *)
(* names; by says which click and closure it answers, or none.             *)
Item == [visit : 1 .. MaxVisits, ul : Lists, list : Lists, song : Songs,
         by : (0 .. MaxClicks) \X (0 .. MaxVisits)]
Loaded(v, l, s) == [visit |-> v, ul |-> l, list |-> l, song |-> s, by |-> <<0, 0>>]

Request == [pc : {"sent", "read", "answered"}, op : {"lists", "rate", "delete"},
            visit : 1 .. MaxVisits, list : Lists \cup {Null}, song : Songs \cup {Null},
            click : 0 .. MaxClicks, item : Item \cup {Null},
            copy : Content \cup {Null}, ok : BOOLEAN]
ASSUME NullRequestAssumption == Null \notin Request

Sent(op, v, l, s, i) ==
  [pc |-> "sent", op |-> op, visit |-> v, list |-> l, song |-> s,
   click |-> clicks, item |-> i, copy |-> Null, ok |-> FALSE]

Init ==
  /\ store \in [Lists -> [Songs -> 0 .. MaxCopies]]
  /\ opens = << >>
  /\ view = "other"
  /\ loaded = FALSE
  /\ items = {}
  /\ chosen = Null
  /\ modal = "hidden"
  /\ req = [c \in Conns |-> Null]
  /\ disturbed = {}
  /\ clicks = 0
  /\ failures = 0

-----------------------------------------------------------------------------
(* The lists with a request under way, or with more than one, in r.        *)
Edits(r, l) == {c \in Conns : r[c] # Null /\ r[c].list = l}
Awaited     == {l \in Lists : Edits(req, l) # {}}
Crowded(r)  == {l \in Lists : \E c, d \in Edits(r, l) : c # d}
Rated       == {l \in Lists : \E c \in Edits(req, l) : req[c].op = "rate"}
(* The lists under which the answers to ratings would go now.              *)
Targets     == {l \in Lists : \E c \in Conns :
                  req[c] # Null /\ req[c].op = "rate" /\ opens[req[c].visit] = l}

Click == clicks < MaxClicks /\ clicks' = clicks + 1

(* The router shows the view: its script and its MainCtrl run.  The lists  *)
(* are read anew, which repairs all that no request is still about.        *)
ShowView(c) ==
  /\ view = "other" /\ req[c] = Null
  /\ Len(opens) < MaxVisits
  /\ view' = "lists"
  /\ opens' = Append(opens, Null)
  /\ req' = [req EXCEPT ![c] = Sent("lists", Len(opens) + 1, Null, Null, Null)]
  /\ disturbed' = Awaited \cup Targets
  /\ UNCHANGED <<server, loaded, items, chosen, modal, clicks>>

(* To #/statistics or #/findmusic.                                         *)
LeaveView ==
  /\ view = "lists"
  /\ view' = "other"
  /\ loaded' = FALSE
  /\ items' = {}
  /\ chosen' = Null
  /\ modal' = "hidden"
  /\ UNCHANGED <<server, opens, req, disturbed, clicks>>

(* Click on .playlistopen, in every closure.                               *)
Toggle(l) ==
  /\ loaded /\ modal = "hidden"
  /\ Click
  /\ opens' = [v \in DOMAIN opens |-> IF opens[v] = l THEN Null ELSE l]
  /\ disturbed' = IF Rated = {} THEN disturbed ELSE disturbed \cup Rated \cup {l}
  /\ UNCHANGED <<server, view, loaded, items, chosen, modal, req>>

(* Click on .addtoplaylist: every closure with an open list sends a        *)
(* request.  Two for one list disturb each other, and so does a GET        *)
(* /playlists on its way.                                                  *)
Rate(s) ==
  LET raters == {v \in DOMAIN opens : opens[v] # Null} IN
  /\ view = "lists" /\ modal = "hidden"
  /\ Click
  /\ raters # {}
  /\ \E on \in [raters -> {c \in Conns : req[c] = Null}] :
       /\ \A v, w \in raters : on[v] = on[w] => v = w
       /\ req' = [c \in Conns |->
            IF \E v \in raters : on[v] = c
              THEN LET v == CHOOSE v \in raters : on[v] = c
                   IN  Sent("rate", v, opens[v], s, Null)
              ELSE req[c]]
  /\ disturbed' = disturbed \cup Crowded(req')
                    \cup (IF loaded THEN {} ELSE {opens[v] : v \in raters})
  /\ UNCHANGED <<server, opens, view, loaded, items, chosen, modal>>

(* Click on the button .delete of an element: the dialog opens.            *)
Trash(i) ==
  /\ i \in items /\ modal = "hidden"
  /\ Click
  /\ chosen' = i
  /\ modal' = "open"
  /\ UNCHANGED <<server, opens, view, loaded, items, req, disturbed>>

Cancel ==
  /\ modal = "open"
  /\ modal' = "hidden"
  /\ UNCHANGED <<server, opens, view, loaded, items, chosen, req, disturbed, clicks>>

(* Click on .delete_song_ok.  The dialog fades away and takes clicks until *)
(* it is gone; the variables keep their values, so the element may be gone *)
(* by the time its deletion is sent, or sent again.                        *)
Confirm(c) ==
  /\ modal # "hidden" /\ req[c] = Null
  /\ Click
  /\ modal' = "fading"
  /\ req' = [req EXCEPT ![c] =
               Sent("delete", Len(opens), chosen.list, chosen.song, chosen)]
  /\ disturbed' = disturbed \cup Crowded(req')
                    \cup (IF chosen \in items THEN {} ELSE {chosen.list})
  /\ UNCHANGED <<server, opens, view, loaded, items, chosen>>

Faded ==
  /\ modal = "fading"
  /\ modal' = "hidden"
  /\ UNCHANGED <<server, opens, view, loaded, items, chosen, req, disturbed, clicks>>

-----------------------------------------------------------------------------
(* The server: rate and deletePlayListSong read the row and write it back. *)
At(c, pc) == req[c] # Null /\ req[c].pc = pc
Page == <<opens, view, loaded, items, chosen, modal, clicks>>

(* Mutation of Edited: every copy of the song is taken out.                *)
EditedAll(op, row, s) ==
  IF op = "rate" THEN [row EXCEPT ![s] = @ + 1] ELSE [row EXCEPT ![s] = 0]

(* Mutation of Edited: nobody asks whether the row holds the song.         *)
EditedBelow(op, row, s) == [row EXCEPT ![s] = IF op = "rate" THEN @ + 1 ELSE @ - 1]

(* addRatingSong; tracksToUpdate.remove(song), which takes one copy.       *)
Edited(op, row, s) ==
  IF op = "rate" THEN [row EXCEPT ![s] = @ + 1]
  ELSE IF row[s] > 0 THEN [row EXCEPT ![s] = @ - 1]
  ELSE row

Read(c) ==
  /\ At(c, "sent")
  /\ req' = [req EXCEPT ![c] =
       IF @.op = "lists" THEN [@ EXCEPT !.pc = "answered", !.copy = store, !.ok = TRUE]
       ELSE [@ EXCEPT !.pc = "read", !.copy = store]]
  /\ UNCHANGED <<server, Page, disturbed>>

(* The save; what follows it may throw, and the answer is an error then.   *)
Write(c) ==
  LET r == req[c] IN
  /\ At(c, "read")
  /\ store' = [store EXCEPT ![r.list] = Edited(r.op, r.copy[r.list], r.song)]
  /\ \/ /\ req' = [req EXCEPT ![c] = [@ EXCEPT !.pc = "answered", !.ok = TRUE]]
        /\ UNCHANGED <<disturbed, failures>>
     \/ /\ failures < MaxFailures
        /\ failures' = failures + 1
        /\ req' = [req EXCEPT ![c].pc = "answered"]
        /\ disturbed' = disturbed \cup {r.list}
  /\ UNCHANGED Page

Fail(c) ==
  /\ At(c, "sent") \/ At(c, "read")
  /\ failures < MaxFailures
  /\ failures' = failures + 1
  /\ req' = [req EXCEPT ![c].pc = "answered"]
  /\ UNCHANGED <<store, Page, disturbed>>

-----------------------------------------------------------------------------
(* The success handlers; an error runs none.                               *)
Gone(c) == req' = [req EXCEPT ![c] = Null]

(* ng-repeat renders one element for each song, but nothing for an array   *)
(* that holds a value twice.                                               *)
Twice(copy) == {l \in Lists : \E s \in Songs : copy[l][s] > 1}

ShowLists(c) ==
  /\ At(c, "answered") /\ req[c].op = "lists" /\ req[c].ok
  /\ Gone(c)
  /\ IF view = "lists" /\ req[c].visit = Len(opens)
       THEN /\ loaded' = TRUE
            /\ items' = {Loaded(Len(opens), p[1], p[2]) :
                 p \in {q \in (Lists \ Twice(req[c].copy)) \X Songs :
                          req[c].copy[q[1]][q[2]] = 1}}
            /\ disturbed' = disturbed \cup Twice(req[c].copy)
       ELSE UNCHANGED <<loaded, items, disturbed>>
  /\ UNCHANGED <<server, opens, view, chosen, modal, clicks>>

(* playL.append(data): under the list that is open in the closure now.     *)
AppendItem(c) ==
  LET r  == req[c]
      ul == opens[r.visit]
  IN
  /\ At(c, "answered") /\ r.op = "rate" /\ r.ok
  /\ Gone(c)
  /\ items' = IF loaded /\ ul # Null
       THEN items \cup {[visit |-> Len(opens), ul |-> ul, list |-> r.list,
                         song |-> r.song, by |-> <<r.click, r.visit>>]}
       ELSE items
  /\ UNCHANGED <<server, opens, view, loaded, chosen, modal, disturbed, clicks>>

(* item.remove()                                                           *)
RemoveItem(c) ==
  /\ At(c, "answered") /\ req[c].op = "delete" /\ req[c].ok
  /\ Gone(c)
  /\ items' = items \ {req[c].item}
  /\ UNCHANGED <<server, opens, view, loaded, chosen, modal, disturbed, clicks>>

Refused(c) ==
  /\ At(c, "answered") /\ ~req[c].ok
  /\ Gone(c)
  /\ UNCHANGED <<server, Page, disturbed>>

Finished ==
  /\ \A c \in Conns : req[c] = Null
  /\ view = "other" /\ Len(opens) = MaxVisits
  /\ UNCHANGED vars

Next ==
  \/ \E c \in Conns :
       \/ ShowView(c) \/ Confirm(c)
       \/ Read(c) \/ Write(c) \/ Fail(c)
       \/ ShowLists(c) \/ AppendItem(c) \/ RemoveItem(c) \/ Refused(c)
  \/ \E l \in Lists : Toggle(l)
  \/ \E s \in Songs : Rate(s)
  \/ \E i \in items : Trash(i)
  \/ LeaveView \/ Cancel \/ Faded
  \/ Finished

Spec == Init /\ [][Next]_vars

-----------------------------------------------------------------------------
TypeOK ==
  /\ store \in Content
  /\ opens \in Seq(Lists \cup {Null}) /\ Len(opens) <= MaxVisits
  /\ view \in {"lists", "other"}
  /\ loaded \in BOOLEAN
  /\ items \subseteq Item
  /\ chosen \in Item \cup {Null}
  /\ modal \in {"hidden", "open", "fading"}
  /\ req \in [Conns -> Request \cup {Null}]
  /\ disturbed \subseteq Lists
  /\ clicks \in 0 .. MaxClicks
  /\ failures \in 0 .. MaxFailures

(* With no request of a list under way, the page shows under it the songs  *)
(* that the database has in it, each as often; unless, since the view was  *)
(* shown, two requests of the list overlapped, a list was opened or closed *)
(* while one of the two had a rating on its way, the deletion of a song    *)
(* was sent after the song had gone from the page, an answer after the     *)
(* save was an error, or the list came with a song twice.                  *)
Count(l, s) == Cardinality({i \in items : i.ul = l /\ i.song = s})

PageShowsStore ==
  loaded => \A l \in Lists \ (disturbed \cup Awaited), s \in Songs :
              Count(l, s) = store[l][s]
=============================================================================
