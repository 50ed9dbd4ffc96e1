---------------------------- MODULE UserSession ----------------------------
(***************************************************************************)
(* Who is logged in, and whose name and playlists a page shows.            *)
(*                                                                         *)
(* play2sdg has two ideas of the current user.  One is the e-mail in the   *)
(* signed session cookie, which Secured hands to a handler as the username *)
(* of its request.  The other is Application.currentUserMail, one static   *)
(* field of the server that index() writes and that getUserName() and      *)
(* getPlaylists() read, without a look at the cookie.  A page comes in     *)
(* three answers: the page itself and two requests of its scripts.         *)
(*                                                                         *)
(* A step is one thing a handler does between two points where other       *)
(* threads may run, or the arrival of one answer.  A browser that leaves a *)
(* page drops the answers it waited for, but the server still works on     *)
(* the requests.                                                           *)
(***************************************************************************)
EXTENDS Naturals, FiniteSets

CONSTANTS
  Browsers, Conns,   \* browsers, and connections they open
  Users,             \* e-mails a user may type
  Registered,        \* e-mails with a row in table users
  Null,              \* Java's null, no cookie, nothing shown
  MaxRequests,       \* bound: requests that users start in a behaviour
  MaxRestarts        \* bound: restarts of the server in a behaviour

ASSUME UsersAssumption  == Registered \subseteq Users /\ Null \notin Users
ASSUME LimitsAssumption == MaxRequests \in Nat /\ MaxRestarts \in Nat

VARIABLES
  cookie,           \* the e-mail in the session cookie of every browser
  page,             \* what every browser shows
  req,              \* the request on every connection
  currentUserMail,  \* the static field of Application
  loggedIn,         \* e-mails that Login.authenticate accepted (observed)
  overwritten,      \* browsers whose page the field need not match (observed)
  requests,         \* requests started so far (bounded by MaxRequests)
  restarts          \* restarts so far (bounded by MaxRestarts)

vars == <<cookie, page, req, currentUserMail, loggedIn, overwritten,
          requests, restarts>>

MailOrNull == Users \cup {Null}
Scripts == {"username", "playlists"}
Pages   == {"index", "nextPage"}

(* The user a page was rendered for; the name and the owner of the lists   *)
(* that its scripts put into it; the requests they still have to send.     *)
Page == [user : MailOrNull, name : MailOrNull, lists : MailOrNull,
         toAsk : SUBSET Scripts]
Blank == [user |-> Null, name |-> Null, lists |-> Null, toAsk |-> {}]

(* mail is the cookie sent with the request, or what the form says.        *)
Request == [pc : {"free", "sent", "render", "answered"},
            op : {"none", "login", "logout"} \cup Pages \cup Scripts,
            browser : Browsers \cup {Null}, wanted : BOOLEAN,
            mail : MailOrNull, right : BOOLEAN,
            status : {"pending", "ok", "loginForm", "error"}, body : MailOrNull]
Free == [pc |-> "free", op |-> "none", browser |-> Null, wanted |-> FALSE,
         mail |-> Null, right |-> FALSE, status |-> "pending", body |-> Null]
Sent(b, op, mail, right) ==
  [pc |-> "sent", op |-> op, browser |-> b, wanted |-> TRUE, mail |-> mail,
   right |-> right, status |-> "pending", body |-> Null]

Init ==
  /\ cookie = [b \in Browsers |-> Null]
  /\ page = [b \in Browsers |-> Blank]
  /\ req = [c \in Conns |-> Free]
  /\ currentUserMail = Null
  /\ loggedIn = {}
  /\ overwritten = {}
  /\ requests = 0
  /\ restarts = 0

-----------------------------------------------------------------------------
(* The browser sends.                                                      *)

(* The server works on it, but the answer will reach no page.              *)
GivenUp(r) == [r EXCEPT !.wanted = FALSE]

(* A link, an address or a form: the page and the answers it waits for are *)
(* given up.                                                               *)
Navigate(b, c, r) ==
  /\ req[c].pc = "free"
  /\ requests < MaxRequests
  /\ requests' = requests + 1
  /\ req' = [k \in Conns |-> IF k = c THEN r
                             ELSE IF req[k].browser = b
                               THEN GivenUp(req[k])
                             ELSE req[k]]
  /\ page' = [page EXCEPT ![b] = Blank]
  /\ UNCHANGED <<cookie, currentUserMail, loggedIn, restarts>>

Open(b, c) ==
  Navigate(b, c, Sent(b, "index", cookie[b], FALSE)) /\ UNCHANGED overwritten
Leave(b, c) ==
  Navigate(b, c, Sent(b, "logout", Null, FALSE)) /\ UNCHANGED overwritten
Submit(b, c) ==
  /\ \E mail \in Users, right \in BOOLEAN :
       Navigate(b, c, Sent(b, "login", mail, right))
  /\ UNCHANGED overwritten

(* getNextPage(), like two more handlers, answers with the page of index() *)
(* but writes no static field.  main leaves out the body that links to it, *)
(* so the user types the address; from no page, nothing says what user the *)
(* field holds.                                                            *)
OpenNext(b, c) ==
  /\ Navigate(b, c, Sent(b, "nextPage", cookie[b], FALSE))
  /\ overwritten' = IF page[b] = Blank THEN overwritten \cup {b} ELSE overwritten

(* The scripts of the page: getUserName() for the navigation bar, and the  *)
(* GET /playlists of MainCtrl.                                             *)
Ask(b, c) ==
  /\ req[c].pc = "free"
  /\ \E s \in page[b].toAsk :
       /\ req' = [req EXCEPT ![c] = Sent(b, s, cookie[b], FALSE)]
       /\ page' = [page EXCEPT ![b].toAsk = @ \ {s}]
  /\ UNCHANGED <<cookie, currentUserMail, loggedIn, overwritten, requests,
                 restarts>>

(* To #/statistics or #/findmusic and back to #/main, within the page: a   *)
(* new MainCtrl asks for the playlists again.                              *)
Reopened(p) == [p EXCEPT !.lists = Null, !.toAsk = @ \cup {"playlists"}]
Reopen(b) ==
  /\ page[b] # Blank
  /\ requests < MaxRequests
  /\ requests' = requests + 1
  /\ page' = [page EXCEPT ![b] = Reopened(@)]
  /\ req' = [k \in Conns |-> IF req[k].browser = b /\ req[k].op = "playlists"
                               THEN GivenUp(req[k]) ELSE req[k]]
  /\ UNCHANGED <<cookie, currentUserMail, loggedIn, overwritten, restarts>>

-----------------------------------------------------------------------------
(* The server works.                                                       *)

At(c, op, pc) == req[c].op = op /\ req[c].pc = pc
Answer(c, status, body) ==
  req' = [req EXCEPT ![c] = [@ EXCEPT !.pc = "answered", !.status = status,
                                      !.body = body]]
UnchangedBrowser == UNCHANGED <<cookie, page, requests, restarts>>

(* Login.authenticate: validate finds the row and compares the password.   *)
Accepts(r) == r.mail \in Registered /\ r.right

(* Mutation of Login: the session is set before the form is validated.     *)
LoginFirst(c) ==
  /\ At(c, "login", "sent")
  /\ Answer(c, "ok", req[c].mail)
  /\ loggedIn' = IF Accepts(req[c]) THEN loggedIn \cup {req[c].mail} ELSE loggedIn
  /\ UnchangedBrowser /\ UNCHANGED <<currentUserMail, overwritten>>

Login(c) ==
  /\ At(c, "login", "sent")
  /\ \/ /\ Accepts(req[c])
        /\ Answer(c, "ok", req[c].mail)
        /\ loggedIn' = loggedIn \cup {req[c].mail}
     \/ /\ ~Accepts(req[c])
        /\ Answer(c, "loginForm", Null)
        /\ UNCHANGED loggedIn
  /\ UnchangedBrowser /\ UNCHANGED <<currentUserMail, overwritten>>

Logout(c) ==
  /\ At(c, "logout", "sent")
  /\ Answer(c, "loginForm", Null)
  /\ UnchangedBrowser /\ UNCHANGED <<currentUserMail, loggedIn, overwritten>>

(* Secured: without an e-mail in the cookie, onUnauthorized redirects.     *)
Unauthorized(c) ==
  /\ req[c].op \in Pages /\ req[c].pc = "sent"
  /\ req[c].mail = Null
  /\ Answer(c, "loginForm", Null)
  /\ UnchangedBrowser /\ UNCHANGED <<currentUserMail, loggedIn, overwritten>>

(* Mutation of Index: the static field keeps the first user it saw.        *)
IndexOnce(c) ==
  /\ At(c, "index", "sent")
  /\ req[c].mail # Null
  /\ currentUserMail' = IF currentUserMail = Null THEN req[c].mail ELSE currentUserMail
  /\ req' = [req EXCEPT ![c].pc = "render"]
  /\ overwritten' = IF req[c].wanted THEN Browsers \ {req[c].browser} ELSE Browsers
  /\ UnchangedBrowser /\ UNCHANGED loggedIn

(* The first statement of index(); then its queries and the page.          *)
Index(c) ==
  /\ At(c, "index", "sent")
  /\ req[c].mail # Null
  /\ currentUserMail' = req[c].mail
  /\ req' = [req EXCEPT ![c].pc = "render"]
  /\ overwritten' = IF req[c].wanted THEN Browsers \ {req[c].browser} ELSE Browsers
  /\ UnchangedBrowser /\ UNCHANGED loggedIn

RenderIndex(c) ==
  /\ At(c, "index", "render")
  /\ Answer(c, "ok", req[c].mail)
  /\ UnchangedBrowser /\ UNCHANGED <<currentUserMail, loggedIn, overwritten>>

(* getNextPage() renders the page without a write to the static field.     *)
GetNextPage(c) ==
  /\ At(c, "nextPage", "sent")
  /\ req[c].mail # Null
  /\ Answer(c, "ok", req[c].mail)
  /\ UnchangedBrowser /\ UNCHANGED <<currentUserMail, loggedIn, overwritten>>

(* Mutation of GetUserName: null is answered as a text.                    *)
GetUserNameText(c) ==
  /\ At(c, "username", "sent")
  /\ Answer(c, "ok", IF currentUserMail = Null THEN "null" ELSE currentUserMail)
  /\ UnchangedBrowser /\ UNCHANGED <<currentUserMail, loggedIn, overwritten>>

(* JSON made of null is null, and an answer without content throws.        *)
GetUserName(c) ==
  /\ At(c, "username", "sent")
  /\ Answer(c, IF currentUserMail = Null THEN "error" ELSE "ok", currentUserMail)
  /\ UnchangedBrowser /\ UNCHANGED <<currentUserMail, loggedIn, overwritten>>

(* WHERE usermail = null is no query: the driver throws.                   *)
GetPlaylists(c) ==
  /\ At(c, "playlists", "sent")
  /\ Answer(c, IF currentUserMail = Null THEN "error" ELSE "ok", currentUserMail)
  /\ UnchangedBrowser /\ UNCHANGED <<currentUserMail, loggedIn, overwritten>>

(* A query of a handler throws; logout() and getUserName() make none.      *)
Fail(c) ==
  /\ \/ At(c, "login", "sent") \/ At(c, "index", "render")
     \/ At(c, "nextPage", "sent") \/ At(c, "playlists", "sent")
  /\ Answer(c, "error", Null)
  /\ UnchangedBrowser /\ UNCHANGED <<currentUserMail, loggedIn, overwritten>>

(* The server restarts: the static field is null again, what is not        *)
(* answered never will be, and the cookies stay valid.                     *)
Restart ==
  /\ restarts < MaxRestarts
  /\ restarts' = restarts + 1
  /\ currentUserMail' = Null
  /\ req' = [c \in Conns |->
               IF req[c].pc \in {"sent", "render"}
                 THEN [req[c] EXCEPT !.pc = "answered", !.status = "error"]
                 ELSE req[c]]
  /\ overwritten' = Browsers
  /\ UNCHANGED <<cookie, page, loggedIn, requests>>

-----------------------------------------------------------------------------
(* The browser receives.                                                   *)

(* Mutation of Redirected: onUnauthorized redirects to index() itself.     *)
RedirectedHome(r) ==
  \/ r.op = "login" /\ r.status = "ok"
  \/ r.op = "index" /\ r.status = "loginForm"

(* The answer to the login form sets the cookie and redirects to index();  *)
(* every other answer ends the request.                                    *)
Redirected(r) == r.op = "login" /\ r.status = "ok"

CookieAfter(r, old) ==
  IF Redirected(r) THEN r.body
  ELSE IF r.op = "logout" /\ r.status # "error" THEN Null
  ELSE old

PageAfter(r, old) ==
  IF r.status # "ok" THEN old
  ELSE IF r.op \in Pages
    THEN [user |-> r.body, name |-> Null, lists |-> Null, toAsk |-> Scripts]
  ELSE IF r.op = "username"  THEN [old EXCEPT !.name = r.body]
  ELSE IF r.op = "playlists" THEN [old EXCEPT !.lists = r.body]
  ELSE old

Arrive(c) ==
  /\ req[c].pc = "answered"
  /\ IF req[c].wanted
       THEN LET b == req[c].browser IN
            /\ cookie' = [cookie EXCEPT ![b] = CookieAfter(req[c], @)]
            /\ page' = [page EXCEPT ![b] = PageAfter(req[c], @)]
            /\ req' = [req EXCEPT ![c] = IF Redirected(@)
                          THEN Sent(b, "index", @.body, FALSE) ELSE Free]
       ELSE /\ req' = [req EXCEPT ![c] = Free]
            /\ UNCHANGED <<cookie, page>>
  /\ UNCHANGED <<currentUserMail, loggedIn, overwritten, requests, restarts>>

Serve(c) ==
  \/ Login(c) \/ Logout(c) \/ Unauthorized(c) \/ Index(c) \/ RenderIndex(c)
  \/ GetNextPage(c) \/ GetUserName(c) \/ GetPlaylists(c)

Finished ==
  /\ requests = MaxRequests
  /\ \A c \in Conns : req[c].pc = "free"
  /\ \A b \in Browsers : page[b].toAsk = {}
  /\ UNCHANGED vars

Next ==
  \/ \E b \in Browsers, c \in Conns :
       Open(b, c) \/ OpenNext(b, c) \/ Leave(b, c) \/ Submit(b, c) \/ Ask(b, c)
  \/ \E b \in Browsers : Reopen(b)
  \/ \E c \in Conns : Serve(c) \/ Fail(c) \/ Arrive(c)
  \/ Restart
  \/ Finished

Spec == Init /\ [][Next]_vars

(* A thread that took a request runs on, and answers arrive; what a user   *)
(* does, a failing query and a restart are never owed.                     *)
FairSpec == Spec /\ \A c \in Conns : WF_vars(Serve(c)) /\ WF_vars(Arrive(c))

-----------------------------------------------------------------------------
TypeOK ==
  /\ cookie \in [Browsers -> MailOrNull]
  /\ page \in [Browsers -> Page]
  /\ req \in [Conns -> Request]
  /\ currentUserMail \in MailOrNull
  /\ loggedIn \subseteq Users
  /\ overwritten \subseteq Browsers
  /\ requests \in 0 .. MaxRequests
  /\ restarts \in 0 .. MaxRestarts

(* Whatever name or lists a page shows, and whatever cookie a browser      *)
(* holds, some login was accepted for that e-mail: the two handlers that   *)
(* check nothing can only reveal users who have logged in.                 *)
ShownUsersLoggedIn ==
  \A b \in Browsers :
    {cookie[b], page[b].user, page[b].name, page[b].lists} \ {Null}
      \subseteq loggedIn

(* Name and lists are those of the page's own user, unless another request *)
(* ran index(), or the server restarted, since that page was asked for, or *)
(* it came from a handler that writes no field: an answer that a browser   *)
(* gave up, or a logout, never spoils a later page.                        *)
UndisturbedPageIsOwn ==
  \A b \in Browsers \ overwritten :
    {page[b].name, page[b].lists} \ {Null} \subseteq {page[b].user}

(* Why, as an inductive invariant.  Every e-mail on its way was accepted   *)
(* by a login, but for those typed into the form; no page is rendered      *)
(* for nobody.                                                             *)
Known == loggedIn \cup {Null}
Delivered(r) == r.pc = "answered" /\ r.status = "ok"

KnownRequest(r) ==
  /\ r.body \in Known
  /\ r.op # "login" => r.mail \in Known
  /\ r.op \in Pages /\ (r.pc = "render" \/ Delivered(r)) => r.mail # Null

AllKnown == currentUserMail \in Known /\ \A c \in Conns : KnownRequest(req[c])

(* A browser waits for one page or for the scripts of the page it shows,   *)
(* and a page that it waits for or shows is the page of its cookie.        *)
Expected(r, b) ==
  /\ r.pc # "free" /\ b \in Browsers
  /\ r.op \in Scripts => page[b].user # Null
  /\ r.op \notin Scripts => page[b] = Blank
  /\ r.op \in Pages => r.mail = cookie[b] /\ (Delivered(r) => r.body = r.mail)

Expectations == \A c \in Conns : req[c].wanted => Expected(req[c], req[c].browser)

OnePage ==
  \A c, d \in Conns :
    /\ c # d /\ req[c].wanted /\ req[d].wanted /\ req[c].browser = req[d].browser
    => req[c].op \in Scripts /\ req[d].op \in Scripts

PageOfCookie ==
  \A b \in Browsers : page[b] # Blank => page[b].user = cookie[b] /\ cookie[b] # Null

(* Until it is overwritten, the static field holds the user of the page    *)
(* that the browser shows or is about to receive.                          *)
Undisturbed(r) ==
  /\ r.op = "index" /\ (r.pc = "render" \/ Delivered(r)) => r.mail = currentUserMail
  /\ r.op = "nextPage" => r.mail = currentUserMail
  /\ r.op \in Scripts /\ Delivered(r) => r.body = currentUserMail

FieldOfPage ==
  /\ \A c \in Conns :
       req[c].wanted /\ req[c].browser \notin overwritten => Undisturbed(req[c])
  /\ \A b \in Browsers \ overwritten :
       page[b] # Blank => page[b].user = currentUserMail

SessionInv ==
  /\ TypeOK /\ AllKnown /\ ShownUsersLoggedIn
  /\ Expectations /\ OnePage /\ PageOfCookie
  /\ FieldOfPage /\ UndisturbedPageIsOwn

(* The navigation bar and the lists of a page belong to the user of the    *)
(* cookie that the page was rendered for.                                  *)
PageIsOwn ==
  \A b \in Browsers :
    {page[b].name, page[b].lists} \ {Null} \subseteq {page[b].user}

(* Every request ends: no chain of redirects between the login form and    *)
(* the index page goes round.                                              *)
RedirectsEnd == \A c \in Conns : req[c].pc # "free" ~> req[c].pc = "free"
=============================================================================
