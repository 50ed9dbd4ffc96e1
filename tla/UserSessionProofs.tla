------------------------- MODULE UserSessionProofs --------------------------
(***************************************************************************)
(* Whose name and lists a page shows, proved of UserSession for any number *)
(* of browsers, connections and users: SessionInv is inductive.            *)
(***************************************************************************)
EXTENDS UserSession, TLAPS

Others(c) == \A d \in Conns \ {c} : req'[d] = req[d]

SameRequest(q, r) ==
  q.op = r.op /\ q.browser = r.browser /\ q.wanted = r.wanted /\ q.mail = r.mail

Statuses == {"ok", "loginForm", "error"}

(* What a step of the server or of a browser does to one connection.       *)
LEMMA AnswerEffect ==
  ASSUME req \in [Conns -> Request], NEW c \in Conns, NEW st \in Statuses,
         NEW body \in MailOrNull, Answer(c, st, body)
  PROVE  /\ req' \in [Conns -> Request] /\ Others(c)
         /\ SameRequest(req'[c], req[c]) /\ req'[c].pc = "answered"
         /\ req'[c].status = st /\ req'[c].body = body
<1> DEFINE r == [req[c] EXCEPT !.pc = "answered", !.status = st, !.body = body]
<1>1. /\ r \in Request /\ SameRequest(r, req[c]) /\ r.pc = "answered"
      /\ r.status = st /\ r.body = body
  BY DEF Request, SameRequest, Statuses
<1>2. req' = [req EXCEPT ![c] = r]
  BY DEF Answer
<1> HIDE DEF r
<1> QED
  BY <1>1, <1>2 DEF Others

LEMMA SentIsRequest ==
  ASSUME NEW b \in Browsers, NEW op \in {"login", "logout"} \cup Pages \cup Scripts,
         NEW mail \in MailOrNull, NEW right \in BOOLEAN,
         NEW r, r = Sent(b, op, mail, right)
  PROVE  /\ r \in Request /\ r.pc = "sent" /\ r.op = op /\ r.browser = b
         /\ r.wanted /\ r.mail = mail /\ r.body = Null /\ r.status = "pending"
BY DEF Sent, Request, MailOrNull

LEMMA FreeIsRequest ==
  /\ Free \in Request /\ Free.pc = "free" /\ Free.op = "none" /\ ~Free.wanted
  /\ Free.mail = Null /\ Free.body = Null
BY DEF Free, Request, MailOrNull

LEMMA BlankIsPage ==
  /\ Blank \in Page /\ Blank.user = Null /\ Blank.name = Null
  /\ Blank.lists = Null /\ Blank.toAsk = {}
BY DEF Blank, Page, MailOrNull

-----------------------------------------------------------------------------
LEMMA SessionInit == Init => SessionInv
<1> SUFFICES ASSUME Init PROVE SessionInv
  OBVIOUS
<1>1. TypeOK
  BY FreeIsRequest, BlankIsPage, LimitsAssumption DEF Init, TypeOK, MailOrNull
<1>2. /\ \A c \in Conns : req[c] = Free
      /\ \A b \in Browsers : page[b] = Blank /\ cookie[b] = Null
      /\ currentUserMail = Null /\ loggedIn = {}
  BY DEF Init
<1>3. AllKnown
  BY <1>2, FreeIsRequest DEF AllKnown, KnownRequest, Known, Pages
<1>4. ShownUsersLoggedIn /\ PageOfCookie /\ UndisturbedPageIsOwn
  BY <1>2, BlankIsPage DEF ShownUsersLoggedIn, PageOfCookie, UndisturbedPageIsOwn
<1>5. Expectations /\ OnePage /\ FieldOfPage
  BY <1>2, FreeIsRequest DEF Expectations, OnePage, FieldOfPage
<1> QED
  BY <1>1, <1>3, <1>4, <1>5 DEF SessionInv

-----------------------------------------------------------------------------
(* An answer of the server that writes no static field.                    *)
LEMMA AnswerStep ==
  ASSUME SessionInv, NEW c \in Conns, req[c].pc \in {"sent", "render"},
         NEW st \in Statuses, NEW body \in MailOrNull, Answer(c, st, body),
         UnchangedBrowser, UNCHANGED <<currentUserMail, overwritten>>,
         loggedIn \subseteq loggedIn', loggedIn' \subseteq Users, body \in Known',
         req[c].op \in Pages /\ st = "ok" => body = req[c].mail /\ body # Null,
         req[c].op = "index" /\ st = "ok" => req[c].pc = "render",
         req[c].op \in Scripts /\ st = "ok" => body = currentUserMail
  PROVE  SessionInv'
<1>1. /\ req' \in [Conns -> Request] /\ Others(c)
      /\ SameRequest(req'[c], req[c]) /\ req'[c].pc = "answered"
      /\ req'[c].status = st /\ req'[c].body = body
  BY AnswerEffect DEF SessionInv, TypeOK
<1>2. UNCHANGED <<cookie, page, requests, restarts, currentUserMail, overwritten>>
  BY DEF UnchangedBrowser
<1>3. TypeOK'
  BY <1>1, <1>2 DEF SessionInv, TypeOK
<1>4. AllKnown'
  BY <1>1, <1>2
  DEF SessionInv, AllKnown, KnownRequest, Known, Delivered, Others, SameRequest
<1>5. ShownUsersLoggedIn' /\ PageOfCookie' /\ UndisturbedPageIsOwn'
  BY <1>2 DEF SessionInv, ShownUsersLoggedIn, PageOfCookie, UndisturbedPageIsOwn
<1>6. Expectations'
  BY <1>1, <1>2 DEF SessionInv, Expectations, Expected, Delivered, Others, SameRequest
<1>7. OnePage'
  BY <1>1 DEF SessionInv, OnePage, Others, SameRequest
<1>8. FieldOfPage'
  BY <1>1, <1>2
  DEF SessionInv, FieldOfPage, Undisturbed, Delivered, Others, SameRequest, Scripts, Pages
<1> QED
  BY <1>3, <1>4, <1>5, <1>6, <1>7, <1>8 DEF SessionInv

LEMMA ServeAnswer ==
  ASSUME SessionInv, NEW c \in Conns,
         \/ Login(c) \/ Logout(c) \/ Unauthorized(c) \/ RenderIndex(c)
         \/ GetNextPage(c) \/ GetUserName(c) \/ GetPlaylists(c) \/ Fail(c)
  PROVE  SessionInv'
<1>0. /\ req[c] \in Request /\ req[c].mail \in MailOrNull
      /\ loggedIn \subseteq Users /\ currentUserMail \in MailOrNull
      /\ currentUserMail \in Known /\ Null \in MailOrNull /\ Null \in Known
      /\ Null \in Known' /\ KnownRequest(req[c])
  BY DEF SessionInv, TypeOK, AllKnown, Request, MailOrNull, Known
<1>1. CASE Login(c)
  <2>1. CASE /\ Accepts(req[c]) /\ Answer(c, "ok", req[c].mail)
             /\ loggedIn' = loggedIn \cup {req[c].mail}
    <3>1. req[c].mail \in Users
      BY <2>1, UsersAssumption DEF Accepts
    <3> QED
      BY <1>0, <1>1, <2>1, <3>1, AnswerStep
      DEF Login, At, Statuses, Known, Pages, Scripts
  <2>2. CASE Answer(c, "loginForm", Null) /\ UNCHANGED loggedIn
    BY <1>0, <1>1, <2>2, AnswerStep DEF Login, At, Statuses
  <2> QED
    BY <1>1, <2>1, <2>2 DEF Login
<1>2. CASE Logout(c)
  BY <1>0, <1>2, AnswerStep DEF Logout, At, Statuses
<1>3. CASE Unauthorized(c)
  BY <1>0, <1>3, AnswerStep DEF Unauthorized, Statuses
<1>4. CASE RenderIndex(c)
  BY <1>0, <1>4, AnswerStep
  DEF RenderIndex, At, Statuses, KnownRequest, Known, Pages, Scripts
<1>5. CASE GetNextPage(c)
  BY <1>0, <1>5, AnswerStep
  DEF GetNextPage, At, Statuses, KnownRequest, Known, Pages, Scripts
<1>6. CASE GetUserName(c)
  <2> DEFINE st == IF currentUserMail = Null THEN "error" ELSE "ok"
  <2>1. st \in Statuses /\ Answer(c, st, currentUserMail)
    BY <1>6 DEF GetUserName, Statuses
  <2> HIDE DEF st
  <2> QED
    BY <1>0, <1>6, <2>1, AnswerStep DEF GetUserName, At, Known, Pages, Scripts
<1>7. CASE GetPlaylists(c)
  <2> DEFINE st == IF currentUserMail = Null THEN "error" ELSE "ok"
  <2>1. st \in Statuses /\ Answer(c, st, currentUserMail)
    BY <1>7 DEF GetPlaylists, Statuses
  <2> HIDE DEF st
  <2> QED
    BY <1>0, <1>7, <2>1, AnswerStep DEF GetPlaylists, At, Known, Pages, Scripts
<1>8. CASE Fail(c)
  BY <1>0, <1>8, AnswerStep DEF Fail, At, Statuses
<1> QED
  BY <1>1, <1>2, <1>3, <1>4, <1>5, <1>6, <1>7, <1>8

-----------------------------------------------------------------------------
(* index() overwrites the field for every browser but the one that waits.  *)
LEMMA IndexStep ==
  ASSUME SessionInv, NEW c \in Conns, Index(c)
  PROVE  SessionInv'
<1> DEFINE r == [req[c] EXCEPT !.pc = "render"]
<1>1. /\ r \in Request /\ SameRequest(r, req[c]) /\ r.pc = "render"
      /\ r.body = req[c].body
  BY DEF SessionInv, TypeOK, Request, SameRequest
<1>2. req' = [req EXCEPT ![c] = r]
  BY DEF Index
<1> HIDE DEF r
<1>3. /\ req' \in [Conns -> Request] /\ Others(c) /\ SameRequest(req'[c], req[c])
      /\ req'[c].pc = "render" /\ req'[c].body = req[c].body
  BY <1>1, <1>2 DEF SessionInv, TypeOK, Others
<1>4. /\ UNCHANGED <<cookie, page, requests, restarts, loggedIn>>
      /\ req[c].op = "index" /\ req[c].mail # Null /\ currentUserMail' = req[c].mail
      /\ overwritten' \subseteq Browsers
      /\ \A b \in Browsers : b \notin overwritten' =>
           req[c].wanted /\ b = req[c].browser
  BY DEF Index, At, UnchangedBrowser
<1>5. req[c].mail \in MailOrNull /\ req[c].mail \in Known
  BY <1>4 DEF SessionInv, TypeOK, Request, AllKnown, KnownRequest
<1>6. TypeOK'
  BY <1>3, <1>4, <1>5 DEF SessionInv, TypeOK
<1>7. AllKnown'
  BY <1>3, <1>4, <1>5
  DEF SessionInv, AllKnown, KnownRequest, Known, Delivered, Others, SameRequest
<1>8. ShownUsersLoggedIn' /\ PageOfCookie'
  BY <1>4 DEF SessionInv, ShownUsersLoggedIn, PageOfCookie
<1>9. Expectations'
  BY <1>3, <1>4 DEF SessionInv, Expectations, Expected, Delivered, Others, SameRequest
<1>10. OnePage'
  BY <1>3 DEF SessionInv, OnePage, Others, SameRequest
<1>11. ASSUME NEW b \in Browsers, b \notin overwritten'
       PROVE  /\ page'[b] = Blank
              /\ \A d \in Conns : req'[d].wanted /\ req'[d].browser = b => d = c
  <2>1. req[c].wanted /\ b = req[c].browser /\ "index" \notin Scripts
    BY <1>4, <1>11 DEF Scripts
  <2>2. page[b] = Blank
    BY <1>4, <2>1 DEF SessionInv, Expectations, Expected
  <2>3. \A d \in Conns : req[d].wanted /\ req[d].browser = b => d = c
    BY <1>4, <2>1 DEF SessionInv, OnePage
  <2> QED
    BY <1>3, <1>4, <2>2, <2>3 DEF Others, SameRequest
<1>12. FieldOfPage'
  <2>1. ASSUME NEW d \in Conns, req'[d].wanted, req'[d].browser \notin overwritten'
        PROVE  Undisturbed(req[d])'
    <3>1. req'[d].browser \in Browsers
      BY <1>9, <2>1 DEF Expectations, Expected
    <3>2. d = c
      BY <1>11, <2>1, <3>1
    <3> QED
      BY <1>3, <1>4, <3>2 DEF Undisturbed, SameRequest, Scripts
  <2> QED
    BY <1>11, <2>1 DEF FieldOfPage
<1>13. UndisturbedPageIsOwn'
  BY <1>11, BlankIsPage DEF UndisturbedPageIsOwn
<1> QED
  BY <1>6, <1>7, <1>8, <1>9, <1>10, <1>12, <1>13 DEF SessionInv

(* A restart overwrites the field for every browser.                       *)
LEMMA RestartStep ==
  ASSUME SessionInv, Restart
  PROVE  SessionInv'
<1>0. restarts' \in 0 .. MaxRestarts
  <2>1. restarts \in 0 .. MaxRestarts /\ restarts < MaxRestarts
        /\ restarts' = restarts + 1
    BY DEF Restart, SessionInv, TypeOK
  <2> QED
    BY <2>1, LimitsAssumption
<1>1. /\ UNCHANGED <<cookie, page, loggedIn, requests>>
      /\ currentUserMail' = Null /\ overwritten' = Browsers
  BY DEF Restart
<1>2. ASSUME NEW c \in Conns
      PROVE  /\ req'[c] \in Request /\ SameRequest(req'[c], req[c])
             /\ req'[c].body = req[c].body /\ (req'[c].pc = "free" => req[c].pc = "free")
             /\ req'[c].pc # "render" /\ (Delivered(req[c])' => Delivered(req[c]))
  <2> DEFINE r == [req[c] EXCEPT !.pc = "answered", !.status = "error"]
  <2>1. /\ r \in Request /\ SameRequest(r, req[c]) /\ r.body = req[c].body
        /\ r.pc = "answered" /\ r.status = "error"
    BY DEF SessionInv, TypeOK, Request, SameRequest
  <2>2. req'[c] = r \/ (req'[c] = req[c] /\ req[c].pc # "render")
    BY DEF Restart
  <2> HIDE DEF r
  <2>3. req[c] \in Request
    BY DEF SessionInv, TypeOK
  <2>4. CASE req'[c] = r
    BY <2>1, <2>4 DEF Delivered
  <2>5. CASE req'[c] = req[c] /\ req[c].pc # "render"
    BY <2>3, <2>5 DEF Delivered, SameRequest
  <2> QED
    BY <2>2, <2>4, <2>5
<1>3. req' \in [Conns -> Request]
  <2>1. req' = [c \in Conns |-> req'[c]]
    BY DEF Restart
  <2> QED
    BY <1>2, <2>1
<1>4. TypeOK'
  BY <1>0, <1>1, <1>3 DEF SessionInv, TypeOK, MailOrNull
<1>5. AllKnown'
  <2> SUFFICES ASSUME NEW c \in Conns
               PROVE  KnownRequest(req[c])'
    BY <1>1 DEF AllKnown, Known
  <2> QED
    BY <1>1, <1>2 DEF SessionInv, AllKnown, KnownRequest, Known, SameRequest
<1>6. ShownUsersLoggedIn' /\ PageOfCookie'
  BY <1>1 DEF SessionInv, ShownUsersLoggedIn, PageOfCookie
<1>7. Expectations'
  <2> SUFFICES ASSUME NEW c \in Conns, req'[c].wanted
               PROVE  Expected(req[c], req[c].browser)'
    BY DEF Expectations
  <2>1. SameRequest(req'[c], req[c]) /\ Expected(req[c], req[c].browser)
    BY <1>2 DEF SessionInv, Expectations, SameRequest
  <2> QED
    BY <1>1, <1>2, <2>1 DEF Expected, SameRequest
<1>8. OnePage'
  BY <1>2 DEF SessionInv, OnePage, SameRequest
<1>9. FieldOfPage' /\ UndisturbedPageIsOwn'
  BY <1>1, <1>7 DEF FieldOfPage, UndisturbedPageIsOwn, Expectations, Expected
<1> QED
  BY <1>4, <1>5, <1>6, <1>7, <1>8, <1>9 DEF SessionInv

-----------------------------------------------------------------------------
(* A link or a form: the browser waits for that answer and for no other.   *)
LEMMA NavigateStep ==
  ASSUME SessionInv, NEW b \in Browsers, NEW c \in Conns,
         NEW op \in {"login", "logout"} \cup Pages, NEW mail \in MailOrNull,
         NEW right \in BOOLEAN, NEW r, r = Sent(b, op, mail, right),
         op # "login" => mail \in Known,
         op \in Pages => mail = cookie[b],
         overwritten' \in {overwritten, overwritten \cup {b}},
         op = "nextPage" /\ b \notin overwritten' => mail = currentUserMail,
         Navigate(b, c, r)
  PROVE  SessionInv'
<1>1. /\ r \in Request /\ r.pc = "sent" /\ r.op = op /\ r.browser = b
      /\ r.wanted /\ r.mail = mail /\ r.body = Null /\ op \notin Scripts
  <2>1. op \in {"login", "logout"} \cup Pages \cup Scripts /\ op \notin Scripts
    BY DEF Pages, Scripts
  <2> QED
    BY <2>1, SentIsRequest
<1>2. /\ UNCHANGED <<cookie, currentUserMail, loggedIn, restarts>>
      /\ page' = [page EXCEPT ![b] = Blank] /\ req'[c] = r
      /\ overwritten \subseteq overwritten' /\ overwritten' \subseteq Browsers
  BY DEF Navigate, SessionInv, TypeOK
<1>3. ASSUME NEW d \in Conns \ {c}
      PROVE  /\ req'[d] \in Request /\ req'[d].op = req[d].op
             /\ req'[d].browser = req[d].browser /\ req'[d].mail = req[d].mail
             /\ req'[d].pc = req[d].pc /\ req'[d].status = req[d].status
             /\ req'[d].body = req[d].body
             /\ req'[d].wanted => req[d].wanted /\ req[d].browser # b
  <2> DEFINE q == GivenUp(req[d])
  <2>1. /\ q \in Request /\ q.op = req[d].op /\ q.browser = req[d].browser
        /\ q.mail = req[d].mail /\ q.pc = req[d].pc /\ q.status = req[d].status
        /\ q.body = req[d].body /\ q.wanted = FALSE
    BY DEF SessionInv, TypeOK, Request, GivenUp
  <2>2. req'[d] = IF req[d].browser = b THEN q ELSE req[d]
    BY DEF Navigate
  <2>3. req[d] \in Request
    BY DEF SessionInv, TypeOK
  <2> HIDE DEF q
  <2> QED
    BY <2>1, <2>2, <2>3
<1>4. requests' \in 0 .. MaxRequests
  <2>1. requests \in 0 .. MaxRequests /\ requests < MaxRequests
        /\ requests' = requests + 1
    BY DEF Navigate, SessionInv, TypeOK
  <2> QED
    BY <2>1, LimitsAssumption
<1>5. page \in [Browsers -> Page] /\ page'[b] = Blank
      /\ \A x \in Browsers \ {b} : page'[x] = page[x]
  BY <1>2 DEF SessionInv, TypeOK
<1>6. TypeOK'
  <2>1. req' \in [Conns -> Request]
    <3>1. req' = [d \in Conns |-> req'[d]]
      BY DEF Navigate
    <3> QED
      BY <1>1, <1>2, <1>3, <3>1
  <2>2. page' \in [Browsers -> Page]
    BY <1>2, <1>5, BlankIsPage
  <2> QED
    BY <1>2, <1>4, <2>1, <2>2 DEF SessionInv, TypeOK
<1>7. AllKnown'
  <2> SUFFICES ASSUME NEW d \in Conns
               PROVE  KnownRequest(req[d])'
    BY <1>2 DEF SessionInv, AllKnown, Known
  <2>1. CASE d = c
    BY <1>1, <1>2, <2>1 DEF KnownRequest, Known, Delivered
  <2>2. CASE d # c
    BY <1>2, <1>3, <2>2 DEF SessionInv, AllKnown, KnownRequest, Known, Delivered
  <2> QED
    BY <2>1, <2>2
<1>8. ShownUsersLoggedIn' /\ PageOfCookie'
  BY <1>2, <1>5, BlankIsPage DEF SessionInv, ShownUsersLoggedIn, PageOfCookie
<1>9. Expectations'
  <2> SUFFICES ASSUME NEW d \in Conns, req'[d].wanted
               PROVE  Expected(req[d], req[d].browser)'
    BY DEF Expectations
  <2>1. CASE d = c
    BY <1>1, <1>2, <1>5, <2>1 DEF Expected, Delivered
  <2>2. CASE d # c
    <3>1. req[d].wanted /\ req[d].browser # b
      BY <1>3, <2>2
    <3>2. Expected(req[d], req[d].browser) /\ req[d].browser \in Browsers
      BY <3>1 DEF SessionInv, Expectations, Expected
    <3> QED
      BY <1>2, <1>3, <1>5, <2>2, <3>1, <3>2 DEF Expected, Delivered
  <2> QED
    BY <2>1, <2>2
<1>10. OnePage'
  BY <1>1, <1>2, <1>3 DEF SessionInv, OnePage
<1>11. FieldOfPage'
  <2>1. ASSUME NEW d \in Conns, req'[d].wanted, req'[d].browser \notin overwritten'
        PROVE  Undisturbed(req[d])'
    <3>1. CASE d = c
      BY <1>1, <1>2, <2>1, <3>1 DEF Undisturbed, Delivered, Pages
    <3>2. CASE d # c
      <4>1. Undisturbed(req[d])
        BY <1>2, <1>3, <2>1, <3>2 DEF SessionInv, FieldOfPage
      <4> QED
        BY <1>2, <1>3, <3>2, <4>1 DEF Undisturbed, Delivered
    <3> QED
      BY <3>1, <3>2
  <2>2. \A x \in Browsers \ overwritten' :
          page'[x] # Blank => page'[x].user = currentUserMail
    BY <1>2, <1>5 DEF SessionInv, FieldOfPage
  <2> QED
    BY <1>2, <2>1, <2>2 DEF FieldOfPage
<1>12. UndisturbedPageIsOwn'
  BY <1>2, <1>5, BlankIsPage DEF SessionInv, UndisturbedPageIsOwn
<1> QED
  BY <1>6, <1>7, <1>8, <1>9, <1>10, <1>11, <1>12 DEF SessionInv

LEMMA UserStep ==
  ASSUME SessionInv, NEW b \in Browsers, NEW c \in Conns,
         Open(b, c) \/ OpenNext(b, c) \/ Leave(b, c) \/ Submit(b, c)
  PROVE  SessionInv'
<1>1. cookie[b] \in MailOrNull /\ cookie[b] \in Known /\ Null \in MailOrNull
      /\ Null \in Known
  BY DEF SessionInv, TypeOK, ShownUsersLoggedIn, Known, MailOrNull
<1>2. CASE Open(b, c)
  <2>1. Navigate(b, c, Sent(b, "index", cookie[b], FALSE)) /\ FALSE \in BOOLEAN
        /\ "index" \in {"login", "logout"} \cup Pages /\ overwritten' = overwritten
    BY <1>2 DEF Open, Pages
  <2> QED
    BY <1>1, <2>1, NavigateStep
<1>3. CASE OpenNext(b, c)
  <2>1. Navigate(b, c, Sent(b, "nextPage", cookie[b], FALSE)) /\ FALSE \in BOOLEAN
        /\ "nextPage" \in {"login", "logout"} \cup Pages
        /\ overwritten' \in {overwritten, overwritten \cup {b}}
    BY <1>3 DEF OpenNext, Pages
  <2>2. b \notin overwritten' => cookie[b] = currentUserMail
    BY <1>3 DEF OpenNext, SessionInv, PageOfCookie, FieldOfPage
  <2> QED
    BY <1>1, <2>1, <2>2, NavigateStep
<1>4. CASE Leave(b, c)
  <2>1. Navigate(b, c, Sent(b, "logout", Null, FALSE)) /\ FALSE \in BOOLEAN
        /\ "logout" \in {"login", "logout"} \cup Pages /\ "logout" \notin Pages
        /\ overwritten' = overwritten
    BY <1>4 DEF Leave, Pages
  <2> QED
    BY <1>1, <2>1, NavigateStep
<1>5. CASE Submit(b, c)
  <2>1. PICK mail \in Users, right \in BOOLEAN :
          Navigate(b, c, Sent(b, "login", mail, right))
    BY <1>5 DEF Submit
  <2>2. overwritten' = overwritten /\ mail \in MailOrNull
        /\ "login" \in {"login", "logout"} \cup Pages /\ "login" \notin Pages
    BY <1>5 DEF Submit, MailOrNull, Pages
  <2> QED
    BY <2>1, <2>2, NavigateStep
<1> QED
  BY <1>2, <1>3, <1>4, <1>5

(* The view with the lists is opened again: they are asked for again.      *)
LEMMA ReopenStep ==
  ASSUME SessionInv, NEW b \in Browsers, Reopen(b)
  PROVE  SessionInv'
<1>1. /\ UNCHANGED <<cookie, currentUserMail, loggedIn, overwritten, restarts>>
      /\ page[b] # Blank /\ page \in [Browsers -> Page] /\ page[b] \in Page
  BY DEF Reopen, SessionInv, TypeOK
<1>2. page[b].user = cookie[b] /\ cookie[b] # Null
  BY <1>1 DEF SessionInv, PageOfCookie
<1> DEFINE p == Reopened(page[b])
<1>3. p \in Page /\ p.user = page[b].user /\ p.name = page[b].name /\ p.lists = Null
  <2>1. page[b].toAsk \cup {"playlists"} \in SUBSET Scripts
    BY <1>1 DEF Page, Scripts
  <2> QED
    BY <1>1, <2>1 DEF Page, MailOrNull, Reopened
<1>4. page' = [page EXCEPT ![b] = p]
  BY DEF Reopen
<1> HIDE DEF p
<1>5. /\ page' \in [Browsers -> Page] /\ page'[b] = p /\ p # Blank
      /\ \A x \in Browsers \ {b} : page'[x] = page[x]
  BY <1>1, <1>2, <1>3, <1>4, BlankIsPage
<1>6. ASSUME NEW d \in Conns
      PROVE  /\ req'[d] \in Request /\ req'[d].op = req[d].op
             /\ req'[d].browser = req[d].browser /\ req'[d].mail = req[d].mail
             /\ req'[d].pc = req[d].pc /\ req'[d].status = req[d].status
             /\ req'[d].body = req[d].body /\ (req'[d].wanted => req[d].wanted)
  <2> DEFINE q == GivenUp(req[d])
  <2>1. /\ q \in Request /\ q.op = req[d].op /\ q.browser = req[d].browser
        /\ q.mail = req[d].mail /\ q.pc = req[d].pc /\ q.status = req[d].status
        /\ q.body = req[d].body /\ q.wanted = FALSE
    BY DEF SessionInv, TypeOK, Request, GivenUp
  <2>2. req'[d] \in {q, req[d]} /\ req[d] \in Request
    BY DEF Reopen, SessionInv, TypeOK
  <2> HIDE DEF q
  <2> QED
    BY <2>1, <2>2
<1>7. requests' \in 0 .. MaxRequests
  <2>1. requests \in 0 .. MaxRequests /\ requests < MaxRequests
        /\ requests' = requests + 1
    BY DEF Reopen, SessionInv, TypeOK
  <2> QED
    BY <2>1, LimitsAssumption
<1>8. TypeOK'
  <2>1. req' = [d \in Conns |-> req'[d]]
    BY DEF Reopen
  <2> QED
    BY <1>1, <1>5, <1>6, <1>7, <2>1 DEF SessionInv, TypeOK
<1>9. AllKnown'
  <2> SUFFICES ASSUME NEW d \in Conns
               PROVE  KnownRequest(req[d])'
    BY <1>1 DEF SessionInv, AllKnown, Known
  <2> QED
    BY <1>1, <1>6 DEF SessionInv, AllKnown, KnownRequest, Known, Delivered
<1>10. ShownUsersLoggedIn' /\ PageOfCookie' /\ UndisturbedPageIsOwn'
  <2>1. ASSUME NEW x \in Browsers
        PROVE  /\ page'[x].user = page[x].user /\ page'[x].name = page[x].name
               /\ page'[x].lists \in {page[x].lists, Null}
               /\ page'[x] # Blank => page[x] # Blank
    BY <1>1, <1>3, <1>5
  <2> QED
    BY <1>1, <2>1
    DEF SessionInv, ShownUsersLoggedIn, PageOfCookie, UndisturbedPageIsOwn
<1>11. Expectations'
  <2> SUFFICES ASSUME NEW d \in Conns, req'[d].wanted
               PROVE  Expected(req[d], req[d].browser)'
    BY DEF Expectations
  <2>1. Expected(req[d], req[d].browser)
    BY <1>6 DEF SessionInv, Expectations
  <2>2. req[d].op \notin Scripts => req[d].browser # b
    BY <1>1, <2>1 DEF Expected
  <2> QED
    BY <1>1, <1>3, <1>5, <1>6, <2>1, <2>2 DEF Expected, Delivered
<1>12. OnePage'
  BY <1>6 DEF SessionInv, OnePage
<1>13. FieldOfPage'
  <2>1. ASSUME NEW d \in Conns, req'[d].wanted, req'[d].browser \notin overwritten'
        PROVE  Undisturbed(req[d])'
    BY <1>1, <1>6, <2>1 DEF SessionInv, FieldOfPage, Undisturbed, Delivered
  <2>2. \A x \in Browsers \ overwritten :
          page'[x] # Blank => page'[x].user = currentUserMail
    BY <1>1, <1>3, <1>5 DEF SessionInv, FieldOfPage
  <2> QED
    BY <1>1, <2>1, <2>2 DEF FieldOfPage
<1> QED
  BY <1>8, <1>9, <1>10, <1>11, <1>12, <1>13 DEF SessionInv

(* A script of the page asks: the page stays what it is.                   *)
LEMMA AskStep ==
  ASSUME SessionInv, NEW b \in Browsers, NEW c \in Conns, Ask(b, c)
  PROVE  SessionInv'
<1>1. PICK s \in page[b].toAsk :
        /\ req' = [req EXCEPT ![c] = Sent(b, s, cookie[b], FALSE)]
        /\ page' = [page EXCEPT ![b].toAsk = @ \ {s}]
  BY DEF Ask
<1>2. UNCHANGED <<cookie, currentUserMail, loggedIn, overwritten, requests, restarts>>
  BY DEF Ask
<1>3. page \in [Browsers -> Page] /\ req \in [Conns -> Request]
      /\ cookie[b] \in MailOrNull /\ page[b] \in Page
  BY DEF SessionInv, TypeOK
<1>4. s \in Scripts /\ page[b] # Blank
  BY <1>1, <1>3, BlankIsPage DEF Page
<1>5. page[b].user = cookie[b] /\ cookie[b] # Null /\ cookie[b] \in Known
  BY <1>4 DEF SessionInv, PageOfCookie, ShownUsersLoggedIn, Known
<1> DEFINE r == Sent(b, s, cookie[b], FALSE)
<1>6. /\ r \in Request /\ r.pc = "sent" /\ r.op = s /\ r.browser = b
      /\ r.wanted /\ r.mail = cookie[b] /\ r.body = Null
  <2>1. s \in {"login", "logout"} \cup Pages \cup Scripts /\ FALSE \in BOOLEAN
    BY <1>4
  <2> QED
    BY <1>3, <2>1 DEF Sent, Request, MailOrNull
<1>7. req' = [req EXCEPT ![c] = r]
  BY <1>1
<1> HIDE DEF r
<1>8. /\ req' \in [Conns -> Request] /\ Others(c) /\ req'[c] = r
  BY <1>3, <1>6, <1>7 DEF Others
<1> DEFINE p == [page[b] EXCEPT !.toAsk = @ \ {s}]
<1>9. p \in Page /\ p.user = page[b].user /\ p.name = page[b].name
      /\ p.lists = page[b].lists
  BY <1>3 DEF Page
<1>10. page' = [page EXCEPT ![b] = p]
  BY <1>1
<1> HIDE DEF p
<1>11. /\ page' \in [Browsers -> Page] /\ page'[b] # Blank
       /\ \A x \in Browsers : /\ page'[x].user = page[x].user
                              /\ page'[x].name = page[x].name
                              /\ page'[x].lists = page[x].lists
       /\ \A x \in Browsers \ {b} : page'[x] = page[x]
  BY <1>3, <1>5, <1>9, <1>10, BlankIsPage
<1>12. TypeOK'
  BY <1>2, <1>8, <1>11 DEF SessionInv, TypeOK
<1>13. AllKnown'
  <2> SUFFICES ASSUME NEW d \in Conns
               PROVE  KnownRequest(req[d])'
    BY <1>2 DEF SessionInv, AllKnown, Known
  <2>1. CASE d = c
    BY <1>2, <1>4, <1>5, <1>6, <1>8, <2>1
    DEF KnownRequest, Known, Delivered, Scripts, Pages
  <2>2. CASE d # c
    BY <1>2, <1>8, <2>2
    DEF SessionInv, AllKnown, KnownRequest, Known, Delivered, Others
  <2> QED
    BY <2>1, <2>2
<1>14. ShownUsersLoggedIn' /\ UndisturbedPageIsOwn'
  BY <1>2, <1>11 DEF SessionInv, ShownUsersLoggedIn, UndisturbedPageIsOwn
<1>15. PageOfCookie'
  BY <1>2, <1>5, <1>11 DEF SessionInv, PageOfCookie
<1>16. Expectations'
  <2> SUFFICES ASSUME NEW d \in Conns, req'[d].wanted
               PROVE  Expected(req[d], req[d].browser)'
    BY DEF Expectations
  <2>1. CASE d = c
    BY <1>4, <1>5, <1>6, <1>8, <1>11, <2>1 DEF Expected, Scripts, Pages
  <2>2. CASE d # c
    <3>1. req'[d] = req[d] /\ Expected(req[d], req[d].browser)
      BY <1>8, <2>2 DEF SessionInv, Expectations, Others
    <3>2. req[d].op \notin Scripts => req[d].browser # b
      BY <1>4, <3>1 DEF Expected
    <3> QED
      BY <1>2, <1>11, <3>1, <3>2 DEF Expected, Delivered
  <2> QED
    BY <2>1, <2>2
<1>17. OnePage'
  <2>1. ASSUME NEW d \in Conns \ {c}, req[d].wanted, req[d].browser = b
        PROVE  req[d].op \in Scripts
    BY <1>4, <2>1 DEF SessionInv, Expectations, Expected
  <2> QED
    BY <1>4, <1>6, <1>8, <2>1 DEF SessionInv, OnePage, Others
<1>18. FieldOfPage'
  <2>1. ASSUME NEW d \in Conns, req'[d].wanted, req'[d].browser \notin overwritten'
        PROVE  Undisturbed(req[d])'
    <3>1. CASE d = c
      BY <1>4, <1>6, <1>8, <3>1 DEF Undisturbed, Delivered, Scripts
    <3>2. CASE d # c
      BY <1>2, <1>8, <2>1, <3>2
      DEF SessionInv, FieldOfPage, Undisturbed, Delivered, Others
    <3> QED
      BY <3>1, <3>2
  <2>2. \A x \in Browsers \ overwritten :
          page'[x] # Blank => page'[x].user = currentUserMail
    BY <1>4, <1>11 DEF SessionInv, FieldOfPage
  <2> QED
    BY <1>2, <2>1, <2>2 DEF FieldOfPage
<1> QED
  BY <1>12, <1>13, <1>14, <1>15, <1>16, <1>17, <1>18 DEF SessionInv

-----------------------------------------------------------------------------
(* An answer is taken: the request on c becomes r, and the page and the    *)
(* cookie of its browser b become p and k.                                 *)
Exchanged(c, b, r, p, k) ==
  /\ req[c].wanted /\ b = req[c].browser
  /\ r \in Request /\ p \in Page /\ k \in MailOrNull
  /\ req' = [req EXCEPT ![c] = r]
  /\ page' = [page EXCEPT ![b] = p] /\ cookie' = [cookie EXCEPT ![b] = k]
  /\ UNCHANGED <<currentUserMail, loggedIn, overwritten, requests, restarts>>
  /\ r.body = Null /\ k \in Known /\ {p.name, p.lists} \subseteq Known
  /\ \/ ~r.wanted /\ r.op = "none" /\ r.mail = Null
     \/ /\ r.pc = "sent" /\ r.op = "index" /\ r.browser = b
        /\ r.mail = k /\ p = Blank /\ req[c].op \notin Scripts
  /\ k # cookie[b] => req[c].op \notin Scripts
  /\ \/ p = page[b] /\ p = Blank
     \/ req[c].op \notin Scripts /\ p # Blank
     \/ req[c].op \in Scripts /\ p # Blank /\ page[b] # Blank
  /\ p # Blank => p.user = k /\ k # Null
  /\ b \notin overwritten /\ p # Blank =>
       p.user = currentUserMail /\ {p.name, p.lists} \ {Null} \subseteq {p.user}

LEMMA ArriveStep ==
  ASSUME SessionInv, NEW c \in Conns, NEW b, NEW r, NEW p, NEW k,
         Exchanged(c, b, r, p, k)
  PROVE  SessionInv'
<1> USE DEF Exchanged
<1>1. /\ req \in [Conns -> Request] /\ page \in [Browsers -> Page]
      /\ cookie \in [Browsers -> MailOrNull]
      /\ b \in Browsers /\ Expected(req[c], b)
  BY DEF SessionInv, TypeOK, Expectations, Expected
<1>2. /\ req' \in [Conns -> Request] /\ Others(c) /\ req'[c] = r
      /\ page' \in [Browsers -> Page] /\ page'[b] = p
      /\ cookie' \in [Browsers -> MailOrNull] /\ cookie'[b] = k
      /\ \A x \in Browsers \ {b} : page'[x] = page[x] /\ cookie'[x] = cookie[x]
  BY <1>1 DEF Others
<1>3. TypeOK'
  BY <1>2 DEF SessionInv, TypeOK
<1>4. AllKnown'
  <2> SUFFICES ASSUME NEW d \in Conns
               PROVE  KnownRequest(req[d])'
    BY DEF SessionInv, AllKnown, Known
  <2>1. CASE d = c
    BY <1>2, <2>1 DEF KnownRequest, Known, Delivered, Pages
  <2>2. CASE d # c
    BY <1>2, <2>2 DEF SessionInv, AllKnown, KnownRequest, Known, Delivered, Others
  <2> QED
    BY <2>1, <2>2
<1>5. ShownUsersLoggedIn' /\ PageOfCookie'
  <2>1. {p.user, p.name, p.lists, k} \subseteq Known
    BY BlankIsPage DEF Known
  <2>2. ASSUME NEW x \in Browsers
        PROVE  {cookie'[x], page'[x].user, page'[x].name, page'[x].lists} \subseteq Known
    BY <1>2, <2>1, <2>2 DEF SessionInv, ShownUsersLoggedIn, Known
  <2>3. ShownUsersLoggedIn'
    BY <2>2 DEF ShownUsersLoggedIn, Known
  <2>4. PageOfCookie'
    BY <1>2 DEF SessionInv, PageOfCookie
  <2> QED
    BY <2>3, <2>4
<1>6. UndisturbedPageIsOwn'
  <2>1. b \notin overwritten => {p.name, p.lists} \ {Null} \subseteq {p.user}
    BY BlankIsPage
  <2> QED
    BY <1>2, <2>1 DEF SessionInv, UndisturbedPageIsOwn
<1>7. ASSUME NEW d \in Conns \ {c}, req[d].wanted, req[d].browser = b
      PROVE  /\ req[c].op \in Scripts /\ req[d].op \in Scripts
             /\ k = cookie[b] /\ p # Blank /\ p.user = page[b].user
  <2>1. req[c].op \in Scripts /\ req[d].op \in Scripts
    BY <1>7 DEF SessionInv, OnePage
  <2>2. page[b].user # Null /\ page[b] # Blank
    BY <1>1, <2>1, BlankIsPage DEF Expected
  <2>3. k = cookie[b] /\ p # Blank
    BY <2>1, <2>2
  <2>4. page[b].user = cookie[b]
    BY <1>1, <2>2 DEF SessionInv, PageOfCookie
  <2> QED
    BY <2>1, <2>3, <2>4
<1>8. Expectations'
  <2> SUFFICES ASSUME NEW d \in Conns, req'[d].wanted
               PROVE  Expected(req[d], req[d].browser)'
    BY DEF Expectations
  <2>1. CASE d = c
    BY <1>1, <1>2, <2>1 DEF Expected, Delivered, Scripts
  <2>2. CASE d # c
    <3>1. req'[d] = req[d] /\ Expected(req[d], req[d].browser)
      BY <1>2, <2>2 DEF SessionInv, Expectations, Others
    <3>2. CASE req[d].browser = b
      BY <1>2, <1>7, <2>2, <3>1, <3>2 DEF Expected, Scripts, Pages
    <3>3. CASE req[d].browser # b
      BY <1>2, <3>1, <3>3 DEF Expected, Delivered
    <3> QED
      BY <3>2, <3>3
  <2> QED
    BY <2>1, <2>2
<1>9. OnePage'
  BY <1>2, <1>7 DEF SessionInv, OnePage, Others
<1>10. FieldOfPage'
  <2>1. ASSUME NEW d \in Conns, req'[d].wanted, req'[d].browser \notin overwritten'
        PROVE  Undisturbed(req[d])'
    <3>1. CASE d = c
      BY <1>2, <2>1, <3>1 DEF Undisturbed, Delivered, Scripts
    <3>2. CASE d # c
      BY <1>2, <2>1, <3>2
      DEF SessionInv, FieldOfPage, Undisturbed, Delivered, Others
    <3> QED
      BY <3>1, <3>2
  <2>2. \A x \in Browsers \ overwritten :
          page'[x] # Blank => page'[x].user = currentUserMail
    BY <1>2 DEF SessionInv, FieldOfPage
  <2> QED
    BY <2>1, <2>2 DEF FieldOfPage
<1> QED
  BY <1>3, <1>4, <1>5, <1>6, <1>8, <1>9, <1>10 DEF SessionInv

(* An answer nobody waits for, or that changes nothing.                    *)
LEMMA DropStep ==
  ASSUME SessionInv, NEW c \in Conns, req' = [req EXCEPT ![c] = Free],
         UNCHANGED <<cookie, page, currentUserMail, loggedIn, overwritten,
                     requests, restarts>>
  PROVE  SessionInv'
<1>1. req' \in [Conns -> Request] /\ Others(c) /\ req'[c] = Free
  BY FreeIsRequest DEF SessionInv, TypeOK, Others
<1>2. TypeOK' /\ ShownUsersLoggedIn' /\ PageOfCookie' /\ UndisturbedPageIsOwn'
  BY <1>1
  DEF SessionInv, TypeOK, ShownUsersLoggedIn, PageOfCookie, UndisturbedPageIsOwn
<1>3. AllKnown'
  <2> SUFFICES ASSUME NEW d \in Conns
               PROVE  KnownRequest(req[d])'
    BY DEF SessionInv, AllKnown, Known
  <2>1. CASE d = c
    BY <1>1, <2>1, FreeIsRequest DEF KnownRequest, Known, Delivered, Pages
  <2>2. CASE d # c
    BY <1>1, <2>2 DEF SessionInv, AllKnown, KnownRequest, Known, Delivered, Others
  <2> QED
    BY <2>1, <2>2
<1>4. ASSUME NEW d \in Conns, req'[d].wanted
      PROVE  d # c /\ req'[d] = req[d]
  BY <1>1, <1>4, FreeIsRequest DEF Others
<1>5. Expectations' /\ OnePage' /\ FieldOfPage'
  <2>1. Expectations'
    BY <1>4 DEF SessionInv, Expectations, Expected, Delivered
  <2>2. OnePage'
    BY <1>4 DEF SessionInv, OnePage
  <2>3. FieldOfPage'
    BY <1>4 DEF SessionInv, FieldOfPage, Undisturbed, Delivered
  <2> QED
    BY <2>1, <2>2, <2>3
<1> QED
  BY <1>2, <1>3, <1>5 DEF SessionInv

(* One case for every answer that changes what a browser holds.            *)
LEMMA ArriveKeeps ==
  ASSUME SessionInv, NEW c \in Conns, Arrive(c)
  PROVE  SessionInv'
<1>1. /\ req[c].pc = "answered" /\ req[c] \in Request /\ KnownRequest(req[c])
      /\ UNCHANGED <<currentUserMail, loggedIn, overwritten, requests, restarts>>
  BY DEF Arrive, SessionInv, TypeOK, AllKnown
<1>2. CASE ~req[c].wanted
  BY <1>2, DropStep DEF Arrive
<1>3. CASE req[c].wanted
  <2>1. PICK b : b = req[c].browser
    OBVIOUS
  <2>2. /\ b \in Browsers /\ Expected(req[c], b) /\ page[b] \in Page
        /\ cookie[b] \in MailOrNull /\ cookie[b] \in Known
        /\ {page[b].name, page[b].lists} \subseteq Known
        /\ req[c].body \in MailOrNull /\ req[c].body \in Known
        /\ Null \in MailOrNull /\ Null \in Known
        /\ Free \in Request /\ Free.body = Null
        /\ ~Free.wanted /\ Free.op = "none" /\ Free.mail = Null
    BY <1>1, <1>3, <2>1, FreeIsRequest
    DEF SessionInv, TypeOK, Request, Expectations, Expected, KnownRequest,
        ShownUsersLoggedIn, Known, MailOrNull
  <2>3. /\ cookie' = [cookie EXCEPT ![b] = CookieAfter(req[c], cookie[b])]
        /\ page' = [page EXCEPT ![b] = PageAfter(req[c], page[b])]
        /\ req' = [req EXCEPT ![c] = IF Redirected(req[c])
                     THEN Sent(b, "index", req[c].body, FALSE) ELSE Free]
    BY <1>3, <2>1 DEF Arrive
  <2>4. b \notin overwritten =>
          /\ Undisturbed(req[c])
          /\ page[b] # Blank => page[b].user = currentUserMail
          /\ {page[b].name, page[b].lists} \ {Null} \subseteq {page[b].user}
    BY <1>3, <2>1, <2>2 DEF SessionInv, FieldOfPage, UndisturbedPageIsOwn
  <2>5. page[b] # Blank => page[b].user = cookie[b] /\ cookie[b] # Null
    BY <2>2 DEF SessionInv, PageOfCookie
  <2>6. CASE Redirected(req[c])
    <3>1. PICK r : r = Sent(b, "index", req[c].body, FALSE)
      OBVIOUS
    <3>2. /\ r \in Request /\ r.pc = "sent" /\ r.op = "index" /\ r.browser = b
          /\ r.mail = req[c].body /\ r.body = Null
      <4>1. "index" \in {"login", "logout"} \cup Pages \cup Scripts
            /\ FALSE \in BOOLEAN
        BY DEF Pages
      <4> QED
        BY <2>2, <3>1, <4>1 DEF Sent, Request, MailOrNull
    <3>3. req[c].op = "login" /\ req[c].op \notin Scripts /\ page[b] = Blank
      BY <2>2, <2>6 DEF Redirected, Expected, Scripts
    <3>4. CookieAfter(req[c], cookie[b]) = req[c].body
          /\ PageAfter(req[c], page[b]) = page[b]
      BY <2>6, <3>3 DEF CookieAfter, PageAfter, Pages
    <3>5. /\ req' = [req EXCEPT ![c] = r] /\ page' = [page EXCEPT ![b] = page[b]]
          /\ cookie' = [cookie EXCEPT ![b] = req[c].body]
      BY <2>3, <2>6, <3>1, <3>4
    <3>6. Exchanged(c, b, r, page[b], req[c].body)
      BY <1>1, <1>3, <2>1, <2>2, <3>2, <3>3, <3>5, BlankIsPage DEF Exchanged
    <3> QED
      BY <3>6, ArriveStep
  <2>7. CASE ~Redirected(req[c]) /\ req[c].op = "logout" /\ req[c].status # "error"
    <3>1. req[c].op \notin Scripts /\ page[b] = Blank
      BY <2>2, <2>7 DEF Expected, Scripts
    <3>2. CookieAfter(req[c], cookie[b]) = Null /\ PageAfter(req[c], page[b]) = page[b]
      BY <2>7 DEF CookieAfter, PageAfter, Pages
    <3>3. /\ req' = [req EXCEPT ![c] = Free] /\ page' = [page EXCEPT ![b] = page[b]]
          /\ cookie' = [cookie EXCEPT ![b] = Null]
      BY <2>3, <2>7, <3>2
    <3>4. Exchanged(c, b, Free, page[b], Null)
      BY <1>1, <1>3, <2>1, <2>2, <3>1, <3>3, BlankIsPage DEF Exchanged
    <3> QED
      BY <3>4, ArriveStep
  <2>8. CASE req[c].op \in Pages /\ req[c].status = "ok"
    <3>1. PICK p : p = [user |-> req[c].body, name |-> Null, lists |-> Null,
                        toAsk |-> Scripts]
      OBVIOUS
    <3>2. /\ p \in Page /\ p.user = req[c].body /\ p.name = Null /\ p.lists = Null
      BY <2>2, <3>1 DEF Page
    <3>3. /\ req[c].op \notin Scripts /\ Delivered(req[c])
          /\ req[c].mail = cookie[b] /\ req[c].body = cookie[b] /\ cookie[b] # Null
      BY <1>1, <2>2, <2>8 DEF Expected, Scripts, Pages, Delivered, KnownRequest
    <3>4. /\ p.user = cookie[b] /\ {p.name, p.lists} \subseteq Known
          /\ b \notin overwritten =>
               p.user = currentUserMail /\ {p.name, p.lists} \ {Null} \subseteq {p.user}
      BY <2>2, <2>4, <2>8, <3>2, <3>3 DEF Undisturbed, Pages
    <3>5. p # Blank
      BY <3>2, <3>3, BlankIsPage
    <3>6. /\ CookieAfter(req[c], cookie[b]) = cookie[b] /\ ~Redirected(req[c])
          /\ PageAfter(req[c], page[b]) = p
      BY <2>8, <3>1 DEF CookieAfter, PageAfter, Redirected, Pages
    <3>7. /\ req' = [req EXCEPT ![c] = Free] /\ page' = [page EXCEPT ![b] = p]
          /\ cookie' = [cookie EXCEPT ![b] = cookie[b]]
      BY <2>3, <3>6
    <3>8. Exchanged(c, b, Free, p, cookie[b])
      BY <1>1, <1>3, <2>1, <2>2, <3>2, <3>3, <3>4, <3>5, <3>7 DEF Exchanged
    <3> QED
      BY <3>8, ArriveStep
  <2>9. CASE req[c].op \in Scripts /\ req[c].status = "ok"
    <3>1. /\ page[b] # Blank /\ page[b].user # Null /\ ~Redirected(req[c])
          /\ CookieAfter(req[c], cookie[b]) = cookie[b]
      BY <2>2, <2>9, BlankIsPage DEF Expected, Scripts, Redirected, CookieAfter
    <3>2. b \notin overwritten => req[c].body = currentUserMail
      BY <1>1, <2>4, <2>9 DEF Undisturbed, Delivered
    <3>3. PICK p : p = PageAfter(req[c], page[b])
      OBVIOUS
    <3>4. /\ p \in Page /\ p.user = page[b].user
          /\ page[b].user = cookie[b] /\ cookie[b] # Null
          /\ p.name \in {page[b].name, req[c].body}
          /\ p.lists \in {page[b].lists, req[c].body}
      BY <2>2, <2>5, <2>9, <3>1, <3>3 DEF PageAfter, Scripts, Pages, Page
    <3>5. p # Blank
      BY <3>1, <3>4, BlankIsPage
    <3>6. /\ req' = [req EXCEPT ![c] = Free] /\ page' = [page EXCEPT ![b] = p]
          /\ cookie' = [cookie EXCEPT ![b] = cookie[b]]
      BY <2>3, <3>1, <3>3
    <3>7. {p.name, p.lists} \subseteq Known
      BY <2>2, <3>4
    <3>8. b \notin overwritten =>
            p.user = currentUserMail /\ {p.name, p.lists} \ {Null} \subseteq {p.user}
      BY <2>4, <3>1, <3>2, <3>4
    <3>9. Exchanged(c, b, Free, p, cookie[b])
      BY <1>1, <1>3, <2>1, <2>2, <2>9, <3>1, <3>4, <3>5, <3>6, <3>7, <3>8
      DEF Exchanged
    <3> QED
      BY <3>9, ArriveStep
  <2>10. CASE /\ ~Redirected(req[c])
              /\ ~(req[c].op = "logout" /\ req[c].status # "error")
              /\ ~(req[c].op \in Pages \cup Scripts /\ req[c].status = "ok")
    <3>1. CookieAfter(req[c], cookie[b]) = cookie[b]
          /\ PageAfter(req[c], page[b]) = page[b]
      BY <2>10 DEF CookieAfter, PageAfter, Scripts
    <3>2. UNCHANGED <<cookie, page>>
      BY <2>3, <3>1 DEF SessionInv, TypeOK
    <3>3. req' = [req EXCEPT ![c] = Free]
      BY <2>3, <2>10
    <3> QED
      BY <1>1, <3>2, <3>3, DropStep
  <2> QED
    BY <2>6, <2>7, <2>8, <2>9, <2>10
<1> QED
  BY <1>2, <1>3

LEMMA SessionStep == SessionInv /\ [Next]_vars => SessionInv'
<1> SUFFICES ASSUME SessionInv, [Next]_vars PROVE SessionInv'
  OBVIOUS
<1>1. CASE UNCHANGED vars
  BY <1>1
  DEF vars, SessionInv, TypeOK, AllKnown, KnownRequest, Known, ShownUsersLoggedIn,
      Expectations, Expected, Delivered, OnePage, PageOfCookie, FieldOfPage,
      Undisturbed, UndisturbedPageIsOwn
<1>2. ASSUME NEW b \in Browsers, NEW c \in Conns,
             Open(b, c) \/ OpenNext(b, c) \/ Leave(b, c) \/ Submit(b, c) \/ Ask(b, c)
      PROVE  SessionInv'
  BY <1>2, UserStep, AskStep
<1>5. ASSUME NEW b \in Browsers, Reopen(b)
      PROVE  SessionInv'
  BY <1>5, ReopenStep
<1>3. ASSUME NEW c \in Conns, Serve(c) \/ Fail(c) \/ Arrive(c)
      PROVE  SessionInv'
  BY <1>3, ServeAnswer, IndexStep, ArriveKeeps DEF Serve
<1>4. CASE Restart
  BY <1>4, RestartStep
<1> QED
  BY <1>1, <1>2, <1>3, <1>4, <1>5 DEF Next, Finished

LEMMA SessionInvariant == Spec => []SessionInv
BY SessionInit, SessionStep, PTL DEF Spec

(* For any number of browsers and connections: getUserName() and           *)
(* getPlaylists(), which check nothing, only reveal users who logged in.   *)
THEOREM OnlyLoggedInUsersAreShown == Spec => []ShownUsersLoggedIn
<1>1. SessionInv => ShownUsersLoggedIn
  BY DEF SessionInv
<1> QED
  BY <1>1, SessionInvariant, PTL

(* A page whose static field no other index() and no restart wrote since   *)
(* shows the name and the lists of its own user, in every interleaving of  *)
(* scripts, given-up answers, logins and logouts.                          *)
THEOREM UndisturbedPagesAreOwn == Spec => []UndisturbedPageIsOwn
<1>1. SessionInv => UndisturbedPageIsOwn
  BY DEF SessionInv
<1> QED
  BY <1>1, SessionInvariant, PTL

(* The types, above all that an answer is about a user or about nobody,    *)
(* whatever is given up or restarted while it is on its way.               *)
THEOREM SessionTypes == Spec => []TypeOK
<1>1. SessionInv => TypeOK
  BY DEF SessionInv
<1> QED
  BY <1>1, SessionInvariant, PTL
=============================================================================
