----------------------- MODULE PlayListHistoryProofs ------------------------
(***************************************************************************)
(* First the invariants of PlayListService for any number of workers,      *)
(* users, songs and playlists, both comparisons of isMemberOf and any      *)
(* bounds; then, on top of them, what a client may conclude from an answer *)
(* of the service: HInv of PlayListHistory is inductive.                   *)
(***************************************************************************)
EXTENDS PlayListHistory, FiniteSetTheorems, SequenceTheorems, WellFoundedInduction, TLAPS

(* Taking position k out of a sequence: its type, its length, its elements.*)
LEMMA RemoveAtType ==
  ASSUME NEW S, NEW t \in Seq(S), NEW k \in 1 .. Len(t)
  PROVE  /\ SX!RemoveAt(t, k) \in Seq(S)
         /\ Len(SX!RemoveAt(t, k)) = Len(t) - 1
         /\ \A j \in 1 .. Len(t) - 1 :
              SX!RemoveAt(t, k)[j] = IF j < k THEN t[j] ELSE t[j + 1]
<1> DEFINE a == SubSeq(t, 1, k - 1)
           b == SubSeq(t, k + 1, Len(t))
<1>1. Len(t) \in Nat /\ \A i \in 1 .. Len(t) : t[i] \in S
  BY ElementOfSeq, LenProperties
<1>2. /\ a \in Seq(S) /\ Len(a) = k - 1
      /\ \A i \in 1 .. k - 1 : a[i] = t[i]
  <2>1. \A i \in 1 .. k - 1 : t[i] \in S
    BY <1>1
  <2> HIDE DEF a
  <2>2. a = SubSeq(t, 1, k - 1)
    BY DEF a
  <2> QED
    BY <1>1, <2>1, <2>2, SubSeqProperties
<1>3. /\ b \in Seq(S) /\ Len(b) = Len(t) - k
      /\ \A i \in 1 .. Len(t) - k : b[i] = t[k + i]
  <2>1. \A i \in k + 1 .. Len(t) : t[i] \in S
    BY <1>1
  <2> HIDE DEF b
  <2>2. b = SubSeq(t, k + 1, Len(t))
    BY DEF b
  <2> QED
    BY <1>1, <2>1, <2>2, SubSeqProperties
<1>4. SX!RemoveAt(t, k) = a \o b
  BY DEF SX!RemoveAt
<1> HIDE DEF a, b
<1>5. /\ a \o b \in Seq(S)
      /\ Len(a \o b) = Len(a) + Len(b)
      /\ \A i \in 1 .. Len(a) + Len(b) :
           (a \o b)[i] = IF i <= Len(a) THEN a[i] ELSE b[i - Len(a)]
  BY <1>2, <1>3, ConcatProperties
<1> QED
  BY <1>1, <1>2, <1>3, <1>4, <1>5

(* Every non-empty set of naturals has a least element.                    *)
LEMMA LeastElement ==
  ASSUME NEW I, I \subseteq Nat, I # {}
  PROVE  \E x \in I : \A y \in I : x <= y
<1>1. \E R : /\ IsWellFoundedOn(R, Nat)
             /\ \A x, y \in Nat : y < x => <<y, x>> \in R
  <2>1. \A x, y \in Nat : y < x => <<y, x>> \in OpToRel(<, Nat)
    BY Zenon DEF OpToRel
  <2> QED
    BY <2>1, NatLessThanWellFounded, Zenon
<1>2. PICK R : /\ IsWellFoundedOn(R, Nat)
               /\ \A x, y \in Nat : y < x => <<y, x>> \in R
  BY <1>1
<1>3. PICK x \in I : \A y \in I : ~ (<<y, x>> \in R)
  BY <1>2, WFMin
<1>4. ASSUME NEW y \in I
      PROVE  x <= y
  <2>1. x \in Nat /\ y \in Nat
    OBVIOUS
  <2>2. ~ (y < x)
    BY <1>2, <1>3, <2>1, Zenon
  <2> QED
    BY <2>1, <2>2
<1> QED
  BY <1>4

(* List.remove(song) of Java: no change, or one position that held it.     *)
LEMMA RemoveFirstIsRemoveAt ==
  ASSUME NEW S, NEW t \in Seq(S), NEW s
  PROVE  \/ SX!RemoveFirst(t, s) = t
         \/ \E k \in 1 .. Len(t) : t[k] = s /\ SX!RemoveFirst(t, s) = SX!RemoveAt(t, k)
<1>1. CASE ~ \E i \in 1 .. Len(t) : t[i] = s
  BY <1>1 DEF SX!RemoveFirst
<1>2. CASE \E i \in 1 .. Len(t) : t[i] = s
  <2> DEFINE I == {i \in 1 .. Len(t) : t[i] = s}
             m == SX!Min(I)
  <2>1. SX!RemoveFirst(t, s) = SX!RemoveAt(t, m)
    BY <1>2 DEF SX!RemoveFirst, SX!SelectInSeq
  <2>2. \E x \in I : \A y \in I : x <= y
    <3>1. I \subseteq Nat /\ I # {}
      BY <1>2, LenProperties
    <3> HIDE DEF I
    <3> QED
      BY <3>1, LeastElement
  <2>3. m \in I
    BY <2>2 DEF SX!Min
  <2> QED
    BY <2>1, <2>3
<1> QED
  BY <1>1, <1>2

(* The songs that deleteUserPlayListSong leaves: at most one position less,*)
(* and every other song still there.                                       *)
LEMMA WithoutSongType ==
  ASSUME NEW t \in Seq(Songs), NEW s
  PROVE  /\ WithoutSong(t, s) \in Seq(Songs)
         /\ WithoutSong(t, s) \in {t} \cup {SX!RemoveAt(t, k) : k \in DOMAIN t}
<1>1. DOMAIN t = 1 .. Len(t)
  BY LenProperties
<1>2. \/ WithoutSong(t, s) = t
      \/ \E k \in 1 .. Len(t) : WithoutSong(t, s) = SX!RemoveAt(t, k)
  BY RemoveFirstIsRemoveAt DEF WithoutSong
<1>3. CASE WithoutSong(t, s) = t
  BY <1>3
<1>4. ASSUME NEW k \in 1 .. Len(t), WithoutSong(t, s) = SX!RemoveAt(t, k)
      PROVE  WithoutSong(t, s) \in Seq(Songs)
  BY <1>4, RemoveAtType
<1> QED
  BY <1>1, <1>2, <1>3, <1>4

LEMMA WithoutSongKeeps ==
  ASSUME NEW t \in Seq(Songs), NEW s, NEW r, r = WithoutSong(t, s),
         NEW j \in DOMAIN t, t[j] # s
  PROVE  \E m \in DOMAIN r : r[m] = t[j]
<1>1. Len(t) \in Nat /\ DOMAIN t = 1 .. Len(t)
  BY LenProperties
<1>2. \/ r = t
      \/ \E k \in 1 .. Len(t) : t[k] = s /\ r = SX!RemoveAt(t, k)
  BY RemoveFirstIsRemoveAt DEF WithoutSong
<1>3. CASE r # t
  <2>1. PICK k \in 1 .. Len(t) : t[k] = s /\ r = SX!RemoveAt(t, k)
    BY <1>2, <1>3
  <2>2. /\ r \in Seq(Songs)
        /\ Len(r) = Len(t) - 1
        /\ \A i \in 1 .. Len(t) - 1 : r[i] = IF i < k THEN t[i] ELSE t[i + 1]
    BY <2>1, RemoveAtType
  <2>3. DOMAIN r = 1 .. Len(t) - 1
    BY <2>2, LenProperties
  <2>4. CASE j < k
    <3>1. j \in 1 .. Len(t) - 1
      BY <1>1, <2>4
    <3> QED
      BY <2>2, <2>3, <2>4, <3>1
  <2>5. CASE j > k
    <3>1. j - 1 \in 1 .. Len(t) - 1 /\ ~ (j - 1 < k) /\ (j - 1) + 1 = j
      BY <1>1, <2>5
    <3> QED
      BY <2>2, <2>3, <3>1
  <2>6. j # k
    BY <2>1
  <2> QED
    BY <1>1, <2>4, <2>5, <2>6
<1>4. CASE r = t
  BY <1>4
<1> QED
  BY <1>3, <1>4

(* The four writes leave a row, or none.                                   *)
LEMMA RowsAreRows ==
  /\ \A f \in Folders, u \in Users : NewRow(f, u) \in Row
  /\ \A r \in Row, s \in Songs : WithSong(r, s) \in Row
  /\ \A r \in Row, f \in Folders : WithFolder(r, f) \in Row
  /\ \A r \in Row \cup {Null}, t \in Seq(Songs) : Retracked(r, t) \in Row \cup {Null}
<1>1. \A f \in Folders, u \in Users : NewRow(f, u) \in Row
  BY EmptySeq DEF NewRow, Row
<1>2. ASSUME NEW r \in Row, NEW s \in Songs
      PROVE  WithSong(r, s) \in Row
  <2>1. Append(r.tracks, s) \in Seq(Songs)
    BY AppendProperties DEF Row
  <2> QED
    BY <2>1 DEF WithSong, Row
<1>3. \A r \in Row, f \in Folders : WithFolder(r, f) \in Row
  BY DEF WithFolder, Row
<1>4. ASSUME NEW r \in Row \cup {Null}, NEW t \in Seq(Songs)
      PROVE  Retracked(r, t) \in Row \cup {Null}
  <2>1. r # Null => [r EXCEPT !.tracks = t] \in Row
    BY DEF Row
  <2>2. [folder |-> Null, usermail |-> Null, tracks |-> t, marker |-> FALSE] \in Row
    BY DEF Row, Folders
  <2> QED
    BY <2>1, <2>2 DEF Retracked
<1> QED
  BY <1>1, <1>2, <1>3, <1>4

-----------------------------------------------------------------------------

(* Field by field, what a change of one worker's request means: Goto and   *)
(* Answer change pc and status, FoundList pc and snap, Render pc, status   *)
(* and listing.                                                            *)
SameRequest(r, q) == r.op = q.op /\ r.user = q.user /\ r.id = q.id /\ r.arg = q.arg

Others(w) == \A v \in Workers \ {w} : req'[v] = req[v]

LEMMA GotoEffect ==
  ASSUME req \in [Workers -> Request], NEW w \in Workers, NEW l \in Locations,
         Goto(w, l)
  PROVE  /\ req' \in [Workers -> Request] /\ Others(w)
         /\ req'[w].pc = l /\ SameRequest(req'[w], req[w])
         /\ req'[w].snap = req[w].snap /\ req'[w].status = req[w].status
         /\ req'[w].listing = req[w].listing
BY DEF Goto, Others, SameRequest, Request

LEMMA AnswerEffect ==
  ASSUME req \in [Workers -> Request], NEW w \in Workers,
         NEW st \in {"ok", "forbidden", "error"}, Answer(w, st)
  PROVE  /\ req' \in [Workers -> Request] /\ Others(w)
         /\ req'[w].pc = "reply" /\ SameRequest(req'[w], req[w])
         /\ req'[w].snap = req[w].snap /\ req'[w].status = st
         /\ req'[w].listing = req[w].listing
<1> DEFINE r == [req[w] EXCEPT !.pc = "reply", !.status = st]
<1>1. r \in Request /\ r.pc = "reply" /\ SameRequest(r, req[w])
      /\ r.snap = req[w].snap /\ r.status = st /\ r.listing = req[w].listing
  <2>1. req[w] \in Request /\ "reply" \in Locations
    BY DEF Locations
  <2>2. r.pc = "reply" /\ SameRequest(r, req[w]) /\ r.snap = req[w].snap /\ r.status = st
        /\ r.listing = req[w].listing
    BY <2>1 DEF Request, SameRequest
  <2>3. r \in Request
    BY <2>1 DEF Request
  <2> QED
    BY <2>2, <2>3
<1>2. req' = [req EXCEPT ![w] = r]
  BY DEF Answer
<1> HIDE DEF r
<1> QED
  BY <1>1, <1>2 DEF Others

LEMMA FoundListEffect ==
  ASSUME TypeOK, NEW w \in Workers, At(w, "findList"), FoundList(w)
  PROVE  /\ req' \in [Workers -> Request] /\ Others(w)
         /\ req'[w].pc = WriteOf[req[w].op] /\ SameRequest(req'[w], req[w])
         /\ req[w].id \in Ids /\ req'[w].snap = playlists[req[w].id]
         /\ req'[w].snap \in Row
         /\ req'[w].status = req[w].status
<1>1. req[w] \in Request /\ req[w].op \in {"rate", "rename", "delete", "deleteSong"}
  BY DEF TypeOK, WellFormed, At, OpsAt
<1>2. WriteOf[req[w].op] \in Locations
  BY <1>1 DEF WriteOf, Locations
<1>3. req[w].id \in Ids /\ Stored(req[w].id) = playlists[req[w].id]
      /\ playlists[req[w].id] \in Row
  BY DEF FoundList, Stored, TypeOK
<1> DEFINE r == [req[w] EXCEPT !.pc = WriteOf[req[w].op],
                              !.snap = Stored(req[w].id)]
<1>4. r \in Request /\ r.pc = WriteOf[req[w].op] /\ SameRequest(r, req[w])
      /\ r.snap = playlists[req[w].id] /\ r.status = req[w].status
  BY <1>1, <1>2, <1>3 DEF Request, SameRequest
<1>5. req' = [req EXCEPT ![w] = r]
  BY DEF FoundList
<1>6. req \in [Workers -> Request]
  BY DEF TypeOK
<1> HIDE DEF r
<1> QED
  BY <1>1, <1>3, <1>4, <1>5, <1>6 DEF Others

-----------------------------------------------------------------------------
(* A step that leaves the other workers alone keeps every request well     *)
(* formed if it keeps its own so.                                          *)
RequestsOK(q) == q \in [Workers -> Request] /\ \A v \in Workers : WellFormed(q[v])

LEMMA OthersWellFormed ==
  ASSUME TypeOK, NEW w \in Workers, req' \in [Workers -> Request], Others(w),
         WellFormed(req'[w])
  PROVE  RequestsOK(req')
BY DEF TypeOK, Others, RequestsOK

LEMMA AnswerWellFormed ==
  ASSUME TypeOK, NEW w \in Workers, req[w].pc # "idle",
         NEW st \in {"ok", "forbidden", "error"}, Answer(w, st)
  PROVE  RequestsOK(req')
<1>1. req \in [Workers -> Request] /\ WellFormed(req[w]) /\ req[w].pc \in Locations
  BY DEF TypeOK, Request
<1>2. req' \in [Workers -> Request] /\ Others(w) /\ req'[w].pc = "reply"
      /\ SameRequest(req'[w], req[w])
  BY <1>1, AnswerEffect
<1>3. req[w].op \in Operations
  BY <1>1 DEF WellFormed, OpsAt, Operations, Locations
<1>4. WellFormed(req'[w])
  BY <1>1, <1>2, <1>3 DEF WellFormed, OpsAt, SameRequest, Holds
<1> QED
  BY <1>2, <1>4, OthersWellFormed

LEMMA GotoWellFormed ==
  ASSUME TypeOK, NEW w \in Workers, req[w].pc # "idle",
         NEW l \in Locations \ {"idle", "findUser", "save", "update", "remove"},
         req[w].op \in OpsAt[l],
         l = "insert" => req[w].pc = "findUser",
         l = "findList" /\ req[w].op = "rate" => req[w].arg \in Songs,
         l = "increment" /\ req[w].op = "rate" => req[w].arg \in Songs,
         Goto(w, l)
  PROVE  RequestsOK(req')
<1>1. req \in [Workers -> Request] /\ WellFormed(req[w])
  BY DEF TypeOK
<1>2. req' \in [Workers -> Request] /\ Others(w) /\ req'[w].pc = l
      /\ SameRequest(req'[w], req[w])
  BY <1>1, GotoEffect
<1>3. WellFormed(req'[w])
  BY <1>1, <1>2 DEF WellFormed, SameRequest, Holds
<1> QED
  BY <1>2, <1>3, OthersWellFormed

LEMMA ThrowWellFormed ==
  ASSUME TypeOK, NEW w \in Workers, req[w].pc # "idle", Throw(w)
  PROVE  RequestsOK(req') /\ failures' \in 0 .. MaxFailures
<1>1. RequestsOK(req')
  BY AnswerWellFormed DEF Throw
<1>2. failures' \in 0 .. MaxFailures
  BY BoundsAssumption DEF Throw, TypeOK
<1> QED
  BY <1>1, <1>2

LEMMA WroteWellFormed ==
  ASSUME TypeOK, NEW w \in Workers, req[w].pc # "idle",
         NEW l \in {"increment", "render"}, req[w].op \in OpsAt[l],
         l = "increment" /\ req[w].op = "rate" => req[w].arg \in Songs,
         Wrote(w, l)
  PROVE  RequestsOK(req') /\ failures' \in 0 .. MaxFailures
<1>1. CASE Throw(w)
  BY <1>1, ThrowWellFormed
<1>2. CASE Goto(w, l) /\ UNCHANGED failures
  <2>1. RequestsOK(req')
    BY <1>2, GotoWellFormed DEF Locations
  <2> QED
    BY <1>2, <2>1 DEF TypeOK
<1> QED
  BY <1>1, <1>2 DEF Wrote

-----------------------------------------------------------------------------
(* What may be received is a well-formed request at its first call.        *)
LEMMA ReceiveWellFormed ==
  ASSUME TypeOK, NEW w \in Workers, Receive(w)
  PROVE  /\ RequestsOK(req') /\ Others(w)
         /\ req'[w].pc \in {"findUser", "findTrack", "authorize", "findList"}
         /\ req'[w].op \in Operations
<1>1. PICK r \in Requests : req' = [req EXCEPT ![w] = Started(r)]
  BY DEF Receive
<1> DEFINE q == Started(r)
<1>2. /\ q.pc = First[r.op] /\ q.op = r.op /\ q.id = r.id /\ q.user = r.user
      /\ q.arg = r.arg
  BY DEF Started
<1>3. /\ r.op \in Operations /\ r.user \in Users
      /\ r.id \in Ids \cup {UnknownId} /\ r.arg \in Args
      /\ r.op \in {"create", "add"} => r.id \in Ids /\ r.arg \in Folders
      /\ r.op = "rename" => r.arg \in Folders
      /\ r.op = "deleteSong" => r.arg \in Songs
  BY DEF Requests, Operations, Fresh, Known, Args, Folders, TypeOK
<1>4. /\ First[r.op] \in {"findUser", "findTrack", "authorize", "findList"}
      /\ r.op \in OpsAt[First[r.op]]
      /\ First[r.op] = "findUser" => r.op \in {"create", "add"}
      /\ r.op = "rate" => First[r.op] = "findTrack"
  BY <1>3 DEF First, OpsAt, Operations
<1>5. q \in Request
  BY <1>3, <1>4 DEF Request, Locations, Started
<1>6. WellFormed(q)
  <2> HIDE DEF q
  <2> QED
    BY <1>2, <1>3, <1>4 DEF WellFormed, Holds
<1> HIDE DEF q
<1>7. req' = [req EXCEPT ![w] = q]
  BY <1>1 DEF q
<1>8. req' \in [Workers -> Request] /\ Others(w) /\ req'[w] = q
  BY <1>5, <1>7 DEF TypeOK, Others
<1> QED
  BY <1>2, <1>3, <1>4, <1>6, <1>8, OthersWellFormed

-----------------------------------------------------------------------------
(* TypeOK is inductive: one step per action of a worker.                   *)
LEMMA TypeInit == Init => TypeOK
BY BoundsAssumption
   DEF Init, TypeOK, Idle, Request, Locations, Args, Folders, WellFormed,
       OpsAt, Holds

LEMMA TypeStep == TypeOK /\ [Next]_vars => TypeOK'
<1> SUFFICES ASSUME TypeOK, [Next]_vars
             PROVE  TypeOK'
  OBVIOUS
<1>1. ASSUME NEW w \in Workers, Receive(w)
      PROVE  TypeOK'
  <2>1. RequestsOK(req')
    BY <1>1, ReceiveWellFormed
  <2>2. received' \in 0 .. MaxRequests
    BY <1>1, BoundsAssumption DEF Receive, TypeOK
  <2> QED
    BY <1>1, <2>1, <2>2 DEF Receive, TypeOK, RequestsOK
<1>2. ASSUME NEW w \in Workers, FindTrack(w)
      PROVE  TypeOK'
  <2>1. req[w].op \in {"rate"} /\ req[w].pc = "findTrack"
    BY <1>2 DEF FindTrack, At, TypeOK, WellFormed, OpsAt
  <2>2. RequestsOK(req')
    <3>1. CASE req[w].arg \in Songs /\ Goto(w, "findList")
      BY <2>1, <3>1, GotoWellFormed DEF OpsAt, Locations
    <3>2. CASE Answer(w, "error")
      BY <2>1, <3>2, AnswerWellFormed
    <3> QED
      BY <1>2, <3>1, <3>2 DEF FindTrack
  <2> QED
    BY <1>2, <2>2 DEF FindTrack, TypeOK, RequestsOK, UnchangedTables
<1>3. ASSUME NEW w \in Workers, FindUser(w)
      PROVE  TypeOK'
  <2>1. req[w].op \in {"create", "add"} /\ req[w].pc = "findUser"
    BY <1>3 DEF FindUser, At, TypeOK, WellFormed, OpsAt
  <2>2. RequestsOK(req')
    <3>1. CASE Goto(w, "insert")
      BY <2>1, <3>1, GotoWellFormed DEF OpsAt, Locations
    <3>2. CASE Answer(w, "error")
      BY <2>1, <3>2, AnswerWellFormed
    <3> QED
      BY <1>3, <3>1, <3>2 DEF FindUser
  <2> QED
    BY <1>3, <2>2 DEF FindUser, TypeOK, RequestsOK, UnchangedTables
<1>4. ASSUME NEW w \in Workers, Authorize(w)
      PROVE  TypeOK'
  <2>1. req[w].op \in {"rename", "delete"} /\ req[w].pc = "authorize"
    BY <1>4 DEF Authorize, At, TypeOK, WellFormed, OpsAt
  <2>2. RequestsOK(req')
    <3>1. CASE Goto(w, "findList")
      BY <2>1, <3>1, GotoWellFormed DEF OpsAt, Locations
    <3>2. CASE Answer(w, "forbidden")
      BY <2>1, <3>2, AnswerWellFormed
    <3> QED
      BY <1>4, <3>1, <3>2 DEF Authorize
  <2> QED
    BY <1>4, <2>2 DEF Authorize, TypeOK, RequestsOK, UnchangedTables
<1>5. ASSUME NEW w \in Workers, FindList(w)
      PROVE  TypeOK'
  <2>1. /\ req[w].op \in {"rate", "rename", "delete", "deleteSong"}
        /\ req[w].pc = "findList" /\ At(w, "findList") /\ WellFormed(req[w])
    BY <1>5 DEF FindList, At, TypeOK, WellFormed, OpsAt
  <2>2. RequestsOK(req')
    <3>1. CASE FoundList(w)
      <4>1. /\ req' \in [Workers -> Request] /\ Others(w)
            /\ req'[w].pc = WriteOf[req[w].op] /\ SameRequest(req'[w], req[w])
            /\ req[w].id \in Ids /\ req'[w].snap \in Row
        BY <2>1, <3>1, FoundListEffect
      <4>2. WellFormed(req'[w])
        BY <2>1, <4>1 DEF WellFormed, SameRequest, WriteOf, OpsAt, Holds
      <4> QED
        BY <4>1, <4>2, OthersWellFormed
    <3>2. CASE req[w].op = "deleteSong" /\ Goto(w, "render")
      BY <2>1, <3>2, GotoWellFormed DEF OpsAt, Locations
    <3>3. CASE Answer(w, "error")
      BY <2>1, <3>3, AnswerWellFormed
    <3> QED
      BY <1>5, <3>1, <3>2, <3>3 DEF FindList, MissingList
  <2> QED
    BY <1>5, <2>2 DEF FindList, TypeOK, RequestsOK, UnchangedTables
<1>6. ASSUME NEW w \in Workers, Insert(w)
      PROVE  TypeOK'
  <2>1. /\ req[w].op \in {"create", "add"} /\ req[w].pc = "insert"
        /\ req[w].id \in Ids /\ req[w].user \in Users /\ req[w].arg \in Folders
    BY <1>6 DEF Insert, At, TypeOK, WellFormed, OpsAt
  <2>2. RequestsOK(req') /\ failures' \in 0 .. MaxFailures
    <3>1. req[w].op \in OpsAt["increment"] /\ req[w].op # "rate"
      BY <2>1 DEF OpsAt
    <3> QED
      BY <1>6, <2>1, <3>1, WroteWellFormed DEF Insert
  <2>3. playlists' \in [Ids -> Row \cup {Null}]
    BY <1>6, <2>1, RowsAreRows DEF Insert, TypeOK
  <2> QED
    BY <1>6, <2>1, <2>2, <2>3 DEF Insert, TypeOK, RequestsOK
<1>7. ASSUME NEW w \in Workers, Save(w)
      PROVE  TypeOK'
  <2>1. /\ req[w].op \in {"rate", "rename"} /\ req[w].pc = "save"
        /\ req[w].id \in Ids /\ req[w].snap \in Row
        /\ req[w].op = "rate" => req[w].arg \in Songs
        /\ req[w].op = "rename" => req[w].arg \in Folders
    BY <1>7 DEF Save, At, TypeOK, WellFormed, OpsAt, Holds
  <2>2. RequestsOK(req') /\ failures' \in 0 .. MaxFailures
    <3>1. req[w].op \in OpsAt["increment"]
      BY <2>1 DEF OpsAt
    <3> QED
      BY <1>7, <2>1, <3>1, WroteWellFormed DEF Save
  <2>3. Edited(req[w]) \in Row
    BY <2>1, RowsAreRows DEF Edited
  <2> QED
    BY <1>7, <2>1, <2>2, <2>3 DEF Save, TypeOK, RequestsOK
<1>8. ASSUME NEW w \in Workers, Update(w)
      PROVE  TypeOK'
  <2>1. /\ req[w].op = "deleteSong" /\ req[w].pc = "update"
        /\ req[w].id \in Ids /\ req[w].snap \in Row /\ req[w].arg \in Songs
    BY <1>8 DEF Update, At, TypeOK, WellFormed, OpsAt, Holds
  <2>2. RequestsOK(req') /\ failures' \in 0 .. MaxFailures
    <3>1. req[w].op \in OpsAt["render"]
      BY <2>1 DEF OpsAt
    <3> QED
      BY <1>8, <2>1, <3>1, WroteWellFormed DEF Update
  <2>3. WithoutSong(req[w].snap.tracks, req[w].arg) \in Seq(Songs)
    BY <2>1, WithoutSongType DEF Row
  <2>4. playlists[req[w].id] \in Row \cup {Null}
    BY <2>1 DEF TypeOK
  <2>5. Retracked(playlists[req[w].id],
                  WithoutSong(req[w].snap.tracks, req[w].arg)) \in Row \cup {Null}
    BY <2>3, <2>4, RowsAreRows
  <2> QED
    BY <1>8, <2>1, <2>2, <2>5 DEF Update, TypeOK, RequestsOK
<1>9. ASSUME NEW w \in Workers, Remove(w)
      PROVE  TypeOK'
  <2>1. req[w].pc = "remove" /\ req[w].id \in Ids
    BY <1>9 DEF Remove, At, TypeOK, WellFormed
  <2>2. RequestsOK(req') /\ failures' \in 0 .. MaxFailures
    BY <1>9, <2>1, AnswerWellFormed, ThrowWellFormed DEF Remove, TypeOK
  <2> QED
    BY <1>9, <2>1, <2>2 DEF Remove, TypeOK, RequestsOK
<1>10. ASSUME NEW w \in Workers, Increment(w)
       PROVE  TypeOK'
  <2>1. req[w].pc = "increment"
    BY <1>10 DEF Increment, At
  <2>2. RequestsOK(req') /\ failures' \in 0 .. MaxFailures
    <3>1. CASE req[w].op = "create" /\ Wrote(w, "render")
      BY <2>1, <3>1, WroteWellFormed DEF OpsAt
    <3>2. CASE Answer(w, "ok") /\ UNCHANGED failures
      BY <2>1, <3>2, AnswerWellFormed DEF TypeOK
    <3>3. CASE Throw(w)
      BY <2>1, <3>3, ThrowWellFormed
    <3> QED
      BY <1>10, <3>1, <3>2, <3>3 DEF Increment
  <2> QED
    BY <1>10, <2>2 DEF Increment, TypeOK, RequestsOK
<1>11. ASSUME NEW w \in Workers, Render(w)
       PROVE  TypeOK'
  <2> DEFINE r == [req[w] EXCEPT !.pc = "reply", !.status = "ok",
                                 !.listing = ListsOf(req[w].user)]
  <2>1. req[w] \in Request /\ WellFormed(req[w]) /\ req[w].pc = "render"
    BY <1>11 DEF Render, At, TypeOK
  <2>2. ListsOf(req[w].user) \in SUBSET Ids
    BY DEF ListsOf
  <2>3. r \in Request /\ r.pc = "reply" /\ SameRequest(r, req[w])
    BY <2>1, <2>2 DEF Request, Locations, SameRequest
  <2>4. req' = [req EXCEPT ![w] = r]
    BY <1>11 DEF Render
  <2> HIDE DEF r
  <2>5. req' \in [Workers -> Request] /\ Others(w) /\ req'[w] = r
    BY <2>3, <2>4 DEF TypeOK, Others
  <2>6. WellFormed(req'[w])
    BY <2>1, <2>3, <2>5 DEF WellFormed, OpsAt, Operations, SameRequest, Holds
  <2>7. RequestsOK(req')
    BY <2>5, <2>6, OthersWellFormed
  <2> QED
    BY <1>11, <2>7 DEF Render, TypeOK, RequestsOK, UnchangedTables
<1>12. ASSUME NEW w \in Workers, Reply(w)
       PROVE  TypeOK'
  <2>1. Idle \in Request /\ WellFormed(Idle)
    BY DEF Idle, Request, Locations, Args, Folders, WellFormed, OpsAt, Holds
  <2>2. req' \in [Workers -> Request] /\ Others(w) /\ req'[w] = Idle
    BY <1>12, <2>1 DEF Reply, TypeOK, Others
  <2>3. RequestsOK(req')
    BY <2>1, <2>2, OthersWellFormed
  <2> QED
    BY <1>12, <2>3 DEF Reply, TypeOK, RequestsOK, UnchangedTables
<1>13. ASSUME NEW w \in Workers, Abort(w)
       PROVE  TypeOK'
  <2>1. RequestsOK(req') /\ failures' \in 0 .. MaxFailures
    BY <1>13, ThrowWellFormed DEF Abort
  <2> QED
    BY <1>13, <2>1 DEF Abort, TypeOK, RequestsOK, UnchangedTables
<1>14. CASE UNCHANGED vars
  BY <1>14 DEF vars, TypeOK
<1> QED
  BY <1>1, <1>2, <1>3, <1>4, <1>5, <1>6, <1>7, <1>8, <1>9, <1>10, <1>11,
     <1>12, <1>13, <1>14 DEF Next, Handle, Terminating

(* Whatever the requests, their overlap and the failures, the table holds  *)
(* well-formed rows and no write is reached with a null copy or id.        *)
THEOREM TypeCorrect == Spec => []TypeOK
BY TypeInit, TypeStep, PTL DEF Spec

-----------------------------------------------------------------------------
(* The counter.  Pending are the saves whose increment is still to come.   *)
Pending == {v \in Workers : At(v, "increment")}

CountInv ==
  /\ TypeOK
  /\ IsFiniteSet(created)
  /\ CounterCoversLists

LEMMA PendingFinite ==
  /\ IsFiniteSet(Pending) /\ Cardinality(Pending) \in Nat
  /\ CounterCoversLists <=>
       Cardinality(created) <= counter + Cardinality(Pending) + failures
BY WorkersAssumption, FS_Subset, FS_CardinalityType DEF Pending, CounterCoversLists

(* One worker moved: Pending gains it, loses it or stays.                  *)
LEMMA PendingStep ==
  ASSUME NEW w \in Workers, Others(w)
  PROVE  /\ Cardinality(Pending)' \in Nat
         /\ Cardinality(Pending)' >= Cardinality(Pending) - 1
         /\ ~ At(w, "increment") \/ At(w, "increment")' =>
              Cardinality(Pending)' >= Cardinality(Pending)
         /\ ~ At(w, "increment") /\ At(w, "increment")' =>
              Cardinality(Pending)' = Cardinality(Pending) + 1
<1>1. IsFiniteSet(Pending) /\ IsFiniteSet(Pending') /\ Cardinality(Pending) \in Nat
  BY WorkersAssumption, FS_Subset, FS_CardinalityType DEF Pending
<1>2. CASE ~ At(w, "increment") /\ At(w, "increment")'
  <2>1. w \notin Pending /\ Pending' = Pending \cup {w}
    BY <1>2 DEF Pending, At, Others
  <2> QED
    BY <1>1, <1>2, <2>1, FS_AddElement
<1>3. CASE At(w, "increment") /\ ~ At(w, "increment")'
  <2>1. w \in Pending /\ Pending' = Pending \ {w}
    BY <1>3 DEF Pending, At, Others
  <2> QED
    BY <1>1, <1>3, <2>1, FS_RemoveElement, FS_CardinalityType
<1>4. CASE At(w, "increment") <=> At(w, "increment")'
  <2>1. Pending' = Pending
    BY <1>4 DEF Pending, At, Others
  <2> QED
    BY <1>1, <1>4, <2>1
<1> QED
  BY <1>2, <1>3, <1>4

(* The four ways a step can move the two sides of the inequality: none of  *)
(* them; a save without an insert; an insert; an increment.                *)
LEMMA CountStep ==
  ASSUME CountInv, TypeOK', NEW w \in Workers, Others(w),
         \/ /\ UNCHANGED <<created, counter>>
            /\ \/ failures' >= failures /\ (~ At(w, "increment") \/ At(w, "increment")')
               \/ failures' >= failures + 1
         \/ /\ created' = created \cup {req[w].id} /\ UNCHANGED counter
            /\ ~ At(w, "increment")
            /\ \/ failures' = failures /\ At(w, "increment")'
               \/ failures' = failures + 1
         \/ UNCHANGED created /\ counter' = counter + 1 /\ failures' >= failures
  PROVE  CountInv'
<1> DEFINE p == Cardinality(Pending)
           q == Cardinality(Pending)'
<1>1. /\ p \in Nat /\ q \in Nat /\ q >= p - 1
      /\ ~ At(w, "increment") \/ At(w, "increment")' => q >= p
      /\ ~ At(w, "increment") /\ At(w, "increment")' => q = p + 1
  BY PendingStep, PendingFinite
<1>2. /\ IsFiniteSet(created) /\ Cardinality(created) \in Nat
      /\ Cardinality(created) <= counter + p + failures
  BY PendingFinite, FS_CardinalityType DEF CountInv
<1>3. counter \in Nat /\ failures \in Nat /\ counter' \in Nat /\ failures' \in Nat
  BY BoundsAssumption DEF CountInv, TypeOK
<1>4. IsFiniteSet(created)'
  BY <1>2, FS_AddElement
<1> HIDE DEF p, q
<1>5. Cardinality(created)' <= counter' + q + failures'
  <2>1. CASE UNCHANGED created
    <3>1. Cardinality(created)' = Cardinality(created)
      BY <2>1
    <3> QED
      BY <1>1, <1>2, <1>3, <2>1, <3>1, FS_AddElement
  <2>2. CASE /\ created' = created \cup {req[w].id} /\ UNCHANGED counter
             /\ ~ At(w, "increment")
             /\ \/ failures' = failures /\ At(w, "increment")'
                \/ failures' = failures + 1
    <3>1. Cardinality(created \cup {req[w].id}) <= Cardinality(created) + 1
      BY <1>2, FS_AddElement
    <3>2. Cardinality(created)' <= Cardinality(created) + 1 /\ Cardinality(created)' \in Nat
      BY <1>4, <2>2, <3>1, FS_CardinalityType
    <3> QED
      BY <1>1, <1>2, <1>3, <2>2, <3>2
  <2> QED
    BY <2>1, <2>2
<1>6. CounterCoversLists'
  BY <1>5 DEF CounterCoversLists, Pending, q
<1> QED
  BY <1>4, <1>6 DEF CountInv

LEMMA WroteMoves ==
  ASSUME TypeOK, NEW w \in Workers, NEW l \in {"increment", "render"}, Wrote(w, l)
  PROVE  /\ Others(w)
         /\ \/ failures' = failures /\ (l = "increment" => At(w, "increment")')
            \/ failures' = failures + 1
BY GotoEffect, AnswerEffect DEF Wrote, Throw, Locations, TypeOK, At

LEMMA CountInvStep == CountInv /\ [Next]_vars => CountInv'
<1> SUFFICES ASSUME CountInv, [Next]_vars
             PROVE  CountInv'
  OBVIOUS
<1>1. TypeOK /\ TypeOK' /\ req \in [Workers -> Request]
      /\ failures \in Nat /\ failures' \in Nat
  BY TypeStep, BoundsAssumption DEF CountInv, TypeOK
<1>2. ASSUME NEW w \in Workers, Receive(w)
      PROVE  CountInv'
  <2>1. Others(w) /\ ~ At(w, "increment")
    BY <1>1, <1>2, ReceiveWellFormed DEF Receive, At
  <2> QED
    BY <1>1, <1>2, <2>1, CountStep DEF Receive
<1>3. ASSUME NEW w \in Workers,
             \/ FindTrack(w) \/ FindUser(w) \/ Authorize(w) \/ FindList(w)
             \/ Render(w) \/ Reply(w)
      PROVE  CountInv'
  <2>1. UNCHANGED <<created, counter, failures>> /\ ~ At(w, "increment")
    BY <1>3 DEF FindTrack, FindUser, Authorize, FindList, Render, Reply,
                UnchangedTables, At
  <2>2. Others(w)
    BY <1>1, <1>3 DEF FindTrack, FindUser, Authorize, FindList, FoundList,
         MissingList, Render, Reply, Goto, Answer, Others
  <2> QED
    BY <1>1, <2>1, <2>2, CountStep
<1>4. ASSUME NEW w \in Workers, Insert(w)
      PROVE  CountInv'
  BY <1>1, <1>4, WroteMoves, CountStep DEF Insert, At
<1>5. ASSUME NEW w \in Workers, Save(w) \/ Update(w)
      PROVE  CountInv'
  <2>1. /\ Others(w) /\ UNCHANGED <<created, counter>> /\ ~ At(w, "increment")
        /\ failures' >= failures
    BY <1>1, <1>5, WroteMoves DEF Save, Update, At
  <2> QED
    BY <1>1, <2>1, CountStep
<1>6. ASSUME NEW w \in Workers, Remove(w)
      PROVE  CountInv'
  <2>1. /\ Others(w) /\ UNCHANGED <<created, counter>> /\ ~ At(w, "increment")
        /\ failures' >= failures
    BY <1>1, <1>6, AnswerEffect DEF Remove, Throw, At
  <2> QED
    BY <1>1, <2>1, CountStep
<1>7. ASSUME NEW w \in Workers, Increment(w)
      PROVE  CountInv'
  <2>1. Others(w) /\ failures' >= failures
    BY <1>1, <1>7, WroteMoves, AnswerEffect DEF Increment, Throw
  <2> QED
    BY <1>1, <1>7, <2>1, CountStep DEF Increment
<1>8. ASSUME NEW w \in Workers, Abort(w)
      PROVE  CountInv'
  <2>1. Others(w) /\ failures' = failures + 1
    BY <1>1, <1>8, AnswerEffect DEF Abort, Throw
  <2> QED
    BY <1>1, <1>8, <2>1, CountStep DEF Abort, UnchangedTables
<1>9. CASE UNCHANGED vars
  BY <1>1, <1>9 DEF vars, CountInv, CounterCoversLists, At
<1> QED
  BY <1>2, <1>3, <1>4, <1>5, <1>6, <1>7, <1>8, <1>9
     DEF Next, Handle, Terminating

(* The counter of persist never falls behind the playlists created, beyond *)
(* the saves still to be counted and the exceptions.                       *)
THEOREM CounterNeverBehind == Spec => []CounterCoversLists
<1>1. Init => CountInv
  <2> SUFFICES ASSUME Init PROVE CountInv
    OBVIOUS
  <2>1. TypeOK /\ IsFiniteSet(created) /\ Cardinality(created) = 0
    BY TypeInit, FS_EmptySet DEF Init
  <2>2. counter = 0 /\ failures = 0
    BY DEF Init
  <2> QED
    BY <2>1, <2>2, PendingFinite DEF CountInv
<1>2. CountInv => CounterCoversLists
  BY DEF CountInv
<1> QED
  BY <1>1, <1>2, CountInvStep, PTL DEF Spec

-----------------------------------------------------------------------------
(* The observed service.                                                   *)

(* The three edits of a row and the songs it has.                          *)
LEMMA EditsKeepSongs ==
  /\ \A r \in Row, s \in Songs : Has(WithSong(r, s), s)
  /\ \A r \in Row, s \in Songs : \A x : Has(r, x) => Has(WithSong(r, s), x)
  /\ \A r \in Row, f \in Folders : \A x : Has(r, x) => Has(WithFolder(r, f), x)
  /\ \A r \in Row : \A s, x :
       x # s /\ Has(r, x) => Has(Retracked(r, WithoutSong(r.tracks, s)), x)
<1>1. ASSUME NEW r \in Row, NEW s \in Songs
      PROVE  /\ Has(WithSong(r, s), s)
             /\ \A x : Has(r, x) => Has(WithSong(r, s), x)
  <2> DEFINE t == r.tracks
             u == Append(t, s)
             q == WithSong(r, s)
  <2>1. t \in Seq(Songs) /\ q \in Row /\ q # Null /\ r # Null
    BY RowsAreRows, NullRowAssumption DEF Row
  <2>2. q.tracks = u
    BY DEF WithSong, Row
  <2>3. /\ u \in Seq(Songs) /\ Len(u) = Len(t) + 1 /\ Len(t) \in Nat
        /\ \A i \in 1 .. Len(t) : u[i] = t[i]
        /\ u[Len(t) + 1] = s
    BY <2>1, AppendProperties, LenProperties
  <2>4. DOMAIN u = 1 .. Len(t) + 1 /\ DOMAIN t = 1 .. Len(t)
    BY <2>1, <2>3, LenProperties
  <2> HIDE DEF t, u, q
  <2>5. Has(q, s)
    BY <2>1, <2>2, <2>3, <2>4 DEF Has
  <2>6. ASSUME NEW x, Has(r, x)
        PROVE  Has(q, x)
    <3>1. PICK k \in DOMAIN t : t[k] = x
      BY <2>6 DEF Has, t
    <3>2. k \in DOMAIN u /\ u[k] = x
      BY <2>3, <2>4, <3>1
    <3> QED
      BY <2>1, <2>2, <3>2 DEF Has
  <2> QED
    BY <2>5, <2>6 DEF q
<1>2. ASSUME NEW r \in Row, NEW f \in Folders, NEW x, Has(r, x)
      PROVE  Has(WithFolder(r, f), x)
  <2>1. WithFolder(r, f) \in Row /\ WithFolder(r, f) # Null
    BY RowsAreRows, NullRowAssumption
  <2>2. WithFolder(r, f).tracks = r.tracks
    BY DEF WithFolder, Row
  <2> QED
    BY <1>2, <2>1, <2>2 DEF Has
<1>3. ASSUME NEW r \in Row, NEW s, NEW x, x # s, Has(r, x)
      PROVE  Has(Retracked(r, WithoutSong(r.tracks, s)), x)
  <2>1. r.tracks \in Seq(Songs) /\ r # Null
    BY NullRowAssumption DEF Row
  <2> DEFINE u == r.tracks
             t == WithoutSong(u, s)
  <2>2. PICK k \in DOMAIN u : u[k] = x
    BY <1>3 DEF Has
  <2> HIDE DEF u
  <2>9. u \in Seq(Songs)
    BY <2>1 DEF u
  <2>3. t \in Seq(Songs) /\ \E m \in DOMAIN t : t[m] = x
    <3>1. t \in Seq(Songs)
      BY <2>9, WithoutSongType
    <3>2. x # s
      BY <1>3
    <3>3. \E m \in DOMAIN t : t[m] = u[k]
      BY <2>9, <3>2, <2>2, WithoutSongKeeps
    <3> QED
      BY <2>2, <3>1, <3>3
  <2>4. t # << >>
    BY <2>3, LenProperties
  <2> HIDE DEF t
  <2>5. Retracked(r, t) = [r EXCEPT !.tracks = t]
    BY <2>1, <2>4 DEF Retracked
  <2>6. Retracked(r, t) \in Row /\ Retracked(r, t).tracks = t
    BY <2>3, <2>5 DEF Row
  <2>7. Retracked(r, t) # Null
    BY <2>6, NullRowAssumption
  <2>8. Has(Retracked(r, t), x)
    BY <2>3, <2>6, <2>7 DEF Has
  <2> QED
    BY <2>8 DEF t, u
<1> QED
  BY <1>1, <1>2, <1>3

-----------------------------------------------------------------------------
(* What every step of a worker w does to the others and to the tables, and *)
(* what is left to show of an action for HInv to hold after it.            *)
InsertsOnly(w) ==
  created \subseteq created' /\ \A i \in created' \ created : Inserting(req[w]) /\ i = req[w].id

KeepsSongs ==
  \A i \in Ids, s \in Songs :
    InList(i, s) => \/ InList(i, s)'
                    \/ i \in raced'
                    \/ <<i, s>> \in dropped'

LEMMA OthersKeepInv ==
  ASSUME HInv, NEW w \in Workers, Others(w), Observe,
         dropped \subseteq dropped', InsertsOnly(w), KeepsSongs
  PROVE  \A v \in Workers \ {w} : RequestInv(req[v])'
<1> SUFFICES ASSUME NEW v \in Workers \ {w}
             PROVE  RequestInv(req[v])'
  OBVIOUS
<1>1. RequestInv(req[v]) /\ WellFormed(req[v]) /\ req'[v] = req[v]
  BY DEF HInv, TypeOK, Others
<1>2. raced \subseteq raced'
  BY DEF Observe
<1>3. Holds(req[v]) /\ req[v].id \notin raced' => req[v].snap = playlists'[req[v].id]
  <2>1. SUFFICES ASSUME Holds(req[v]), req[v].id \notin raced'
                 PROVE  req[v].snap = playlists'[req[v].id]
    OBVIOUS
  <2>2. req[v].id \in Ids
    BY <1>1, <2>1 DEF WellFormed, Holds
  <2>3. playlists'[req[v].id] = playlists[req[v].id]
    BY <1>1, <2>1, <2>2 DEF Observe
  <2> QED
    BY <1>1, <1>2, <2>1, <2>3 DEF RequestInv
<1>4. Saved(req[v]) => /\ req[v].id \in Ids /\ req[v].arg \in Songs
                       /\ \/ <<req[v].id, req[v].arg>> \in dropped'
                          \/ req[v].id \in raced'
                          \/ InList(req[v].id, req[v].arg)'
  BY <1>1, <1>2 DEF RequestInv, KeepsSongs
<1>5. req[v].pc # "idle" => Drops(req[v]) \subseteq dropped'
  BY <1>1 DEF RequestInv
<1>6. Inserting(req[v]) => req[v].id \notin created'
  BY <1>1 DEF RequestInv, InsertsOnly, HInv, DistinctInserts
<1>7. Writing(req[v]) => req[v].id \in created'
  BY <1>1 DEF RequestInv, InsertsOnly
<1> QED
  BY <1>1, <1>3, <1>4, <1>5, <1>6, <1>7 DEF RequestInv

LEMMA StepKeepsInv ==
  ASSUME HInv, TypeOK', NEW w \in Workers, Others(w), Observe,
         dropped \subseteq dropped', InsertsOnly(w), KeepsSongs,
         RequestInv(req[w])', RowsWereCreated', DeletedStaysDeleted',
         Inserting(req'[w]) =>
           \A v \in Workers \ {w} : Inserting(req[v]) => req[v].id # req'[w].id,
         \A p \in acked' \ acked : Saved(req[w]) /\ p = <<req[w].id, req[w].arg>>
  PROVE  HInv'
<1>1. \A v \in Workers : RequestInv(req[v])'
  BY OthersKeepInv
<1>2. DistinctInserts'
  BY DEF DistinctInserts, HInv, Others
<1>3. SerialRequestsLoseNothing'
  <2> SUFFICES ASSUME NEW p \in acked' \ dropped', p[1] \notin raced'
               PROVE  InList(p[1], p[2])'
    BY DEF SerialRequestsLoseNothing
  <2>1. p \in Ids \X Songs /\ p = <<p[1], p[2]>> /\ p[1] \in Ids /\ p[2] \in Songs
    BY DEF RowsWereCreated
  <2>2. p \notin dropped /\ p[1] \notin raced
    BY DEF Observe
  <2>3. InList(p[1], p[2])
    <3>1. CASE p \in acked
      BY <2>2, <3>1 DEF HInv, SerialRequestsLoseNothing
    <3>2. CASE p \notin acked
      <4>1. Saved(req[w]) /\ p = <<req[w].id, req[w].arg>>
        BY <3>2
      <4>2. RequestInv(req[w])
        BY DEF HInv
      <4> QED
        BY <2>2, <4>1, <4>2 DEF RequestInv
    <3> QED
      BY <3>1, <3>2
  <2> QED
    BY <2>1, <2>3 DEF KeepsSongs
<1> QED
  BY <1>1, <1>2, <1>3 DEF HInv

-----------------------------------------------------------------------------
(* Steps that write no row: the tables and what was raced stay as they are.*)
LEMMA QuietStepKeepsInv ==
  ASSUME HInv, TypeOK', NEW w \in Workers, Others(w), Observe,
         UNCHANGED <<playlists, created, deleted>>, dropped \subseteq dropped',
         Holds(req'[w]) => req'[w].snap = playlists[req'[w].id],
         Saved(req'[w]) => /\ req'[w].id \in Ids /\ req'[w].arg \in Songs
                           /\ \/ <<req'[w].id, req'[w].arg>> \in dropped
                              \/ req'[w].id \in raced
                              \/ InList(req'[w].id, req'[w].arg),
         req'[w].pc # "idle" => Drops(req'[w]) \subseteq dropped',
         Inserting(req'[w]) =>
           /\ req'[w].id \notin created
           /\ \A v \in Workers \ {w} : Inserting(req[v]) => req[v].id # req'[w].id,
         Writing(req'[w]) => req'[w].id \in created,
         acked' \subseteq Ids \X Songs,
         \A p \in acked' \ acked : Saved(req[w]) /\ p = <<req[w].id, req[w].arg>>
  PROVE  HInv'
<1>1. raced' = raced
  BY DEF Observe
<1>2. \A i, s : InList(i, s)' <=> InList(i, s)
  BY DEF InList
<1>3. InsertsOnly(w) /\ KeepsSongs
  BY <1>2 DEF InsertsOnly, KeepsSongs
<1>4. RowsWereCreated' /\ DeletedStaysDeleted'
  BY <1>1 DEF HInv, RowsWereCreated, DeletedStaysDeleted
<1>5. RequestInv(req[w])'
  BY <1>1, <1>2 DEF RequestInv
<1> QED
  BY <1>3, <1>4, <1>5, StepKeepsInv

(* Every disjunct of HNext is a step of the service.                       *)
LEMMA HNextIsNext == [HNext]_hvars => [Next]_vars
BY DEF HNext, HReceive, HSave, HRemove, HReply, HOther, Next, Handle, hvars, vars

LEMMA ReceiveKeepsInv ==
  ASSUME HInv, TypeOK', NEW w \in Workers, HReceive(w), Observe
  PROVE  HInv'
<1>1. /\ Others(w)
      /\ req'[w].pc \in {"findUser", "findTrack", "authorize", "findList"}
  BY ReceiveWellFormed DEF HReceive, HInv
<1>2. ~ Holds(req'[w]) /\ ~ Saved(req'[w]) /\ ~ Writing(req'[w])
  BY <1>1 DEF Holds, Writing, Saved
<1>3. Inserting(req'[w]) =>
        /\ req'[w].id \notin created
        /\ \A v \in Workers \ {w} : Inserting(req[v]) => req[v].id # req'[w].id
  <2>1. PICK r \in Requests : req' = [req EXCEPT ![w] = Started(r)]
    BY DEF HReceive, Receive
  <2>2. req'[w] = Started(r)
    BY <2>1 DEF HInv, TypeOK
  <2>3. req'[w].id = r.id /\ req'[w].pc = First[r.op]
    BY <2>2 DEF Started
  <2>4. Inserting(req'[w]) => r.op \in {"create", "add"}
    BY <2>3 DEF Inserting, First, Requests
  <2>5. r.op \in {"create", "add"} => r.id \in Fresh
    BY DEF Requests
  <2> QED
    BY <2>3, <2>4, <2>5 DEF Fresh
<1>4. Drops(req'[w]) \subseteq dropped' /\ dropped \subseteq dropped'
  BY DEF HReceive
<1> QED
  BY <1>1, <1>2, <1>3, <1>4, QuietStepKeepsInv
     DEF HReceive, Receive, HInv, RowsWereCreated

LEMMA ReplyKeepsInv ==
  ASSUME HInv, TypeOK', NEW w \in Workers, HReply(w), Observe
  PROVE  HInv'
<1>1. Others(w) /\ req'[w] = Idle
  BY DEF HReply, Reply, Others, HInv, TypeOK
<1>2. ~ Holds(req'[w]) /\ ~ Saved(req'[w]) /\ ~ Inserting(req'[w])
      /\ ~ Writing(req'[w])
      /\ req'[w].pc = "idle"
  BY <1>1 DEF Holds, Writing, Saved, Inserting, Idle
<1>3. acked' \subseteq acked \cup
        IF Saved(req[w]) THEN {<<req[w].id, req[w].arg>>} ELSE {}
  BY DEF HReply, Reply, At, Saved
<1>4. Saved(req[w]) => <<req[w].id, req[w].arg>> \in Ids \X Songs
  BY DEF HInv, RequestInv
<1>5. acked' \subseteq Ids \X Songs
  BY <1>3, <1>4 DEF HInv, RowsWereCreated
<1>6. \A p \in acked' \ acked : Saved(req[w]) /\ p = <<req[w].id, req[w].arg>>
  BY <1>3
<1> QED
  BY <1>1, <1>2, <1>5, <1>6, QuietStepKeepsInv
     DEF HReply, Reply, UnchangedTables

(* A call that answers, or goes on to one that neither holds a copy nor    *)
(* follows a save.                                                         *)
LEMMA PassingStepKeepsInv ==
  ASSUME HInv, TypeOK', NEW w \in Workers, Others(w), Observe,
         UNCHANGED <<playlists, created, acked, dropped, deleted>>,
         req[w].pc # "idle", SameRequest(req'[w], req[w]),
         ~ Holds(req'[w]), ~ Writing(req'[w]), Saved(req'[w]) => Saved(req[w]),
         Inserting(req'[w]) => Inserting(req[w])
  PROVE  HInv'
<1>1. RequestInv(req[w]) /\ req'[w].id = req[w].id /\ req'[w].arg = req[w].arg
      /\ req'[w].op = req[w].op
  BY DEF HInv, SameRequest
<1>2. Drops(req'[w]) \subseteq dropped'
  BY <1>1 DEF RequestInv, Drops
<1>3. Inserting(req'[w]) =>
        /\ req'[w].id \notin created
        /\ \A v \in Workers \ {w} : Inserting(req[v]) => req[v].id # req'[w].id
  BY <1>1 DEF RequestInv, HInv, DistinctInserts
<1>4. Saved(req'[w]) => /\ req'[w].id \in Ids /\ req'[w].arg \in Songs
                        /\ \/ <<req'[w].id, req'[w].arg>> \in dropped
                           \/ req'[w].id \in raced
                           \/ InList(req'[w].id, req'[w].arg)
  BY <1>1 DEF RequestInv
<1> QED
  BY <1>2, <1>3, <1>4, QuietStepKeepsInv DEF HInv, RowsWereCreated

LEMMA WroteEffect ==
  ASSUME HInv, NEW w \in Workers, NEW l \in {"increment", "render"}, Wrote(w, l)
  PROVE  /\ Others(w) /\ SameRequest(req'[w], req[w])
         /\ req'[w].pc = l \/ (req'[w].pc = "reply" /\ req'[w].status = "error")
BY GotoEffect, AnswerEffect DEF Wrote, Throw, Locations, HInv, TypeOK

LEMMA OtherKeepsInv ==
  ASSUME HInv, TypeOK', NEW w \in Workers, Observe,
         UNCHANGED <<acked, dropped, deleted>>,
         \/ FindTrack(w) \/ FindUser(w) \/ Authorize(w) \/ FindList(w)
         \/ Increment(w) \/ Render(w) \/ Abort(w)
  PROVE  HInv'
<1>1. /\ TypeOK /\ req \in [Workers -> Request] /\ WellFormed(req[w])
      /\ UNCHANGED <<playlists, created>>
  BY DEF HInv, TypeOK, FindTrack, FindUser, Authorize, FindList, Increment,
         Render, Abort, UnchangedTables
(* Any of them may answer with an error.                                   *)
<1>2. ASSUME NEW st \in {"error", "forbidden"}, Answer(w, st), req[w].pc # "idle"
      PROVE  HInv'
  <2>1. Others(w) /\ req'[w].pc = "reply" /\ SameRequest(req'[w], req[w])
        /\ req'[w].status = st
    BY <1>1, <1>2, AnswerEffect
  <2> QED
    BY <1>1, <1>2, <2>1, PassingStepKeepsInv DEF Holds, Writing, Saved, Inserting
<1>3. ASSUME NEW l \in {"findList", "insert", "render"}, Goto(w, l), req[w].pc # "idle",
             l = "insert" => req[w].pc = "findUser"
      PROVE  HInv'
  <2>1. Others(w) /\ req'[w].pc = l /\ SameRequest(req'[w], req[w])
    BY <1>1, <1>3, GotoEffect DEF Locations
  <2> QED
    BY <1>1, <1>3, <2>1, PassingStepKeepsInv DEF Holds, Writing, Saved, Inserting
<1>4. CASE FindTrack(w) \/ FindUser(w) \/ Authorize(w)
  BY <1>2, <1>3, <1>4 DEF FindTrack, FindUser, Authorize, At
<1>5. CASE Abort(w)
  BY <1>2, <1>5 DEF Abort, Throw
<1>6. CASE FindList(w) /\ MissingList(w)
  BY <1>2, <1>3, <1>6 DEF FindList, MissingList, At
<1>7. CASE FindList(w) /\ FoundList(w)
  <2>1. /\ Others(w)
        /\ req'[w].pc = WriteOf[req[w].op] /\ SameRequest(req'[w], req[w])
        /\ req'[w].snap = playlists[req[w].id]
        /\ req[w].id \in Ids /\ playlists[req[w].id] # Null
    BY <1>1, <1>7, FoundListEffect, NullRowAssumption DEF FindList
  <2>2. req[w].op \in {"rate", "rename", "delete", "deleteSong"} /\ req[w].pc # "idle"
    BY <1>1, <1>7 DEF FindList, At, WellFormed, OpsAt
  <2>3. ~ Saved(req'[w]) /\ ~ Inserting(req'[w])
    BY <2>1, <2>2 DEF WriteOf, Saved, Inserting
  <2>4. Drops(req'[w]) \subseteq dropped'
    BY <2>1, <2>2 DEF HInv, RequestInv, Drops, SameRequest
  <2> QED
    BY <1>1, <2>1, <2>3, <2>4, QuietStepKeepsInv
       DEF HInv, RowsWereCreated, SameRequest
<1>8. CASE Increment(w)
  <2>1. req[w].pc = "increment" /\ req[w].op \in {"create", "add", "rate", "rename"}
    BY <1>1, <1>8 DEF Increment, At, WellFormed, OpsAt
  <2>2. CASE Answer(w, "ok")
    <3>1. Others(w) /\ req'[w].pc = "reply" /\ SameRequest(req'[w], req[w])
      BY <1>1, <2>2, AnswerEffect
    <3> QED
      BY <1>1, <2>1, <3>1, PassingStepKeepsInv
         DEF Holds, Writing, Saved, Inserting, SameRequest
  <2>3. CASE Throw(w)
    BY <1>2, <2>1, <2>3 DEF Throw
  <2>4. CASE Goto(w, "render")
    BY <1>3, <2>1, <2>4
  <2> QED
    BY <1>8, <2>2, <2>3, <2>4 DEF Increment, Wrote
<1>9. CASE Render(w)
  <2> DEFINE r == [req[w] EXCEPT !.pc = "reply", !.status = "ok",
                                 !.listing = ListsOf(req[w].user)]
  <2>1. req[w] \in Request /\ req[w].pc = "render" /\ req[w].op # "rate"
    BY <1>1, <1>9 DEF Render, At, WellFormed, OpsAt
  <2>2. r.pc = "reply" /\ SameRequest(r, req[w])
    BY <2>1 DEF Request, SameRequest
  <2>3. req' = [req EXCEPT ![w] = r]
    BY <1>9 DEF Render
  <2> HIDE DEF r
  <2>4. Others(w) /\ req'[w] = r
    BY <1>1, <2>3 DEF Others
  <2> QED
    BY <1>1, <2>1, <2>2, <2>4, PassingStepKeepsInv
       DEF Holds, Writing, Saved, Inserting, SameRequest
<1> QED
  BY <1>4, <1>5, <1>6, <1>7, <1>8, <1>9 DEF FindList

-----------------------------------------------------------------------------
(* The four steps that write a row.                                        *)
LEMMA InsertKeepsInv ==
  ASSUME HInv, TypeOK', NEW w \in Workers, Insert(w), Observe,
         UNCHANGED <<acked, dropped, deleted>>
  PROVE  HInv'
<1> DEFINE i == req[w].id
<1>1. /\ RequestInv(req[w]) /\ RowsWereCreated /\ DeletedStaysDeleted
      /\ created \subseteq Ids
      /\ playlists \in [Ids -> Row \cup {Null}] /\ req[w].pc = "insert"
      /\ i \in Ids /\ req[w].op \in {"create", "add"}
  BY DEF HInv, TypeOK, WellFormed, Insert, At, OpsAt
<1>2. i \notin created /\ playlists[i] = Null /\ i \notin deleted
  BY <1>1 DEF RequestInv, Inserting, RowsWereCreated
<1>3. /\ \A j \in Ids \ {i} : playlists'[j] = playlists[j]
      /\ created' = created \cup {i}
  BY <1>1 DEF Insert
<1>4. Others(w) /\ SameRequest(req'[w], req[w])
      /\ (req'[w].pc = "increment" \/ (req'[w].pc = "reply" /\ req'[w].status = "error"))
  BY WroteEffect DEF Insert
<1>5. InsertsOnly(w)
  BY <1>1, <1>3 DEF InsertsOnly, Inserting
<1>6. KeepsSongs
  BY <1>2, <1>3 DEF KeepsSongs, InList, Has
<1>7. RowsWereCreated' /\ DeletedStaysDeleted'
  <2>1. raced \subseteq raced'
    BY DEF Observe
  <2> QED
    BY <1>1, <1>2, <1>3, <2>1 DEF RowsWereCreated, DeletedStaysDeleted
<1>8. RequestInv(req[w])'
  BY <1>1, <1>4
     DEF RequestInv, Holds, Writing, Saved, Inserting, Drops, SameRequest
<1>9. ~ Inserting(req'[w])
  BY <1>4 DEF Inserting
<1> QED
  BY <1>4, <1>5, <1>6, <1>7, <1>8, <1>9, StepKeepsInv

LEMMA SaveKeepsInv ==
  ASSUME HInv, TypeOK', NEW w \in Workers, Save(w), Observe,
         UNCHANGED <<acked, dropped, deleted>>
  PROVE  HInv'
<1> DEFINE i == req[w].id
           r == req[w].snap
<1>1. /\ RequestInv(req[w]) /\ RowsWereCreated /\ DeletedStaysDeleted
      /\ created \subseteq Ids
      /\ playlists \in [Ids -> Row \cup {Null}] /\ req[w].pc = "save"
      /\ i \in Ids /\ r \in Row /\ req[w].op \in {"rate", "rename"}
      /\ req[w].op = "rate" => req[w].arg \in Songs
      /\ req[w].op = "rename" => req[w].arg \in Folders
  BY DEF HInv, TypeOK, WellFormed, Save, At, OpsAt, Holds
<1>2. /\ \A j \in Ids \ {i} : playlists'[j] = playlists[j]
      /\ playlists'[i] = Edited(req[w])
      /\ created' = created /\ i \in created
  BY <1>1 DEF Save, RequestInv, Writing
<1>3. /\ \A x : Has(r, x) => Has(Edited(req[w]), x)
      /\ req[w].op = "rate" => Has(Edited(req[w]), req[w].arg)
  BY <1>1, EditsKeepSongs DEF Edited
<1>4. Others(w) /\ SameRequest(req'[w], req[w])
      /\ (req'[w].pc = "increment" \/ (req'[w].pc = "reply" /\ req'[w].status = "error"))
  BY WroteEffect DEF Save
<1>5. raced \subseteq raced'
  BY DEF Observe
<1>6. i \notin raced' => playlists[i] = r /\ r # Null
  BY <1>1, <1>5, NullRowAssumption DEF RequestInv, Holds
<1>7. InsertsOnly(w)
  BY <1>2 DEF InsertsOnly
<1>8. KeepsSongs
  BY <1>2, <1>3, <1>6 DEF KeepsSongs, InList
<1>9. RowsWereCreated' /\ DeletedStaysDeleted'
  BY <1>1, <1>2, <1>5, <1>6 DEF RowsWereCreated, DeletedStaysDeleted
<1>10. RequestInv(req[w])'
  <2>1. Drops(req'[w]) = {}
    BY <1>1, <1>4 DEF Drops, SameRequest
  <2>2. Saved(req'[w]) => InList(i, req[w].arg)' /\ req[w].arg \in Songs
    BY <1>1, <1>2, <1>3, <1>4 DEF Saved, SameRequest, InList
  <2> QED
    BY <1>1, <1>4, <2>1, <2>2
       DEF RequestInv, Holds, Writing, Inserting, SameRequest
<1>11. ~ Inserting(req'[w])
  BY <1>4 DEF Inserting
<1> QED
  BY <1>4, <1>7, <1>8, <1>9, <1>10, <1>11, StepKeepsInv

LEMMA UpdateKeepsInv ==
  ASSUME HInv, TypeOK', NEW w \in Workers, Update(w), Observe,
         UNCHANGED <<acked, dropped, deleted>>
  PROVE  HInv'
<1> DEFINE i == req[w].id
           r == req[w].snap
           s == req[w].arg
<1>1. /\ RequestInv(req[w]) /\ RowsWereCreated /\ DeletedStaysDeleted
      /\ created \subseteq Ids
      /\ playlists \in [Ids -> Row \cup {Null}] /\ req[w].pc = "update"
      /\ i \in Ids /\ r \in Row /\ req[w].op = "deleteSong"
  BY DEF HInv, TypeOK, WellFormed, Update, At, OpsAt, Holds
<1>2. /\ \A j \in Ids \ {i} : playlists'[j] = playlists[j]
      /\ playlists'[i] = Retracked(playlists[i], WithoutSong(r.tracks, s))
      /\ created' = created /\ i \in created
  BY <1>1 DEF Update, RequestInv, Writing
<1>3. \A x : x # s /\ Has(r, x) => Has(Retracked(r, WithoutSong(r.tracks, s)), x)
  BY <1>1, EditsKeepSongs
<1>4. Others(w) /\ SameRequest(req'[w], req[w])
      /\ (req'[w].pc = "render" \/ (req'[w].pc = "reply" /\ req'[w].status = "error"))
  BY WroteEffect DEF Update
<1>5. raced \subseteq raced'
  BY DEF Observe
<1>6. i \notin raced' => playlists[i] = r /\ r # Null
  BY <1>1, <1>5, NullRowAssumption DEF RequestInv, Holds
<1>7. <<i, s>> \in dropped'
  BY <1>1 DEF RequestInv, Drops
<1>8. InsertsOnly(w)
  BY <1>2 DEF InsertsOnly
<1>9. KeepsSongs
  <2> SUFFICES ASSUME NEW j \in Ids, NEW x \in Songs, InList(j, x),
                      j \notin raced', <<j, x>> \notin dropped'
               PROVE  InList(j, x)'
    BY DEF KeepsSongs
  <2>1. CASE j # i
    BY <1>2, <2>1 DEF InList
  <2>2. CASE j = i
    BY <1>2, <1>3, <1>6, <1>7, <2>2 DEF InList
  <2> QED
    BY <2>1, <2>2
<1>10. RowsWereCreated' /\ DeletedStaysDeleted'
  BY <1>1, <1>2, <1>5, <1>6 DEF RowsWereCreated, DeletedStaysDeleted
<1>11. RequestInv(req[w])'
  <2>1. Drops(req'[w]) \subseteq dropped'
    BY <1>1, <1>4, <1>7 DEF Drops, SameRequest
  <2> QED
    BY <1>1, <1>4, <2>1
       DEF RequestInv, Holds, Writing, Saved, Inserting, SameRequest
<1>12. ~ Inserting(req'[w])
  BY <1>4 DEF Inserting
<1> QED
  BY <1>4, <1>8, <1>9, <1>10, <1>11, <1>12, StepKeepsInv

LEMMA RemoveKeepsInv ==
  ASSUME HInv, TypeOK', NEW w \in Workers, HRemove(w), Observe
  PROVE  HInv'
<1> DEFINE i == req[w].id
<1>1. /\ RequestInv(req[w]) /\ RowsWereCreated /\ DeletedStaysDeleted
      /\ created \subseteq Ids
      /\ playlists \in [Ids -> Row \cup {Null}] /\ req[w].pc = "remove"
      /\ i \in Ids /\ req[w].op = "delete"
  BY DEF HInv, TypeOK, WellFormed, HRemove, Remove, At, OpsAt
<1>2. /\ \A j \in Ids \ {i} : playlists'[j] = playlists[j]
      /\ playlists'[i] = Null /\ deleted' = deleted \cup {i}
      /\ created' = created /\ i \in created /\ UNCHANGED <<acked, dropped>>
  BY <1>1 DEF HRemove, Remove, RequestInv, Writing
<1>3. Others(w) /\ SameRequest(req'[w], req[w]) /\ req'[w].pc = "reply"
  BY AnswerEffect DEF HRemove, Remove, Throw, HInv, TypeOK
<1>4. raced \subseteq raced'
  BY DEF Observe
<1>5. {i} \X Songs \subseteq dropped'
  BY <1>1, <1>2 DEF RequestInv, Drops
<1>6. InsertsOnly(w)
  BY <1>2 DEF InsertsOnly
<1>7. KeepsSongs
  BY <1>2, <1>5 DEF KeepsSongs, InList
<1>8. RowsWereCreated' /\ DeletedStaysDeleted'
  BY <1>1, <1>2, <1>4 DEF RowsWereCreated, DeletedStaysDeleted
<1>9. RequestInv(req[w])'
  <2>1. Drops(req'[w]) \subseteq dropped'
    BY <1>1, <1>3, <1>5 DEF Drops, SameRequest
  <2> QED
    BY <1>1, <1>3, <2>1
       DEF RequestInv, Holds, Writing, Saved, Inserting, SameRequest
<1>10. ~ Inserting(req'[w])
  BY <1>3 DEF Inserting
<1> QED
  BY <1>2, <1>3, <1>6, <1>7, <1>8, <1>9, <1>10, StepKeepsInv

-----------------------------------------------------------------------------
LEMMA HInvInit == HInit => HInv
<1> SUFFICES ASSUME HInit PROVE HInv
  OBVIOUS
<1>1. TypeOK
  BY TypeInit DEF HInit
<1>2. \A w \in Workers : req[w] = Idle
  BY DEF HInit, Init
<1>3. \A w \in Workers : RequestInv(req[w])
  BY <1>2 DEF RequestInv, Idle, Holds, Saved, Inserting, Writing
<1>4. DistinctInserts
  BY <1>2 DEF DistinctInserts, Inserting, Idle
<1> QED
  BY <1>1, <1>3, <1>4
     DEF HInit, Init, HInv, RowsWereCreated, SerialRequestsLoseNothing,
         DeletedStaysDeleted

LEMMA HInvStep == HInv /\ [HNext]_hvars => HInv'
<1> SUFFICES ASSUME HInv, [HNext]_hvars
             PROVE  HInv'
  OBVIOUS
<1>1. TypeOK'
  BY TypeStep, HNextIsNext DEF HInv
<1>2. ASSUME NEW w \in Workers, Observe,
             HReceive(w) \/ HSave(w) \/ HRemove(w) \/ HReply(w) \/ HOther(w)
      PROVE  HInv'
  <2>1. CASE HReceive(w)
    BY <1>1, <1>2, <2>1, ReceiveKeepsInv
  <2>2. CASE HSave(w)
    BY <1>1, <1>2, <2>2, SaveKeepsInv DEF HSave
  <2>3. CASE HRemove(w)
    BY <1>1, <1>2, <2>3, RemoveKeepsInv
  <2>4. CASE HReply(w)
    BY <1>1, <1>2, <2>4, ReplyKeepsInv
  <2>5. CASE HOther(w)
    BY <1>1, <1>2, <2>5, OtherKeepsInv, InsertKeepsInv, UpdateKeepsInv DEF HOther
  <2> QED
    BY <1>2, <2>1, <2>2, <2>3, <2>4, <2>5
<1>3. CASE UNCHANGED hvars
  BY <1>1, <1>3
     DEF hvars, HInv, RequestInv, DistinctInserts, RowsWereCreated,
         SerialRequestsLoseNothing, DeletedStaysDeleted, InList
<1> QED
  BY <1>2, <1>3 DEF HNext

(* A rating that was answered "ok" is lost only to a request for the same  *)
(* list that overlapped it, or to a requested removal.                     *)
THEOREM RatingsSurviveSerialRequests == HSpec => []SerialRequestsLoseNothing
<1>1. HInv => SerialRequestsLoseNothing
  BY DEF HInv
<1> QED
  BY HInvInit, HInvStep, <1>1, PTL DEF HSpec

(* A list whose row was deleted comes back only by the write of a request  *)
(* that had read it before.                                                *)
THEOREM DeletionsSurviveSerialRequests == HSpec => []DeletedStaysDeleted
<1>1. HInv => DeletedStaysDeleted
  BY DEF HInv
<1> QED
  BY HInvInit, HInvStep, <1>1, PTL DEF HSpec

-----------------------------------------------------------------------------
(* The owners.  Every copy is a version of its list; the lists with a      *)
(* version were created; and while a list is not deleted its row is there, *)
(* marked, with the owner of all its versions.                             *)
VersionInv ==
  /\ \A i \in Ids : playlists[i] # Null => playlists[i] \in versions[i]
  /\ \A i \in Ids : versions[i] # {} => i \in created
  /\ \A v \in Workers : Holds(req[v]) => req[v].snap \in versions[req[v].id]

OwnerInv ==
  /\ OneOwnerForever
  /\ \A i \in created \ deleted :
       /\ playlists[i] # Null /\ playlists[i].marker
       /\ \A v \in versions[i] : v.usermail = playlists[i].usermail

(* A create request that inserted its list finds it under its user.        *)
Created(r) == r.op = "create" /\ r.pc \in {"increment", "render"}

CreateInv ==
  \A v \in Workers :
    /\ Created(req[v]) =>
         /\ req[v].id \in created
         /\ req[v].id \notin deleted => playlists[req[v].id].usermail = req[v].user
    /\ At(v, "reply") /\ req[v].op = "create" /\ req[v].status = "ok"
         => req[v].id \in req[v].listing \cup deleted

OInv == /\ HInv /\ versions \in [Ids -> SUBSET Row]
        /\ VersionInv /\ OwnerInv /\ CreateInv

(* What a step may do to the row i: leave it, delete it, insert it, write  *)
(* a version of it with other songs or another folder, or update its songs *)
(* (of a row without a marker, or none, too).                              *)
RowStep(i) ==
  \/ playlists'[i] = playlists[i] /\ (i \in created' => i \in created)
  \/ playlists'[i] = Null /\ i \in deleted' /\ (i \in created' => i \in created)
  \/ playlists'[i] \in Row /\ playlists'[i].marker /\ i \notin created
  \/ /\ playlists'[i] \in Row /\ playlists'[i].marker /\ i \in created
     /\ \E s \in versions[i] : playlists'[i].usermail = s.usermail
  \/ /\ playlists'[i] \in Row /\ playlists[i] \in Row /\ i \in created
     /\ playlists'[i].usermail = playlists[i].usermail
     /\ playlists'[i].marker = playlists[i].marker
  \/ /\ playlists[i] = Null \/ ~playlists[i].marker
     /\ i \in created
     /\ playlists'[i] = Null \/ (playlists'[i] \in Row /\ playlists'[i].usermail = Null)

LEMMA RowStepKeepsOwners ==
  ASSUME OInv, Observe, TypeOK', created \subseteq created', deleted \subseteq deleted',
         \A i \in Ids : RowStep(i)
  PROVE  /\ versions' \in [Ids -> SUBSET Row] /\ OwnerInv'
         /\ \A i \in Ids : playlists'[i] # Null => playlists'[i] \in versions'[i]
         /\ \A i \in Ids : versions[i] \subseteq versions'[i]
         /\ \A i \in created \ deleted' : /\ playlists'[i] # Null
                                        /\ playlists'[i].usermail = playlists[i].usermail
<1>1. /\ playlists \in [Ids -> Row \cup {Null}] /\ playlists' \in [Ids -> Row \cup {Null}]
      /\ created \subseteq Ids /\ created' \subseteq Ids /\ versions \in [Ids -> SUBSET Row]
  BY DEF OInv, HInv, TypeOK
<1>2. \A i \in Ids : versions'[i] = versions[i] \cup ({playlists'[i]} \ {Null})
  BY DEF Observe
<1>3. versions' \in [Ids -> SUBSET Row]
  BY <1>1 DEF Observe
<1>4. ASSUME NEW i \in created' \ deleted'
      PROVE  /\ playlists'[i] # Null /\ playlists'[i].marker
             /\ \A v \in versions'[i] : v.usermail = playlists'[i].usermail
             /\ i \in created => playlists'[i].usermail = playlists[i].usermail
  <2>1. i \in Ids /\ RowStep(i) /\ i \notin deleted
    BY <1>1
  <2>2. i \in created =>
          /\ playlists[i] # Null /\ playlists[i].marker
          /\ \A v \in versions[i] : v.usermail = playlists[i].usermail
    BY <2>1 DEF OInv, OwnerInv
  <2>3. i \notin created => versions[i] = {}
    BY <2>1 DEF OInv, VersionInv
  <2>4. /\ playlists'[i] # Null /\ playlists'[i].marker
        /\ i \in created => playlists'[i].usermail = playlists[i].usermail
    BY <1>1, <2>1, <2>2, <2>3, NullRowAssumption DEF RowStep
  <2> QED
    BY <1>2, <2>1, <2>2, <2>3, <2>4
<1>5. OneOwnerForever'
  <2> SUFFICES ASSUME NEW i \in Ids, NEW v1 \in versions'[i], NEW v2 \in versions'[i],
                      v1.usermail \in Users, v2.usermail \in Users
               PROVE  v1.usermail = v2.usermail
    BY DEF OneOwnerForever
  <2>1. \A u1, u2 \in versions[i] :
          u1.usermail \in Users /\ u2.usermail \in Users => u1.usermail = u2.usermail
    BY DEF OInv, OwnerInv, OneOwnerForever
  <2>2. i \notin created => versions[i] = {}
    BY DEF OInv, VersionInv
  <2>3. playlists[i] # Null => playlists[i] \in versions[i]
    BY DEF OInv, VersionInv
  <2>4. \/ playlists'[i] = Null
        \/ playlists'[i].usermail \notin Users
        \/ versions[i] = {}
        \/ \E s \in versions[i] : playlists'[i].usermail = s.usermail
    BY <2>2, <2>3, NullRowAssumption, NullUserAssumption DEF RowStep
  <2> QED
    BY <1>2, <2>1, <2>4
<1> QED
  BY <1>1, <1>2, <1>3, <1>4, <1>5 DEF OwnerInv

LEMMA OwnStep ==
  ASSUME OInv, HInv', NEW w \in Workers, Others(w), Observe,
         created \subseteq created', deleted \subseteq deleted',
         \A i \in Ids : RowStep(i),
         Holds(req'[w]) => req'[w].snap \in versions'[req'[w].id],
         Created(req'[w]) =>
           /\ req'[w].id \in created'
           /\ req'[w].id \notin deleted' => playlists'[req'[w].id].usermail = req'[w].user,
         req'[w].pc = "reply" /\ req'[w].op = "create" /\ req'[w].status = "ok"
           => req'[w].id \in req'[w].listing \cup deleted'
  PROVE  OInv'
<1>1. /\ TypeOK' /\ versions' \in [Ids -> SUBSET Row] /\ OwnerInv'
      /\ \A i \in Ids : playlists'[i] # Null => playlists'[i] \in versions'[i]
      /\ \A i \in Ids : versions[i] \subseteq versions'[i]
      /\ \A i \in created \ deleted' : /\ playlists'[i] # Null
                                     /\ playlists'[i].usermail = playlists[i].usermail
  BY RowStepKeepsOwners DEF HInv
<1>2. \A i \in Ids : versions'[i] # {} => i \in created'
  <2> SUFFICES ASSUME NEW i \in Ids, versions'[i] # {}
               PROVE  i \in created'
    OBVIOUS
  <2>1. versions[i] # {} \/ playlists'[i] # Null
    BY DEF Observe
  <2>2. versions[i] # {} => i \in created
    BY DEF OInv, VersionInv
  <2> QED
    BY <2>1, <2>2 DEF HInv, RowsWereCreated
<1>3. ASSUME NEW v \in Workers \ {w}
      PROVE  /\ Holds(req'[v]) => req'[v].snap \in versions'[req'[v].id]
             /\ Created(req'[v]) =>
                  /\ req'[v].id \in created'
                  /\ req'[v].id \notin deleted' =>
                       playlists'[req'[v].id].usermail = req'[v].user
             /\ req'[v].pc = "reply" /\ req'[v].op = "create" /\ req'[v].status = "ok"
                  => req'[v].id \in req'[v].listing \cup deleted'
  <2>1. req'[v] = req[v] /\ WellFormed(req[v])
    BY DEF Others, OInv, HInv, TypeOK
  <2>2. Holds(req[v]) => req[v].id \in Ids /\ req[v].snap \in versions[req[v].id]
    BY <2>1 DEF WellFormed, Holds, OInv, VersionInv
  <2>3. /\ Created(req[v]) =>
             /\ req[v].id \in created
             /\ req[v].id \notin deleted => playlists[req[v].id].usermail = req[v].user
        /\ req[v].pc = "reply" /\ req[v].op = "create" /\ req[v].status = "ok"
             => req[v].id \in req[v].listing \cup deleted
    BY DEF OInv, CreateInv, At
  <2> QED
    BY <1>1, <2>1, <2>2, <2>3
<1>4. VersionInv'
  BY <1>1, <1>2, <1>3 DEF VersionInv
<1>5. CreateInv'
  BY <1>3 DEF CreateInv, At
<1> QED
  BY <1>1, <1>4, <1>5 DEF OInv

(* A step that writes no row, and takes no copy.                           *)
LEMMA QuietOwnStep ==
  ASSUME OInv, HInv', NEW w \in Workers, Others(w), Observe,
         UNCHANGED <<playlists, created, deleted>>, ~Holds(req'[w]),
         Created(req'[w]) => Created(req[w]) /\ SameRequest(req'[w], req[w]),
         req'[w].pc = "reply" /\ req'[w].op = "create" /\ req'[w].status = "ok"
           => req'[w].id \in req'[w].listing \cup deleted
  PROVE  OInv'
<1>1. \A i \in Ids : RowStep(i)
  BY DEF RowStep
<1>2. Created(req'[w]) =>
        /\ req'[w].id \in created
        /\ req'[w].id \notin deleted => playlists[req'[w].id].usermail = req'[w].user
  BY DEF OInv, CreateInv, SameRequest
<1> QED
  BY <1>1, <1>2, OwnStep

LEMMA ReceiveOwn ==
  ASSUME OInv, HInv', NEW w \in Workers, HReceive(w), Observe
  PROVE  OInv'
<1>1. /\ Others(w)
      /\ req'[w].pc \in {"findUser", "findTrack", "authorize", "findList"}
  BY ReceiveWellFormed DEF HReceive, OInv, HInv
<1> QED
  BY <1>1, QuietOwnStep DEF Holds, Created, HReceive, Receive

LEMMA ReplyOwn ==
  ASSUME OInv, HInv', NEW w \in Workers, HReply(w), Observe
  PROVE  OInv'
<1>1. Others(w) /\ req'[w] = Idle
  BY DEF HReply, Reply, Others, OInv, HInv, TypeOK
<1> QED
  BY <1>1, QuietOwnStep DEF Idle, Holds, Created, HReply, Reply, UnchangedTables

LEMMA RemoveOwn ==
  ASSUME OInv, HInv', NEW w \in Workers, HRemove(w), Observe
  PROVE  OInv'
<1> DEFINE i == req[w].id
<1>1. /\ playlists \in [Ids -> Row \cup {Null}] /\ req[w].pc = "remove"
      /\ i \in Ids /\ req[w].op = "delete" /\ req \in [Workers -> Request]
  BY DEF OInv, HInv, TypeOK, WellFormed, HRemove, Remove, At, OpsAt
<1>2. /\ \A j \in Ids \ {i} : playlists'[j] = playlists[j]
      /\ playlists'[i] = Null /\ deleted' = deleted \cup {i} /\ created' = created
  BY <1>1 DEF HRemove, Remove
<1>3. Others(w) /\ SameRequest(req'[w], req[w]) /\ req'[w].pc = "reply"
  BY <1>1, AnswerEffect DEF HRemove, Remove, Throw
<1>4. \A j \in Ids : RowStep(j)
  BY <1>2 DEF RowStep
<1> QED
  BY <1>1, <1>2, <1>3, <1>4, OwnStep DEF Holds, Created, SameRequest

LEMMA SaveOwn ==
  ASSUME OInv, HInv', NEW w \in Workers, Save(w), Observe, UNCHANGED deleted
  PROVE  OInv'
<1> DEFINE i == req[w].id
           s == req[w].snap
<1>1. /\ playlists \in [Ids -> Row \cup {Null}] /\ req[w].pc = "save"
      /\ i \in Ids /\ s \in Row /\ req[w].op \in {"rate", "rename"}
      /\ req[w].op = "rate" => req[w].arg \in Songs
      /\ req[w].op = "rename" => req[w].arg \in Folders
      /\ RequestInv(req[w])
  BY DEF OInv, HInv, TypeOK, WellFormed, Save, At, OpsAt, Holds
<1>2. /\ \A j \in Ids \ {i} : playlists'[j] = playlists[j]
      /\ playlists'[i] = Edited(req[w]) /\ created' = created /\ i \in created
  BY <1>1 DEF Save, RequestInv, Writing
<1>3. /\ Edited(req[w]) \in Row /\ Edited(req[w]).marker
      /\ Edited(req[w]).usermail = s.usermail
  <2>1. WithSong(s, req[w].arg).usermail = s.usermail /\ WithSong(s, req[w].arg).marker
    BY <1>1 DEF WithSong, Row
  <2>2. WithFolder(s, req[w].arg).usermail = s.usermail /\ WithFolder(s, req[w].arg).marker
    BY <1>1 DEF WithFolder, Row
  <2> QED
    BY <1>1, <2>1, <2>2, RowsAreRows DEF Edited
<1>4. s \in versions[i]
  BY <1>1 DEF OInv, VersionInv, Holds
<1>5. \A j \in Ids : RowStep(j)
  BY <1>2, <1>3, <1>4 DEF RowStep
<1>6. Others(w) /\ SameRequest(req'[w], req[w])
      /\ (req'[w].pc = "increment" \/ (req'[w].pc = "reply" /\ req'[w].status = "error"))
  BY WroteEffect DEF Save, OInv
<1> QED
  BY <1>1, <1>2, <1>5, <1>6, OwnStep DEF Holds, Created, SameRequest

LEMMA InsertOwn ==
  ASSUME OInv, HInv', NEW w \in Workers, Insert(w), Observe, UNCHANGED deleted
  PROVE  OInv'
<1> DEFINE i == req[w].id
           n == NewRow(req[w].arg, req[w].user)
<1>1. /\ playlists \in [Ids -> Row \cup {Null}] /\ req[w].pc = "insert"
      /\ i \in Ids /\ req[w].op \in {"create", "add"}
      /\ req[w].user \in Users /\ req[w].arg \in Folders /\ RequestInv(req[w])
  BY DEF OInv, HInv, TypeOK, WellFormed, Insert, At, OpsAt
<1>2. /\ \A j \in Ids \ {i} : playlists'[j] = playlists[j]
      /\ playlists'[i] = n /\ created' = created \cup {i} /\ i \notin created
  BY <1>1 DEF Insert, RequestInv, Inserting
<1>3. n \in Row /\ n.marker /\ n.usermail = req[w].user
  BY <1>1, RowsAreRows DEF NewRow
<1> HIDE DEF n
<1>4. \A j \in Ids : RowStep(j)
  BY <1>2, <1>3 DEF RowStep
<1>5. Others(w) /\ SameRequest(req'[w], req[w])
      /\ (req'[w].pc = "increment" \/ (req'[w].pc = "reply" /\ req'[w].status = "error"))
  BY WroteEffect DEF Insert, OInv
<1> QED
  BY <1>1, <1>2, <1>3, <1>4, <1>5, OwnStep DEF Holds, Created, SameRequest

LEMMA UpdateOwn ==
  ASSUME OInv, HInv', NEW w \in Workers, Update(w), Observe, UNCHANGED deleted
  PROVE  OInv'
<1> DEFINE i == req[w].id
           t == WithoutSong(req[w].snap.tracks, req[w].arg)
<1>1. /\ playlists \in [Ids -> Row \cup {Null}] /\ req[w].pc = "update"
      /\ i \in Ids /\ req[w].snap \in Row /\ req[w].op = "deleteSong"
      /\ RequestInv(req[w]) /\ playlists' \in [Ids -> Row \cup {Null}]
  BY DEF OInv, HInv, TypeOK, WellFormed, Update, At, OpsAt, Holds
<1>2. /\ \A j \in Ids \ {i} : playlists'[j] = playlists[j]
      /\ playlists'[i] = Retracked(playlists[i], t)
      /\ created' = created /\ i \in created
  BY <1>1 DEF Update, RequestInv, Writing
<1> HIDE DEF t
<1>3. RowStep(i)
  <2> DEFINE r == playlists[i]
  <2>1. r \in Row \cup {Null} /\ playlists'[i] \in Row \cup {Null}
    BY <1>1
  <2>2. CASE r # Null /\ (r.marker \/ t # << >>)
    <3>1. playlists'[i] = [r EXCEPT !.tracks = t] /\ r \in Row
      BY <1>2, <2>1, <2>2 DEF Retracked
    <3>2. playlists'[i].usermail = r.usermail /\ playlists'[i].marker = r.marker
      BY <3>1 DEF Row
    <3>3. playlists'[i] = Null \/ playlists'[i] \in Row
      BY <2>1
    <3>4. playlists'[i] # Null
      <4>1. DOMAIN r = {"folder", "usermail", "tracks", "marker"}
        BY <3>1 DEF Row
      <4>2. r.tracks \in Seq(Songs) /\ t \in Seq(Songs)
        BY <1>1, <3>1, WithoutSongType DEF Row, t
      <4>3. [r EXCEPT !.tracks = t] \in Row
        BY <3>1, <4>2 DEF Row
      <4> QED
        BY <3>1, <4>3, NullRowAssumption
    <3> QED
      BY <1>2, <3>1, <3>2, <3>3, <3>4 DEF RowStep
  <2>3. CASE ~(r # Null /\ (r.marker \/ t # << >>))
    <3>1. r = Null \/ ~r.marker
      BY <2>3
    <3>2. playlists'[i] = Null \/ playlists'[i].usermail = Null
      BY <1>2, <2>3 DEF Retracked
    <3> QED
      BY <1>2, <2>1, <3>1, <3>2 DEF RowStep
  <2> QED
    BY <2>2, <2>3
<1>4. \A j \in Ids : RowStep(j)
  BY <1>2, <1>3 DEF RowStep
<1>5. Others(w) /\ SameRequest(req'[w], req[w])
      /\ (req'[w].pc = "render" \/ (req'[w].pc = "reply" /\ req'[w].status = "error"))
  BY WroteEffect DEF Update, OInv
<1> QED
  BY <1>1, <1>2, <1>4, <1>5, OwnStep DEF Holds, Created, SameRequest

LEMMA OtherOwn ==
  ASSUME OInv, HInv', NEW w \in Workers, Observe, UNCHANGED deleted,
         \/ FindTrack(w) \/ FindUser(w) \/ Authorize(w) \/ FindList(w)
         \/ Increment(w) \/ Render(w) \/ Abort(w)
  PROVE  OInv'
<1>1. /\ HInv /\ TypeOK /\ req \in [Workers -> Request] /\ WellFormed(req[w])
      /\ UNCHANGED <<playlists, created>>
  BY DEF OInv, HInv, TypeOK, FindTrack, FindUser, Authorize, FindList, Increment,
         Render, Abort, UnchangedTables
(* Any of them may answer with an error.                                   *)
<1>2. ASSUME NEW st \in {"error", "forbidden"}, Answer(w, st)
      PROVE  OInv'
  <2>1. Others(w) /\ req'[w].pc = "reply" /\ req'[w].status = st
    BY <1>1, <1>2, AnswerEffect
  <2> QED
    BY <1>1, <2>1, QuietOwnStep DEF Holds, Created
<1>3. ASSUME NEW l \in {"findList", "insert", "render"}, Goto(w, l),
             l = "render" => req[w].op # "create" \/ req[w].pc = "increment"
      PROVE  OInv'
  <2>1. Others(w) /\ req'[w].pc = l /\ SameRequest(req'[w], req[w])
    BY <1>1, <1>3, GotoEffect DEF Locations
  <2>2. Created(req'[w]) => Created(req[w])
    BY <1>3, <2>1 DEF Created, SameRequest
  <2>3. ~Holds(req'[w]) /\ req'[w].pc # "reply"
    BY <2>1 DEF Holds
  <2> QED
    BY <1>1, <2>1, <2>2, <2>3, QuietOwnStep
<1>4. CASE FindTrack(w) \/ FindUser(w) \/ Authorize(w)
  BY <1>2, <1>3, <1>4 DEF FindTrack, FindUser, Authorize
<1>5. CASE Abort(w)
  BY <1>2, <1>5 DEF Abort, Throw
<1>6. CASE FindList(w) /\ MissingList(w)
  BY <1>2, <1>3, <1>6 DEF FindList, MissingList
<1>7. CASE FindList(w) /\ FoundList(w)
  <2> DEFINE i == req[w].id
  <2>1. /\ Others(w) /\ req'[w].pc = WriteOf[req[w].op]
        /\ SameRequest(req'[w], req[w]) /\ req'[w].snap = playlists[i]
        /\ i \in Ids /\ playlists[i] # Null
    BY <1>1, <1>7, FoundListEffect, NullRowAssumption DEF FindList
  <2>2. req[w].op \in {"rate", "rename", "delete", "deleteSong"}
    BY <1>1, <1>7 DEF FindList, At, WellFormed, OpsAt
  <2>3. ~Created(req'[w]) /\ req'[w].pc # "reply"
    BY <2>1, <2>2 DEF WriteOf, Created
  <2>4. playlists[i] \in versions'[i]
    BY <2>1 DEF OInv, VersionInv, Observe
  <2>5. \A j \in Ids : RowStep(j)
    BY <1>1 DEF RowStep
  <2> QED
    BY <1>1, <2>1, <2>3, <2>4, <2>5, OwnStep DEF SameRequest
<1>8. CASE Increment(w)
  <2>1. req[w].pc = "increment"
    BY <1>8 DEF Increment, At
  <2>2. CASE req[w].op # "create" /\ Answer(w, "ok")
    <3>1. Others(w) /\ req'[w].pc = "reply" /\ SameRequest(req'[w], req[w])
      BY <1>1, <2>2, AnswerEffect
    <3> QED
      BY <1>1, <2>2, <3>1, QuietOwnStep DEF Holds, Created, SameRequest
  <2>3. CASE Throw(w)
    BY <1>2, <2>3 DEF Throw
  <2>4. CASE Goto(w, "render")
    BY <1>3, <2>1, <2>4
  <2> QED
    BY <1>8, <2>2, <2>3, <2>4 DEF Increment, Wrote
<1>9. CASE Render(w)
  <2> DEFINE r == [req[w] EXCEPT !.pc = "reply", !.status = "ok",
                                 !.listing = ListsOf(req[w].user)]
  <2>1. req[w] \in Request /\ req[w].pc = "render"
    BY <1>1, <1>9 DEF Render, At
  <2>2. r.pc = "reply" /\ SameRequest(r, req[w]) /\ r.listing = ListsOf(req[w].user)
    BY <2>1 DEF Request, SameRequest
  <2>3. req' = [req EXCEPT ![w] = r]
    BY <1>9 DEF Render
  <2> HIDE DEF r
  <2>4. Others(w) /\ req'[w] = r
    BY <1>1, <2>3 DEF Others
  (* The list was inserted; if it is not deleted its row is in the table.  *)
  <2>5. req[w].op = "create" => req[w].id \in ListsOf(req[w].user) \cup deleted
    <3> SUFFICES ASSUME req[w].op = "create", req[w].id \notin deleted
                 PROVE  req[w].id \in ListsOf(req[w].user)
      OBVIOUS
    <3>1. req[w].id \in created /\ playlists[req[w].id].usermail = req[w].user
      BY <2>1 DEF OInv, CreateInv, Created
    <3>2. req[w].id \in Ids /\ playlists[req[w].id] # Null
      BY <1>1, <3>1 DEF OInv, OwnerInv, TypeOK
    <3> QED
      BY <3>1, <3>2 DEF ListsOf
  <2> QED
    BY <1>1, <2>2, <2>4, <2>5, QuietOwnStep DEF Holds, Created, SameRequest
<1> QED
  BY <1>4, <1>5, <1>6, <1>7, <1>8, <1>9 DEF FindList

LEMMA OInvInit == HInit => OInv
<1> SUFFICES ASSUME HInit PROVE OInv
  OBVIOUS
<1>1. HInv
  BY HInvInit
<1>2. \A w \in Workers : req[w] = Idle
  BY DEF HInit, Init
<1>3. VersionInv /\ CreateInv
  BY <1>2 DEF HInit, Init, VersionInv, CreateInv, Idle, Holds, Created, At
<1>4. versions \in [Ids -> SUBSET Row] /\ OwnerInv
  BY DEF HInit, Init, OwnerInv, OneOwnerForever
<1> QED
  BY <1>1, <1>3, <1>4 DEF OInv

LEMMA OInvStep == OInv /\ [HNext]_hvars => OInv'
<1> SUFFICES ASSUME OInv, [HNext]_hvars
             PROVE  OInv'
  OBVIOUS
<1>1. HInv'
  BY HInvStep DEF OInv
<1>2. ASSUME NEW w \in Workers, Observe,
             HReceive(w) \/ HSave(w) \/ HRemove(w) \/ HReply(w) \/ HOther(w)
      PROVE  OInv'
  <2>1. CASE HReceive(w)
    BY <1>1, <1>2, <2>1, ReceiveOwn
  <2>2. CASE HSave(w)
    BY <1>1, <1>2, <2>2, SaveOwn DEF HSave
  <2>3. CASE HRemove(w)
    BY <1>1, <1>2, <2>3, RemoveOwn
  <2>4. CASE HReply(w)
    BY <1>1, <1>2, <2>4, ReplyOwn
  <2>5. CASE HOther(w)
    BY <1>1, <1>2, <2>5, OtherOwn, InsertOwn, UpdateOwn DEF HOther
  <2> QED
    BY <1>2, <2>1, <2>2, <2>3, <2>4, <2>5
<1>3. CASE UNCHANGED hvars
  BY <1>1, <1>3
     DEF hvars, OInv, VersionInv, OwnerInv, OneOwnerForever, CreateInv, Created, At
<1> QED
  BY <1>2, <1>3 DEF HNext

(* Rows are written back whole by any session, from copies of any age, and *)
(* by UPDATEs of rows that are gone; still no list ever has two owners.    *)
THEOREM OneOwner == HSpec => []OneOwnerForever
<1>1. OInv => OneOwnerForever
  BY DEF OInv, OwnerInv
<1> QED
  BY OInvInit, OInvStep, <1>1, PTL DEF HSpec

(* A list that no request deleted is in the table under the owner of all   *)
(* its versions, although addRatingSong and deletePlayListSong write it    *)
(* for any session.                                                        *)
THEOREM OwnersAreKept == HSpec => []ListsKeepOwner
<1>1. OInv => ListsKeepOwner
  BY DEF OInv, OwnerInv, ListsKeepOwner
<1> QED
  BY OInvInit, OInvStep, <1>1, PTL DEF HSpec

(* The page that answers createPlayList shows the new list, unless some    *)
(* request deleted it in between.                                          *)
THEOREM CreationsAreListed == HSpec => []CreateListsOwn
<1>1. OInv => CreateListsOwn
  BY DEF OInv, CreateInv, CreateListsOwn
<1> QED
  BY OInvInit, OInvStep, <1>1, PTL DEF HSpec

-----------------------------------------------------------------------------
(* The service implements PlayListVersions: a step that writes a row is a  *)
(* write of the store, every other one a stutter.  What is deleted had a   *)
(* version before, so that the store could delete it.                      *)
RefInv == OInv /\ \A i \in deleted : versions[i] # {}

LEMMA RefInvInit == HInit => RefInv
BY OInvInit DEF RefInv, HInit

LEMMA RefInvStep == RefInv /\ [HNext]_hvars => RefInv'
<1> SUFFICES ASSUME RefInv, [HNext]_hvars
             PROVE  RefInv'
  OBVIOUS
<1>1. OInv'
  BY OInvStep DEF RefInv
<1>2. CASE UNCHANGED hvars
  BY <1>1, <1>2 DEF RefInv, hvars
<1>3. ASSUME NEW w \in Workers, Observe,
             HReceive(w) \/ HSave(w) \/ HRemove(w) \/ HReply(w) \/ HOther(w)
      PROVE  RefInv'
  <2>1. deleted \subseteq Ids /\ \A i \in Ids : versions[i] \subseteq versions'[i]
    BY <1>3 DEF RefInv, OInv, HInv, TypeOK, RowsWereCreated, Observe
  <2>2. CASE deleted' = deleted
    BY <1>1, <2>1, <2>2 DEF RefInv
  <2>3. CASE HRemove(w)
    <3>1. deleted' = deleted \cup {req[w].id}
      BY <2>3 DEF HRemove
    <3>2. req[w].id \in created /\ req[w].id \in Ids
      BY <2>3 DEF RefInv, OInv, HInv, TypeOK, RequestInv, Writing, HRemove, Remove, At
    <3>3. versions[req[w].id] # {}
      BY <3>2 DEF RefInv, OInv, OwnerInv, VersionInv
    <3> QED
      BY <1>1, <2>1, <3>1, <3>2, <3>3 DEF RefInv
  <2> QED
    BY <1>3, <2>2, <2>3 DEF HReceive, HSave, HReply, HOther
<1> QED
  BY <1>2, <1>3 DEF HNext

LEMMA StoreWrites ==
  ASSUME OInv, Observe, NEW i \in Ids, NEW row,
         playlists' = [playlists EXCEPT ![i] = row]
  PROVE  Store!Store(i, row)
<1>1. /\ versions \in [Ids -> SUBSET Row] /\ playlists \in [Ids -> Row \cup {Null}]
      /\ \A j \in Ids : playlists[j] # Null => playlists[j] \in versions[j]
  BY DEF OInv, VersionInv, HInv, TypeOK
<1>2. /\ versions' = [j \in Ids |-> versions[j] \cup ({playlists'[j]} \ {Null})]
      /\ playlists'[i] = row /\ \A j \in Ids \ {i} : playlists'[j] = playlists[j]
  BY <1>1 DEF Observe
<1>3. \A j \in Ids \ {i} : versions[j] \cup ({playlists'[j]} \ {Null}) = versions[j]
  BY <1>1, <1>2
<1>4. versions' = [versions EXCEPT ![i] = @ \cup ({row} \ {Null})]
  BY <1>1, <1>2, <1>3
<1> QED
  BY <1>4 DEF Store!Store

LEMMA StoreStutters ==
  ASSUME OInv, Observe, UNCHANGED playlists
  PROVE  UNCHANGED <<playlists, versions>>
<1>1. /\ versions \in [Ids -> SUBSET Row]
      /\ \A j \in Ids : playlists[j] # Null => playlists[j] \in versions[j]
  BY DEF OInv, VersionInv
<1>2. versions' = [j \in Ids |-> versions[j] \cup ({playlists[j]} \ {Null})]
  BY DEF Observe
<1>3. \A j \in Ids : versions[j] \cup ({playlists[j]} \ {Null}) = versions[j]
  BY <1>1
<1> QED
  BY <1>1, <1>2, <1>3

LEMMA StoreStep == RefInv /\ [HNext]_hvars => [Store!Next]_Store!vars
<1> SUFFICES ASSUME RefInv, [HNext]_hvars
             PROVE  [Store!Next]_Store!vars
  OBVIOUS
<1>1. OInv /\ \A v \in Workers : RequestInv(req[v]) /\ WellFormed(req[v])
  BY DEF RefInv, OInv, HInv, TypeOK
<1>2. CASE UNCHANGED hvars
  BY <1>2 DEF hvars, Store!vars
<1>3. ASSUME NEW w \in Workers, Observe,
             HReceive(w) \/ HSave(w) \/ HRemove(w) \/ HReply(w) \/ HOther(w)
      PROVE  [Store!Next]_Store!vars
  <2> DEFINE i == req[w].id
  <2>1. CASE UNCHANGED playlists
    BY <1>1, <1>3, <2>1, StoreStutters DEF Store!vars
  <2>2. CASE Insert(w)
    <3>1. i \in Ids /\ req[w].arg \in Folders /\ req[w].user \in Users /\ i \notin created
      BY <1>1, <2>2 DEF Insert, At, WellFormed, RequestInv, Inserting
    <3>2. Store!Store(i, NewRow(req[w].arg, req[w].user))
      BY <1>1, <1>3, <2>2, <3>1, StoreWrites DEF Insert
    <3>3. versions[i] = {}
      BY <1>1, <3>1 DEF OInv, VersionInv
    <3>4. Store!Create(i)
      BY <3>1, <3>2, <3>3 DEF Store!Create, Store!NewRow, NewRow, Store!Folders, Folders
    <3> QED
      BY <3>1, <3>4 DEF Store!Next
  <2>3. CASE Save(w)
    <3>1. i \in Ids /\ req[w].snap \in versions[i] /\ req[w].op \in {"rate", "rename"}
          /\ (req[w].op = "rate" => req[w].arg \in Songs)
          /\ (req[w].op = "rename" => req[w].arg \in Folders)
      BY <1>1, <2>3 DEF Save, At, WellFormed, OpsAt, OInv, VersionInv, Holds
    <3>2. Store!Store(i, Edited(req[w]))
      BY <1>1, <1>3, <2>3, <3>1, StoreWrites DEF Save
    <3>3. Store!Extend(i) \/ Store!Refolder(i)
      BY <3>1, <3>2 DEF Edited, Store!Extend, Store!Refolder, Store!WithSong, WithSong,
                        Store!WithFolder, WithFolder, Store!Folders, Folders
    <3> QED
      BY <3>1, <3>3 DEF Store!Next
  <2>4. CASE Update(w)
    <3> DEFINE t == WithoutSong(req[w].snap.tracks, req[w].arg)
    <3>1. i \in Ids /\ req[w].snap \in versions[i] /\ req[w].snap \in Row
      BY <1>1, <2>4 DEF Update, At, WellFormed, OpsAt, OInv, VersionInv, Holds
    <3>2. Store!Store(i, Retracked(playlists[i], t))
      BY <1>1, <1>3, <2>4, <3>1, StoreWrites DEF Update
    <3>3. t \in Store!Shortened(req[w].snap.tracks)
      <4>1. req[w].snap.tracks \in Seq(Songs)
        BY <3>1 DEF Row
      <4> QED
        BY <4>1, WithoutSongType DEF Store!Shortened, Store!SX!RemoveAt, SX!RemoveAt
    <3>4. Store!Shorten(i)
      BY <3>1, <3>2, <3>3 DEF Store!Shorten, Store!Retracked, Retracked
    <3> QED
      BY <3>1, <3>4 DEF Store!Next
  <2>5. CASE HRemove(w)
    <3>1. i \in Ids /\ i \in created
      BY <1>1, <2>5 DEF HRemove, Remove, At, WellFormed, RequestInv, Writing
    <3>2. versions[i] # {}
      BY <1>1, <3>1 DEF RefInv, OInv, OwnerInv, VersionInv
    <3>3. Store!Store(i, Null)
      BY <1>1, <1>3, <2>5, <3>1, StoreWrites DEF HRemove, Remove
    <3> QED
      BY <3>1, <3>2, <3>3 DEF Store!Next, Store!Delete
  <2> QED
    BY <1>3, <2>1, <2>2, <2>3, <2>4, <2>5
       DEF HReceive, Receive, HSave, HReply, Reply, HOther, FindTrack, FindUser,
           Authorize, FindList, Increment, Render, Abort, UnchangedTables
<1> QED
  BY <1>2, <1>3 DEF HNext

(* Every behaviour of the service, with its copies, overlapping requests   *)
(* and failing calls, is one of a store that edits any version of a row,   *)
(* one song or the folder at a time.                                       *)
THEOREM ServiceImplementsVersions == HSpec => ImplementsVersions
<1>1. HInit => Store!Init
  BY DEF HInit, Init, Store!Init
<1> QED
  BY <1>1, RefInvInit, RefInvStep, StoreStep, PTL DEF HSpec, ImplementsVersions, Store!Spec

-----------------------------------------------------------------------------
(* How often a song is in a list: one more where it is added, and no more  *)
(* where a position is taken out.                                          *)
Places(t, s) == {k \in DOMAIN t : t[k] = s}

LEMMA PlacesAreCounted ==
  ASSUME NEW t \in Seq(Songs), NEW s
  PROVE  IsFiniteSet(Places(t, s)) /\ Cardinality(Places(t, s)) \in Nat
<1>1. Len(t) \in Nat /\ DOMAIN t = 1 .. Len(t)
  BY LenProperties
<1>2. IsFiniteSet(1 .. Len(t))
  BY <1>1, FS_Interval
<1>3. Places(t, s) \in SUBSET (1 .. Len(t))
  BY <1>1 DEF Places
<1> QED
  BY <1>2, <1>3, FS_Subset, FS_CardinalityType

LEMMA PlacesAppended ==
  ASSUME NEW t \in Seq(Songs), NEW x \in Songs, NEW s
  PROVE  Cardinality(Places(Append(t, x), s)) <=
           Cardinality(Places(t, s)) + IF x = s THEN 1 ELSE 0
<1> DEFINE n == Len(t) + 1
           u == Append(t, x)
<1>1. Len(t) \in Nat /\ DOMAIN t = 1 .. Len(t)
  BY LenProperties
<1>2. /\ u \in Seq(Songs) /\ Len(u) = n /\ u[n] = x
      /\ \A i \in 1 .. Len(t) : u[i] = t[i]
  BY AppendProperties
<1> HIDE DEF u
<1>3. DOMAIN u = 1 .. n
  BY <1>2, LenProperties
<1>4. x = s => Places(u, s) = Places(t, s) \cup {n}
  BY <1>1, <1>2, <1>3 DEF Places
<1>5. x # s => Places(u, s) = Places(t, s)
  BY <1>1, <1>2, <1>3 DEF Places
<1>6. n \notin Places(t, s)
  BY <1>1 DEF Places
<1>7. /\ Cardinality(Places(t, s)) \in Nat
      /\ Cardinality(Places(t, s) \cup {n}) = Cardinality(Places(t, s)) + 1
  BY <1>6, PlacesAreCounted, FS_AddElement
<1>8. CASE x = s
  <2>1. Cardinality(Places(u, s)) = Cardinality(Places(t, s)) + 1
    BY <1>4, <1>7, <1>8
  <2> QED
    BY <1>7, <1>8, <2>1 DEF u
<1>9. CASE x # s
  <2>1. Cardinality(Places(u, s)) = Cardinality(Places(t, s))
    BY <1>5, <1>9
  <2> QED
    BY <1>7, <1>9, <2>1 DEF u
<1> QED
  BY <1>8, <1>9

LEMMA PlacesRemoved ==
  ASSUME NEW t \in Seq(Songs), NEW k \in 1 .. Len(t), NEW s
  PROVE  Cardinality(Places(SX!RemoveAt(t, k), s)) <= Cardinality(Places(t, s))
<1> DEFINE u == SX!RemoveAt(t, k)
           P == Places(u, s)
           Q == Places(t, s)
           f == [j \in P |-> IF j < k THEN j ELSE j + 1]
<1>1. Len(t) \in Nat /\ DOMAIN t = 1 .. Len(t)
  BY LenProperties
<1>2. /\ u \in Seq(Songs) /\ Len(u) = Len(t) - 1
      /\ \A j \in 1 .. Len(t) - 1 : u[j] = IF j < k THEN t[j] ELSE t[j + 1]
  BY RemoveAtType
<1> HIDE DEF u
<1>3. DOMAIN u = 1 .. Len(t) - 1
  BY <1>2, LenProperties
<1>4. \A j \in P : /\ j \in 1 .. Len(t) - 1
                   /\ (IF j < k THEN j ELSE j + 1) \in Q
  BY <1>1, <1>2, <1>3 DEF Places
<1>5. IsFiniteSet(Q)
  BY PlacesAreCounted
<1> HIDE DEF P, Q
<1>6. f \in [P -> Q]
  BY <1>4
<1>7. \A a, b \in P : f[a] = f[b] => a = b
  BY <1>4
<1>8. f \in Injection(P, Q)
  BY <1>6, <1>7 DEF Injection, IsInjective
<1> HIDE DEF f
<1>9. Cardinality(P) <= Cardinality(Q)
  BY <1>5, <1>8, FS_Injection
<1> QED
  BY <1>9 DEF P, Q, u

(* Every version of a list, and so every copy of it that is still to be    *)
(* written back, holds a song no more often than it was rated.             *)
CopiesInv ==
  /\ rated \in [Ids \X Songs -> Nat]
  /\ \A i \in Ids, s \in Songs : \A v \in versions[i] : Copies(v, s) <= rated[<<i, s>>]

LEMMA CopiesArePlaces ==
  ASSUME NEW r \in Row, NEW s
  PROVE  Copies(r, s) = Cardinality(Places(r.tracks, s)) /\ Copies(r, s) \in Nat
<1>1. r.tracks \in Seq(Songs)
  BY DEF Row
<1> QED
  BY <1>1, PlacesAreCounted DEF Copies, Places

LEMMA CopiesStep ==
  ASSUME RefInv, CopiesInv, [HNext]_hvars
  PROVE  CopiesInv'
<1>1. /\ OInv /\ HInv /\ \A v \in Workers : RequestInv(req[v]) /\ WellFormed(req[v])
      /\ versions \in [Ids -> SUBSET Row] /\ playlists \in [Ids -> Row \cup {Null}]
  BY DEF RefInv, OInv, HInv, TypeOK
<1>2. CASE UNCHANGED hvars
  BY <1>2 DEF hvars, CopiesInv, Copies
<1>3. ASSUME NEW w \in Workers, Observe,
             HReceive(w) \/ HSave(w) \/ HRemove(w) \/ HReply(w) \/ HOther(w)
      PROVE  CopiesInv'
  (* What is left to show of a step: the rows that it writes.              *)
  <2>1. SUFFICES
          /\ rated' \in [Ids \X Songs -> Nat]
          /\ \A i \in Ids, s \in Songs : rated[<<i, s>>] <= rated'[<<i, s>>]
          /\ \A i \in Ids, s \in Songs :
               playlists'[i] # playlists[i] /\ playlists'[i] # Null
                 => Copies(playlists'[i], s) <= rated'[<<i, s>>]
    <3> SUFFICES ASSUME rated' \in [Ids \X Songs -> Nat],
                        NEW i \in Ids, NEW s \in Songs, NEW v \in versions'[i],
                        rated[<<i, s>>] <= rated'[<<i, s>>],
                        playlists'[i] # playlists[i] /\ playlists'[i] # Null
                          => Copies(playlists'[i], s) <= rated'[<<i, s>>]
                 PROVE  Copies(v, s) <= rated'[<<i, s>>]
      BY DEF CopiesInv, Copies
    <3>1. CASE v \in versions[i]
      <4>1. Copies(v, s) \in Nat /\ rated[<<i, s>>] \in Nat /\ rated'[<<i, s>>] \in Nat
        BY <1>1, <3>1, CopiesArePlaces DEF CopiesInv
      <4> QED
        BY <3>1, <4>1 DEF CopiesInv
    <3>2. CASE v \notin versions[i]
      <4>1. v = playlists'[i] /\ v # Null
        BY <1>3, <3>2 DEF Observe
      <4>2. playlists'[i] # playlists[i]
        BY <1>1, <3>2, <4>1 DEF OInv, VersionInv
      <4> QED
        BY <4>1, <4>2
    <3> QED
      BY <3>1, <3>2
  <2> DEFINE i == req[w].id
             g == req[w].arg
             snap == req[w].snap
  <2>2. ASSUME rated' = rated
        PROVE  /\ rated' \in [Ids \X Songs -> Nat]
               /\ \A j \in Ids, s \in Songs : rated[<<j, s>>] <= rated'[<<j, s>>]
    BY <2>2 DEF CopiesInv
  <2>3. CASE UNCHANGED <<playlists, rated>>
    BY <2>2, <2>3
  <2>4. CASE HRemove(w)
    <3>1. i \in Ids
      BY <1>1, <2>4 DEF HRemove, Remove, At, WellFormed
    <3>2. rated' = rated /\ playlists' = [playlists EXCEPT ![i] = Null]
      BY <2>4 DEF HRemove, Remove
    <3> QED
      BY <1>1, <2>2, <3>1, <3>2
  <2>5. CASE Insert(w) /\ UNCHANGED rated
    <3> DEFINE n == NewRow(g, req[w].user)
    <3>1. i \in Ids /\ g \in Folders /\ req[w].user \in Users
      BY <1>1, <2>5 DEF Insert, At, WellFormed
    <3>2. playlists' = [playlists EXCEPT ![i] = n]
      BY <2>5 DEF Insert
    <3>3. \A s \in Songs : Copies(n, s) = 0
      BY FS_EmptySet DEF Copies, NewRow
    <3> HIDE DEF n
    <3>4. \A s \in Songs : Copies(n, s) <= rated[<<i, s>>]
      BY <3>1, <3>3 DEF CopiesInv
    <3> QED
      BY <1>1, <2>2, <2>5, <3>1, <3>2, <3>4
  <2>6. CASE Update(w) /\ UNCHANGED rated
    <3> DEFINE t == WithoutSong(snap.tracks, g)
               n == Retracked(playlists[i], t)
    <3>1. i \in Ids /\ snap \in Row /\ snap \in versions[i] /\ snap.tracks \in Seq(Songs)
      BY <1>1, <2>6 DEF Update, At, WellFormed, OInv, VersionInv, Holds, Row
    <3>2. playlists' = [playlists EXCEPT ![i] = n]
      BY <2>6 DEF Update
    <3>3. t \in Seq(Songs) /\ t \in {snap.tracks} \cup {SX!RemoveAt(snap.tracks, k) :
                                                          k \in DOMAIN snap.tracks}
      BY <3>1, WithoutSongType
    <3>4. DOMAIN snap.tracks = 1 .. Len(snap.tracks)
      BY <3>1, LenProperties
    <3> HIDE DEF t
    <3>5. \A s \in Songs : Cardinality(Places(t, s)) <= Cardinality(Places(snap.tracks, s))
      <4> TAKE s \in Songs
      <4>1. Cardinality(Places(snap.tracks, s)) \in Nat
        BY <3>1, PlacesAreCounted
      <4> QED
        BY <3>1, <3>3, <3>4, <4>1, PlacesRemoved
    <3>6. n # Null => n.tracks = t
      BY <1>1, <3>1 DEF Retracked, Row
    <3> HIDE DEF n
    <3>7. \A s \in Songs : n # Null => Copies(n, s) <= rated[<<i, s>>]
      <4> TAKE s \in Songs
      <4>1. Copies(snap, s) = Cardinality(Places(snap.tracks, s)) /\ Copies(snap, s) \in Nat
        BY <3>1, CopiesArePlaces
      <4>2. Copies(snap, s) <= rated[<<i, s>>] /\ rated[<<i, s>>] \in Nat
        BY <3>1 DEF CopiesInv
      <4>3. Cardinality(Places(t, s)) \in Nat
        BY <3>3, PlacesAreCounted
      <4>4. n # Null => Copies(n, s) = Cardinality(Places(t, s))
        BY <3>6 DEF Copies, Places
      <4>5. Cardinality(Places(t, s)) <= Cardinality(Places(snap.tracks, s))
        BY <3>5
      <4>6. Cardinality(Places(t, s)) <= rated[<<i, s>>]
        BY <4>1, <4>2, <4>3, <4>5
      <4> QED
        BY <4>4, <4>6
    <3> QED
      BY <1>1, <2>2, <2>6, <3>1, <3>2, <3>7
  <2>7. CASE HSave(w)
    <3> DEFINE n == Edited(req[w])
    <3>1. /\ i \in Ids /\ snap \in Row /\ snap \in versions[i] /\ snap.tracks \in Seq(Songs)
          /\ req[w].op \in {"rate", "rename"}
          /\ req[w].op = "rate" => g \in Songs
      BY <1>1, <2>7 DEF HSave, Save, At, WellFormed, OpsAt, OInv, VersionInv, Holds, Row
    <3>2. playlists' = [playlists EXCEPT ![i] = n]
      BY <2>7 DEF HSave, Save
    <3>3. \A s \in Songs : /\ Copies(snap, s) = Cardinality(Places(snap.tracks, s))
                           /\ Copies(snap, s) \in Nat
                           /\ Copies(snap, s) <= rated[<<i, s>>]
                           /\ rated[<<i, s>>] \in Nat
      BY <3>1, CopiesArePlaces DEF CopiesInv
    <3>4. CASE req[w].op = "rate"
      <4>1. rated' = [rated EXCEPT ![<<i, g>>] = @ + 1]
        BY <2>7, <3>4 DEF HSave
      <4>2. /\ <<i, g>> \in Ids \X Songs /\ rated[<<i, g>>] \in Nat
            /\ rated \in [Ids \X Songs -> Nat]
        BY <3>1, <3>4 DEF CopiesInv
      <4> DEFINE at == <<i, g>>
                 T == Ids \X Songs
      <4>3. ASSUME NEW x \in T
            PROVE  /\ rated[x] \in Nat
                   /\ x = at => rated'[x] = rated[x] + 1
                   /\ x # at => rated'[x] = rated[x]
        <5> HIDE DEF at, T
        <5>1. rated \in [T -> Nat] /\ rated' = [rated EXCEPT ![at] = @ + 1]
          BY <4>1, <4>2 DEF at, T
        <5> QED
          BY <5>1
      <4>4. rated' \in [T -> Nat]
        <5> HIDE DEF at, T
        <5>1. rated \in [T -> Nat] /\ rated' = [rated EXCEPT ![at] = @ + 1] /\ at \in T
          BY <4>1, <4>2 DEF at, T
        <5>2. rated[at] + 1 \in Nat
          BY <5>1
        <5> QED
          BY <5>1, <5>2
      <4>5. \A j \in Ids, s \in Songs :
               /\ rated[<<j, s>>] \in Nat
               /\ rated'[<<j, s>>] = rated[<<j, s>>] \/ rated'[<<j, s>>] = rated[<<j, s>>] + 1
        BY <4>3
      <4>6. \A j \in Ids, s \in Songs : rated[<<j, s>>] <= rated'[<<j, s>>]
        <5> TAKE j \in Ids, s \in Songs
        <5> DEFINE old == rated[<<j, s>>]
                   new == rated'[<<j, s>>]
        <5>1. old \in Nat /\ (new = old \/ new = old + 1)
          BY <4>5
        <5> HIDE DEF old, new
        <5>2. old <= new
          BY <5>1
        <5> QED
          BY <5>2 DEF old, new
      <4>7. rated' \in [Ids \X Songs -> Nat]
        BY <4>4
      <4>8. n.tracks = Append(snap.tracks, g)
        BY <3>1, <3>4 DEF Edited, WithSong, Row
      <4> HIDE DEF n
      <4>9. ASSUME NEW s \in Songs
            PROVE  Copies(n, s) <= rated'[<<i, s>>]
        <5>1. Copies(n, s) = Cardinality(Places(Append(snap.tracks, g), s))
          BY <4>8 DEF Copies, Places
        <5>2. Copies(n, s) \in Nat
          <6>1. Append(snap.tracks, g) \in Seq(Songs)
            BY <3>1, <3>4, AppendProperties
          <6> QED
            BY <5>1, <6>1, PlacesAreCounted
        <5>3. Copies(n, s) <= Copies(snap, s) + IF g = s THEN 1 ELSE 0
          BY <3>1, <3>3, <3>4, <5>1, PlacesAppended
        <5>4. /\ g = s => rated'[<<i, s>>] = rated[<<i, s>>] + 1
              /\ g # s => rated'[<<i, s>>] = rated[<<i, s>>]
          BY <3>1, <4>3
        <5>5. Copies(snap, s) \in Nat /\ rated[<<i, s>>] \in Nat
              /\ Copies(snap, s) <= rated[<<i, s>>]
          BY <3>3
        <5>6. CASE g = s
          BY <5>2, <5>3, <5>4, <5>5, <5>6
        <5>7. CASE g # s
          BY <5>2, <5>3, <5>4, <5>5, <5>7
        <5> QED
          BY <5>6, <5>7
      <4> QED
        BY <1>1, <3>1, <3>2, <4>7, <4>6, <4>9
    <3>5. CASE req[w].op = "rename"
      <4>1. rated' = rated
        BY <2>7, <3>5 DEF HSave
      <4>2. n.tracks = snap.tracks
        BY <3>1, <3>5 DEF Edited, WithFolder, Row
      <4> HIDE DEF n
      <4>3. \A s \in Songs : Copies(n, s) <= rated[<<i, s>>]
        BY <3>3, <4>2 DEF Copies, Places
      <4> QED
        BY <1>1, <2>2, <3>1, <3>2, <4>1, <4>3
    <3> QED
      BY <3>1, <3>4, <3>5
  <2> QED
    BY <1>3, <2>3, <2>4, <2>5, <2>6, <2>7
       DEF HReceive, Receive, HReply, Reply, HOther, FindTrack, FindUser,
           Authorize, FindList, Increment, Render, Abort, UnchangedTables
<1> QED
  BY <1>2, <1>3 DEF HNext

(* However requests overlap, no list holds a song more often than it was   *)
(* rated into that list.                                                   *)
THEOREM NoMoreCopiesThanRatings == HSpec => []CopiesWereRated
<1>1. HInit => CopiesInv
  BY DEF HInit, CopiesInv
<1>2. RefInv /\ CopiesInv => CopiesWereRated
  BY DEF RefInv, OInv, VersionInv, CopiesInv, CopiesWereRated
<1>3. RefInv /\ CopiesInv /\ [HNext]_hvars => CopiesInv'
  BY CopiesStep
<1> QED
  BY RefInvInit, RefInvStep, <1>1, <1>2, <1>3, PTL DEF HSpec
=============================================================================
