-------------------------- MODULE PlayListService --------------------------
(***************************************************************************)
(* The playlist side of play2sdg: the actions of Application and           *)
(* PlayListController that read and write the rows of the Cassandra table  *)
(* play_cassandra.playlists, through CassandraDxQueryController.           *)
(*                                                                         *)
(* Every request runs on a thread of Play's pool (a worker).  A handler is *)
(* a straight line of calls on the Cassandra driver, each of them a round  *)
(* trip to the database, with nothing that excludes other handlers: a step *)
(* of this specification is one such call, and handlers interleave between *)
(* calls.  What a handler read stays in its request as a private copy      *)
(* (snap), and it is this copy that a later call writes back.              *)
(***************************************************************************)
EXTENDS PlayListRows

CONSTANTS
  Workers,       \* threads of Play's pool that serve requests
  Registered,    \* e-mails with a row in table users
  NoSong,        \* a track id with no row
  UnknownId,     \* a UUID no playlist has
  IdComparison,  \* how isMemberOf compares UUIDs: "reference" or "value"
  MaxRequests,   \* bound: requests received in a behaviour
  MaxFailures    \* bound: driver calls that throw in a behaviour

ASSUME WorkersAssumption    == IsFiniteSet(Workers)
ASSUME RegisteredAssumption == Registered \subseteq Users
ASSUME ComparisonAssumption == IdComparison \in {"reference", "value"}
ASSUME BoundsAssumption     == MaxRequests \in Nat /\ MaxFailures \in Nat
ASSUME NoSongAssumption     == NoSong \notin Songs
ASSUME UnknownAssumption    == UnknownId \notin Ids

VARIABLES
  playlists,  \* table playlists: a row, or Null, for every id
  counter,    \* row "playlists" of table counters
  created,    \* ids that were ever inserted
  req,        \* what every worker is doing
  received,   \* requests received so far (bounded by MaxRequests)
  failures    \* driver calls that threw so far (bounded by MaxFailures)

vars == <<playlists, counter, created, req, received, failures>>

Operations == {"create", "add", "rate", "rename", "delete", "deleteSong"}

First == [create |-> "findUser", add |-> "findUser", rate |-> "findTrack",
          rename |-> "authorize", delete |-> "authorize",
          deleteSong |-> "findList"]

Locations == {"idle", "findUser", "findTrack", "authorize", "findList",
              "insert", "save", "update", "remove", "increment", "render",
              "reply"}

Args == Folders \cup Songs \cup {NoSong}

Request == [pc : Locations, op : Operations \cup {Null},
            user : Users \cup {Null}, id : Ids \cup {UnknownId, Null},
            arg : Args, snap : Row \cup {Null},
            status : {"pending", "ok", "forbidden", "error"},
            listing : SUBSET Ids]

Idle == [pc |-> "idle", op |-> Null, user |-> Null, id |-> Null, arg |-> Null,
         snap |-> Null, status |-> "pending", listing |-> {}]

Init ==
  /\ playlists = [i \in Ids |-> Null]
  /\ counter = 0
  /\ created = {}
  /\ req = [w \in Workers |-> Idle]
  /\ received = 0
  /\ failures = 0

-----------------------------------------------------------------------------
(* What requests carry.  A new playlist gets a random UUID; the other      *)
(* requests name a playlist that some page has shown, or a stale UUID.     *)

Fresh == Ids \ (created \cup {req[w].id : w \in Workers})
Known == created \cup {UnknownId}

Requests ==
       [op : {"create"},     user : Users, id : Fresh, arg : {TmpList}]
  \cup [op : {"add"},        user : Users, id : Fresh, arg : Names \cup {Null}]
  \cup [op : {"rate"},       user : Users, id : Known, arg : Songs \cup {NoSong}]
  \cup [op : {"rename"},     user : Users, id : Known, arg : Names \cup {Null}]
  \cup [op : {"delete"},     user : Users, id : Known, arg : {Null}]
  \cup [op : {"deleteSong"}, user : Users, id : Known, arg : Songs]

Started(r) == [pc |-> First[r.op], op |-> r.op, user |-> r.user, id |-> r.id,
               arg |-> r.arg, snap |-> Null, status |-> "pending", listing |-> {}]

Receive(w) ==
  /\ req[w].pc = "idle"
  /\ received < MaxRequests
  /\ \E r \in Requests : req' = [req EXCEPT ![w] = Started(r)]
  /\ received' = received + 1
  /\ UNCHANGED <<playlists, counter, created, failures>>

-----------------------------------------------------------------------------
(* How a worker moves on.                                                  *)

At(w, pc) == req[w].pc = pc
Goto(w, pc) == req' = [req EXCEPT ![w].pc = pc]
Answer(w, status) ==
  req' = [req EXCEPT ![w] = [@ EXCEPT !.pc = "reply", !.status = status]]

(* A driver exception that the handler does not catch: a 500 page.         *)
Throw(w) ==
  /\ failures < MaxFailures
  /\ failures' = failures + 1
  /\ Answer(w, "error")

(* A write was applied: the call returns, or times out all the same.       *)
Wrote(w, pc) ==
  \/ Goto(w, pc) /\ UNCHANGED failures
  \/ Throw(w)

UnchangedTables == UNCHANGED <<playlists, counter, created>>

-----------------------------------------------------------------------------
(* The calls that read.                                                    *)

(* findByTrackID; found.getTitle() fails on an unknown track.              *)
FindTrack(w) ==
  /\ At(w, "findTrack")
  /\ \/ req[w].arg \in Songs    /\ Goto(w, "findList")
     \/ req[w].arg \notin Songs /\ Answer(w, "error")
  /\ UnchangedTables /\ UNCHANGED <<received, failures>>

(* Login.findUser; u.getEmail() fails on a user without a row.             *)
FindUser(w) ==
  /\ At(w, "findUser")
  /\ \/ req[w].user \in Registered    /\ Goto(w, "insert")
     \/ req[w].user \notin Registered /\ Answer(w, "error")
  /\ UnchangedTables /\ UNCHANGED <<received, failures>>

(* Mutation of ListsOf: a list whose column tracks is null is skipped.     *)
ListsWithSongsOf(u) ==
  {i \in Ids : /\ playlists[i] # Null /\ playlists[i].usermail = u
               /\ playlists[i].tracks # << >>}

(* The playlists whose column usermail is u.                               *)
ListsOf(u) == {i \in Ids : playlists[i] # Null /\ playlists[i].usermail = u}

(* p.getId() == id: the driver decoded the left UUID, the router parsed    *)
(* the right one, so the references always differ.                         *)
SameId(p, id) == IdComparison = "value" /\ p = id
IsMemberOf(u, id) == \E p \in ListsOf(u) : SameId(p, id)

Authorize(w) ==
  /\ At(w, "authorize")
  /\ \/ IsMemberOf(req[w].user, req[w].id)  /\ Goto(w, "findList")
     \/ ~IsMemberOf(req[w].user, req[w].id) /\ Answer(w, "forbidden")
  /\ UnchangedTables /\ UNCHANGED <<received, failures>>

(* Mutation of Stored: a list that is not there is made up.                *)
StoredOrNew(id) ==
  IF id \in Ids /\ playlists[id] # Null THEN playlists[id] ELSE NewRow(TmpList, Null)

(* findByPlaylistID, or the get of deleteUserPlayListSong.                 *)
Stored(id) == IF id \in Ids THEN playlists[id] ELSE Null

WriteOf == [rate |-> "save", rename |-> "save", delete |-> "remove",
            deleteSong |-> "update"]

FoundList(w) ==
  /\ Stored(req[w].id) # Null
  /\ req' = [req EXCEPT ![w] = [@ EXCEPT !.pc = WriteOf[req[w].op],
                                         !.snap = Stored(req[w].id)]]

(* Mutations of MissingList: nobody tests for null, or the handler reads   *)
(* again until the row is there.                                           *)
MissingListUntested(w) ==
  /\ Stored(req[w].id) = Null
  /\ Goto(w, WriteOf[req[w].op])
MissingListAwaited(w) ==
  /\ Stored(req[w].id) = Null
  /\ Goto(w, "findList")

(* Only deleteUserPlayListSong tests for null: the others dereference it.  *)
MissingList(w) ==
  /\ Stored(req[w].id) = Null
  /\ \/ req[w].op = "deleteSong" /\ Goto(w, "render")
     \/ req[w].op # "deleteSong" /\ Answer(w, "error")

FindList(w) ==
  /\ At(w, "findList")
  /\ FoundList(w) \/ MissingList(w)
  /\ UnchangedTables /\ UNCHANGED <<received, failures>>

-----------------------------------------------------------------------------
(* The calls that write.                                                   *)

(* Mutation of Insert: persist forgets the counter.                        *)
InsertUncounted(w) ==
  /\ At(w, "insert")
  /\ playlists' = [playlists EXCEPT ![req[w].id] =
                     NewRow(req[w].arg, req[w].user)]
  /\ created' = created \cup {req[w].id}
  /\ Wrote(w, "render")
  /\ UNCHANGED <<counter, received>>

(* persist of a new PlayList, its first half.                              *)
Insert(w) ==
  /\ At(w, "insert")
  /\ playlists' = [playlists EXCEPT ![req[w].id] =
                     NewRow(req[w].arg, req[w].user)]
  /\ created' = created \cup {req[w].id}
  /\ Wrote(w, "increment")
  /\ UNCHANGED <<counter, received>>

(* Mutations of Edited: the session's user is stored with the edit; or the *)
(* rating builds the row anew and forgets the folder.                      *)
EditedAsOwn(r) ==
  [(IF r.op = "rate" THEN WithSong(r.snap, r.arg) ELSE WithFolder(r.snap, r.arg))
     EXCEPT !.usermail = r.user]
EditedNameless(r) ==
  IF r.op = "rate"
    THEN [WithSong(r.snap, r.arg) EXCEPT !.folder = Null]
    ELSE WithFolder(r.snap, r.arg)

(* mapper.save of the copy read before: every column of it is written,     *)
(* those the request did not touch too.                                    *)
Edited(r) ==
  IF r.op = "rate"
    THEN WithSong(r.snap, r.arg)
    ELSE WithFolder(r.snap, r.arg)

Save(w) ==
  /\ At(w, "save")
  /\ playlists' = [playlists EXCEPT ![req[w].id] = Edited(req[w])]
  /\ Wrote(w, "increment")
  /\ UNCHANGED <<counter, created, received>>

(* The UPDATE of the tracks column, to the copy's songs without the one.   *)
Update(w) ==
  /\ At(w, "update")
  /\ playlists' = [playlists EXCEPT ![req[w].id] =
                     Retracked(@, WithoutSong(req[w].snap.tracks, req[w].arg))]
  /\ Wrote(w, "render")
  /\ UNCHANGED <<counter, created, received>>

(* mapper.delete: by key, and the counter keeps its value.                 *)
Remove(w) ==
  /\ At(w, "remove")
  /\ playlists' = [playlists EXCEPT ![req[w].id] = Null]
  /\ \/ Answer(w, "ok") /\ UNCHANGED failures
     \/ Throw(w)
  /\ UNCHANGED <<counter, created, received>>

(* The second half of persist: one more playlist at every save.            *)
Increment(w) ==
  /\ At(w, "increment")
  /\ counter' = counter + 1
  /\ \/ req[w].op = "create" /\ Wrote(w, "render")
     \/ req[w].op # "create" /\ Answer(w, "ok") /\ UNCHANGED failures
     \/ req[w].op # "create" /\ Throw(w)
  /\ UNCHANGED <<playlists, created, received>>

-----------------------------------------------------------------------------
(* The end of a request.                                                   *)

(* index.render(findExisting(username), ...)                               *)
Render(w) ==
  /\ At(w, "render")
  /\ req' = [req EXCEPT ![w] = [@ EXCEPT !.pc = "reply", !.status = "ok",
                                         !.listing = ListsOf(req[w].user)]]
  /\ UnchangedTables /\ UNCHANGED <<received, failures>>

Reply(w) ==
  /\ At(w, "reply")
  /\ req' = [req EXCEPT ![w] = Idle]
  /\ UnchangedTables /\ UNCHANGED <<received, failures>>

(* Any call may throw before it had an effect.                             *)
Abort(w) ==
  /\ req[w].pc \notin {"idle", "reply"}
  /\ Throw(w)
  /\ UnchangedTables /\ UNCHANGED received

Handle(w) ==
  \/ FindTrack(w) \/ FindUser(w) \/ Authorize(w) \/ FindList(w)
  \/ Insert(w) \/ Save(w) \/ Update(w) \/ Remove(w) \/ Increment(w)
  \/ Render(w) \/ Reply(w)

Terminating ==
  /\ received = MaxRequests
  /\ \A w \in Workers : At(w, "idle")
  /\ UNCHANGED vars

Next ==
  \/ \E w \in Workers : Receive(w) \/ Handle(w) \/ Abort(w)
  \/ Terminating

Spec == Init /\ [][Next]_vars

(* A thread that took a request keeps running: the driver's calls return   *)
(* or throw, and no handler waits for another one.                         *)
FairSpec == Spec /\ \A w \in Workers : WF_vars(Handle(w))

-----------------------------------------------------------------------------
(* The requests that hold a copy of a row which they will write back.      *)
Holds(r) == r.pc \in {"save", "update"}

OpsAt == [idle |-> {Null}, findUser |-> {"create", "add"},
          findTrack |-> {"rate"}, authorize |-> {"rename", "delete"},
          findList |-> {"rate", "rename", "delete", "deleteSong"},
          insert |-> {"create", "add"}, save |-> {"rate", "rename"},
          update |-> {"deleteSong"}, remove |-> {"delete"},
          increment |-> {"create", "add", "rate", "rename"},
          render |-> {"create", "deleteSong"}, reply |-> Operations]

WellFormed(r) ==
  /\ r.op \in OpsAt[r.pc]
  /\ r.pc \in {"findUser", "insert"} =>
       r.id \in Ids /\ r.user \in Users /\ r.arg \in Folders
  /\ r.op = "rename" /\ r.pc # "idle" => r.arg \in Folders
  /\ r.op = "deleteSong" /\ r.pc # "idle" => r.arg \in Songs
  /\ r.op = "rate" /\ r.pc \in {"findList", "save", "increment"} => r.arg \in Songs
  /\ Holds(r) => r.snap \in Row
  /\ r.pc \in {"save", "update", "remove"} => r.id \in Ids

(* Every variable keeps its type: the table holds well-formed rows only, a *)
(* handler is at a call that its operation makes, and no call that writes  *)
(* is reached with a null copy, an id of no row or an unknown track.       *)
TypeOK ==
  /\ playlists \in [Ids -> Row \cup {Null}]
  /\ counter \in Nat
  /\ created \subseteq Ids
  /\ req \in [Workers -> Request]
  /\ received \in 0 .. MaxRequests
  /\ failures \in 0 .. MaxFailures
  /\ \A w \in Workers : WellFormed(req[w])

(* The counter of persist(PlayList) never falls behind the playlists ever  *)
(* created, but for inserts whose increment is still to come or was lost   *)
(* to an exception between the two calls of persist.                       *)
CounterCoversLists ==
  Cardinality(created) <=
    counter + Cardinality({w \in Workers : At(w, "increment")}) + failures

(* The owner of a playlist may rename and delete it: no such request of    *)
(* the user in the row's column usermail is answered "forbidden".          *)
OwnersAreNotForbidden ==
  \A w \in Workers :
    At(w, "reply") /\ req[w].status = "forbidden" /\ Stored(req[w].id) # Null
      => Stored(req[w].id).usermail # req[w].user

(* Every request that a worker takes is answered.                          *)
EveryRequestIsAnswered ==
  \A w \in Workers : ~At(w, "idle") ~> At(w, "idle")
=============================================================================
