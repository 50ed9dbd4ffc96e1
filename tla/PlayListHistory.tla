-------------------------- MODULE PlayListHistory ---------------------------
(***************************************************************************)
(* PlayListService observed by variables that record what was asked and    *)
(* what was answered, to state what a client may conclude from an answer.  *)
(* They never constrain a step.                                            *)
(***************************************************************************)
EXTENDS PlayListService

VARIABLES
  versions,  \* the rows that every id has had
  acked,     \* <<id, song>> of the rate requests that were answered "ok"
  dropped,   \* <<id, song>> whose removal from the list was requested
  rated,     \* how many rate requests saved the song into the list
  deleted,   \* ids whose row was deleted
  raced      \* ids whose row changed while some request held a copy of it

hvars == <<playlists, counter, created, req, received, failures,
           versions, acked, dropped, rated, deleted, raced>>

HInit ==
  /\ Init
  /\ versions = [i \in Ids |-> {}]
  /\ acked = {}
  /\ dropped = {}
  /\ rated = [p \in Ids \X Songs |-> 0]
  /\ deleted = {}
  /\ raced = {}

(* The songs of r.id that request r may take out of the list.              *)
Drops(r) ==
  CASE r.op = "deleteSong" -> {<<r.id, r.arg>>}
    [] r.op = "delete"     -> {r.id} \X Songs
    [] OTHER               -> {}

(* After every step: the versions stored, and the rows that changed under  *)
(* a copy that is still to be written back.                                *)
Observe ==
  /\ versions' = [i \in Ids |-> versions[i] \cup ({playlists'[i]} \ {Null})]
  /\ raced' = raced \cup
       {i \in Ids : /\ playlists'[i] # playlists[i]
                    /\ \E w \in Workers : Holds(req'[w]) /\ req'[w].id = i}

HReceive(w) ==
  /\ Receive(w)
  /\ dropped' = dropped \cup Drops(req'[w])
  /\ UNCHANGED <<acked, rated, deleted>>

HSave(w) ==
  /\ Save(w)
  /\ rated' = IF req[w].op = "rate"
                THEN [rated EXCEPT ![<<req[w].id, req[w].arg>>] = @ + 1]
                ELSE rated
  /\ UNCHANGED <<acked, dropped, deleted>>

HRemove(w) ==
  /\ Remove(w)
  /\ deleted' = deleted \cup {req[w].id}
  /\ UNCHANGED <<acked, dropped, rated>>

HReply(w) ==
  /\ Reply(w)
  /\ acked' = IF req[w].op = "rate" /\ req[w].status = "ok"
                THEN acked \cup {<<req[w].id, req[w].arg>>}
                ELSE acked
  /\ UNCHANGED <<dropped, rated, deleted>>

HOther(w) ==
  /\ \/ FindTrack(w) \/ FindUser(w) \/ Authorize(w) \/ FindList(w)
     \/ Insert(w) \/ Update(w) \/ Increment(w) \/ Render(w) \/ Abort(w)
  /\ UNCHANGED <<acked, dropped, rated, deleted>>

HNext ==
  \/ \E w \in Workers :
       /\ HReceive(w) \/ HSave(w) \/ HRemove(w) \/ HReply(w) \/ HOther(w)
       /\ Observe
  \/ Terminating /\ UNCHANGED hvars

HSpec == HInit /\ [][HNext]_hvars

-----------------------------------------------------------------------------
Has(row, s) == row # Null /\ \E k \in DOMAIN row.tracks : row.tracks[k] = s

InList(i, s) == Has(playlists[i], s)

Copies(row, s) == Cardinality({k \in DOMAIN row.tracks : row.tracks[k] = s})

(* A rating that was answered "ok" stays in its list until its removal is  *)
(* requested, unless two requests for that list overlapped: losing one     *)
(* takes a write that lands between the read and the write of another.     *)
SerialRequestsLoseNothing ==
  \A p \in acked \ dropped : p[1] \notin raced => InList(p[1], p[2])

(* A deleted list stays deleted unless its deletion overlapped a request   *)
(* that had read the list and wrote it back afterwards.                    *)
DeletedStaysDeleted ==
  \A i \in deleted \ raced : playlists[i] = Null

(* However ratings, removals and renames overlap, no list holds a song     *)
(* more often than it was rated into that list: stale copies lose songs    *)
(* and bring removed ones back, but they never multiply them.              *)
CopiesWereRated ==
  \A i \in Ids, s \in Songs :
    playlists[i] # Null => Copies(playlists[i], s) <= rated[<<i, s>>]

(* A playlist that was not deleted is in the table, and all the rows it    *)
(* ever had name one owner, although rate and deletePlayListSong write it  *)
(* for any session, from copies of any age.                                *)
ListsKeepOwner ==
  \A i \in created \ deleted :
    playlists[i] # Null /\ \A v \in versions[i] : v.usermail = playlists[i].usermail

(* A page that answers a successful createPlayList shows the new playlist, *)
(* whatever other requests did between its insert and its query, or else   *)
(* one of them deleted it.                                                 *)
CreateListsOwn ==
  \A w \in Workers :
    At(w, "reply") /\ req[w].op = "create" /\ req[w].status = "ok"
      => req[w].id \in req[w].listing \cup deleted

(* All the rows a playlist ever had name one owner, or none (a row that    *)
(* only the UPDATE of deleteUserPlayListSong wrote), although rows are     *)
(* written back whole by any session, also after their deletion.           *)
OneOwnerForever ==
  \A i \in Ids : \A v1, v2 \in versions[i] :
    {v1.usermail, v2.usermail} \subseteq Users => v1.usermail = v2.usermail

(* The service implements the store without isolation.                     *)
Store == INSTANCE PlayListVersions WITH rows <- playlists
ImplementsVersions == Store!Spec

(* Why the first two hold, as an inductive invariant: while a list is not  *)
(* raced, every copy held of it is its current row; a rating that is saved *)
(* is in the list; requests that take songs out are on record; and the id  *)
(* of a list still to be inserted is in no table and no other request.     *)
Saved(r) == r.op = "rate" /\ (r.pc = "increment" \/ (r.pc = "reply" /\ r.status = "ok"))

Inserting(r) == r.pc \in {"findUser", "insert"}
Writing(r)   == r.pc \in {"save", "update", "remove"}

RequestInv(r) ==
  /\ Holds(r) /\ r.id \notin raced => r.snap = playlists[r.id]
  /\ Saved(r) => /\ r.id \in Ids /\ r.arg \in Songs
                 /\ \/ <<r.id, r.arg>> \in dropped
                    \/ r.id \in raced
                    \/ InList(r.id, r.arg)
  /\ r.pc # "idle" => Drops(r) \subseteq dropped
  /\ Inserting(r) => r.id \notin created
  /\ Writing(r) => r.id \in created

DistinctInserts ==
  \A v, w \in Workers :
    v # w /\ Inserting(req[v]) /\ Inserting(req[w]) => req[v].id # req[w].id

RowsWereCreated ==
  /\ \A i \in Ids : playlists[i] # Null => i \in created
  /\ deleted \subseteq created
  /\ acked \subseteq Ids \X Songs

HInv ==
  /\ TypeOK
  /\ \A w \in Workers : RequestInv(req[w])
  /\ DistinctInserts
  /\ RowsWereCreated
  /\ SerialRequestsLoseNothing
  /\ DeletedStaysDeleted

(* A rating that was answered "ok" is in the list until its removal is     *)
(* requested: what the page shows, which appends the rated song to the     *)
(* list on the answer.                                                     *)
RatingsAreKept ==
  \A p \in acked \ dropped : InList(p[1], p[2])
=============================================================================
