-------------------------- MODULE PlayListVersions --------------------------
(***************************************************************************)
(* What the playlist service promises of its rows, without requests,       *)
(* workers or counters: a store without isolation.  A writer starts from   *)
(* ANY version the row ever had, makes ONE edit of it, and stores the      *)
(* result over whatever is there.  So an edit may be lost, but a row is    *)
(* never a mixture of lists, never holds a song that nobody rated into     *)
(* that list, and never passes to another user.                            *)
(***************************************************************************)
EXTENDS PlayListRows

VARIABLES
  rows,      \* the row of every id, or Null
  versions   \* the rows that every id has had

vars == <<rows, versions>>

Init ==
  /\ rows = [i \in Ids |-> Null]
  /\ versions = [i \in Ids |-> {}]

Store(i, row) ==
  /\ rows' = [rows EXCEPT ![i] = row]
  /\ versions' = [versions EXCEPT ![i] = @ \cup ({row} \ {Null})]

(* A list is created once, empty, by a user who stays its owner.           *)
Create(i) ==
  /\ versions[i] = {}
  /\ \E f \in Folders, u \in Users : Store(i, NewRow(f, u))

(* One song more, at the end, or another folder name.                      *)
Extend(i)  == \E v \in versions[i], s \in Songs : Store(i, WithSong(v, s))
Refolder(i) == \E v \in versions[i], f \in Folders : Store(i, WithFolder(v, f))

(* One song less, or none if the version does not hold it.                 *)
Shortened(tracks) == {tracks} \cup {SX!RemoveAt(tracks, k) : k \in DOMAIN tracks}

Shorten(i) ==
  \E v \in versions[i] : \E t \in Shortened(v.tracks) :
    Store(i, Retracked(rows[i], t))

Delete(i) == versions[i] # {} /\ Store(i, Null)

Next == \E i \in Ids :
  Create(i) \/ Extend(i) \/ Refolder(i) \/ Shorten(i) \/ Delete(i)

Spec == Init /\ [][Next]_vars
=============================================================================
