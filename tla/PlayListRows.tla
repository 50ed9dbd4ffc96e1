---------------------------- MODULE PlayListRows ----------------------------
(***************************************************************************)
(* The rows of the Cassandra table play_cassandra.playlists, as the mapper *)
(* and the accessor of play2sdg write them.                                *)
(*                                                                         *)
(* Cassandra keeps no empty collection, so the column tracks of a row      *)
(* without songs is null; both read back as << >> (getTracks and           *)
(* addRatingSong turn null into an empty list).  An INSERT leaves a row    *)
(* marker: such a row exists whatever its columns hold.  A row that only   *)
(* UPDATE wrote has no marker and exists while its track list is not empty.*)
(***************************************************************************)
EXTENDS Naturals, Sequences, FiniteSets

SX == INSTANCE SequencesExt

CONSTANTS
  Users,     \* e-mails a session cookie may hold
  Songs,     \* titles of the tracks in table tracks
  Names,     \* folder names the client may send
  TmpList,   \* the folder name "tmpList" of createPlayList
  Ids,       \* UUIDs of playlists
  Null       \* Java's null, an absent row, a null column

Folders == Names \cup {TmpList, Null}

Row == [folder : Folders, usermail : Users \cup {Null},
        tracks : Seq(Songs), marker : BOOLEAN]

ASSUME NullIdAssumption  == Null \notin Ids
ASSUME NullRowAssumption == Null \notin Row
ASSUME NullUserAssumption == Null \notin Users

(* mapper.save of a new PlayList: its owner, its folder and no song.       *)
NewRow(folder, usermail) ==
  [folder |-> folder, usermail |-> usermail, tracks |-> << >>, marker |-> TRUE]

(* addRatingSong, or setFolder, and mapper.save: every column is written.  *)
WithSong(row, song)     == [row EXCEPT !.tracks = Append(@, song), !.marker = TRUE]
WithFolder(row, folder) == [row EXCEPT !.folder = folder, !.marker = TRUE]

(* Mutation of WithoutSong: the list loses its head, whatever the song.    *)
WithoutHead(tracks, song) == IF tracks = << >> THEN << >> ELSE Tail(tracks)

(* tracksToUpdate.remove(song): the first occurrence, if there is one.     *)
WithoutSong(tracks, song) == SX!RemoveFirst(tracks, song)

(* Mutation of Retracked: SET tracks = tracks + ?, with the whole copy.    *)
RetrackedBehind(row, tracks) ==
  IF row = Null THEN Null ELSE [row EXCEPT !.tracks = @ \o tracks]

(* UPDATE ... SET tracks: writes that column only, of a row that may be    *)
(* gone; an UPDATE inserts what is not there.                              *)
Retracked(row, tracks) ==
  IF row # Null /\ (row.marker \/ tracks # << >>)
    THEN [row EXCEPT !.tracks = tracks]
  ELSE IF tracks # << >>
    THEN [folder |-> Null, usermail |-> Null, tracks |-> tracks,
          marker |-> FALSE]
  ELSE Null
=============================================================================
