SPECIFICATION Spec
CONSTANTS
  Workers = {w1, w2}
  Users = {alice}
  Registered = {alice}
  Songs = {s1}
  NoSong = nosong
  Names = {n1}
  TmpList = tmpList
  Ids = {i1}
  UnknownId = unknown
  Null = null
  IdComparison = "reference"
  MaxRequests = 2
  MaxFailures = 0
INVARIANTS
  OwnersAreNotForbidden
