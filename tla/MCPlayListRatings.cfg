SPECIFICATION HSpec
CONSTANTS
  Workers = {w1, w2}
  Users = {alice}
  Registered = {alice}
  Songs = {s1, s2}
  NoSong = nosong
  Names = {n1}
  TmpList = tmpList
  Ids = {i1}
  UnknownId = unknown
  Null = null
  IdComparison = "reference"
  MaxRequests = 3
  MaxFailures = 0
INVARIANTS
  RatingsAreKept
