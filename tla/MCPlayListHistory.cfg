SPECIFICATION HSpec
CONSTANTS
  Workers = {w1, w2}
  Users = {alice, bob}
  Registered = {alice, bob}
  Songs = {s1, s2}
  NoSong = nosong
  Names = {n1}
  TmpList = tmpList
  Ids = {i1}
  UnknownId = unknown
  Null = null
  IdComparison = "value"
  MaxRequests = 4
  MaxFailures = 1
SYMMETRY Symmetry
INVARIANTS
  OneOwnerForever
  CreateListsOwn
  ListsKeepOwner
  SerialRequestsLoseNothing
  DeletedStaysDeleted
  CopiesWereRated
PROPERTIES
  ImplementsVersions
