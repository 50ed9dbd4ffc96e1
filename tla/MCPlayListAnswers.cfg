SPECIFICATION FairSpec
CONSTANTS
  Workers = {w1, w2}
  Users = {alice, mallory}
  Registered = {alice}
  Songs = {s1}
  NoSong = nosong
  Names = {n1}
  TmpList = tmpList
  Ids = {i1}
  UnknownId = unknown
  Null = null
  IdComparison = "value"
  MaxRequests = 4
  MaxFailures = 1
INVARIANTS
  TypeOK
  CounterCoversLists
PROPERTIES
  EveryRequestIsAnswered
