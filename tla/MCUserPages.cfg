SPECIFICATION FairSpec
CONSTANTS
  Browsers = {b1, b2}
  Conns = {c1, c2}
  Users = {alice, bob}
  Registered = {alice, bob}
  Null = null
  MaxRequests = 2
  MaxRestarts = 1
INVARIANTS
  TypeOK
  ShownUsersLoggedIn
  UndisturbedPageIsOwn
PROPERTIES
  RedirectsEnd
