SPECIFICATION Spec
CONSTANTS
  Browsers = {b1, b2}
  Conns = {c1, c2, c3}
  Users = {alice, bob}
  Registered = {alice, bob}
  Null = null
  MaxRequests = 2
  MaxRestarts = 0
SYMMETRY Symmetry
INVARIANTS
  PageIsOwn
