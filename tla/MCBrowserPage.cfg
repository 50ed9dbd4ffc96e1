SPECIFICATION Spec
CONSTANTS
  Lists = {l1, l2}
  Songs = {s1}
  Conns = {c1, c2}
  Null = null
  MaxCopies = 1
  MaxClicks = 6
  MaxVisits = 2
  MaxFailures = 1
SYMMETRY Symmetry
INVARIANTS
  TypeOK
  PageShowsStore
