SPECIFICATION FairSpec
CONSTANTS
  None = None
  Order <- TwoJobs
  MaxReports = 2
  MaxVisits = 2
  MaxClicks = 2
  MaxFailures = 1
INVARIANTS
  TypeOK
  DrawnAgrees
PROPERTIES
  ChartComes
