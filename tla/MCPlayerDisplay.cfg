SPECIFICATION FairSpec
CONSTANTS
  NumTracks = 4
  FirstRating <- FourRatings
  Covered = {1, 3, 4}
  Broken = {3}
  Rates = {5, 6}
  MaxClicks = 4
INVARIANTS
  TypeOK
  RatingsAgree
  CoverIsCurrent
PROPERTIES
  CoverComes
