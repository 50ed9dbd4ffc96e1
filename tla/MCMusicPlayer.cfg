SPECIFICATION PlaylistFairSpec
CONSTANTS
  None = None
  song = song
  tune = tune
  Media <- TwoMedia
  Choice <- BothAudio
  List <- ThreeTracks
  Webkit = FALSE
  TracksToShow = 1
  MaxCalls = 3
INVARIANTS
  PlaylistTypeOK
  MediaIsCurrent
  MarkedIsPlaying
  CurrentIsVisible
PROPERTIES
  AdvancesAtEnd
  TracksFollow
