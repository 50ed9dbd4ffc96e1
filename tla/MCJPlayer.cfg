SPECIFICATION FairSpec
CONSTANTS
  None = None
  song = song
  film = film
  odd = odd
  Media <- ThreeMedia
  Choice <- ThreeKinds
  Webkit = FALSE
  MaxCalls = 3
INVARIANTS
  TypeOK
  PlaysWhatIsSet
  OneTimer
  DelayedCommandIsCurrent
  ControlsAgree
PROPERTIES
  DelayedCommandsFinish
