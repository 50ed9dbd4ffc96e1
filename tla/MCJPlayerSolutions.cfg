SPECIFICATION Spec
CONSTANTS
  Browsers <- SomeBrowsers
  Options <- SomeOptions
  Medias <- SomeMedias
INVARIANTS
  TypeOK
  FullMediaIsAccepted
  SameFormat
PROPERTIES
  OnlyTheGateSounds
  FlashResumes
