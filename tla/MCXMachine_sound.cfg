SPECIFICATION FairSpec
CONSTANTS
  WordBits = 8
  MaxAddress = 50
  PoolLimit = 8
  FileStreamBase = 16
  NumStreams = 4
  Inputs <- MCInputs
  Programs <- SoundPrograms
INVARIANTS
  TypeOK
  DoesWhatItSays
  FramesAreApart
PROPERTIES
  ReturnsToCaller
  Ends
