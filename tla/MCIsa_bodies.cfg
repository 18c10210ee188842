CONSTANTS
  WordNibbles = 4
  MemoryWords = 16
  AddressBits = 6
  StackPointer = 10
  Programs <- MCPrograms
  MaxClock = 14
SPECIFICATION Spec
INVARIANTS
  TypeOK
  OperandIsRebuilt
  HardwareFollows
  ListingIsWhatRuns
