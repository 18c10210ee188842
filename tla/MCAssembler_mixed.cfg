SPECIFICATION FairSpec
CONSTANTS
  A = A
  B = B
  Label = {A, B}
  WordNibbles = 4
  Programs <- MixedPrograms
INVARIANT
  EmittedWhereResolved
PROPERTY
  Terminates
