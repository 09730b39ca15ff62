SPECIFICATION Spec
CONSTANTS
  w1 = w1
  w2 = w2
  w3 = w3
  Writes = {w1, w2, w3}
  Programs <- ProgramKinds
  Faults = TRUE
  MaxDepth = 3
INVARIANTS TypeOK NoBlockLeftOpen
PROPERTIES BlocksAreAtomic KeptIsStored PlainFailureIsGone
