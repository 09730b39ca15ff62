SPECIFICATION Spec
CONSTANTS
  w1 = w1
  w2 = w2
  w3 = w3
  Writes = {w1, w2, w3}
  Programs <- Saving
  Faults = FALSE
  MaxDepth = 3
PROPERTY FailedBlockIsGone
