SPECIFICATION Spec
CONSTANTS
  parent = parent
  child = child
  Tables = {parent, child}
  MaxId = 3
  Orders <- Lists
  ForeignKeys <- OneKey
  ResetSequences = TRUE
  OnAzure = FALSE
INVARIANT TypeOK
INVARIANT IdsArePositive
INVARIANT KeysAreSwitched
INVARIANT CheckedHold
