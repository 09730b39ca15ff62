SPECIFICATION MCSpec
CONSTANTS
  Words = {"t", "u", "id", "title", "total"}
  SelectLists <- MCSelectLists
  Rests <- MCRests
  Orderings <- MCOrderings
  Written <- MCWritten
  Stored <- MCStored
  Named <- MCNamed
  Moments <- MCMoments
  Mantissa = 8
  MaxDigits = 2
  Types = {"text", "bytes", "bool", "int"}
INVARIANT ColumnsAreKept
CHECK_DEADLOCK FALSE
