SPECIFICATION FairSpec
CONSTANTS
  Rows <- MCRows
  Situations <- MCSituations
  Orders <- OneColumnOrders
  PageSize = 2
  MaxPages = 4
INVARIANT TypeOK
INVARIANT PagesAreExact
PROPERTY PageIsSlice
PROPERTY PagingEnds
CHECK_DEADLOCK FALSE
