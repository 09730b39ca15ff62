SPECIFICATION FairSpec
CONSTANTS
  c1 = c1
  c2 = c2
  Cursors = {c1, c2}
  Installations <- MCInstallations
  MaxRows = 3
  Chunk = 2
INVARIANT TypeOK
INVARIANT NeverBusy
INVARIANT RowsInOrder
PROPERTY ReadersEnd
