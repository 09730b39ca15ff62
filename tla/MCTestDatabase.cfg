SPECIFICATION Spec
CONSTANTS
  None = None
  Texts <- MCTexts
  Entries <- AllEntries
  Keys = {k1, k2}
  Production = production
  Test = test
  Master = master
INVARIANT TypeOK
INVARIANT ProductionIsKept
INVARIANT SessionFollowsSettings
INVARIANT KeysGoWithTables
 
