SPECIFICATION FairSpec
CONSTANTS
  legacy = legacy
  modern = modern
  bare = bare
  db2 = db2
  Wrappers = {legacy, modern}
  Settings <- MCSettings
  Openers = {"cursor", "connect"}
  Failures = TRUE
INVARIANT TypeOK
INVARIANT SafeReentrancy
INVARIANT AdaptedBeforeDecoded
PROPERTY OpenerReturnsReady
PROPERTY ReadyIsStable
PROPERTY CallsEnd
