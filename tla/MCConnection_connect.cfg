SPECIFICATION Spec
CONSTANTS
  legacy = legacy
  modern = modern
  bare = bare
  db2 = db2
  Wrappers = {modern}
  Settings <- MCSettings
  Openers = {"cursor", "connect"}
  Failures = FALSE
INVARIANT CursorsOnDatedSession
