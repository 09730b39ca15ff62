SPECIFICATION Spec
CONSTANTS
  Catalogues <- SomeCatalogues
  LimitTableList = TRUE
  Lower <- Lowered
INVARIANT RelationsAreRight
INVARIANT OnlyMigrationsRaise
INVARIANT ColumnsAreRight
