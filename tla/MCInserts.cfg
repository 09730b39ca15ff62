SPECIFICATION Spec
CONSTANTS
  s1 = s1
  s2 = s2
  t1 = t1
  Sessions = {s1, s2}
  Tables = {t1}
  MaxId = 3
  Installations <- MCInstallations
INVARIANT TypeOK
INVARIANT OwnId
PROPERTY NoIdOnlyIfGone
