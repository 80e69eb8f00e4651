\* npm run verify in a tree that is edited before and while it runs.
SPECIFICATION Spec
CONSTANTS
  m = m
  k = k
  Names = {m}
  Keys = {k}
  MaxEdits = 3
INVARIANTS
  TypeOK
  ParityMeansTranslated
  VerdictIsTrue
CHECK_DEADLOCK FALSE
