CONSTANTS
  c00 = c00
  c06 = c06
  c12 = c12
  p1 = p1
  p2 = p2
  Cycles = {c00}
  Attempts = {p1, p2}
  Disk = TRUE
  MaxTries <- TaskTries
  MaxRewinds = 1
  May <- All
SPECIFICATION Spec
INVARIANTS
  TypeOK
  SafeToDelete
  LinksAllOrNone
  LeftClean
PROPERTIES
  CycleSettles
\* a workflow of finitely many cycles comes to an end
CHECK_DEADLOCK FALSE
