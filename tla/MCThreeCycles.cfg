CONSTANTS
  c00 = c00
  c06 = c06
  c12 = c12
  p1 = p1
  p2 = p2
  Cycles = {c00, c06, c12}
  Attempts = {p1}
  Disk = FALSE
  MaxTries <- TwoPulls
  MaxRewinds = 0
  May <- Nothing
SPECIFICATION Spec
SYMMETRY Day
INVARIANTS
  OneTryForEach
PROPERTIES
  OnlyRefetchDisturbs
\* a workflow of finitely many cycles comes to an end
CHECK_DEADLOCK FALSE
