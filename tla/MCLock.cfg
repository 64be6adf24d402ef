CONSTANTS
  p1 = p1
  p2 = p2
  Attempts = {p1, p2}
  None = None
  tp = tp
  sf6 = sf6
  cape = cape
  cin = cin
  Products <- TwoProducts
  Converted <- OneRecord
  LastGroup = 2
  Group <- TwoGroups
  May <- ExpireOnly
SPECIFICATION Spec
INVARIANT LockUnlinked
CHECK_DEADLOCK FALSE
