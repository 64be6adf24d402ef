SPECIFICATION Spec
CONSTANTS
  pt = pt
  sf = sf
  sf6 = sf6
  tp = tp
  n = n
  s = s
  Unknown = Unknown
  All = All
  Empty = Empty
  Names <- MCNames
  DefaultOrder <- MCDefaultOrder
  CommandLines <- MCCommandLines
  Points <- MCPoints
  Files <- MCFiles
  MissingValue = MissingValue
  InitialTimes <- MCTimes
  Offsets <- MCOffsets
  PtName = pt
  Plain <- MCPlain
INVARIANT AllMeansAll
\* the parts come to their end
CHECK_DEADLOCK FALSE
