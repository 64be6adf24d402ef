SPECIFICATION Spec
CONSTANTS
  u = u
  v = v
  None = None
  Cut = Cut
  Names <- MCNames
  Inputs <- MCInputs
INVARIANTS
  TypeOK
  ConvertedAsWanted
  LastSections
PROPERTY ConversionEnds
\* the conversion comes to its end
CHECK_DEADLOCK FALSE
