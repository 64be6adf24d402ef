CONSTANTS
  LastMember = 1
  LastStep = 3
  ProcessQueue <- AllVariables
  InputFiles <- CompleteInputs
SPECIFICATION Spec
PROPERTY ImplementsProducts
CHECK_DEADLOCK FALSE
