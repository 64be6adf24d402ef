CONSTANTS
  LastMember = 1
  LastStep = 2
  ProcessQueue <- AllButOne
  InputFiles <- DefectiveInputs
SPECIFICATION Spec
INVARIANT TypeOK
INVARIANT ArraysAligned
INVARIANT FreshScan
INVARIANT OutputAligned
INVARIANT CrashNeedsLoss
INVARIANT FirstStepNeverLost
PROPERTY LossHasCause
PROPERTY STFromInputAlone
PROPERTY Termination
CHECK_DEADLOCK FALSE
