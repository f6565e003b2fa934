SPECIFICATION LabSpec
CONSTANTS
  Evaluations <- DriverAndBaseline
  Unset = Unset
  Shapes <- SmallShapes
  Addresses <- SomeAddresses
  TraceLength = 7
INVARIANTS TypesOK Transposed FewMisses
PROPERTIES ImplementsSetAssociative
CHECK_DEADLOCK FALSE
