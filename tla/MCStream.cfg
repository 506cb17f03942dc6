SPECIFICATION Spec
CONSTANTS
  MaxSteps = 9
INVARIANTS
  CompleteStream
  ShownInOrder
  NeverSilent
PROPERTIES
  EveryStreamSettles
CHECK_DEADLOCK FALSE
