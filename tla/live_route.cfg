SPECIFICATION LiveSpec
CONSTANTS
  MaxGeneration = 2
  MaxSequence = 2
  MaxTrouble = 1
  None = None
PROPERTIES
  ContentChangesOnlyOnApply
  KeepsTheLedger
  EventuallyConfirmed
CHECK_DEADLOCK FALSE
