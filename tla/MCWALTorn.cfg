SPECIFICATION Spec
CONSTANTS
  PayloadLengths = {1, 2}
  MaxAppends = 2
  MaxFaults = 1
  MaxReopens = 0
INVARIANT
  RestartLosesNothing
