SPECIFICATION LeftoversSpec
CONSTANTS
  MaxEntries = 0
  MaxWorkers = 0
INVARIANT
  MismatchIsReal
