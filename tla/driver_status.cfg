\* gcc fails in the ordinary way.
SPECIFICATION Spec
CONSTANTS
  MaxRuns = 2
  GccCodes = {1, 4}
  Signals = {11}
  Trouble = {}
INVARIANT SuccessMeansOutput
CHECK_DEADLOCK FALSE
