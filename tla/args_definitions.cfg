\* The user defines _CRTIMP2.
SPECIFICATION Spec
CONSTANTS
  Inputs <- MCLonger
INVARIANT DefinitionsPresent
CHECK_DEADLOCK FALSE
