\* Options in all their forms, in pairs and triples.
SPECIFICATION Spec
CONSTANTS
  Inputs <- MCInputs
INVARIANTS OptionsHonoured PassedOn NecessaryDefined
CHECK_DEADLOCK FALSE
