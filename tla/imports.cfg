\* Import sections with their tables in every order.
SPECIFICATION Spec
CONSTANTS
  ImportRva = 40
  Sections <- MCSections
INVARIANTS IatShadows
PROPERTIES FixupEnds
CHECK_DEADLOCK FALSE
