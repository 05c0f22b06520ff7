\* Every way to call install.sh.
SPECIFICATION Spec
CONSTANTS
  MaxDepth = 3
PROPERTY InstallEnds
CHECK_DEADLOCK FALSE
