\* Three runs in which everything may go wrong anywhere.
SPECIFICATION Spec
CONSTANTS
  MaxRuns = 3
  GccCodes = {1, 4}
  Signals = {11}
  Trouble = {"fopen", "fwrite", "rename", "exec", "kill", "orphan"}
INVARIANTS TypeOK OutputWhole OutputFresh NeverAnOlderImage
PROPERTY RunsEnd
CHECK_DEADLOCK FALSE
