\* The two alignments differ: the file offsets of table and file part.
SPECIFICATION Spec
CONSTANTS
  Word = 1073741824
  SectionAlign = 4096
  FileAlign = 512
  RawHeader = 640
  TableStart = 376
  EntrySize = 40
  MaxSize = 12288
  MaxSections = 3
  Longest = 2
  Sizes = {0, 1, 512}
  Commons = {0, 4}
  RelocSizes = {0, 12}
  Offsets = {0}
  Inputs <- MCInputs
INVARIANT RawOffsetsMatch
CHECK_DEADLOCK FALSE
