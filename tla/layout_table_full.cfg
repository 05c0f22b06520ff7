\* One section more than the header has room for.
SPECIFICATION Spec
CONSTANTS
  Word = 1073741824
  SectionAlign = 128
  FileAlign = 128
  RawHeader = 640
  TableStart = 376
  EntrySize = 40
  MaxSize = 12288
  MaxSections = 7
  Longest = 6
  Sizes = {0}
  Commons = {0, 4}
  RelocSizes = {0, 12}
  Offsets = {0}
  Inputs <- MCFilled
INVARIANT HeaderFits
CHECK_DEADLOCK FALSE
