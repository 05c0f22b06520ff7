\* Equal alignments, as by default, small enough for the table to fill its header:
\* room for six entries, five sections and .reloc.
SPECIFICATION Spec
CONSTANTS
  Word = 1073741824
  SectionAlign = 128
  FileAlign = 128
  RawHeader = 640
  TableStart = 376
  EntrySize = 40
  MaxSize = 12288
  MaxSections = 6
  Longest = 3
  Sizes = {0, 1, 128}
  Commons = {0, 4}
  RelocSizes = {0, 12}
  Offsets = {0, 4}
  Inputs <- MCAll
INVARIANTS TypeOK HeaderFits SectionsApart RelocatedAsLoaded RawOffsetsMatch DirectoriesMapped EntryAgrees
PROPERTIES PlacesRegions Terminates
CHECK_DEADLOCK FALSE
