\* The sizes of hbin.py; trees of keys and values, and trees from INF entries.
SPECIFICATION Spec
CONSTANTS
  BinSize = 4096
  BinHeader = 32
  Usable = 4092
  Gran = 16
  KeyLen = 76
  ValueLen = 20
  Sizes = {0, 13, 2000, 4044, 4045}
  Trees <- MCTrees
INVARIANTS TypeOK CellsKept WritesAsClaimed HiveDecodes EntriesFound
PROPERTIES PlacesCells Exports
CHECK_DEADLOCK FALSE
