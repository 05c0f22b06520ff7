\* Every kind of call.
SPECIFICATION Spec
CONSTANTS
  Word = 64
  Rounds = {1, 2, 4, 8, 16, 32}
  HeaderWords = 2
  RawWords = 1
  OemWords = 2
  DbcsFlag = 100
INVARIANTS RoundupIsLeast CommonsApart SymbolsResolve NlsSwapped EntriesRead
CHECK_DEADLOCK FALSE
