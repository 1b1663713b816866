CONSTANTS
  onSolana = onSolana
  onEthereum = onEthereum
  onParadex = onParadex
  Token = {onSolana, onEthereum, onParadex}
  Symbol = {s1, s2}
  ChainOf <- MCChainOf
  Valid = {onSolana, onEthereum}
  BatchSize = 1
  Sync = {x1, x2}
  MaxClock = 2
  MaxEdits = 1
  DbFaults = {"rejected"}
SPECIFICATION Spec
INVARIANTS
  ReportIsHonest
  SymbolsAgree
PROPERTIES
  NoOlderQuote
SYMMETRY Symmetry
\* The runs end.
CHECK_DEADLOCK FALSE
