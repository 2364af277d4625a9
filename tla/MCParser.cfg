CONSTANTS
  IndentationMax = 4
  ScopeStackMax = 4
  Programs <- MCPrograms
  TableBytes = 5
  UnitBytes = 2
  Hash <- MCHash

SPECIFICATION Spec

INVARIANTS
  TypeOK
  ParsesBack
  AcceptsLegal
  NamesBound
  NamesFound
  LooksTwoAhead
  NothingLeftOpen

CHECK_DEADLOCK FALSE
