SPECIFICATION Spec
CONSTANTS
  Base = 2
  Num = 3
  High = 1
INVARIANTS
  TypeOK
  NeverAhead
  WriteLands
