SPECIFICATION Spec
CONSTANTS
  c1 = c1
  c2 = c2
  c3 = c3
  Calls = {c1, c2, c3}
  MaxVersion = 2
  MaxTime = 3
  NoRow = NoRow
SYMMETRY Symmetry
INVARIANTS
  DiagnosticsAgree
  EvidenceIsReal
PROPERTIES
  NeverOlder
  OwnershipMonotonic
CHECK_DEADLOCK FALSE
