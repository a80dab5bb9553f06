SPECIFICATION Spec
CONSTANTS
  Sources = {s1, s2}
  Keys = {h1, h2}
  Events = {e1, e2}
  ReversalKeys = {r1, r2}
  GrantAmounts = {2, 3}
  Costs = {1, 2}
  UnitSize = 2
  UnitPrice = 3
  CeilingUnit = FALSE
  PriceRetires = 2
  MaxTime = 2
SYMMETRY Symmetry
INVARIANTS
  BooksConsistent
PROPERTIES
  SettlementIsFinal
  SoonestExpiryFirst
CHECK_DEADLOCK FALSE
