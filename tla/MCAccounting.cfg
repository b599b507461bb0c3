\* Views resumed by two threads while orders are inserted and cancelled.
SPECIFICATION Spec
CONSTANTS
  Symbols = {"a", "b"}
  Subs = {"sub"}
  Strategies = {"st"}
  None = None
  Threads = {t1, t2}
  Views <- Cached
  ScopeOf <- Scope
  KindOf <- Kind
  NewRows <- Orders
  History <- Prices
  StartingCash = 100
  MaxRows = 3
  MaxClock = 4
  Second = 2
  OneWriter = FALSE
SYMMETRY Symmetry
ACTION_CONSTRAINT Few
INVARIANTS ValueIsConserved 
PROPERTY ImplementsLedger
CHECK_DEADLOCK FALSE
