SPECIFICATION Spec
CONSTANTS
  Futures = {f1, f2}
  Nobody = Nobody
INVARIANTS AvailableIsFound
