SPECIFICATION Spec
CONSTANTS
  Topics = {t1, t2}
  Executions = {e1, e2}
  MaxMessages = 3
SYMMETRY Symmetry
INVARIANTS
  FanOutExact
