SPECIFICATION Spec
CONSTANTS
  p = p
  q = q
  Programs = {p, q}
  Funcs = {1, 2}
  Slots = {1, 2, 3}
  Compiled <- MCCompiled
  Reserves <- MCReserves
  DepthLimit = 3
  NoJit = NoJit
INVARIANTS
  CallsOwnCode
