SPECIFICATION Spec
CONSTANTS
  get = get
  GET = GET
  a = a
  b = b
  x = x
  y = y
  Verbs = {get, GET}
  Upper <- MCUpper
  Words = {a, b}
  Names = {x, y}
  Lengths = {1, 2}
  Static <- MCStatic
  MaxId = 5
INVARIANTS
  NoCompetitors
  FirstRegisteredServes
PROPERTIES
  MatchesAreStable
CHECK_DEADLOCK FALSE
