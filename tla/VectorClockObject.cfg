SPECIFICATION Spec
CONSTANTS
  Ids = {a, b, c}
  MaxClock = 4
INVARIANTS
  MinimumIsExact
  TickUntilIsTicks
PROPERTIES
  ResultTellsTheMinimum
