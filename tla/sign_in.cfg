SPECIFICATION Spec
CONSTANTS
  b1 = b1 b2 = b2 c1 = c1 c2 = c2 c3 = c3
  Browsers = {b1, b2}
  Codes = {c1, c2}
  CodesPerSet = 1
  MaxAttempts = 2
  MaxGuesses = 3
  MaxDevices = 2
  NoCode = NoCode
SYMMETRY Symmetry
CHECK_DEADLOCK FALSE
INVARIANTS TypeOK SecondFactorHolds LockoutHolds
PROPERTIES FactorsMatch
