SPECIFICATION Spec
CONSTANTS
  MaxHeld = 2
  MaxDepth = 6
INVARIANTS
  NothingKept
  ReleasedOnce
  TrueIsComplete
  CallerKeepsItsToken
  ClientsAreValid
