SPECIFICATION Spec
CONSTANTS
  Sections <- MCSections
  Symbols <- MCSymbols
  Keys <- MCKeys
  Shapes <- MCShapes
  Outside = 0
  Hash <- MCHash
  LinkInputs <- AliasLinks
  MaxAttempts = 4
CHECK_DEADLOCK FALSE
INVARIANTS
  PlanMatchesWrite
