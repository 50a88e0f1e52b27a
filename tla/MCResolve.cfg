\* Extraction rounds (precedence, stale indices, early loading, load errors), and
\* COMDAT groups claimed by slot or by key, within and across rounds.
CONSTANTS
  a = a
  b = b
  g = g
  h = h
  NoGroup = NoGroup
  NumFiles = 4
  Symbols = {a, b}
  Groups = {g, h}
  Position <- MCPosition
  AllowMultipleDefinition = FALSE
  Inputs <- MCInputs
SPECIFICATION Spec
INVARIANTS
  TableHoldsBest
  NoMissedExtraction
  OneCopyPerGroup
  EarlyLoadingSound
PROPERTIES
  ImplementsSequentialRule
  Termination
