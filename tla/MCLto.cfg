CONSTANTS
  Names <- MCNames
  Jobs <- MCJobs
  MaxDepth = 3
  NumPlugins = 2
  FatalExits = {TRUE, FALSE}
SPECIFICATION Spec
INVARIANTS
  FileListSound
  FirstErrorReported
  SamePathSameFile
  ClaimsSound
  LtoKeepsDefinitions
  NeededLibrariesBound
  SessionEndsOnce
PROPERTIES
  Terminates
