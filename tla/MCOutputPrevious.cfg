\* One link over an old output, through a temporary file.
CONSTANTS
  Subjects = {"file"}
  ImageLen = 10
  Block = 4
  RetainLimit = 1
  Fields <- MCFields
  PatchOffsets = {2, 4, 9}
  NoFile = NoFile
  Old = Old
  Special = Special
  Layouts <- FewLayouts
  Refills <- FewLayouts
  MaxFills = 0
  MaxPatches = 0
  Links = {a}
  Strategies = {"Rename", "Atomic"}
  Previous = {Old}
  MayCapture = FALSE
  MaxMessages = 2
  SocketSize = 1
  None = None
SPECIFICATION OutputSpec
INVARIANTS
  FailureKeepsOutput
