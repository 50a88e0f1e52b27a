\* Every layout into a fresh output, a few after other writes; two links
\* writing the same path, with every strategy and outcome; a parent and a
\* child with two messages on each stream, through sockets that hold one.
CONSTANTS
  Subjects = {"image", "file", "fork"}
  ImageLen = 10
  Block = 4
  RetainLimit = 1
  Fields <- MCFields
  PatchOffsets = {2, 4, 9}
  NoFile = NoFile
  Old = Old
  Special = Special
  Layouts <- AllLayouts
  Refills <- FewLayouts
  MaxFills = 2
  MaxPatches = 2
  Links = {a, b}
  Strategies = {"Rename", "Atomic", "Unlink"}
  Previous = {NoFile, Old, Special}
  MayCapture = TRUE
  MaxMessages = 2
  SocketSize = 1
  None = None
SPECIFICATION OutputSpec
INVARIANTS
  BackingsAgree
  PathIsWhole
  PathIsKept
  NoStrayTemp
  StatusIsReal
  NothingLost
PROPERTIES
  BuildIdIsContentHash
  ParentExits
