\* Chunks of two names make a batch span several chunks; SplitThreshold 1
\* makes every mark task split.
CONSTANTS
  NumNames = 5
  NumShards = 2
  ShardOf <- MCShardOf
  Limit = 3
  PendingLimit = 3
  Chunk = 2
  Workloads <- MCWorkloads
  NumSections = 4
  MaxSection = 5
  SplitThreshold = 1
  Graphs <- MCGraphs
  Cases <- MCCases
  MergeShards = 2
  PiecesPerRun = 2
  PiecesPerTask = 1
  MaxHint = 5
SPECIFICATION PassSpec
INVARIANTS
  TableConsistent
  MarkSound
  MergedImageSound
PROPERTIES
  ImplementsFirstOccurrence
  Termination
