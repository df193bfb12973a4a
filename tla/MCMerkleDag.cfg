\* Two callers and three calls, so that two are under way and a third comes
\* after what they left.
CONSTANTS
  x = x
  y = y
  ChunkSize = 2
  Files <- MCFiles
  Calls = {"c1", "c2"}
  MaxSaves = 3
SPECIFICATION Spec
INVARIANTS
  NoDanglingLinks
PROPERTY ImplementsFileStore
\* Every save has returned.
CHECK_DEADLOCK FALSE
