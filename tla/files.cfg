\* Three repositories and objects of no, one and two components: a tree of three levels.
CONSTANTS
  Names = { "a", "b", "*" }
  RepositoryPaths <- MCRepositoryPaths
  ObjectPaths <- MCObjectPaths
  Wildcard = "*"
  FileSizes = { 1, 4097 }
  MaxPossibleFileSizeBytes = 4096
  Contents = { "", "data", "more" }
  NoContent = ""
SPECIFICATION Spec
INVARIANT TypeOK
INVARIANT AcceptedIsDone
PROPERTY LockedContentKept
CHECK_DEADLOCK FALSE
