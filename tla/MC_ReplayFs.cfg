SPECIFICATION ReplaySpec
CONSTANTS
  Paths <- MCPaths
  Parent <- MCParent
  CowrieDirs <- MCDirs
  CowrieFiles = {"own"}
  KnownDirs = {"root"}
  Home = "root"
  Words = {"w"}
  Kinds <- MCKinds
  DirNames = {"dir"}
  FileNames = {"dir/in", "own"}
  MaxLog = 4
  Bytes = "bytes"
  OwnText = "own text"
  Placeholder = "downloaded from"
INVARIANTS ExistenceAndPerms WrittenTextArrives CwdInStep
CHECK_DEADLOCK FALSE
