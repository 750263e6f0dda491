CONSTANTS
  Paths <- MCPaths
  ParentOf <- MCParentOf
  Root = "/"
  NoArg = NoArg
  Cmds = {"ls", "cp", "rm", "", "x"}
  Inputs <- MCInputsBoth
  InitKinds <- MCInitKinds
  InitData <- MCInitData
  CountInit = {0, 1}
  Buf = 2
  IoErrors = TRUE
SPECIFICATION FairSpec
CHECK_DEADLOCK FALSE
INVARIANTS
  CpCopies

  
