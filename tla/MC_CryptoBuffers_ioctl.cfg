CONSTANTS
  fw = fw
  fr1 = fr1
  fr2 = fr2
  Fds <- MC_Fds
  FMode <- MC_FMode
  MaxId = 2
  AllocFails = FALSE
SPECIFICATION Spec
CONSTRAINT RefBound
PROPERTY IoctlRefinement
