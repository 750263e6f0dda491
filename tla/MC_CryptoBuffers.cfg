CONSTANTS
  fw = fw
  fr1 = fr1
  fr2 = fr2
  Fds <- MC_Fds
  FMode <- MC_FMode
  MaxId = 2
  AllocFails = TRUE
SPECIFICATION Spec
CONSTRAINT RefBound
VIEW RegistryView
INVARIANTS
  IdsUnique
  ModuleHeld
