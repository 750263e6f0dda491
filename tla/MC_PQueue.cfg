CONSTANTS
  t1 = t1
  t2 = t2
  t3 = t3
  t4 = t4
  NULL = NULL
  Threads <- MC_Threads
  Prio <- MC_Prio
  InsertPrios = {0, 1, 2}
  MaxPrio = 3
SPECIFICATION Spec
INVARIANTS
  ListWellFormed
PROPERTIES
  Refinement
VIEW ListView
