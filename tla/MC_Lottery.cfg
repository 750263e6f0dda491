CONSTANTS
  t1 = t1
  t2 = t2
  t3 = t3
  NULL = NULL
  Threads <- MC_Threads
  Prio <- MC_Prio
  InsertPrios = {0, 1, 2}
  MaxPrio = 3
  ActualPcts = {0, 50}
  MaxTotalPrio = 8
SPECIFICATION LSpec
CONSTRAINT LotteryBound
INVARIANTS
  ListWellFormed
  WeightNeverUndercounts
PROPERTY DrawAlwaysHasWinner
VIEW QueueView
