SPECIFICATION FairSpec
CONSTANTS
  Keys = {k1, k2}
  Tasks = {t1, t2, t3, t4}
  Locks = {l1, l2, l3}
  NoLock = NoLock
  NoTask = NoTask
INVARIANTS IInv MutualExclusion NoLostWakeUp
PROPERTY ImplementsFifoMutex
