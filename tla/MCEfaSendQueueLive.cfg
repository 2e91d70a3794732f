\* Fair scheduling; no symmetry, liveness is not sound under it.
CONSTANTS
  WqeCnt = 2
  DescCnt = 2
  U32 = 4
  U16 = 4
  WrIds = {w1, w2}
  NoWr = NoWr
  Threads = {t1}
  SessionThreads = {s1}
  NoThread = NoThread
  NoDesc = NoDesc
  MaxBatchWr = 2
  DevDepth = 2
  MayReset = FALSE
  DrainBeforeReset = TRUE
SPECIFICATION FairSpec
PROPERTIES
  EveryRequestFinishes
