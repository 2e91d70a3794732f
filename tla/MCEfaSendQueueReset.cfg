\* The application moves the QP to RESET with requests outstanding.
CONSTANTS
  WqeCnt = 2
  DescCnt = 2
  U32 = 4
  U16 = 4
  WrIds = {w1, w2, w3}
  NoWr = NoWr
  Threads = {t1}
  SessionThreads = {}
  NoThread = NoThread
  NoDesc = NoDesc
  MaxBatchWr = 2
  DevDepth = 2
  MayReset = TRUE
  DrainBeforeReset = FALSE
SPECIFICATION Spec
SYMMETRY Symmetry
INVARIANTS
  NeverOverlap
