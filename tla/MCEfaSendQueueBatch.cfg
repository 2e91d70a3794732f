\* Sessions of up to three requests, two per doorbell, on a ring of three
\* that wraps twice before pc does.
CONSTANTS
  WqeCnt = 3
  DescCnt = 3
  U32 = 6
  U16 = 6
  WrIds = {w1, w2, w3}
  NoWr = NoWr
  Threads = {}
  SessionThreads = {s1}
  NoThread = NoThread
  NoDesc = NoDesc
  MaxBatchWr = 2
  DevDepth = 1
  MayReset = FALSE
  DrainBeforeReset = TRUE
SPECIFICATION Spec
SYMMETRY Symmetry
INVARIANTS
  DoorbellExact
PROPERTIES
  DoorbellBatch
  PhaseTellsLaps
  SessionsAtomic
  ImplementsWorkQueue
