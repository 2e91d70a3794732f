\* A poster and two threads with sessions share a queue of two; counters wrap
\* after four; the queue is moved to RESET whenever it is drained.
CONSTANTS
  WqeCnt = 2
  DescCnt = 2
  U32 = 4
  U16 = 4
  WrIds = {w1, w2, w3}
  NoWr = NoWr
  Threads = {t1}
  SessionThreads = {s1, s2}
  NoThread = NoThread
  NoDesc = NoDesc
  MaxBatchWr = 1
  DevDepth = 2
  MayReset = TRUE
  DrainBeforeReset = TRUE
SPECIFICATION Spec
SYMMETRY Symmetry
INVARIANTS
  TypeOK
  CompletionNamesItsRequest
  NoSharedIndex
PROPERTIES
  ImplementsWorkQueue
  ImplementsPool
  SessionsAtomic
