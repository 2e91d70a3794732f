\* Two requests of up to two scatter entries in a ring of four slots.
CONSTANTS
  WqeCnt = 2
  DescCnt = 4
  U32 = 4
  U16 = 8
  WrIds = {w1, w2, w3}
  NoWr = NoWr
  Threads = {t1, t2}
  NoThread = NoThread
  NoDesc = NoDesc
  MaxSge = 2
  NumSges = {1, 2, 3}
  DevDepth = 2
SPECIFICATION Spec
SYMMETRY Symmetry
VIEW Unread
INVARIANTS
  TypeOK
  ScatterListsWhole
  DoorbellExact
  CompletionNamesItsRequest
PROPERTIES
  ImplementsWorkQueue
  ImplementsPool
