\* Two threads create, destroy and poll two QPs whose CQs are in crossed roles.
CONSTANTS
  p1 = p1
  p2 = p2
  p3 = p3
  c1 = c1
  c2 = c2
  Threads = {t1, t2}
  Qps <- MCQps
  Cqs <- MCCqs
  SendCq <- CrossedSendCq
  RecvCq <- CrossedRecvCq
  Nums = {n1, n2}
  NumsDrained = TRUE
  CqeCnt = 1
  TableLock = TableLock
  None = None
SPECIFICATION FairSpec
INVARIANTS
  TypeOK
  NoUseAfterFree
  HeldQpIsPolled
PROPERTIES
  ImplementsDirectory
  EveryCallReturns
