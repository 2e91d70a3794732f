\* The same, when a slot of qp_table comes back while completions of the QP that had
\* it are left in a CQ.
CONSTANTS
  p1 = p1
  p2 = p2
  p3 = p3
  c1 = c1
  c2 = c2
  Threads = {t1, t2}
  Qps <- MCQps
  Cqs <- MCCqs
  SendCq <- CrossedSendCq
  RecvCq <- CrossedRecvCq
  Nums = {n1, n2}
  NumsDrained = FALSE
  CqeCnt = 1
  TableLock = TableLock
  None = None
SPECIFICATION Spec
INVARIANT
  NoUseAfterFree
