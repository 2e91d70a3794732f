\* Two sub CQs, polled one completion a call by an application that keeps polling.
CONSTANTS
  a = a
  b = b
  p1 = p1
  p2 = p2
  Wqs <- MCWqs
  Qps <- MCQps
  QpOf <- MCQpOf
  NoWr = NoWr
  None = None
  WqeCnt = 1
  DescCnt = 1
  U32 = 2
  U16 = 4
  WrIds = {w1, w2}
  Nwc = 1
  NumSubCqs = 2
  CqeCnt = 2
  SubCqOf <- TwoSubCqs
  Apps <- HastyApps
SPECIFICATION FairSpec
PROPERTY
  EveryCompletionSeen
