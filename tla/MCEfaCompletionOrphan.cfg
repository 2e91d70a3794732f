\* A session over a sub CQ that still holds completions of a destroyed QP.
CONSTANTS
  a = a
  b = b
  p1 = p1
  p2 = p2
  Wqs <- MCWqs
  Qps <- MCQps
  QpOf <- MCQpOf
  NoWr = NoWr
  None = None
  WqeCnt = 2
  DescCnt = 2
  U32 = 4
  U16 = 8
  WrIds = {w1, w2, w3}
  Nwc = 2
  NumSubCqs = 1
  CqeCnt = 4
  SubCqOf <- OneSubCq
  Apps <- HastyApps
SPECIFICATION Spec
SYMMETRY Symmetry
INVARIANT
  IndexReturnedOnce
