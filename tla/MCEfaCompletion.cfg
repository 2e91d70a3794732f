\* Two QPs in one sub CQ: polled both ways, QPs destroyed when drained; or polled
\* with efa_poll_cq only, QPs destroyed with completions left.
CONSTANTS
  a = a
  b = b
  p1 = p1
  p2 = p2
  Wqs <- MCWqs
  Qps <- MCQps
  QpOf <- MCQpOf
  NoWr = NoWr
  None = None
  WqeCnt = 2
  DescCnt = 2
  U32 = 4
  U16 = 8
  WrIds = {w1, w2, w3, w4}
  Nwc = 2
  NumSubCqs = 1
  CqeCnt = 4
  SubCqOf <- OneSubCq
  Apps <- SafeApps
SPECIFICATION Spec
SYMMETRY Symmetry
VIEW Unread
INVARIANTS
  TypeOK
  IndexReturnedOnce
  WridAwaitsCompletion
  PhaseShowsPending
