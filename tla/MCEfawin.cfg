SPECIFICATION Spec
CONSTANTS
  p1 = p1
  m1 = m1
  a1 = a1
  c1 = c1
  c2 = c2
  q1 = q1
  None = None
  W16 = 4
  W32 = 5
  BatchBytes = 64
  WqeBytes = 64
  Pds = {p1}
  Mrs = {m1}
  Ahs = {a1}
  Cqs = {c1, c2}
  Qps = {q1}
  Nums = {1, 2}
  Info <- SomeInfo
  Cqes <- SomeCqes
  Requests <- SomeRequests
  QpStates = {"RESET", "RTS"}
  Dlls <- SomeDlls
  LkeyBits = 2
  WqeSges = 2
  WqeInline = 3
  WorkRequests <- SomeWorkRequests
  Cdescs <- SomeCdescs
INVARIANTS
  TypeOK
  HeldObjectsWork
  AnswersHold
  NothingForgotten
  RingsFit
  EitherWayTheSame
  TableIsWhole
