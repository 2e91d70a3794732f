\* Three entries; both counters wrap within one lap of the ids.
CONSTANTS
  WqeCnt = 3
  DescCnt = 2
  U32 = 4
  U16 = 4
  WrIds = {w1, w2, w3, w4}
  NoWr = NoWr
SPECIFICATION Spec
SYMMETRY Symmetry
INVARIANTS
  TypeOK
  PoolInv
  NextIsFree
  NoIndexLost
PROPERTY
  HeldWridStable
