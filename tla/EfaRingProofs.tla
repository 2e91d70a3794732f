---------------------------- MODULE EfaRingProofs ----------------------------
(* What the ring arithmetic of EfaWq computes, for every size of the ring and *)
(* every width of the producer counter: a counter that is reduced modulo the  *)
(* ring size names the same slot before and after it wraps, a run of          *)
(* consecutive counts no longer than the ring names as many different slots,  *)
(* and the difference of two counters survives the wrap.                      *)
EXTENDS EfaWq, TLAPS

----------------------------------------------------------------------------
(* Division with a remainder, by a divisor that is not known: what the        *)
(* provers do not find by themselves is that no multiple of D lies strictly   *)
(* between -D and D except 0.                                                 *)
LEMMA SmallMultiple ==
  ASSUME NEW D \in Nat \ {0}, NEW z \in Int, D * z < D, D * z > -D
  PROVE  z = 0
<1>1. CASE z >= 1
  <2>1. D * z = D + D * (z - 1)
    BY SMT
  <2>2. D * (z - 1) >= 0
    BY <1>1, SMT
  <2> QED
    BY <2>1, <2>2
<1>2. CASE z <= -1
  <2>1. D * z = D * (z + 1) - D
    BY SMT
  <2>2. D * (z + 1) <= 0
    BY <1>2, SMT
  <2> QED
    BY <2>1, <2>2
<1> QED
  BY <1>1, <1>2

LEMMA UniqueDivision ==
  ASSUME NEW D \in Nat \ {0}, NEW a \in Int, NEW b \in Int,
         NEW r \in 0 .. D - 1, NEW s \in 0 .. D - 1, D * a + r = D * b + s
  PROVE  a = b /\ r = s
<1>1. D * (a - b) = D * a - D * b
  BY SMT
<1>2. D * (a - b) < D /\ D * (a - b) > -D
  BY <1>1
<1>3. a - b = 0
  BY <1>2, SmallMultiple
<1> QED
  BY <1>3

LEMMA Division ==
  ASSUME NEW D \in Nat \ {0}, NEW x \in Nat
  PROVE  \E q \in Int, r \in 0 .. D - 1 : (x % D) = r /\ x = D * q + r
<1>1. x % D \in 0 .. D - 1 /\ x = D * (x \div D) + (x % D) /\ x \div D \in Int
  BY SMT
<1> WITNESS x \div D \in Int, x % D \in 0 .. D - 1
<1> QED
  BY <1>1

LEMMA Remainder ==
  ASSUME NEW D \in Nat \ {0}, NEW x \in Nat, NEW q \in Int,
         NEW r \in 0 .. D - 1, x = D * q + r
  PROVE  (x % D) = r
<1>1. PICK a \in Int, s \in 0 .. D - 1 : (x % D) = s /\ x = D * a + s
  BY Division
<1>2. D * a + s = D * q + r
  BY <1>1
<1>3. s = r
  BY <1>2, UniqueDivision
<1> QED
  BY <1>1, <1>3

(* Adding a multiple of D leaves the remainder.                               *)
LEMMA ShiftByMultiple ==
  ASSUME NEW D \in Nat \ {0}, NEW M \in Nat, NEW x \in Nat, NEW y \in Nat,
         y = x + D * M
  PROVE  (y % D) = (x % D)
<1>1. PICK q \in Int, r \in 0 .. D - 1 : (x % D) = r /\ x = D * q + r
  BY Division
<1>2. D * (q + M) = D * q + D * M
  BY <1>1, SMT
<1>3. y = D * (q + M) + r /\ q + M \in Int
  BY <1>1, <1>2
<1>4. (y % D) = r
  BY <1>3, Remainder
<1> QED
  BY <1>1, <1>4

(* Numbers less than D apart have different remainders.                       *)
LEMMA CloseApart ==
  ASSUME NEW D \in Nat \ {0}, NEW x \in Nat, NEW y \in Nat,
         (x % D) = (y % D), x - y < D, y - x < D
  PROVE  x = y
<1>1. PICK q \in Int, r \in 0 .. D - 1 : (x % D) = r /\ x = D * q + r
  BY Division
<1>2. PICK p \in Int, s \in 0 .. D - 1 : (y % D) = s /\ y = D * p + s
  BY Division
<1>3. D * (q - p) = D * q - D * p
  BY SMT
<1>4. r = s
  BY <1>1, <1>2
<1>5. q - p \in Int /\ D * (q - p) < D /\ D * (q - p) > -D
  BY <1>1, <1>2, <1>3, <1>4
<1>6. q - p = 0
  BY <1>5, SmallMultiple
<1> QED
  BY <1>1, <1>2, <1>4, <1>6

(* Until the next multiple of D the remainder grows with the number.          *)
LEMMA Ascend ==
  ASSUME NEW D \in Nat \ {0}, NEW x \in Nat, NEW j \in Nat, (x % D) + j < D
  PROVE  ((x + j) % D) = (x % D) + j
<1>1. PICK q \in Int, r \in 0 .. D - 1 : (x % D) = r /\ x = D * q + r
  BY Division
<1>2. x + j = D * q + (r + j) /\ r + j \in 0 .. D - 1 /\ x + j \in Nat
  BY <1>1
<1> QED
  BY <1>1, <1>2, Remainder

----------------------------------------------------------------------------
(* The part of WqAssumption the ring needs.                                   *)
LEMMA RingSizes ==
  /\ DescCnt \in Nat \ {0} /\ U16 \in Nat \ {0} /\ DescCnt <= U16
  /\ WqeCnt \in Nat \ {0} /\ WqeCnt < U16
  /\ \E laps \in Nat : U16 = DescCnt * laps
<1>1. /\ DescCnt \in Nat \ {0} /\ U16 \in Nat \ {0} /\ DescCnt <= U16
      /\ WqeCnt \in Nat \ {0} /\ WqeCnt < U16 /\ (U16 % DescCnt) = 0
  BY WqAssumption
<1>2. PICK q \in Int, r \in 0 .. DescCnt - 1 :
         (U16 % DescCnt) = r /\ U16 = DescCnt * q + r
  BY <1>1, Division, ZenonT(40)
<1>3. U16 = DescCnt * q
  BY <1>1, <1>2
<1>4. q >= 0
  <2> SUFFICES ASSUME q < 0 PROVE FALSE
    OBVIOUS
  <2>1. DescCnt * q < 0
    BY <1>1, <1>2, SMT
  <2> QED
    BY <1>1, <1>3, <2>1
<1> QED
  BY <1>1, <1>3, <1>4

(* The count j after count x.                                                 *)
Ahead(x, j) == (x + j) % U16

(* No multiplication or division is left for who cites this lemma.            *)
LEMMA AheadValue ==
  ASSUME NEW x \in 0 .. U16 - 1, NEW j \in 0 .. U16
  PROVE  /\ Ahead(x, j) = IF x + j < U16 THEN x + j ELSE x + j - U16
         /\ Ahead(x, j) \in 0 .. U16 - 1
<1>1. U16 \in Nat \ {0} /\ x + j \in Nat
  BY RingSizes
<1>2. CASE x + j < U16
  <2>1. x + j = U16 * 0 + (x + j) /\ x + j \in 0 .. U16 - 1
    BY <1>1, <1>2
  <2>2. ((x + j) % U16) = x + j
    BY <1>1, <2>1, Remainder
  <2> QED
    BY <1>1, <1>2, <2>2 DEF Ahead
<1>3. CASE ~(x + j < U16)
  <2>1. x + j = U16 * 1 + (x + j - U16) /\ x + j - U16 \in 0 .. U16
    BY <1>1, <1>3
  <2>2. x + j - U16 \in 0 .. U16 - 1
    BY <1>1, <1>3
  <2>3. ((x + j) % U16) = x + j - U16
    BY <1>1, <2>1, <2>2, Remainder
  <2> QED
    BY <1>1, <1>3, <2>2, <2>3 DEF Ahead
<1> QED
  BY <1>2, <1>3

LEMMA AheadAhead ==
  ASSUME NEW x \in 0 .. U16 - 1, NEW i \in 0 .. U16, NEW j \in 0 .. U16,
         i + j <= U16
  PROVE  Ahead(Ahead(x, i), j) = Ahead(x, i + j)
<1>1. U16 \in Nat \ {0}
  BY RingSizes
<1>2. PICK y \in 0 .. U16 - 1 :
         y = Ahead(x, i) /\ y = (IF x + i < U16 THEN x + i ELSE x + i - U16)
  BY AheadValue
<1>3. Ahead(y, j) = IF y + j < U16 THEN y + j ELSE y + j - U16
  BY AheadValue
<1>4. PICK n \in 0 .. U16 : n = i + j
  BY <1>1
<1>5. Ahead(x, n) = IF x + n < U16 THEN x + n ELSE x + n - U16
  BY AheadValue
<1>6. Ahead(y, j) = Ahead(x, n)
  BY <1>1, <1>2, <1>3, <1>4, <1>5
<1> QED
  BY <1>2, <1>4, <1>6

LEMMA SlotInRing == \A x \in Nat : Slot(x) \in Slots
<1> SUFFICES ASSUME NEW x \in Nat PROVE Slot(x) \in Slots
  OBVIOUS
<1>1. PICK q \in Int, r \in 0 .. DescCnt - 1 :
         (x % DescCnt) = r /\ x = DescCnt * q + r
  BY RingSizes, Division
<1> QED
  BY <1>1 DEF Slot, Slots

(* The wrap of the counter is not seen in the slots.                          *)
LEMMA SlotAhead ==
  ASSUME NEW x \in 0 .. U16 - 1, NEW j \in 0 .. U16
  PROVE  Slot(Ahead(x, j)) = ((x + j) % DescCnt)
<1>1. /\ U16 \in Nat \ {0} /\ DescCnt \in Nat \ {0} /\ x + j \in Nat
      /\ x + j - U16 < U16
  BY RingSizes
<1>2. CASE x + j < U16
  BY <1>1, <1>2, AheadValue DEF Slot
<1>3. CASE ~(x + j < U16)
  <2>1. Ahead(x, j) = x + j - U16 /\ x + j - U16 \in Nat
    BY <1>1, <1>3, AheadValue
  <2>2. PICK laps \in Nat : U16 = DescCnt * laps
    BY RingSizes
  <2>3. PICK y \in Nat, z \in Nat : y = x + j /\ z = x + j - U16
    BY <1>1, <2>1
  <2>4. y = z + DescCnt * laps
    BY <1>1, <2>2, <2>3
  <2>5. (y % DescCnt) = (z % DescCnt)
    <3> HIDE <1>3, <2>3
    <3> QED
      BY <1>1, <2>4, ShiftByMultiple, ZenonT(40)
  <2> QED
    BY <2>1, <2>3, <2>5 DEF Slot
<1> QED
  BY <1>2, <1>3

(* A run of counts no longer than the ring uses no slot twice.                *)
LEMMA SlotsApart ==
  ASSUME NEW x \in 0 .. U16 - 1, NEW j \in 0 .. DescCnt - 1,
         NEW k \in 0 .. DescCnt - 1, Slot(Ahead(x, j)) = Slot(Ahead(x, k))
  PROVE  j = k
<1>1. /\ DescCnt \in Nat \ {0} /\ j \in 0 .. U16 /\ k \in 0 .. U16
      /\ x + j \in Nat /\ x + k \in Nat
  BY RingSizes
<1>2. PICK y \in Nat, z \in Nat : y = x + j /\ z = x + k
  BY <1>1
<1>3. (y % DescCnt) = (z % DescCnt)
  BY <1>1, <1>2, SlotAhead
<1>4. y - z < DescCnt /\ z - y < DescCnt
  BY <1>1, <1>2
<1>5. y = z
  BY <1>1, <1>3, <1>4, CloseApart
<1> QED
  BY <1>1, <1>2, <1>5

(* Up to the end of the ring, slots follow each other.                        *)
LEMMA SlotRun ==
  ASSUME NEW x \in 0 .. U16 - 1, NEW j \in Nat, Slot(x) + j < DescCnt
  PROVE  Slot(Ahead(x, j)) = Slot(x) + j
<1>1. /\ DescCnt \in Nat \ {0} /\ Slot(x) \in Slots /\ x \in Nat
      /\ U16 \in Nat \ {0} /\ DescCnt <= U16
  BY RingSizes, SlotInRing
<1>2. j \in 0 .. U16
  BY <1>1 DEF Slots
<1>3. ((x + j) % DescCnt) = (x % DescCnt) + j
  BY <1>1, Ascend DEF Slot
<1> QED
  BY <1>2, <1>3, SlotAhead DEF Slot

(* The slot of the next count is the next slot, or slot 0 at the end.         *)
LEMMA SlotOfNext ==
  ASSUME NEW x \in 0 .. U16 - 1
  PROVE  /\ WrapInc(x, U16) = Ahead(x, 1) /\ WrapInc(x, U16) \in 0 .. U16 - 1
         /\ Slot(WrapInc(x, U16)) = WrapInc(Slot(x), DescCnt)
<1>1. /\ DescCnt \in Nat \ {0} /\ U16 \in Nat \ {0} /\ DescCnt <= U16
      /\ Slot(x) \in 0 .. DescCnt - 1 /\ x \in Nat
  BY RingSizes, SlotInRing DEF Slots
<1>2. /\ Ahead(x, 1) = (IF x + 1 < U16 THEN x + 1 ELSE x + 1 - U16)
      /\ Ahead(x, 1) \in 0 .. U16 - 1
  <2>1. 1 \in 0 .. U16
    BY <1>1
  <2> QED
    BY ONLY <2>1, AheadValue, x \in 0 .. U16 - 1
<1>3. WrapInc(x, U16) = Ahead(x, 1)
  BY <1>1, <1>2 DEF WrapInc
<1>4. CASE Slot(x) + 1 < DescCnt
  BY <1>1, <1>3, <1>4, SlotRun DEF WrapInc
<1>5. CASE Slot(x) + 1 = DescCnt
  <2>1. PICK q \in Int, r \in 0 .. DescCnt - 1 :
           (x % DescCnt) = r /\ x = DescCnt * q + r
    BY <1>1, Division
  <2>2. DescCnt * (q + 1) = DescCnt * q + DescCnt
    BY <1>1, <2>1, SMT
  <2>3. x + 1 = DescCnt * (q + 1) + 0 /\ q + 1 \in Int /\ 0 \in 0 .. DescCnt - 1
    BY <1>1, <1>5, <2>1, <2>2 DEF Slot
  <2>4. PICK y \in Nat, p \in Int : y = x + 1 /\ p = q + 1
    BY <1>1
  <2>5. y = DescCnt * p + 0
    BY <2>3, <2>4
  <2>6. (y % DescCnt) = 0
    BY <1>1, <2>3, <2>5, Remainder
  <2>7. Slot(Ahead(x, 1)) = 0
    BY <1>1, <2>4, <2>6, SlotAhead
  <2>8. WrapInc(Slot(x), DescCnt) = 0
    BY <1>5 DEF WrapInc
  <2> QED
    BY <1>2, <1>3, <2>7, <2>8
<1> QED
  BY <1>1, <1>2, <1>3, <1>4, <1>5

----------------------------------------------------------------------------
(* The distance from one count to another, and how far it carries.            *)
LEMMA Distance ==
  ASSUME NEW x \in 0 .. U16 - 1, NEW y \in 0 .. U16 - 1
  PROVE  /\ WrapSub(y, x, U16) \in 0 .. U16 - 1
         /\ Ahead(x, WrapSub(y, x, U16)) = y
         /\ (WrapSub(y, x, U16) = 0) <=> (x = y)
<1>1. U16 \in Nat \ {0}
  BY RingSizes
<1>2. WrapSub(y, x, U16) \in 0 .. U16 - 1
  BY <1>1 DEF WrapSub
<1>3. PICK n \in 0 .. U16 : n = WrapSub(y, x, U16)
  BY <1>1, <1>2
<1>4. Ahead(x, n) = IF x + n < U16 THEN x + n ELSE x + n - U16
  BY AheadValue
<1>5. Ahead(x, n) = y
  BY <1>1, <1>3, <1>4 DEF WrapSub
<1> QED
  BY <1>1, <1>2, <1>3, <1>5 DEF WrapSub

(* Moving either count, or both.                                              *)
LEMMA DistanceMoves ==
  ASSUME NEW x \in 0 .. U16 - 1, NEW y \in 0 .. U16 - 1
  PROVE  /\ WrapSub(y, x, U16) + 1 < U16 =>
              WrapSub(WrapInc(y, U16), x, U16) = WrapSub(y, x, U16) + 1
         /\ WrapSub(y, x, U16) > 0 =>
              WrapSub(y, WrapInc(x, U16), U16) = WrapSub(y, x, U16) - 1
         /\ \A n \in 0 .. WrapSub(y, x, U16) :
              /\ WrapSub(y, n, U16) \in 0 .. U16 - 1
              /\ WrapSub(WrapSub(y, n, U16), x, U16) = WrapSub(y, x, U16) - n
  BY RingSizes DEF WrapInc, WrapSub

(* Going back from a count that has moved on by as much.                      *)
LEMMA BackAgain ==
  ASSUME NEW y \in 0 .. U16 - 1, NEW n \in 0 .. U16 - 2
  PROVE  /\ WrapSub(WrapInc(y, U16), n + 1, U16) = WrapSub(y, n, U16)
         /\ WrapSub(y, 0, U16) = y
  BY RingSizes DEF WrapInc, WrapSub

(* The distance between two counts, from a third one behind both.             *)
LEMMA Between ==
  ASSUME NEW x \in 0 .. U16 - 1, NEW y \in 0 .. U16 - 1, NEW z \in 0 .. U16 - 1,
         WrapSub(z, x, U16) <= WrapSub(y, x, U16)
  PROVE  WrapSub(y, z, U16) = WrapSub(y, x, U16) - WrapSub(z, x, U16)
  BY RingSizes DEF WrapSub

(* Back and ahead again.                                                      *)
LEMMA ThereAgain ==
  ASSUME NEW y \in 0 .. U16 - 1, NEW n \in 0 .. U16 - 1
  PROVE  /\ WrapSub(y, n, U16) \in 0 .. U16 - 1
         /\ Ahead(WrapSub(y, n, U16), n) = y
<1>1. U16 \in Nat \ {0}
  BY RingSizes
<1>2. PICK x \in 0 .. U16 - 1 : x = WrapSub(y, n, U16)
  <2>1. WrapSub(y, n, U16) \in 0 .. U16 - 1
    BY <1>1 DEF WrapSub
  <2> QED
    BY <2>1
<1>3. n \in 0 .. U16
  BY <1>1
<1>4. Ahead(x, n) = IF x + n < U16 THEN x + n ELSE x + n - U16
  BY <1>3, AheadValue
<1>5. Ahead(x, n) = y
  BY <1>1, <1>2, <1>4 DEF WrapSub
<1> QED
  BY <1>2, <1>5

(* The slot of a count no more than one lap on.                               *)
LEMMA SlotAfter ==
  ASSUME NEW x \in 0 .. U16 - 1, NEW j \in 0 .. DescCnt
  PROVE  Slot(Ahead(x, j)) = IF Slot(x) + j < DescCnt THEN Slot(x) + j
                             ELSE Slot(x) + j - DescCnt
<1>1. /\ DescCnt \in Nat \ {0} /\ x \in Nat /\ j \in Nat /\ j \in 0 .. U16
      /\ Slot(x) \in 0 .. DescCnt - 1
  BY RingSizes, SlotInRing DEF Slots
<1>2. CASE Slot(x) + j < DescCnt
  BY <1>1, <1>2, SlotRun
<1>3. CASE ~(Slot(x) + j < DescCnt)
  <2>1. PICK q \in Int, r \in 0 .. DescCnt - 1 :
           (x % DescCnt) = r /\ x = DescCnt * q + r
    BY <1>1, Division
  <2>2. PICK y \in Nat, p \in Int, e \in 0 .. DescCnt - 1 :
           y = x + j /\ p = q + 1 /\ e = r + j - DescCnt
    BY <1>1, <1>3, <2>1 DEF Slot
  <2>3. DescCnt * p = DescCnt * q + DescCnt
    BY <1>1, <2>2
  <2>4. y = DescCnt * p + e
    BY <1>1, <2>1, <2>2, <2>3
  <2>5. (y % DescCnt) = e
    BY <1>1, <2>2, <2>4, Remainder
  <2>6. Slot(Ahead(x, j)) = e
    BY <1>1, <2>2, <2>5, SlotAhead
  <2> QED
    BY <1>3, <2>1, <2>2, <2>6 DEF Slot
<1> QED
  BY <1>2, <1>3
=============================================================================
