-------------------------- MODULE EfaWridPoolProofs --------------------------
(* The safety properties of EfaWridPool, for every size of the queue and      *)
(* every width of its counters that WqAssumption allows. PoolInv is the       *)
(* inductive invariant; the other properties follow from it. The argument     *)
(* needs no count of the held indexes: the counters are tied to next by       *)
(* arithmetic, and the two places where "how many" matters (an index can only *)
(* come back if one is out; a drained queue has the whole pool) are instances *)
(* of the pigeonhole principle.                                               *)
EXTENDS EfaWridPool, FiniteSetTheorems, TLAPS

----------------------------------------------------------------------------
(* The part of WqAssumption the proofs use.                                   *)
LEMMA Sizes ==
  /\ WqeCnt \in Nat /\ WqeCnt > 0
  /\ U32 \in Nat /\ WqeCnt < U32
  /\ U16 \in Nat /\ WqeCnt < U16
  /\ NoWr \notin WrIds
  BY WqAssumption

LEMMA Fields ==
  ASSUME NEW w \in WqType
  PROVE  /\ w.wrid \in [Idx -> Ids] /\ w.pool \in [Idx -> Idx]
         /\ w.next \in Nat /\ w.next < U16
         /\ w.posted \in 0 .. U32 - 1 /\ w.completed \in 0 .. U32 - 1
         /\ w = [wrid |-> w.wrid, pool |-> w.pool, next |-> w.next,
                 posted |-> w.posted, completed |-> w.completed]
  BY Sizes DEF WqType

(* Unsigned counters: a difference below the width survives the wrap.         *)
LEMMA WrapLemma ==
  ASSUME NEW m \in Nat \ {0}, NEW x \in 0 .. m - 1, NEW y \in 0 .. m - 1
  PROVE  /\ WrapInc(x, m) \in 0 .. m - 1
         /\ WrapDec(x, m) \in 0 .. m - 1
         /\ WrapSub(x, y, m) \in 0 .. m - 1
         /\ WrapSub(x, y, m) + 1 < m =>
              WrapSub(WrapInc(x, m), y, m) = WrapSub(x, y, m) + 1
         /\ WrapSub(x, y, m) > 0 =>
              WrapSub(x, WrapInc(y, m), m) = WrapSub(x, y, m) - 1
         /\ \A n \in 0 .. WrapSub(x, y, m) :
              WrapSub(WrapSub(x, n, m), y, m) = WrapSub(x, y, m) - n
  BY DEF WrapInc, WrapDec, WrapSub

(* What taking an index does to the queue.                                    *)
LEMMA TakeLemma ==
  ASSUME NEW w \in WqType, NEW id \in WrIds, w.next < WqeCnt,
         NEW v, v = CountPosted(GetNextWridIdx(w, id))
  PROVE  /\ v \in WqType
         /\ v.pool = w.pool
         /\ v.next = w.next + 1
         /\ v.wrid = [w.wrid EXCEPT ![w.pool[w.next]] = id]
         /\ v.posted = WrapInc(w.posted, U32)
         /\ v.completed = w.completed
<1>1. w.next \in Idx /\ w.pool[w.next] \in Idx
  BY Sizes, Fields DEF Idx
<1>2. WrapInc(w.next, U16) = w.next + 1 /\ w.next + 1 \in 0 .. U16 - 1
  BY Sizes, Fields DEF WrapInc
<1>3. WrapInc(w.posted, U32) \in 0 .. U32 - 1
  BY Sizes, Fields DEF WrapInc
<1>4. [w.wrid EXCEPT ![w.pool[w.next]] = id] \in [Idx -> Ids]
  BY <1>1, Fields DEF Ids
<1> QED
  BY <1>1, <1>2, <1>3, <1>4 DEF WqType, CountPosted, GetNextWridIdx, NextIdx

(* What giving index i back does.                                             *)
LEMMA PutLemma ==
  ASSUME NEW w \in WqType, NEW i \in Idx, w.next > 0, w.next <= WqeCnt,
         NEW v, v = PutWridIdx(w, i)
  PROVE  /\ v \in WqType
         /\ v.next = w.next - 1
         /\ v.pool = [w.pool EXCEPT ![w.next - 1] = i]
         /\ v.wrid = w.wrid
         /\ v.posted = w.posted
         /\ v.completed = WrapInc(w.completed, U32)
<1>1. WrapDec(w.next, U16) = w.next - 1 /\ w.next - 1 \in Idx
  BY Sizes, Fields DEF WrapDec, Idx
<1>2. WrapInc(w.completed, U32) \in 0 .. U32 - 1
  BY Sizes, Fields DEF WrapInc
<1>3. [w.pool EXCEPT ![w.next - 1] = i] \in [Idx -> Idx]
  BY <1>1, Fields
<1>4. w.next - 1 \in 0 .. U16 - 1
  BY Sizes, Fields
<1> QED
  BY <1>1, <1>2, <1>3, <1>4 DEF WqType, PutWridIdx

(* What a roll back of n requests does.                                       *)
LEMMA RollBackLemma ==
  ASSUME NEW w \in WqType, NEW n \in Nat, n <= w.next, w.next <= WqeCnt,
         NEW v, v = RollBackWq(w, n)
  PROVE  /\ v \in WqType
         /\ v.next = w.next - n
         /\ v.pool = w.pool /\ v.wrid = w.wrid /\ v.completed = w.completed
         /\ v.posted = WrapSub(w.posted, n, U32)
<1>1. WrapSub(w.next, n, U16) = w.next - n /\ w.next - n \in 0 .. U16 - 1
  BY Sizes, Fields DEF WrapSub
<1>2. WrapSub(w.posted, n, U32) \in 0 .. U32 - 1
  BY Sizes, Fields DEF WrapSub
<1> QED
  BY <1>1, <1>2 DEF WqType, RollBackWq

(* Once the full test has passed, there is a position left in the pool.       *)
LEMMA NotFullLemma ==
  ASSUME TypeOK, CountersAgree, ~Full(wq)
  PROVE  wq.next < WqeCnt
  BY Sizes DEF TypeOK, CountersAgree, Full, WqType

----------------------------------------------------------------------------
(* The two uses of the pigeonhole principle.                                  *)

(* If an index is held, the pool is not whole.                                *)
LEMMA HeldMeansTaken ==
  ASSUME TypeOK, CountersAgree, PoolInjective, Partitioned,
         NEW i \in Idx, owner[i] # NoWr
  PROVE  Base > 0
<1> SUFFICES ASSUME Base = 0 PROVE FALSE
  BY Sizes, Fields DEF TypeOK, CountersAgree, Base
<1>1. Uncommitted = Idx
  BY DEF Uncommitted, Idx
<1>2. wq.pool \in [Idx -> Idx \ {i}]
  <2>1. wq.pool \in [Idx -> Idx]
    BY Fields DEF TypeOK
  <2>2. \A k \in Idx : wq.pool[k] # i
    BY <1>1 DEF Partitioned
  <2> QED
    BY <2>1, <2>2
<1>3. IsFiniteSet(Idx) /\ Cardinality(Idx) = WqeCnt
  BY FS_Interval, Sizes DEF Idx
<1>4. IsFiniteSet(Idx \ {i}) /\ Cardinality(Idx \ {i}) = WqeCnt - 1
  BY <1>3, FS_RemoveElement
<1>5. Cardinality(Idx \ {i}) < Cardinality(Idx)
  BY <1>3, <1>4, Sizes
<1>6. \E x, y \in Idx : x # y /\ wq.pool[x] = wq.pool[y]
  BY <1>2, <1>3, <1>4, <1>5, FS_PigeonHole
<1> QED
  BY <1>1, <1>6 DEF PoolInjective

(* If no index is held, the pool is whole.                                    *)
LEMMA DrainedMeansWhole ==
  ASSUME TypeOK, CountersAgree, Partitioned, Held = {}
  PROVE  Base = 0
<1> SUFFICES ASSUME Base # 0 PROVE FALSE
  OBVIOUS
<1>1. Base \in Nat /\ Base > 0 /\ Base <= WqeCnt
  BY Sizes, Fields DEF TypeOK, CountersAgree, Base
<1>2. \A i \in Idx : \E k \in Uncommitted : wq.pool[k] = i
  BY DEF Held, Partitioned
<1> DEFINE at == [i \in Idx |-> CHOOSE k \in Uncommitted : wq.pool[k] = i]
<1>3. \A i \in Idx : at[i] \in Uncommitted /\ wq.pool[at[i]] = i
  BY <1>2
<1>4. at \in [Idx -> Uncommitted]
  BY <1>3
<1>5. IsFiniteSet(Idx) /\ Cardinality(Idx) = WqeCnt
  BY FS_Interval, Sizes DEF Idx
<1>6. IsFiniteSet(Uncommitted) /\ Cardinality(Uncommitted) = WqeCnt - Base
  <2>1. Base \in Int /\ WqeCnt - 1 \in Int
    BY <1>1, Sizes
  <2>2. /\ IsFiniteSet(Base .. WqeCnt - 1)
        /\ Cardinality(Base .. WqeCnt - 1) =
             IF Base > WqeCnt - 1 THEN 0 ELSE (WqeCnt - 1) - Base + 1
    BY <2>1, FS_Interval
  <2> QED
    BY <1>1, <2>2, Sizes DEF Uncommitted
<1>7. Cardinality(Uncommitted) < Cardinality(Idx)
  BY <1>1, <1>5, <1>6, Sizes
<1> HIDE DEF at
<1>8. \E x, y \in Idx : x # y /\ at[x] = at[y]
  BY <1>4, <1>5, <1>6, <1>7, FS_PigeonHole
<1> QED
  BY <1>3, <1>8
----------------------------------------------------------------------------
LEMMA InitPoolInv == Init => PoolInv
<1> SUFFICES ASSUME Init PROVE PoolInv
  OBVIOUS
<1>1. wq \in WqType /\ wq.next = 0 /\ wq.posted = 0 /\ wq.completed = 0
  BY Sizes DEF Init, WqInitial, WqType, Idx, Ids
<1>2. \A k \in Idx : wq.pool[k] = k
  BY DEF Init, WqInitial
<1>3. Base = 0 /\ Uncommitted = Idx
  BY <1>1 DEF Init, Base, Uncommitted, Idx
<1>4. TypeOK
  <2>1. owner \in [Idx -> Ids] /\ building \in [Idx -> Ids]
    BY DEF Init, NoneBuilding, Ids
  <2>2. pending \in 0 .. WqeCnt
    BY Sizes DEF Init
  <2>3. session \in BOOLEAN
    BY DEF Init
  <2> QED
    BY <1>1, <2>1, <2>2, <2>3 DEF TypeOK
<1>5. CountersAgree
  BY <1>1, Sizes DEF Init, CountersAgree, WrapSub
<1>6. PoolInjective
  BY <1>2, <1>3 DEF PoolInjective
<1>7. Partitioned
  BY <1>2, <1>3 DEF Partitioned, Init
<1>8. SessionHolds
  BY <1>1, <1>3, Sizes DEF SessionHolds, Init, NoneBuilding
<1>9. WridIntact
  BY DEF WridIntact, Init, NoneBuilding
<1> QED
  BY <1>4, <1>5, <1>6, <1>7, <1>8, <1>9 DEF PoolInv

(* Taking the index at next leaves Base where it is for a session, and moves  *)
(* it by one for a request committed at once.                                 *)
LEMMA PostPreserves ==
  ASSUME PoolInv, NEW id \in WrIds, Post(id)
  PROVE  PoolInv'
<1> DEFINE j == wq.pool[wq.next]
<1>1. /\ wq \in WqType /\ owner \in [Idx -> Ids] /\ building \in [Idx -> Ids]
      /\ pending = 0 /\ session = FALSE
      /\ wq.next < WqeCnt /\ WrapSub(wq.posted, wq.completed, U32) = wq.next
  BY NotFullLemma DEF PoolInv, TypeOK, CountersAgree, Post
<1>2. /\ wq' \in WqType /\ wq'.pool = wq.pool /\ wq'.next = wq.next + 1
      /\ wq'.wrid = [wq.wrid EXCEPT ![j] = id]
      /\ wq'.posted = WrapInc(wq.posted, U32) /\ wq'.completed = wq.completed
  BY <1>1, TakeLemma DEF Post
<1>3. /\ owner' = [owner EXCEPT ![j] = id]
      /\ building' = building /\ pending' = 0 /\ session' = FALSE
  BY <1>1 DEF Post, NextIdx
<1>4. /\ wq.next \in Idx /\ j \in Idx /\ Base = wq.next /\ Base' = wq.next + 1
  BY <1>1, <1>2, <1>3, Fields, Sizes DEF Base, Idx
<1>5. \A k \in Uncommitted' : k \in Uncommitted /\ k # wq.next
  BY <1>1, <1>4, Fields, Sizes DEF Uncommitted
<1>6. \A k \in Uncommitted : k = wq.next \/ k \in Uncommitted'
  BY <1>1, <1>4, Fields, Sizes DEF Uncommitted
<1>7. wq.next \in Uncommitted
  BY <1>1, <1>4, Fields, Sizes DEF Uncommitted
<1>8. owner[j] = NoWr
  BY <1>4, <1>7 DEF PoolInv, Partitioned
<1>9. TypeOK'
  <2>1. owner' \in [Idx -> Ids] /\ building' \in [Idx -> Ids]
    BY <1>1, <1>3 DEF Ids
  <2>2. pending' \in 0 .. WqeCnt
    BY <1>3, Sizes
  <2>3. session' \in BOOLEAN
    BY <1>3
  <2> QED
    BY <1>2, <2>1, <2>2, <2>3 DEF TypeOK
<1>10. CountersAgree'
  BY <1>1, <1>2, <1>3, Fields, Sizes, WrapLemma DEF CountersAgree
<1>11. PoolInjective'
  BY <1>2, <1>5 DEF PoolInv, PoolInjective
<1>12. Partitioned'
  <2> SUFFICES ASSUME NEW i \in Idx
               PROVE  owner'[i] # NoWr <=>
                        (\A k \in Uncommitted' : wq'.pool[k] # i)
    BY DEF Partitioned
  <2>1. CASE i = j
    <3>1. owner'[i] # NoWr
      BY <1>1, <1>3, <1>4, <2>1, Sizes
    <3>2. \A k \in Uncommitted' : wq.pool[k] # j
      BY <1>5, <1>7 DEF PoolInv, PoolInjective
    <3> QED
      BY <1>2, <2>1, <3>1, <3>2
  <2>2. CASE i # j
    <3>1. owner'[i] = owner[i]
      BY <1>1, <1>3, <2>2
    <3>2. (\A k \in Uncommitted : wq.pool[k] # i)
            <=> (\A k \in Uncommitted' : wq.pool[k] # i)
      BY <1>5, <1>6, <2>2
    <3> QED
      BY <1>2, <3>1, <3>2 DEF PoolInv, Partitioned
  <2> QED
    BY <2>1, <2>2
<1>13. \A i \in Idx : building[i] = NoWr
  BY <1>1, <1>4, Fields DEF PoolInv, SessionHolds
<1>14. SessionHolds'
  BY <1>2, <1>3, <1>4, <1>13, Fields DEF SessionHolds
<1>15. WridIntact'
  BY <1>1, <1>2, <1>3, <1>13, Fields DEF PoolInv, WridIntact
<1> QED
  BY <1>9, <1>10, <1>11, <1>12, <1>14, <1>15 DEF PoolInv

LEMMA BuildPreserves ==
  ASSUME PoolInv, NEW id \in WrIds, Build(id)
  PROVE  PoolInv'
<1> DEFINE j == wq.pool[wq.next]
<1>1. /\ wq \in WqType /\ owner \in [Idx -> Ids] /\ building \in [Idx -> Ids]
      /\ pending \in Nat /\ pending <= wq.next
      /\ wq.next < WqeCnt /\ WrapSub(wq.posted, wq.completed, U32) = wq.next
  BY NotFullLemma, Sizes DEF PoolInv, TypeOK, CountersAgree, Build
<1>2. /\ wq' \in WqType /\ wq'.pool = wq.pool /\ wq'.next = wq.next + 1
      /\ wq'.wrid = [wq.wrid EXCEPT ![j] = id]
      /\ wq'.posted = WrapInc(wq.posted, U32) /\ wq'.completed = wq.completed
  BY <1>1, TakeLemma DEF Build
<1>3. /\ owner' = owner /\ building' = [building EXCEPT ![j] = id]
      /\ pending' = pending + 1
  BY DEF Build, NextIdx
<1>4. session' = TRUE /\ session' = session
  BY DEF Build
<1>5. /\ wq.next \in Idx /\ j \in Idx /\ Base \in Nat /\ Base <= wq.next
      /\ Base' = Base /\ Uncommitted' = Uncommitted
  <2>1. wq.next \in Nat /\ wq.pool \in [Idx -> Idx] /\ WqeCnt \in Nat
    BY <1>1, Fields, Sizes
  <2>2. wq.next \in Idx
    BY <1>1, <2>1 DEF Idx
  <2>3. Base \in Nat /\ Base <= wq.next
    BY <1>1, <2>1 DEF Base
  <2>4. PICK n \in Nat, p \in Nat : n = wq.next /\ p = pending
    BY <1>1, <2>1
  <2>5. Base' = n + 1 - (p + 1) /\ Base = n - p
    BY <1>2, <1>3, <2>4 DEF Base
  <2>6. Base' = Base
    BY <2>5
  <2> QED
    BY <2>1, <2>2, <2>3, <2>6 DEF Uncommitted
<1>6. wq.next \in Uncommitted
  BY <1>1, <1>5, Fields, Sizes DEF Uncommitted
<1>7. owner[j] = NoWr
  BY <1>5, <1>6 DEF PoolInv, Partitioned
<1>8. TypeOK'
  <2>1. building' \in [Idx -> Ids]
    BY <1>1, <1>3 DEF Ids
  <2>2. pending' \in 0 .. WqeCnt
    BY <1>1, <1>3, Fields, Sizes
  <2>3. session' \in BOOLEAN
    BY <1>4
  <2> QED
    BY <1>1, <1>2, <1>3, <2>1, <2>2, <2>3 DEF TypeOK
<1>9. CountersAgree'
  <2>1. WrapSub(wq'.posted, wq'.completed, U32) = wq'.next
    BY <1>1, <1>2, Fields, Sizes, WrapLemma
  <2>2. wq'.next <= WqeCnt /\ pending' <= wq'.next
    BY <1>1, <1>2, <1>3, Fields, Sizes
  <2> QED
    BY <1>4, <2>1, <2>2 DEF CountersAgree
<1>10. PoolInjective' /\ Partitioned'
  BY <1>2, <1>3, <1>5 DEF PoolInv, PoolInjective, Partitioned
<1>11. SessionHolds'
  <2> SUFFICES ASSUME NEW i \in Idx
               PROVE  building'[i] # NoWr <=>
                        (\E k \in Base .. wq.next : wq.pool[k] = i)
    BY <1>2, <1>5, Fields, Sizes, <1>1 DEF SessionHolds
  <2>1. CASE i = j
    <3>1. building'[i] # NoWr
      BY <1>1, <1>3, <2>1, Sizes
    <3>2. wq.next \in Base .. wq.next
      BY <1>5, <1>1, Fields
    <3> QED
      BY <2>1, <3>1, <3>2
  <2>2. CASE i # j
    <3>1. building'[i] = building[i]
      BY <1>1, <1>3, <2>2
    <3>2. \A k \in Base .. wq.next : k = wq.next \/ k \in Base .. wq.next - 1
      BY <1>1, <1>5, Fields
    <3>3. \A k \in Base .. wq.next - 1 : k \in Base .. wq.next
      BY <1>1, <1>5, Fields
    <3> QED
      BY <2>2, <3>1, <3>2, <3>3 DEF PoolInv, SessionHolds
  <2> QED
    BY <2>1, <2>2
<1>12. WridIntact'
  <2> SUFFICES ASSUME NEW i \in Idx
               PROVE  /\ owner[i] # NoWr => wq'.wrid[i] = owner[i]
                      /\ building'[i] # NoWr => wq'.wrid[i] = building'[i]
    BY <1>3 DEF WridIntact
  <2> QED
    BY <1>1, <1>2, <1>3, <1>5, <1>7, Fields DEF PoolInv, WridIntact
<1> QED
  BY <1>8, <1>9, <1>10, <1>11, <1>12 DEF PoolInv

LEMMA StartFinishPreserve ==
  ASSUME PoolInv, Start \/ Finish
  PROVE  PoolInv'
<1>1. /\ wq' = wq /\ owner' = owner /\ pending = 0 /\ pending' = 0
      /\ session' \in BOOLEAN /\ wq \in WqType
  BY DEF PoolInv, TypeOK, CountersAgree, Start, Finish
<1>2. Base' = Base /\ Uncommitted' = Uncommitted /\ Base = wq.next
  BY <1>1, Fields DEF Base, Uncommitted
<1>3. \A i \in Idx : building[i] = NoWr
  BY <1>1, <1>2, Fields DEF PoolInv, SessionHolds
<1>4. /\ building' \in [Idx -> Ids]
      /\ \A i \in Idx : building'[i] = NoWr
  BY <1>3 DEF Start, Finish, NoneBuilding, Ids, PoolInv, TypeOK
<1>5. TypeOK'
  BY <1>1, <1>4, Sizes DEF PoolInv, TypeOK
<1>6. CountersAgree'
  BY <1>1, Fields DEF PoolInv, CountersAgree
<1>7. PoolInjective' /\ Partitioned'
  BY <1>1, <1>2 DEF PoolInv, PoolInjective, Partitioned
<1>8. SessionHolds'
  BY <1>1, <1>2, <1>4, Fields DEF SessionHolds
<1>9. WridIntact'
  BY <1>1, <1>4 DEF PoolInv, WridIntact
<1> QED
  BY <1>5, <1>6, <1>7, <1>8, <1>9 DEF PoolInv

(* A chunk moves the oldest requests of the session over the boundary Base.   *)
LEMMA CommitPreserves ==
  ASSUME PoolInv, NEW n \in 1 .. WqeCnt, Commit(n)
  PROVE  PoolInv'
<1> DEFINE moved == {wq.pool[k] : k \in Base .. Base + n - 1}
<1>1. /\ wq' = wq /\ session' = session /\ wq \in WqType
      /\ owner \in [Idx -> Ids] /\ building \in [Idx -> Ids]
      /\ pending \in Nat /\ pending <= wq.next /\ wq.next <= WqeCnt
      /\ n \in Nat /\ n <= pending /\ pending' = pending - n
  BY Sizes DEF PoolInv, TypeOK, CountersAgree, Commit
<1>2. /\ owner' = [i \in Idx |-> IF i \in moved THEN building[i] ELSE owner[i]]
      /\ building' = [i \in Idx |-> IF i \in moved THEN NoWr ELSE building[i]]
  BY DEF Commit
<1> HIDE DEF moved
<1>3. /\ Base \in Nat /\ Base' = Base + n /\ Base + n <= wq.next
  BY <1>1, Fields DEF Base
<1>4. /\ \A k \in Base .. Base + n - 1 : k \in Base .. wq.next - 1
      /\ \A k \in Base .. Base + n - 1 : k \in Uncommitted /\ k \notin Uncommitted'
      /\ \A k \in Uncommitted' : k \in Uncommitted
      /\ \A k \in Uncommitted :
           k \in Uncommitted' \/ k \in Base .. Base + n - 1
  BY <1>1, <1>3, Fields, Sizes DEF Uncommitted
<1>5. \A i \in Idx : i \in moved => building[i] # NoWr
  BY <1>4 DEF PoolInv, SessionHolds, moved
<1>6. \A i \in moved : \A k \in Uncommitted' : wq.pool[k] # i
  BY <1>4 DEF PoolInv, PoolInjective, moved
<1>7. TypeOK'
  <2>1. owner' \in [Idx -> Ids] /\ building' \in [Idx -> Ids]
    BY <1>1, <1>2 DEF Ids
  <2>2. pending' \in 0 .. WqeCnt
    BY <1>1, Fields, Sizes
  <2> QED
    BY <1>1, <2>1, <2>2 DEF PoolInv, TypeOK
<1>8. CountersAgree'
  <2>1. session' = TRUE
    BY <1>1 DEF Commit
  <2> QED
    BY <1>1, <2>1, Fields DEF PoolInv, CountersAgree
<1>9. PoolInjective'
  BY <1>1, <1>4 DEF PoolInv, PoolInjective
<1>10. Partitioned'
  <2> SUFFICES ASSUME NEW i \in Idx
               PROVE  owner'[i] # NoWr <=>
                        (\A k \in Uncommitted' : wq.pool[k] # i)
    BY <1>1 DEF Partitioned
  <2>1. CASE i \in moved
    BY <1>2, <1>5, <1>6, <2>1
  <2>2. CASE i \notin moved
    <3>1. owner'[i] = owner[i]
      BY <1>2, <2>2
    <3>2. \A k \in Base .. Base + n - 1 : wq.pool[k] # i
      BY <2>2 DEF moved
    <3> QED
      BY <1>4, <3>1, <3>2 DEF PoolInv, Partitioned
  <2> QED
    BY <2>1, <2>2
<1>11. SessionHolds'
  <2> SUFFICES ASSUME NEW i \in Idx
               PROVE  building'[i] # NoWr <=>
                        (\E k \in Base + n .. wq.next - 1 : wq.pool[k] = i)
    BY <1>1, <1>3 DEF SessionHolds
  <2>1. \A k \in Base + n .. wq.next - 1 :
           k \in Base .. wq.next - 1 /\ k \in Uncommitted'
    BY <1>1, <1>3, Fields, Sizes DEF Uncommitted
  <2>2. \A k \in Base .. wq.next - 1 :
           k \in Base + n .. wq.next - 1 \/ k \in Base .. Base + n - 1
    BY <1>1, <1>3, Fields
  <2>3. CASE i \in moved
    BY <1>2, <1>6, <2>1, <2>3
  <2>4. CASE i \notin moved
    <3>1. building'[i] = building[i]
      BY <1>2, <2>4
    <3>2. \A k \in Base .. Base + n - 1 : wq.pool[k] # i
      BY <2>4 DEF moved
    <3> QED
      BY <2>1, <2>2, <3>1, <3>2 DEF PoolInv, SessionHolds
  <2> QED
    BY <2>3, <2>4
<1>12. WridIntact'
  BY <1>1, <1>2 DEF PoolInv, WridIntact
<1> QED
  BY <1>7, <1>8, <1>9, <1>10, <1>11, <1>12 DEF PoolInv

LEMMA RollBackPreserves ==
  ASSUME PoolInv, RollBack
  PROVE  PoolInv'
<1>1. /\ wq \in WqType /\ pending \in Nat /\ pending <= wq.next
      /\ wq.next <= WqeCnt /\ WrapSub(wq.posted, wq.completed, U32) = wq.next
  BY Sizes DEF PoolInv, TypeOK, CountersAgree
<1>2. /\ wq' \in WqType /\ wq'.next = wq.next - pending
      /\ wq'.pool = wq.pool /\ wq'.wrid = wq.wrid
      /\ wq'.completed = wq.completed
      /\ wq'.posted = WrapSub(wq.posted, pending, U32)
  BY <1>1, RollBackLemma DEF RollBack
<1>3. /\ owner' = owner /\ building' = NoneBuilding
      /\ pending' = 0 /\ session' = FALSE
  BY DEF RollBack
<1>4. Base' = Base /\ Uncommitted' = Uncommitted /\ Base' = wq'.next
  BY <1>1, <1>2, <1>3, Fields DEF Base, Uncommitted
<1>5. TypeOK'
  <2>1. owner' \in [Idx -> Ids] /\ building' \in [Idx -> Ids]
    BY <1>3 DEF PoolInv, TypeOK, NoneBuilding, Ids
  <2>2. pending' \in 0 .. WqeCnt
    BY <1>3, Sizes
  <2>3. session' \in BOOLEAN
    BY <1>3
  <2> QED
    BY <1>2, <2>1, <2>2, <2>3 DEF TypeOK
<1>6. CountersAgree'
  <2>1. pending \in 0 .. WrapSub(wq.posted, wq.completed, U32)
    BY <1>1, Fields
  <2>2. WrapSub(WrapSub(wq.posted, pending, U32), wq.completed, U32)
          = WrapSub(wq.posted, wq.completed, U32) - pending
    <3>1. U32 \in Nat \ {0}
      BY Sizes
    <3>2. wq.posted \in 0 .. U32 - 1 /\ wq.completed \in 0 .. U32 - 1
      BY <1>1, Fields
    <3> QED
      BY <2>1, <3>1, <3>2, WrapLemma
  <2>3. WrapSub(wq'.posted, wq'.completed, U32) = wq'.next
    BY <1>1, <1>2, <2>2
  <2>4. wq'.next <= WqeCnt /\ pending' <= wq'.next
    BY <1>1, <1>2, <1>3, Fields, Sizes
  <2> QED
    BY <1>3, <2>3, <2>4 DEF CountersAgree
<1>7. PoolInjective' /\ Partitioned'
  BY <1>2, <1>3, <1>4 DEF PoolInv, PoolInjective, Partitioned
<1>8. SessionHolds'
  BY <1>2, <1>3, <1>4, Fields DEF SessionHolds, NoneBuilding
<1>9. WridIntact'
  BY <1>2, <1>3 DEF PoolInv, WridIntact, NoneBuilding
<1> QED
  BY <1>5, <1>6, <1>7, <1>8, <1>9 DEF PoolInv

LEMMA PutPreserves ==
  ASSUME PoolInv, NEW i \in Idx, Put(i)
  PROVE  PoolInv'
<1>1. /\ wq \in WqType /\ owner \in [Idx -> Ids] /\ building \in [Idx -> Ids]
      /\ pending = 0 /\ session = FALSE /\ wq.next <= WqeCnt
      /\ WrapSub(wq.posted, wq.completed, U32) = wq.next
  BY DEF PoolInv, TypeOK, CountersAgree, Put
<1>2. Base = wq.next /\ wq.next > 0
  <2>1. Base = wq.next
    BY <1>1, Fields DEF Base
  <2>2. Base > 0
    BY HeldMeansTaken DEF PoolInv, Put
  <2> QED
    BY <2>1, <2>2
<1> DEFINE n == wq.next - 1
<1>3. /\ wq' \in WqType /\ wq'.next = n
      /\ wq'.pool = [wq.pool EXCEPT ![n] = i] /\ wq'.wrid = wq.wrid
      /\ wq'.posted = wq.posted /\ wq'.completed = WrapInc(wq.completed, U32)
  BY <1>1, <1>2, PutLemma DEF Put
<1>4. /\ owner' = [owner EXCEPT ![i] = NoWr]
      /\ building' = building /\ pending' = 0 /\ session' = FALSE
  BY <1>1 DEF Put
<1>5. /\ n \in Idx /\ Base' = n /\ n \in Uncommitted' /\ n \notin Uncommitted
      /\ \A k \in Uncommitted' : k \in Idx /\ (k = n \/ k \in Uncommitted)
      /\ \A k \in Uncommitted : k \in Idx /\ k \in Uncommitted' /\ k # n
  BY <1>1, <1>2, <1>3, <1>4, Fields, Sizes DEF Base, Idx, Uncommitted
<1>6. /\ wq'.pool[n] = i
      /\ \A k \in Uncommitted : wq'.pool[k] = wq.pool[k] /\ wq.pool[k] # i
  BY <1>1, <1>3, <1>5, Fields DEF PoolInv, Partitioned, Put
<1>7. TypeOK'
  <2>1. owner' \in [Idx -> Ids]
    BY <1>1, <1>4 DEF Ids
  <2>2. pending' \in 0 .. WqeCnt
    BY <1>4, Sizes
  <2>3. session' \in BOOLEAN
    BY <1>4
  <2> QED
    BY <1>1, <1>3, <1>4, <2>1, <2>2, <2>3 DEF TypeOK
<1>8. CountersAgree'
  <2>1. WrapSub(wq'.posted, wq'.completed, U32) = wq'.next
    BY <1>1, <1>2, <1>3, Fields, Sizes, WrapLemma
  <2>2. wq'.next <= WqeCnt /\ pending' <= wq'.next
    BY <1>1, <1>2, <1>3, <1>4, Fields, Sizes
  <2> QED
    BY <1>4, <2>1, <2>2 DEF CountersAgree
<1>9. PoolInjective'
  BY <1>5, <1>6 DEF PoolInv, PoolInjective
<1>10. Partitioned'
  <2> SUFFICES ASSUME NEW m \in Idx
               PROVE  owner'[m] # NoWr <=>
                        (\A k \in Uncommitted' : wq'.pool[k] # m)
    BY DEF Partitioned
  <2>1. CASE m = i
    BY <1>1, <1>4, <1>5, <1>6, <2>1
  <2>2. CASE m # i
    BY <1>1, <1>4, <1>5, <1>6, <2>2 DEF PoolInv, Partitioned
  <2> QED
    BY <2>1, <2>2
<1>11. \A m \in Idx : building[m] = NoWr
  BY <1>1, <1>2, Fields DEF PoolInv, SessionHolds
<1>12. SessionHolds'
  BY <1>3, <1>4, <1>5, <1>11, <1>1, Fields DEF SessionHolds
<1>13. WridIntact'
  BY <1>1, <1>3, <1>4, <1>11 DEF PoolInv, WridIntact
<1> QED
  BY <1>7, <1>8, <1>9, <1>10, <1>12, <1>13 DEF PoolInv

LEMMA ResetPreserves ==
  ASSUME PoolInv, Reset
  PROVE  PoolInv'
<1>1. /\ wq \in WqType /\ pending = 0 /\ session = FALSE
      /\ owner' = owner /\ building' = building
      /\ session' = session /\ pending' = pending
  BY DEF PoolInv, TypeOK, CountersAgree, Reset
<1>2. Base = 0 /\ wq.next = 0
  <2>1. Base = 0
    BY DrainedMeansWhole DEF PoolInv, Reset
  <2> QED
    BY <1>1, <2>1, Fields DEF Base
<1>3. /\ wq' \in WqType /\ wq'.pool = wq.pool /\ wq'.wrid = wq.wrid
      /\ wq'.next = 0 /\ wq'.posted = 0 /\ wq'.completed = 0
  <2>1. wq' = [wq EXCEPT !.next = 0, !.posted = 0, !.completed = 0]
    BY DEF Reset, InitIndices
  <2>2. 0 \in 0 .. U16 - 1 /\ 0 \in 0 .. U32 - 1
    BY Sizes
  <2> QED
    BY <1>1, <2>1, <2>2 DEF WqType
<1>4. Base' = Base /\ Uncommitted' = Uncommitted
  BY <1>1, <1>2, <1>3 DEF Base, Uncommitted
<1>5. TypeOK'
  BY <1>1, <1>3 DEF PoolInv, TypeOK
<1>6. CountersAgree'
  BY <1>1, <1>3, Sizes DEF CountersAgree, WrapSub
<1>7. PoolInjective' /\ Partitioned'
  BY <1>1, <1>3, <1>4 DEF PoolInv, PoolInjective, Partitioned
<1>8. SessionHolds'
  BY <1>1, <1>2, <1>3, <1>4 DEF PoolInv, SessionHolds
<1>9. WridIntact'
  BY <1>1, <1>3 DEF PoolInv, WridIntact
<1> QED
  BY <1>5, <1>6, <1>7, <1>8, <1>9 DEF PoolInv

LEMMA StutterPreserves ==
  ASSUME PoolInv, UNCHANGED vars
  PROVE  PoolInv'
<1>1. Base' = Base /\ Uncommitted' = Uncommitted
  BY DEF vars, Base, Uncommitted
<1> QED
  BY <1>1 DEF vars, PoolInv, TypeOK, CountersAgree, PoolInjective, Partitioned,
              SessionHolds, WridIntact

LEMMA NextPreserves == PoolInv /\ [Next]_vars => PoolInv'
<1> SUFFICES ASSUME PoolInv, [Next]_vars PROVE PoolInv'
  OBVIOUS
<1>1. ASSUME NEW id \in WrIds, Post(id) PROVE PoolInv'
  BY <1>1, PostPreserves
<1>2. ASSUME NEW id \in WrIds, Build(id) PROVE PoolInv'
  BY <1>2, BuildPreserves
<1>3. CASE Start \/ Finish
  BY <1>3, StartFinishPreserve
<1>4. CASE RollBack
  BY <1>4, RollBackPreserves
<1>5. CASE Reset
  BY <1>5, ResetPreserves
<1>6. ASSUME NEW n \in 1 .. WqeCnt, Commit(n) PROVE PoolInv'
  BY <1>6, CommitPreserves
<1>7. ASSUME NEW i \in Idx, Put(i) PROVE PoolInv'
  BY <1>7, PutPreserves
<1>8. CASE UNCHANGED vars
  BY <1>8, StutterPreserves
<1> QED
  BY <1>1, <1>2, <1>3, <1>4, <1>5, <1>6, <1>7, <1>8 DEF Next

----------------------------------------------------------------------------
(* The live part of the pool and the indexes held by committed requests are a *)
(* partition of the wr_id table at every step, through any interleaving of    *)
(* posts, sessions, roll backs, out of order completions and drained resets.  *)
THEOREM PoolCorrect == Spec => []PoolInv
<1>1. Init => PoolInv
  BY InitPoolInv
<1>2. PoolInv /\ [Next]_vars => PoolInv'
  BY NextPreserves
<1> QED
  BY <1>1, <1>2, PTL DEF Spec

(* Every variable keeps its type; wrid_idx_pool_next never leaves its width.  *)
THEOREM PoolTypeCorrect == Spec => []TypeOK
<1>1. PoolInv => TypeOK
  BY DEF PoolInv
<1> QED
  BY <1>1, PoolCorrect, PTL

LEMMA FreeWhenNotFull == PoolInv => NextIsFree
<1> SUFFICES ASSUME PoolInv, ~Full(wq)
             PROVE  /\ wq.next < WqeCnt
                    /\ NextIdx(wq) \notin Held \cup Building
  BY DEF NextIsFree
<1>1. /\ wq \in WqType /\ wq.next < WqeCnt
      /\ pending \in Nat /\ pending <= wq.next
  BY NotFullLemma, Sizes DEF PoolInv, TypeOK, CountersAgree
<1>2. wq.next \in Uncommitted /\ wq.pool[wq.next] \in Idx
  BY <1>1, Fields, Sizes DEF Uncommitted, Base, Idx
<1>3. \A k \in Base .. wq.next - 1 : k \in Uncommitted /\ k # wq.next
  BY <1>1, Fields, Sizes DEF Uncommitted, Base
<1>4. owner[wq.pool[wq.next]] = NoWr
  BY <1>2 DEF PoolInv, Partitioned
<1>5. building[wq.pool[wq.next]] = NoWr
  BY <1>2, <1>3 DEF PoolInv, PoolInjective, SessionHolds
<1> QED
  BY <1>1, <1>4, <1>5 DEF NextIdx, Held, Building

(* "Will never overlap, as validate function succeeded".                      *)
THEOREM NextIsFreeAlways == Spec => []NextIsFree
  BY FreeWhenNotFull, PoolCorrect, PTL

(* The queue refuses requests only when all of its entries are in use.        *)
THEOREM NoIndexLostEver == Spec => []NoIndexLost
<1>1. PoolInv => NoIndexLost
  <2> SUFFICES ASSUME PoolInv PROVE NoIndexLost
    OBVIOUS
  <2>1. /\ wq \in WqType /\ wq.next <= WqeCnt
        /\ pending \in Nat /\ pending <= wq.next
        /\ Full(wq) <=> wq.next = WqeCnt
    BY Sizes DEF PoolInv, TypeOK, CountersAgree, Full
  <2>2. CASE wq.next = WqeCnt
    <3>1. Uncommitted = Base .. wq.next - 1
      BY <2>2 DEF Uncommitted
    <3>2. \A i \in Idx : owner[i] # NoWr \/ building[i] # NoWr
      BY <3>1 DEF PoolInv, Partitioned, SessionHolds
    <3> QED
      BY <2>1, <2>2, <3>2 DEF NoIndexLost, Held, Building
  <2>3. CASE wq.next # WqeCnt
    <3>1. wq.next < WqeCnt
      BY <2>1, <2>3, Fields, Sizes
    <3>2. wq.next \in Uncommitted /\ wq.pool[wq.next] \in Idx
      BY <2>1, <3>1, Fields, Sizes DEF Uncommitted, Base, Idx
    <3>3. \A k \in Base .. wq.next - 1 : k \in Uncommitted /\ k # wq.next
      BY <2>1, <3>1, Fields, Sizes DEF Uncommitted, Base
    <3>4. owner[wq.pool[wq.next]] = NoWr /\ building[wq.pool[wq.next]] = NoWr
      BY <3>2, <3>3 DEF PoolInv, PoolInjective, Partitioned, SessionHolds
    <3> QED
      BY <2>1, <2>3, <3>2, <3>4 DEF NoIndexLost, Held, Building
  <2> QED
    BY <2>2, <2>3
<1> QED
  BY <1>1, PoolCorrect, PTL

(* "There is no contention on this index": a poller may read the entry of an  *)
(* index that is held without taking wqlock, since no step changes it.        *)
THEOREM HeldWridNeverRewritten == Spec => HeldWridStable
<1> DEFINE Stable == \A i \in Idx : owner[i] # NoWr => wq'.wrid[i] = wq.wrid[i]
<1>1. PoolInv /\ [Next]_vars => [Stable]_vars
  <2> SUFFICES ASSUME PoolInv, Next, NEW i \in Idx, owner[i] # NoWr
               PROVE  wq'.wrid[i] = wq.wrid[i]
    OBVIOUS
  <2>1. wq \in WqType
    BY DEF PoolInv, TypeOK
  <2>2. ASSUME NEW id \in WrIds, Post(id) \/ Build(id)
        PROVE  wq'.wrid[i] = wq.wrid[i]
    <3>1. wq.next < WqeCnt /\ wq' = CountPosted(GetNextWridIdx(wq, id))
      BY <2>2, NotFullLemma DEF PoolInv, Post, Build
    <3>2. wq'.wrid = [wq.wrid EXCEPT ![wq.pool[wq.next]] = id]
      BY <2>1, <3>1, TakeLemma
    <3>3. wq.next \in Uncommitted /\ wq.pool[wq.next] \in Idx
      BY <2>1, <3>1, Fields, Sizes
         DEF Uncommitted, Base, Idx, PoolInv, TypeOK
    <3>4. wq.pool[wq.next] # i
      BY <3>3 DEF PoolInv, Partitioned
    <3> QED
      BY <2>1, <3>2, <3>4, Fields
  <2>3. CASE Start \/ Finish
    BY <2>3 DEF Start, Finish
  <2>4. CASE RollBack
    BY <2>1, <2>4 DEF RollBack, RollBackWq, WqType
  <2>5. CASE Reset
    BY <2>1, <2>5 DEF Reset, InitIndices, WqType
  <2>6. ASSUME NEW n \in 1 .. WqeCnt, Commit(n)
        PROVE  wq'.wrid[i] = wq.wrid[i]
    BY <2>6 DEF Commit
  <2>7. ASSUME NEW k \in Idx, Put(k)
        PROVE  wq'.wrid[i] = wq.wrid[i]
    BY <2>1, <2>7 DEF Put, PutWridIdx, WqType
  <2> QED
    BY <2>2, <2>3, <2>4, <2>5, <2>6, <2>7 DEF Next
<1> QED
  BY <1>1, PoolCorrect, PTL DEF Spec, HeldWridStable
=============================================================================
