------------------------- MODULE EfaSendQueueProofs --------------------------
(* The safety properties of EfaSendQueue, for every size of the queue, every  *)
(* width of its counters, every batch limit, any number of posting and of     *)
(* session threads, and every depth of the device.                            *)
EXTENDS EfaSendQueue, EfaRingProofs, FiniteSetTheorems

PP == INSTANCE EfaWridPoolProofs WITH
        owner <- Holders(Outstanding), session <- InSession,
        building <- Holders(SeqSet(Uncopied)), pending <- Unpublished

(* The application moves a QP to RESET only when it has nothing outstanding.  *)
DrainedReset == MayReset => DrainBeforeReset

----------------------------------------------------------------------------
(* Two descriptors that nothing confuses.                                     *)
Apart(d, e) == d.req_id # e.req_id /\ d.wr # e.wr
ApartSets(S, T) == \A d \in S, e \in T : Apart(d, e)

(* Where a request can be: in local_queue only, in the ring, or taken by the  *)
(* device: in the works, in the completion queue, in the poller's hand.       *)
Waiting == WrapSub(Published, devPc, U16)
Front(k) == ring[Slot(Ahead(devPc, k - 1))]
Left(k) == localQueue[Len(localQueue) - Unpublished + k]
InRing == {Front(k) : k \in 1 .. Waiting}
LeftOver == {Left(k) : k \in 1 .. Unpublished}
InCq == {cqes[k] : k \in 1 .. Len(cqes)}
InHand == {cur} \ {NoDesc}
Taken == working \cup InCq \cup InHand

----------------------------------------------------------------------------
(* The lock is held exactly between the lock and the unlock of a call.        *)
LockFits ==
  \A t \in Callers :
    at[t] \in {"post_send", "session", "copying"} <=> lock = t

(* local_queue holds the requests of the open session, the last pending of    *)
(* them not copied; a session that has copied nothing owes no doorbell.       *)
SessionFits ==
  /\ pending <= Len(localQueue) \/ ~InSession
  /\ \A t \in Callers :
       at[t] = "session" => pending = Len(localQueue) /\ curbatch = 0
  /\ ~InSession => localQueue = <<>>

(* The producer is ahead of the device by the requests waiting in the ring    *)
(* and those of the open session, and by no more than the ring has room for.  *)
WindowFits ==
  /\ Unpublished <= WrapSub(pos.pc, devPc, U16)
  /\ WrapSub(pos.pc, devPc, U16) <= DescCnt

(* What the doorbell has not announced is what this call has copied since.    *)
DoorbellFits ==
  /\ WrapSub(db, devPc, U16) + curbatch = Waiting
  /\ curbatch < MaxBatchWr
  /\ lock = NoThread => curbatch = 0

(* Waiting slots have been written; the requests of the session hold the      *)
(* positions of the pool below next.                                          *)
ContentsFit ==
  /\ \A k \in 1 .. Waiting : Front(k) \in Desc
  /\ \A k \in 1 .. Unpublished :
       Left(k).req_id = wq.pool[wq.next - Unpublished + k - 1]

(* No two requests in flight have an index or a name in common, wherever each *)
(* of them is.                                                                *)
PostersApart ==
  /\ \A j, k \in 1 .. Waiting : j # k => Apart(Front(j), Front(k))
  /\ \A j, k \in 1 .. Unpublished : j # k => Apart(Left(j), Left(k))
  /\ ApartSets(InRing, LeftOver)
  /\ ApartSets(LeftOver, Taken)
  /\ ApartSets(InRing, Taken)
TakenApart ==
  /\ \A d, e \in working : d # e => Apart(d, e)
  /\ \A j, k \in 1 .. Len(cqes) : j # k => Apart(cqes[j], cqes[k])
  /\ ApartSets(working, InCq)
  /\ ApartSets(working, InHand)
  /\ ApartSets(InCq, InHand)

SqInv ==
  /\ TypeOK /\ LockFits /\ SessionFits /\ WindowFits /\ DoorbellFits
  /\ ContentsFit /\ PostersApart /\ TakenApart /\ PP!PoolInv

----------------------------------------------------------------------------
(* The constants, and the types the proofs below use most.                    *)
LEMMA SqSizes ==
  /\ DescCnt = WqeCnt /\ DescCnt \in Nat \ {0} /\ U16 \in Nat \ {0}
  /\ DescCnt < U16
  /\ MaxBatchWr \in Nat \ {0} /\ DevDepth \in Nat \ {0}
  /\ NoThread \notin Callers /\ NoWr \notin WrIds /\ NoDesc \notin Desc
  BY SqAssumption, WqAssumption

LEMMA Typed ==
  ASSUME TypeOK
  PROVE  /\ pos.pc \in 0 .. U16 - 1 /\ pos.phase \in Phases
         /\ pos = [pc |-> pos.pc, phase |-> pos.phase]
         /\ db \in 0 .. U16 - 1 /\ devPc \in 0 .. U16 - 1
         /\ pending \in 0 .. WqeCnt /\ curbatch \in 0 .. MaxBatchWr
         /\ Unpublished \in 0 .. WqeCnt
         /\ localQueue \in Seq(Desc) /\ Len(localQueue) \in Nat
         /\ cqes \in Seq(Desc) /\ Len(cqes) \in Nat
         /\ working \subseteq Desc
<1>1. 0 \in 0 .. WqeCnt
  BY SqSizes
<1>2. pos.pc \in 0 .. U16 - 1 /\ pos.phase \in Phases
      /\ pos = [pc |-> pos.pc, phase |-> pos.phase]
  BY DEF TypeOK, PosType
<1> QED
  BY <1>1, <1>2 DEF TypeOK, Unpublished

(* How far the producer, the part of it that is in the ring, and the device   *)
(* are from each other.                                                       *)
LEMMA Window ==
  ASSUME TypeOK, WindowFits
  PROVE  /\ Published \in 0 .. U16 - 1
         /\ WrapSub(pos.pc, devPc, U16) = Waiting + Unpublished
         /\ Waiting \in 0 .. DescCnt /\ Unpublished \in 0 .. DescCnt
         /\ Waiting + Unpublished <= DescCnt
         /\ Ahead(devPc, Waiting) = Published
         /\ \A k \in 1 .. Waiting : k - 1 \in 0 .. DescCnt - 1
         /\ WrapSub(pos.pc, 0, U16) = pos.pc
<1>1. /\ pos.pc \in 0 .. U16 - 1 /\ devPc \in 0 .. U16 - 1
      /\ Unpublished \in 0 .. WqeCnt
  BY Typed
<1>2. Unpublished \in 0 .. WrapSub(pos.pc, devPc, U16)
  BY <1>1, RingSizes DEF WindowFits, WrapSub
<1>3. /\ Published \in 0 .. U16 - 1
      /\ Waiting = WrapSub(pos.pc, devPc, U16) - Unpublished
  BY <1>1, <1>2, DistanceMoves DEF Published, Waiting
<1>4. Ahead(devPc, Waiting) = Published
  BY <1>1, <1>3, Distance DEF Waiting
<1>5. WrapSub(pos.pc, devPc, U16) \in 0 .. DescCnt
  BY <1>1, RingSizes, SqSizes DEF WindowFits, WrapSub
<1>6. Waiting \in 0 .. DescCnt /\ Waiting + Unpublished <= DescCnt
  BY <1>2, <1>3, <1>5, SqSizes
<1>7. WrapSub(pos.pc, 0, U16) = pos.pc
  BY <1>1, SqSizes DEF WrapSub
<1>8. WrapSub(pos.pc, devPc, U16) = Waiting + Unpublished
  BY <1>1, <1>3, <1>5, SqSizes
<1> QED
  BY <1>1, <1>3, <1>4, <1>6, <1>7, <1>8, SqSizes

(* The properties' own words for the parts of the queue.                      *)
LEMMA Parts ==
  ASSUME TypeOK, WindowFits, SessionFits
  PROVE  /\ Unfetched = [k \in 1 .. Waiting |-> Front(k)]
         /\ SeqSet(Unfetched) = InRing
         /\ SeqSet(cqes) = InCq
         /\ SeqSet(Uncopied) = LeftOver
         /\ Outstanding = InRing \cup Taken
<1>1. Waiting \in Nat /\ devPc \in Nat
  BY Window, Typed
<1>2. Unfetched = [k \in 1 .. Waiting |-> Front(k)]
  <2>1. \A k \in 1 .. Waiting : (devPc + k - 1) % U16 = Ahead(devPc, k - 1)
    BY <1>1 DEF Ahead
  <2> QED
    BY <2>1 DEF Unfetched, Front, Waiting
<1>3. SeqSet(Unfetched) = InRing
  BY <1>2 DEF SeqSet, InRing
<1>4. SeqSet(cqes) = InCq
  BY Typed DEF SeqSet, InCq
<1>5. SeqSet(Uncopied) = LeftOver
  <2>1. /\ localQueue \in Seq(Desc) /\ Len(localQueue) \in Nat
        /\ Unpublished \in Nat /\ Unpublished <= Len(localQueue)
    <3>1. localQueue \in Seq(Desc) /\ Len(localQueue) \in Nat /\ pending \in Nat
          /\ Unpublished \in Nat
      BY Typed
    <3>2. CASE InSession
      BY <3>1, <3>2 DEF SessionFits, Unpublished
    <3>3. CASE ~InSession
      BY <3>1, <3>3 DEF Unpublished
    <3> QED
      BY <3>1, <3>2, <3>3
  <2>2. PICK m \in Nat, n \in Nat : m = Unpublished /\ n = Len(localQueue)
    BY <2>1
  <2>3. /\ DOMAIN Uncopied = 1 .. m
        /\ \A k \in 1 .. m : Uncopied[k] = localQueue[n - m + k]
    BY <2>1, <2>2 DEF Uncopied
  <2>4. LeftOver = {localQueue[n - m + k] : k \in 1 .. m}
    BY <2>2 DEF LeftOver, Left
  <2> QED
    BY <2>3, <2>4 DEF SeqSet
<1>6. Outstanding = InRing \cup Taken
  BY <1>3, <1>4 DEF Outstanding, Taken, InHand
<1> QED
  BY <1>2, <1>3, <1>4, <1>5, <1>6

LEMMA OfDesc ==
  ASSUME TypeOK, WindowFits, SessionFits, ContentsFit
  PROVE  /\ InRing \subseteq Desc /\ LeftOver \subseteq Desc /\ Taken \subseteq Desc
         /\ \A d \in Desc : d.req_id \in Idx /\ d.wr \in WrIds /\ d.wr # NoWr
<1>1. InRing \subseteq Desc
  BY DEF InRing, ContentsFit
<1>2. LeftOver \subseteq Desc
  <2> SUFFICES ASSUME NEW k \in 1 .. Unpublished PROVE Left(k) \in Desc
    BY DEF LeftOver
  <2>1. /\ localQueue \in Seq(Desc) /\ Len(localQueue) \in Nat
        /\ Unpublished \in Nat
    BY Typed
  <2>2. Unpublished <= Len(localQueue)
    BY <2>1 DEF SessionFits, Unpublished
  <2>3. Len(localQueue) - Unpublished + k \in 1 .. Len(localQueue)
    BY <2>1, <2>2
  <2> QED
    BY <2>1, <2>3 DEF Left
<1>3. Taken \subseteq Desc
  BY Typed DEF Taken, InCq, InHand, TypeOK
<1>4. \A d \in Desc : d.req_id \in Idx /\ d.wr \in WrIds /\ d.wr # NoWr
  BY SqSizes DEF Desc
<1> QED
  BY <1>1, <1>2, <1>3, <1>4

----------------------------------------------------------------------------
(* EfaWridPoolProofs reads EfaWq under the same constants.                    *)
LEMMA SameWq ==
  /\ PP!Idx = Idx /\ PP!Ids = Ids /\ PP!WqType = WqType
  /\ \A w : PP!NextIdx(w) = NextIdx(w)
  /\ \A w, id : PP!GetNextWridIdx(w, id) = GetNextWridIdx(w, id)
  /\ \A w : PP!CountPosted(w) = CountPosted(w)
  /\ \A w, i : PP!PutWridIdx(w, i) = PutWridIdx(w, i)
  /\ \A w, n : PP!RollBackWq(w, n) = RollBackWq(w, n)
  /\ \A w : PP!InitIndices(w) = InitIndices(w)
  /\ PP!WqInitial = WqInitial
<1>1. PP!Idx = Idx /\ PP!Ids = Ids
  BY DEF PP!Idx, Idx, PP!Ids, Ids
<1>2. \A x, m : PP!WrapInc(x, m) = WrapInc(x, m)
  BY DEF PP!WrapInc, WrapInc
<1>3. \A x, m : PP!WrapDec(x, m) = WrapDec(x, m)
  BY DEF PP!WrapDec, WrapDec
<1>4. \A x, y, m : PP!WrapSub(x, y, m) = WrapSub(x, y, m)
  BY DEF PP!WrapSub, WrapSub
<1>5. \A w : PP!NextIdx(w) = NextIdx(w)
  BY DEF PP!NextIdx, NextIdx
<1>6. \A w, id : PP!GetNextWridIdx(w, id) = GetNextWridIdx(w, id)
  BY <1>2, <1>5 DEF PP!GetNextWridIdx, GetNextWridIdx
<1>7. \A w : PP!CountPosted(w) = CountPosted(w)
  BY <1>2 DEF PP!CountPosted, CountPosted
<1>8. \A w, i : PP!PutWridIdx(w, i) = PutWridIdx(w, i)
  BY <1>2, <1>3 DEF PP!PutWridIdx, PutWridIdx
<1>9. \A w, n : PP!RollBackWq(w, n) = RollBackWq(w, n)
  BY <1>4 DEF PP!RollBackWq, RollBackWq
<1>10. \A w : PP!InitIndices(w) = InitIndices(w)
  BY DEF PP!InitIndices, InitIndices
<1>11. PP!WqInitial = WqInitial
  BY <1>1 DEF PP!WqInitial, WqInitial
<1> QED
  BY <1>1, <1>5, <1>6, <1>7, <1>8, <1>9, <1>10, <1>11 DEF PP!WqType, WqType

LEMMA SameFull == \A w : PP!Full(w) <=> Full(w)
  BY DEF PP!Full, Full, PP!WrapSub, WrapSub

(* Who holds an index, when no two requests of a set have it in common.       *)
OneEach(ds) == \A d, e \in ds : d.req_id = e.req_id => d = e

LEMMA Holder ==
  ASSUME NEW ds, OneEach(ds), NEW i \in Idx
  PROVE  /\ \A d \in ds : d.req_id = i => Holders(ds)[i] = d.wr
         /\ (\A d \in ds : d.req_id # i) => Holders(ds)[i] = NoWr
<1>1. Holders(ds)[i] = HolderIn(ds, i)
  BY DEF Holders
<1>2. ASSUME NEW d \in ds, d.req_id = i PROVE HolderIn(ds, i) = d.wr
  <2>1. (CHOOSE e \in ds : e.req_id = i) = d
    BY <1>2 DEF OneEach
  <2> QED
    BY <1>2, <2>1 DEF HolderIn
<1> QED
  BY <1>1, <1>2 DEF HolderIn

LEMMA OneHolderEach ==
  ASSUME PostersApart, TakenApart
  PROVE  OneEach(InRing \cup Taken) /\ OneEach(LeftOver)
<1>1. \A d, e \in InRing : d.req_id = e.req_id => d = e
  BY DEF PostersApart, InRing, Apart
<1>2. \A d, e \in LeftOver : d.req_id = e.req_id => d = e
  BY DEF PostersApart, LeftOver, Apart
<1>3. \A d, e \in Taken : d.req_id = e.req_id => d = e
  <2>1. \A d, e \in InCq : d.req_id = e.req_id => d = e
    BY DEF TakenApart, InCq, Apart
  <2>2. \A d, e \in working : d.req_id = e.req_id => d = e
    BY DEF TakenApart, Apart
  <2>3. \A d, e \in InHand : d = e
    BY DEF InHand
  <2> QED
    BY <2>1, <2>2, <2>3 DEF TakenApart, ApartSets, Apart, Taken
<1>4. \A d \in InRing, e \in Taken : d.req_id # e.req_id
  BY DEF PostersApart, ApartSets, Apart
<1> QED
  BY <1>1, <1>2, <1>3, <1>4 DEF OneEach

(* Every request in flight holds its index, and the entry of the table at its *)
(* index has its name.                                                        *)
LEMMA InFlightHolds ==
  ASSUME SqInv
  PROVE  /\ \A d \in InRing \cup Taken : Holders(Outstanding)[d.req_id] = d.wr
         /\ \A d \in LeftOver : Holders(SeqSet(Uncopied))[d.req_id] = d.wr
         /\ \A d \in InRing \cup Taken \cup LeftOver : wq.wrid[d.req_id] = d.wr
<1>1. /\ Outstanding = InRing \cup Taken /\ SeqSet(Uncopied) = LeftOver
      /\ InRing \subseteq Desc /\ LeftOver \subseteq Desc /\ Taken \subseteq Desc
  BY Parts, OfDesc DEF SqInv
<1>2. /\ OneEach(InRing \cup Taken) /\ OneEach(LeftOver)
  BY OneHolderEach DEF SqInv
<1>3. \A d \in Desc : d.req_id \in Idx /\ d.wr # NoWr
  BY OfDesc DEF SqInv
<1>4. \A d \in InRing \cup Taken : Holders(Outstanding)[d.req_id] = d.wr
  BY <1>1, <1>2, <1>3, Holder
<1>5. \A d \in LeftOver : Holders(SeqSet(Uncopied))[d.req_id] = d.wr
  BY <1>1, <1>2, <1>3, Holder
<1>6. \A i \in Idx :
         /\ Holders(Outstanding)[i] # NoWr => wq.wrid[i] = Holders(Outstanding)[i]
         /\ Holders(SeqSet(Uncopied))[i] # NoWr =>
              wq.wrid[i] = Holders(SeqSet(Uncopied))[i]
  BY SameWq DEF SqInv, PP!PoolInv, PP!WridIntact
<1>7. \A d \in InRing \cup Taken : wq.wrid[d.req_id] = d.wr
  BY <1>1, <1>3, <1>4, <1>6
<1>8. \A d \in LeftOver : wq.wrid[d.req_id] = d.wr
  BY <1>1, <1>3, <1>5, <1>6
<1> QED
  BY <1>4, <1>5, <1>7, <1>8

(* When the full test passes, the index the next request gets is nobody's.    *)
LEMMA NextIsNobodys ==
  ASSUME SqInv, ~Full(wq)
  PROVE  /\ wq.next \in Nat /\ wq.next < WqeCnt /\ NextIdx(wq) \in Idx
         /\ \A d \in InRing \cup Taken \cup LeftOver : d.req_id # NextIdx(wq)
<1>1. /\ wq.next < WqeCnt
      /\ NextIdx(wq) \notin PP!Held \cup PP!Building
  <2>1. PP!NextIsFree
    BY WqAssumption, PP!FreeWhenNotFull DEF SqInv
  <2> QED
    BY <2>1, SameWq, SameFull DEF PP!NextIsFree
<1>2. wq.next \in Nat /\ NextIdx(wq) \in Idx
  <2>1. wq.next \in Nat /\ wq.pool \in [Idx -> Idx]
    BY SqSizes DEF SqInv, TypeOK, WqType
  <2> QED
    BY <1>1, <2>1, SqSizes DEF NextIdx, Idx
<1>3. /\ InRing \subseteq Desc /\ LeftOver \subseteq Desc /\ Taken \subseteq Desc
      /\ \A d \in Desc : d.req_id \in Idx /\ d.wr # NoWr
  BY OfDesc DEF SqInv
<1>4. \A d \in InRing \cup Taken : d.req_id \in PP!Held
  BY <1>3, SameWq, InFlightHolds DEF PP!Held
<1>5. \A d \in LeftOver : d.req_id \in PP!Building
  BY <1>3, SameWq, InFlightHolds DEF PP!Building
<1> QED
  BY <1>1, <1>2, <1>4, <1>5

(* ... and there is a slot left: the requests of the window have different    *)
(* indexes, and none has the next one.                                        *)
LEMMA RoomLeft ==
  ASSUME SqInv, ~Full(wq)
  PROVE  Waiting + Unpublished < DescCnt
<1> SUFFICES ASSUME ~(Waiting + Unpublished < DescCnt) PROVE FALSE
  OBVIOUS
<1>1. PICK n \in Nat, m \in Nat : n = Waiting /\ m = Unpublished /\ n + m = WqeCnt
  BY Window, SqSizes DEF SqInv
<1>2. \A k \in 1 .. n : Front(k) \in InRing
  BY <1>1 DEF InRing
<1>3. \A k \in 1 .. m : Left(k) \in LeftOver
  BY <1>1 DEF LeftOver
<1>4. /\ InRing \subseteq Desc /\ LeftOver \subseteq Desc
      /\ \A d \in Desc : d.req_id \in Idx
  BY OfDesc DEF SqInv
<1> DEFINE At(k) == IF k <= n THEN Front(k).req_id ELSE Left(k - n).req_id
           rest == Idx \ {NextIdx(wq)}
           f == [k \in 1 .. WqeCnt |-> At(k)]
<1>5. \A k \in 1 .. WqeCnt : At(k) \in rest
  <2> SUFFICES ASSUME NEW k \in 1 .. WqeCnt PROVE At(k) \in rest
    OBVIOUS
  <2>1. CASE k <= n
    <3>1. k \in 1 .. n
      BY <1>1, <2>1
    <3> QED
      BY <1>2, <1>4, <2>1, <3>1, NextIsNobodys
  <2>2. CASE ~(k <= n)
    <3>1. k - n \in 1 .. m
      BY <1>1, <2>2
    <3> QED
      BY <1>3, <1>4, <2>2, <3>1, NextIsNobodys
  <2> QED
    BY <2>1, <2>2
<1>6. \A j, k \in 1 .. WqeCnt : At(j) = At(k) => j = k
  <2> SUFFICES ASSUME NEW j \in 1 .. WqeCnt, NEW k \in 1 .. WqeCnt, j # k
               PROVE  At(j) # At(k)
    OBVIOUS
  <2>1. CASE j <= n /\ k <= n
    <3>1. j \in 1 .. n /\ k \in 1 .. n
      BY <1>1, <2>1
    <3> QED
      BY <1>1, <2>1, <3>1 DEF SqInv, PostersApart, Apart
  <2>2. CASE ~(j <= n) /\ ~(k <= n)
    <3>1. j - n \in 1 .. m /\ k - n \in 1 .. m /\ j - n # k - n
      BY <1>1, <2>2
    <3>2. Apart(Left(j - n), Left(k - n))
      BY <1>1, <3>1 DEF SqInv, PostersApart
    <3> QED
      BY <2>2, <3>2 DEF Apart
  <2>3. CASE j <= n /\ ~(k <= n)
    <3>1. j \in 1 .. n /\ k - n \in 1 .. m
      BY <1>1, <2>3
    <3>2. Apart(Front(j), Left(k - n))
      BY <1>2, <1>3, <3>1 DEF SqInv, PostersApart, ApartSets
    <3> QED
      BY <2>3, <3>2 DEF Apart
  <2>4. CASE ~(j <= n) /\ k <= n
    <3>1. k \in 1 .. n /\ j - n \in 1 .. m
      BY <1>1, <2>4
    <3>2. Apart(Front(k), Left(j - n))
      BY <1>2, <1>3, <3>1 DEF SqInv, PostersApart, ApartSets
    <3> QED
      BY <2>4, <3>2 DEF Apart
  <2> QED
    BY <2>1, <2>2, <2>3, <2>4
<1>7. /\ IsFiniteSet(Idx) /\ Cardinality(Idx) = WqeCnt
      /\ IsFiniteSet(1 .. WqeCnt) /\ Cardinality(1 .. WqeCnt) = WqeCnt
  BY FS_Interval, SqSizes DEF Idx
<1>8. IsFiniteSet(rest) /\ Cardinality(rest) = WqeCnt - 1
  BY <1>7, NextIsNobodys, FS_RemoveElement
<1>9. Cardinality(rest) < Cardinality(1 .. WqeCnt)
  BY <1>7, <1>8, SqSizes
<1> HIDE DEF At, rest
<1> DEFINE S == 1 .. WqeCnt
<1>10. f \in [S -> rest]
  BY <1>5
<1>11. \A k \in S : f[k] = At(k)
  OBVIOUS
<1>12. IsFiniteSet(S) /\ Cardinality(rest) < Cardinality(S)
  BY <1>7, <1>9
<1> HIDE DEF f, S
<1>13. \E j, k \in S : j # k /\ f[j] = f[k]
  BY <1>8, <1>10, <1>12, FS_PigeonHole
<1> QED
  BY <1>6, <1>11, <1>13 DEF S

----------------------------------------------------------------------------
(* Where a thread is tells who has the lock and what the session is.          *)
LockedPlaces == {"post_send", "session", "copying"}

LEMMA WhoHolds ==
  ASSUME TypeOK, LockFits, NEW t \in Callers
  PROVE  /\ at[t] = "post_send" => lock = t /\ ~InSession /\ Unpublished = 0
         /\ at[t] \in {"session", "copying"} =>
              lock = t /\ InSession /\ Unpublished = pending
         /\ lock = NoThread =>
              at[t] \notin LockedPlaces /\ ~InSession /\ Unpublished = 0
         /\ lock = t => at[t] \in LockedPlaces
<1>1. t # NoThread
  BY SqSizes
<1>2. at[t] \in LockedPlaces <=> lock = t
  BY DEF LockFits, LockedPlaces
<1>3. ~InSession => Unpublished = 0
  BY DEF Unpublished
<1>4. InSession => Unpublished = pending
  BY DEF Unpublished
<1>5. CASE at[t] = "post_send"
  <2>1. lock = t /\ ~InSession
    BY <1>1, <1>2, <1>5 DEF LockedPlaces, InSession
  <2> QED
    BY <1>1, <1>3, <1>5, <2>1 DEF LockedPlaces
<1>6. CASE at[t] \in {"session", "copying"}
  <2>1. lock = t /\ InSession
    BY <1>1, <1>2, <1>6 DEF LockedPlaces, InSession
  <2> QED
    BY <1>1, <1>4, <1>6, <2>1 DEF LockedPlaces
<1>7. CASE at[t] \notin LockedPlaces
  <2>1. lock # t /\ (lock = NoThread => ~InSession)
    BY <1>2, <1>7 DEF InSession
  <2> QED
    BY <1>3, <1>7, <2>1 DEF LockedPlaces
<1> QED
  BY <1>5, <1>6, <1>7 DEF LockedPlaces

(* A step of thread t that takes the lock, keeps it, gives it up or has no    *)
(* business with it.                                                          *)
LEMMA LockStep ==
  ASSUME TypeOK, LockFits, NEW t \in Callers, NEW p \in Places,
         at' = [at EXCEPT ![t] = p],
         \/ p \in LockedPlaces /\ lock \in {t, NoThread} /\ lock' = t
         \/ p \notin LockedPlaces /\ lock = t /\ lock' = NoThread
         \/ p \notin LockedPlaces /\ lock # t /\ lock' = lock
  PROVE  /\ LockFits' /\ at' \in [Callers -> Places]
         /\ lock' \in Callers \cup {NoThread}
         /\ at'[t] = p /\ \A u \in Callers \ {t} : at'[u] = at[u]
<1>1. /\ at \in [Callers -> Places] /\ lock \in Callers \cup {NoThread}
      /\ t # NoThread
  BY SqSizes DEF TypeOK
<1>2. /\ at' \in [Callers -> Places] /\ at'[t] = p
      /\ \A u \in Callers \ {t} : at'[u] = at[u]
  BY <1>1
<1>3. ASSUME NEW u \in Callers
      PROVE  at'[u] \in LockedPlaces <=> lock' = u
  <2>1. at[u] \in LockedPlaces <=> lock = u
    BY DEF LockFits, LockedPlaces
  <2> u # NoThread
    BY SqSizes
  <2>2. CASE u = t
    BY <1>1, <1>2, <2>1, <2>2
  <2>3. CASE u # t
    BY <1>1, <1>2, <2>1, <2>3
  <2> QED
    BY <2>2, <2>3
<1> QED
  BY <1>1, <1>2, <1>3 DEF LockFits, LockedPlaces

(* A step that leaves lock and places alone.                                  *)
LEMMA LockStays ==
  ASSUME LockFits, UNCHANGED <<lock, at>>
  PROVE  LockFits' /\ (InSession' <=> InSession)
  BY DEF LockFits, InSession

----------------------------------------------------------------------------
(* Two of the lemmas above, in the state a step leads to.                     *)
PartsAreNamed ==
  Outstanding = InRing \cup Taken /\ SeqSet(Uncopied) = LeftOver
LEMMA PartsNamed == TypeOK /\ WindowFits /\ SessionFits => PartsAreNamed
  BY Parts DEF PartsAreNamed
LEMMA OneHolderEachNext ==
  PostersApart /\ TakenApart => OneEach(InRing \cup Taken) /\ OneEach(LeftOver)
  BY OneHolderEach

----------------------------------------------------------------------------
(* The index pool through its own invariant.                                  *)
LEMMA PoolFacts ==
  ASSUME SqInv
  PROVE  /\ wq \in WqType /\ wq.next \in Nat
         /\ Unpublished \in Nat /\ Unpublished <= wq.next /\ wq.next <= WqeCnt
<1>1. wq \in WqType /\ wq.next \in Nat
  BY SqSizes DEF SqInv, TypeOK, WqType
<1>2. Unpublished \in Nat
  BY Typed, SqSizes DEF SqInv
<1> QED
  BY <1>1, <1>2 DEF SqInv, PP!PoolInv, PP!CountersAgree

LEMMA TakeWq ==
  ASSUME NEW w \in WqType, NEW id \in WrIds, w.next < WqeCnt,
         NEW v, v = CountPosted(GetNextWridIdx(w, id))
  PROVE  v \in WqType /\ v.pool = w.pool /\ v.next = w.next + 1
<1>1. w \in PP!WqType /\ v = PP!CountPosted(PP!GetNextWridIdx(w, id))
  BY SameWq
<1>2. v \in PP!WqType /\ v.pool = w.pool /\ v.next = w.next + 1
  BY ONLY <1>1, id \in WrIds, w.next < WqeCnt, WqAssumption, PP!TakeLemma, ZenonT(90)
<1> QED
  BY <1>2, SameWq

LEMMA PutWq ==
  ASSUME NEW w \in WqType, NEW i \in Idx, w.next > 0, w.next <= WqeCnt,
         NEW v, v = PutWridIdx(w, i)
  PROVE  v \in WqType /\ v.next = w.next - 1
<1>1. w \in PP!WqType /\ v = PP!PutWridIdx(w, i) /\ i \in PP!Idx
  BY SameWq
<1>2. v \in PP!WqType /\ v.next = w.next - 1
  BY <1>1, WqAssumption, PP!PutLemma, ZenonT(60)
<1> QED
  BY <1>2, SameWq

LEMMA BackWq ==
  ASSUME NEW w \in WqType, NEW n \in Nat, n <= w.next, w.next <= WqeCnt,
         NEW v, v = RollBackWq(w, n)
  PROVE  v \in WqType /\ v.pool = w.pool /\ v.next = w.next - n
<1>1. w \in PP!WqType /\ v = PP!RollBackWq(w, n)
  BY SameWq
<1>2. v \in PP!WqType /\ v.pool = w.pool /\ v.next = w.next - n
  BY <1>1, WqAssumption, PP!RollBackLemma
<1> QED
  BY <1>2, SameWq

(* What every step of the queue is to its index pool.                         *)
PoolMove == PP!Next \/ UNCHANGED PP!vars

LEMMA PoolStep ==
  ASSUME SqInv, PoolMove
  PROVE  PP!PoolInv' /\ PoolMove
  BY WqAssumption, PP!NextPreserves DEF SqInv, PoolMove

(* A request that is accepted takes the index at next.                        *)
LEMMA Take ==
  ASSUME SqInv, ~Full(wq), NEW id \in WrIds,
         wq' = CountPosted(GetNextWridIdx(wq, id)), pos' = AdvancePos(pos)
  PROVE  /\ wq' \in WqType /\ wq'.pool = wq.pool /\ wq'.next = wq.next + 1
         /\ pos' \in PosType /\ pos'.pc = WrapInc(pos.pc, U16)
         /\ pos'.pc \in 0 .. U16 - 1
         /\ NewDesc(id) \in Desc /\ NewDesc(id).req_id = NextIdx(wq)
         /\ NewDesc(id).wr = id /\ NewDesc(id).req_id = wq.pool[wq.next]
<1>1. /\ wq.next \in Nat /\ wq.next < WqeCnt /\ NextIdx(wq) \in Idx
      /\ wq \in WqType
  BY NextIsNobodys, PoolFacts
<1>2. wq' \in WqType /\ wq'.pool = wq.pool /\ wq'.next = wq.next + 1
  BY <1>1, TakeWq
<1>3. pos.pc \in 0 .. U16 - 1 /\ pos.phase \in Phases
  BY Typed DEF SqInv
<1>4. WrapInc(pos.pc, U16) \in 0 .. U16 - 1
  BY <1>3, SlotOfNext
<1>5. pos' \in PosType /\ pos'.pc = WrapInc(pos.pc, U16)
  <2>1. 1 - pos.phase \in Phases
    BY <1>3 DEF Phases
  <2> QED
    BY <1>3, <1>4, <2>1 DEF AdvancePos, PosType
<1>6. /\ NewDesc(id) \in Desc /\ NewDesc(id).req_id = NextIdx(wq)
      /\ NewDesc(id).wr = id
  BY <1>1, <1>3 DEF NewDesc, Desc
<1> QED
  BY <1>1, <1>2, <1>4, <1>5, <1>6 DEF NextIdx

(* ... and nothing in flight has its index or its name.                       *)
LEMMA NewIsApart ==
  ASSUME SqInv, ~Full(wq), NEW id \in WrIds, Unused(id)
  PROVE  \A d \in InRing \cup Taken \cup LeftOver : Apart(NewDesc(id), d)
<1>1. /\ Outstanding = InRing \cup Taken /\ SeqSet(Uncopied) = LeftOver
  BY Parts DEF SqInv
<1>2. LeftOver \subseteq SeqSet(localQueue)
  <2> SUFFICES ASSUME NEW k \in 1 .. Unpublished
               PROVE  Left(k) \in SeqSet(localQueue)
    BY DEF LeftOver
  <2>1. /\ localQueue \in Seq(Desc) /\ Len(localQueue) \in Nat
        /\ Unpublished \in Nat /\ pending \in Nat
    BY Typed, SqSizes DEF SqInv
  <2>2. Unpublished <= Len(localQueue)
    BY <2>1 DEF SqInv, SessionFits, Unpublished
  <2>3. Len(localQueue) - Unpublished + k \in 1 .. Len(localQueue)
    BY <2>1, <2>2
  <2> QED
    BY <2>1, <2>3 DEF Left, SeqSet
<1>3. \A d \in InRing \cup Taken \cup LeftOver : d.wr # id
  BY <1>1, <1>2 DEF Unused
<1>4. \A d \in InRing \cup Taken \cup LeftOver : d.req_id # NextIdx(wq)
  BY NextIsNobodys
<1>5. NewDesc(id).req_id = NextIdx(wq) /\ NewDesc(id).wr = id
  BY DEF NewDesc
<1> QED
  BY <1>3, <1>4, <1>5 DEF Apart

LEMMA ApartTurned == \A d, e : Apart(d, e) <=> Apart(e, d)
  BY DEF Apart

(* The doorbell after n more requests have been copied to the ring: it has    *)
(* announced all of them, or owes less than a batch.                          *)
LEMMA RingsWhenFull ==
  ASSUME SqInv, NEW n \in Nat, curbatch + n <= MaxBatchWr,
         RingWhenFull(n, Published'), UNCHANGED devPc,
         Published' \in 0 .. U16 - 1, Waiting' = Waiting + n, lock' # NoThread
  PROVE  /\ DoorbellFits' /\ db' \in 0 .. U16 - 1
         /\ curbatch' \in 0 .. MaxBatchWr
<1>1. /\ curbatch \in 0 .. MaxBatchWr /\ db \in 0 .. U16 - 1
      /\ WrapSub(db, devPc, U16) + curbatch = Waiting
      /\ devPc \in 0 .. U16 - 1 /\ MaxBatchWr \in Nat \ {0} /\ U16 \in Nat \ {0}
  BY Typed, SqSizes DEF SqInv, DoorbellFits
<1>2. Waiting' = WrapSub(Published', devPc, U16)
  BY DEF Waiting
<1>3. CASE curbatch + n = MaxBatchWr
  <2>1. db' = Published' /\ curbatch' = 0
    BY <1>3 DEF RingWhenFull
  <2>2. WrapSub(db', devPc', U16) + curbatch' = Waiting'
    BY <1>1, <1>2, <2>1 DEF WrapSub
  <2> QED
    BY <1>1, <2>1, <2>2 DEF DoorbellFits
<1>4. CASE curbatch + n # MaxBatchWr
  <2>1. db' = db /\ curbatch' = curbatch + n
    BY <1>4 DEF RingWhenFull
  <2>2. curbatch' < MaxBatchWr /\ curbatch' \in 0 .. MaxBatchWr
    BY <1>1, <1>4, <2>1
  <2>3. WrapSub(db', devPc', U16) + curbatch' = Waiting'
    BY <1>1, <2>1 DEF WrapSub
  <2> QED
    BY <1>1, <2>1, <2>2, <2>3 DEF DoorbellFits
<1> QED
  BY <1>3, <1>4

(* One request of efa_post_send: what it does to the parts of the queue.      *)
LEMMA PostSendWrParts ==
  ASSUME SqInv, NEW t \in Threads, NEW id \in WrIds, PostSendWr(t, id)
  PROVE  /\ TypeOK' /\ LockFits' /\ SessionFits' /\ WindowFits' /\ DoorbellFits'
         /\ ~InSession /\ ~InSession' /\ Unpublished = 0 /\ Unpublished' = 0
         /\ Waiting \in Nat /\ Waiting' = Waiting + 1
         /\ \A n : n = Waiting => /\ \A k \in 1 .. n : Front(k)' = Front(k)
                                  /\ Front(n + 1)' = NewDesc(id)
<1>1. /\ t \in Callers /\ at[t] = "post_send" /\ ~Full(wq)
      /\ UNCHANGED <<state, lock, at, sessionVars, deviceVars, cur>>
  BY DEF PostSendWr, Accepts, Callers
<1>2. /\ lock = t /\ ~InSession /\ Unpublished = 0 /\ t # NoThread
      /\ LockFits' /\ ~InSession'
  BY <1>1, WhoHolds, LockStays, SqSizes DEF SqInv
<1>3. Unpublished' = 0
  BY <1>2 DEF Unpublished
<1>4. /\ wq' \in WqType /\ pos' \in PosType /\ pos'.pc = WrapInc(pos.pc, U16)
      /\ pos'.pc \in 0 .. U16 - 1 /\ NewDesc(id) \in Desc
  BY <1>1, Take DEF PostSendWr
<1>5. PICK n \in Nat : n = Waiting
  BY Window DEF SqInv
<1>6. /\ n < DescCnt /\ WrapSub(pos.pc, devPc, U16) = n /\ Published = pos.pc
      /\ pos.pc \in 0 .. U16 - 1 /\ devPc \in 0 .. U16 - 1
      /\ Ahead(devPc, n) = pos.pc
  <2>1. n < DescCnt
    BY <1>1, <1>2, <1>5, RoomLeft
  <2>2. WrapSub(pos.pc, devPc, U16) = n
    BY <1>2, <1>5, Window DEF SqInv
  <2>3. Published = pos.pc
    BY <1>2, Window DEF SqInv, Published
  <2>4. pos.pc \in 0 .. U16 - 1 /\ devPc \in 0 .. U16 - 1
    BY Typed DEF SqInv
  <2>5. Ahead(devPc, n) = pos.pc
    BY <1>5, <2>3, Window DEF SqInv
  <2> QED
    BY <2>1, <2>2, <2>3, <2>4, <2>5
<1>7. WrapSub(pos'.pc, devPc, U16) = n + 1
  BY <1>4, <1>6, DistanceMoves, SqSizes
<1>8. Published' = pos'.pc
  BY <1>3, <1>4, SqSizes DEF Published, WrapSub
<1>9. Waiting' = n + 1 /\ devPc' = devPc
  BY <1>1, <1>7, <1>8 DEF Waiting, deviceVars
<1>10. Slot(pos.pc) \in Slots /\ ring \in [Slots -> Desc \cup {NoDesc}]
  BY <1>6, SlotInRing DEF SqInv, TypeOK
<1>11. ring' = [ring EXCEPT ![Slot(pos.pc)] = NewDesc(id)]
  BY DEF PostSendWr
<1>12. ASSUME NEW k \in 1 .. n PROVE Front(k)' = Front(k)
  <2>1. k - 1 \in 0 .. DescCnt - 1 /\ n \in 0 .. DescCnt - 1 /\ k - 1 # n
    BY <1>6, SqSizes
  <2>2. Slot(Ahead(devPc, k - 1)) # Slot(Ahead(devPc, n))
    BY <1>6, <2>1, SlotsApart
  <2> QED
    BY <1>6, <1>9, <1>10, <1>11, <2>2 DEF Front
<1>13. Front(n + 1)' = NewDesc(id)
  <2>1. n + 1 - 1 = n
    OBVIOUS
  <2> QED
    BY <1>6, <1>9, <1>10, <1>11, <2>1 DEF Front
<1>14. WindowFits'
  BY <1>3, <1>6, <1>7, <1>9, SqSizes DEF WindowFits
<1>15. SessionFits'
  <2>1. \A u \in Callers : at[u] # "session"
    BY <1>1, <1>2 DEF SqInv, LockFits
  <2> QED
    BY <1>1, <1>2, <2>1 DEF SqInv, SessionFits, sessionVars
<1>16. DoorbellFits' /\ db' \in 0 .. U16 - 1 /\ curbatch' \in 0 .. MaxBatchWr
  <2>1. RingWhenFull(1, Published')
    BY <1>8 DEF PostSendWr
  <2>2. curbatch + 1 <= MaxBatchWr
    BY Typed, SqSizes DEF SqInv, DoorbellFits
  <2> QED
    BY <1>1, <1>2, <1>4, <1>5, <1>8, <1>9, <2>1, <2>2, RingsWhenFull
<1>17. TypeOK'
  <2>1. ring' \in [Slots -> Desc \cup {NoDesc}]
    BY <1>4, <1>10, <1>11
  <2> QED
    BY <1>1, <1>4, <1>16, <2>1 DEF SqInv, TypeOK, sessionVars, deviceVars
<1> QED
  BY <1>2, <1>3, <1>5, <1>9, <1>12, <1>13, <1>14, <1>15, <1>16, <1>17

LEMMA SessionIsBoolean ==
  /\ InSession \in BOOLEAN /\ InSession' \in BOOLEAN
  /\ (InSession <=> InSession') => InSession' = InSession
  BY DEF InSession

(* ... the request is apart from all others, and waits in the ring.           *)
LEMMA AppendKeeps ==
  ASSUME SqInv, NEW d \in Desc, Unpublished = 0, Unpublished' = 0,
         Waiting \in Nat, Waiting' = Waiting + 1,
         \A n : n = Waiting => /\ \A k \in 1 .. n : Front(k)' = Front(k)
                               /\ Front(n + 1)' = d,
         UNCHANGED <<working, cqes, cur>>,
         \A e \in InRing \cup Taken \cup LeftOver : Apart(d, e)
  PROVE  /\ ContentsFit' /\ PostersApart' /\ TakenApart'
         /\ InRing' = InRing \cup {d} /\ Taken' = Taken
         /\ LeftOver = {} /\ LeftOver' = {}
<1>1. PICK n \in Nat : n = Waiting
  OBVIOUS
<1>2. /\ \A k \in 1 .. n : Front(k)' = Front(k)
      /\ Front(n + 1)' = d /\ Waiting' = n + 1
  BY <1>1
<1>3. \A k \in 1 .. n + 1 : k \in 1 .. n \/ k = n + 1
  BY <1>1
<1>4. \A k \in 1 .. n : k \in 1 .. n + 1
  BY <1>1
<1>5. InRing = {Front(k) : k \in 1 .. n}
  BY <1>1 DEF InRing
<1>6. InRing' = {Front(k)' : k \in 1 .. n + 1}
  BY <1>2 DEF InRing
<1>7. InRing' = InRing \cup {d}
  <2>1. n + 1 \in 1 .. n + 1
    BY <1>1
  <2>2. InRing' \subseteq InRing \cup {d}
    BY <1>2, <1>3, <1>5, <1>6
  <2>3. InRing \subseteq InRing'
    BY <1>2, <1>4, <1>5, <1>6
  <2>4. d \in InRing'
    BY <1>2, <1>6, <2>1
  <2> QED
    BY <2>2, <2>3, <2>4
<1>8. Taken' = Taken /\ InCq' = InCq /\ InHand' = InHand
  BY DEF Taken, InCq, InHand
<1>9. LeftOver = {} /\ LeftOver' = {}
  BY DEF LeftOver
<1>10. ContentsFit'
  <2>1. \A k \in 1 .. n : Front(k) \in Desc
    BY <1>1 DEF SqInv, ContentsFit
  <2>2. \A k \in 1 .. n + 1 : Front(k)' \in Desc
    BY <1>2, <1>3, <2>1
  <2> QED
    BY <1>2, <2>2 DEF ContentsFit
<1>11. PostersApart'
  <2>1. ASSUME NEW j \in 1 .. n + 1, NEW k \in 1 .. n + 1, j # k
        PROVE  Apart(Front(j)', Front(k)')
    <3>1. CASE j \in 1 .. n /\ k \in 1 .. n
      BY <1>1, <1>2, <2>1, <3>1 DEF SqInv, PostersApart
    <3>2. CASE j = n + 1 /\ k \in 1 .. n
      BY <1>2, <1>5, <3>2
    <3>3. CASE j \in 1 .. n /\ k = n + 1
      BY <1>2, <1>5, <3>3, ApartTurned
    <3> QED
      BY <1>3, <2>1, <3>1, <3>2, <3>3
  <2>2. \A j, k \in 1 .. Waiting' : j # k => Apart(Front(j)', Front(k)')
    BY <1>2, <2>1
  <2>3. \A j, k \in 1 .. Unpublished' : j # k => Apart(Left(j)', Left(k)')
    OBVIOUS
  <2>4. ApartSets(InRing', Taken')
    BY <1>7, <1>8 DEF SqInv, PostersApart, ApartSets
  <2> QED
    BY <1>9, <2>2, <2>3, <2>4 DEF PostersApart, ApartSets
<1>12. TakenApart'
  BY <1>8 DEF SqInv, TakenApart
<1> QED
  BY <1>7, <1>8, <1>9, <1>10, <1>11, <1>12

(* Holders of a set with one more request.                                    *)
LEMMA HoldersAdd ==
  ASSUME NEW ds, NEW d, NEW es, es = ds \cup {d}, OneEach(ds), OneEach(es),
         NEW i, d.req_id = i, NEW id, d.wr = id
  PROVE  Holders(es) = [Holders(ds) EXCEPT ![i] = id]
<1>1. ASSUME NEW k \in Idx
      PROVE  Holders(es)[k] = IF k = i THEN id ELSE Holders(ds)[k]
  <2>1. CASE k = i
    BY <2>1, Holder
  <2>2. CASE k # i
    <3>1. CASE \E e \in ds : e.req_id = k
      BY <3>1, <2>2, Holder
    <3>2. CASE ~ \E e \in ds : e.req_id = k
      BY <3>2, <2>2, Holder
    <3> QED
      BY <3>1, <3>2
  <2> QED
    BY <2>1, <2>2
<1> QED
  BY <1>1 DEF Holders

LEMMA PostSendWrStep ==
  ASSUME SqInv, NEW t \in Threads, NEW id \in WrIds, PostSendWr(t, id)
  PROVE  SqInv' /\ PoolMove
<1> DEFINE d == NewDesc(id)
<1>1. /\ TypeOK' /\ LockFits' /\ SessionFits' /\ WindowFits' /\ DoorbellFits'
      /\ ~InSession /\ ~InSession' /\ Unpublished = 0 /\ Unpublished' = 0
  BY PostSendWrParts
<1>2. /\ ~Full(wq) /\ Unused(id) /\ UNCHANGED <<working, cqes, cur>>
      /\ wq' = CountPosted(GetNextWridIdx(wq, id)) /\ pos' = AdvancePos(pos)
  BY DEF PostSendWr, Accepts, deviceVars
<1>3. d \in Desc /\ d.req_id = NextIdx(wq) /\ d.wr = id
  BY <1>2, Take
<1>4. \A e \in InRing \cup Taken \cup LeftOver : Apart(d, e)
  BY <1>2, NewIsApart
<1> HIDE DEF d
<1>5. /\ ContentsFit' /\ PostersApart' /\ TakenApart'
      /\ InRing' = InRing \cup {d} /\ Taken' = Taken
      /\ LeftOver = {} /\ LeftOver' = {}
  <2>1. /\ Waiting \in Nat /\ Waiting' = Waiting + 1
        /\ \A n : n = Waiting => /\ \A k \in 1 .. n : Front(k)' = Front(k)
                                 /\ Front(n + 1)' = d
    BY PostSendWrParts DEF d
  <2> QED
    BY <1>1, <1>2, <1>3, <1>4, <2>1, AppendKeeps
<1>6. PP!PoolInv' /\ PoolMove
  <2>1. PartsAreNamed /\ PartsAreNamed'
    BY <1>1, PartsNamed, PTL DEF SqInv
  <2>2. /\ Outstanding' = Outstanding \cup {d}
        /\ SeqSet(Uncopied)' = SeqSet(Uncopied)
    BY <1>5, <2>1 DEF PartsAreNamed
  <2>3. OneEach(InRing \cup Taken) /\ OneEach(InRing \cup Taken)'
    BY <1>5, OneHolderEachNext, PTL DEF SqInv
  <2>4. OneEach(Outstanding) /\ OneEach(Outstanding')
    BY <2>1, <2>3 DEF PartsAreNamed
  <2>5. Holders(Outstanding)' = [Holders(Outstanding) EXCEPT ![NextIdx(wq)] = id]
    BY <1>3, <2>2, <2>4, HoldersAdd
  <2>6. InSession' = InSession
    BY <1>1, SessionIsBoolean
  <2>7. PP!Post(id)
    BY <1>1, <1>2, <2>2, <2>5, <2>6, SameWq, SameFull DEF PP!Post
  <2> QED
    BY <2>7, PoolStep DEF PoolMove, PP!Next
<1> QED
  BY <1>1, <1>5, <1>6 DEF SqInv

----------------------------------------------------------------------------
(* One request of a session.                                                  *)
LEMMA SendWrParts ==
  ASSUME SqInv, NEW t \in SessionThreads, NEW id \in WrIds, SendWr(t, id)
  PROVE  /\ TypeOK' /\ LockFits' /\ SessionFits' /\ WindowFits' /\ DoorbellFits'
         /\ InSession /\ InSession' /\ Unpublished \in Nat
         /\ Unpublished' = Unpublished + 1 /\ Waiting' = Waiting
         /\ \A k \in 1 .. Waiting : Front(k)' = Front(k)
         /\ \A m : m = Unpublished => /\ \A k \in 1 .. m : Left(k)' = Left(k)
                                      /\ Left(m + 1)' = NewDesc(id)
<1>1. /\ t \in Callers /\ at[t] = "session" /\ ~Full(wq)
      /\ UNCHANGED <<ringVars, state, lock, at, curbatch, phaseRb, sessionErr,
                     deviceVars, cur>>
  BY DEF SendWr, Accepts, Callers
<1>2. /\ lock = t /\ InSession /\ Unpublished = pending /\ t # NoThread
      /\ LockFits' /\ InSession' /\ curbatch = 0 /\ pending = Len(localQueue)
  BY <1>1, WhoHolds, LockStays, SqSizes DEF SqInv, SessionFits
<1>3. PICK m \in Nat, n \in Nat : m = Unpublished /\ n = Waiting
  BY Window DEF SqInv
<1>4. /\ n + m < DescCnt /\ WrapSub(pos.pc, devPc, U16) = n + m
      /\ pos.pc \in 0 .. U16 - 1 /\ devPc \in 0 .. U16 - 1
      /\ db \in 0 .. U16 - 1
  BY <1>1, <1>3, RoomLeft, Window, Typed DEF SqInv
<1>5. /\ wq' \in WqType /\ pos' \in PosType /\ pos'.pc = WrapInc(pos.pc, U16)
      /\ pos'.pc \in 0 .. U16 - 1 /\ NewDesc(id) \in Desc
  BY <1>1, Take DEF SendWr
<1>6. /\ pending = m /\ pending' = m + 1 /\ Unpublished' = m + 1
      /\ localQueue' = Append(localQueue, NewDesc(id))
      /\ localQueue \in Seq(Desc) /\ Len(localQueue) = m
  BY <1>2, <1>3, Typed DEF SendWr, Unpublished, SqInv
<1>7. /\ localQueue' \in Seq(Desc) /\ Len(localQueue') = m + 1
      /\ \A k \in 1 .. m : localQueue'[k] = localQueue[k]
      /\ localQueue'[m + 1] = NewDesc(id)
  BY <1>5, <1>6
<1>8. WrapSub(pos'.pc, devPc, U16) = n + m + 1
  <2>1. WrapSub(pos.pc, devPc, U16) + 1 < U16
    BY <1>3, <1>4, SqSizes
  <2> QED
    BY <1>4, <1>5, <2>1, DistanceMoves
<1>9. Published' = Published /\ devPc' = devPc
  <2>1. m \in 0 .. U16 - 2
    BY <1>3, <1>4, SqSizes
  <2>2. WrapSub(WrapInc(pos.pc, U16), m + 1, U16) = WrapSub(pos.pc, m, U16)
    BY <1>4, <2>1, BackAgain
  <2> QED
    BY <1>1, <1>3, <1>5, <1>6, <2>2 DEF Published, deviceVars
<1>10. Waiting' = Waiting
  BY <1>9 DEF Waiting
<1>11. \A k \in 1 .. Waiting : Front(k)' = Front(k)
  BY <1>1, <1>9 DEF Front, ringVars
<1>12. \A k \in 1 .. m : Left(k)' = Left(k)
  <2> SUFFICES ASSUME NEW k \in 1 .. m PROVE Left(k)' = Left(k)
    OBVIOUS
  <2>1. m + 1 - (m + 1) + k = k /\ m - m + k = k
    OBVIOUS
  <2> QED
    BY <1>2, <1>3, <1>6, <1>7, <2>1 DEF Left
<1>13. Left(m + 1)' = NewDesc(id)
  <2>1. m + 1 - (m + 1) + (m + 1) = m + 1
    OBVIOUS
  <2> QED
    BY <1>6, <1>7, <2>1 DEF Left
<1>14. WindowFits'
  BY <1>3, <1>4, <1>6, <1>8, <1>9, SqSizes DEF WindowFits
<1>15. SessionFits'
  <2>1. pending' = Len(localQueue') /\ curbatch' = 0
    BY <1>1, <1>2, <1>6, <1>7
  <2> QED
    BY <1>2, <1>6, <1>7, <2>1 DEF SessionFits
<1>16. DoorbellFits'
  BY <1>1, <1>2, <1>9, <1>10 DEF SqInv, DoorbellFits, ringVars
<1>17. TypeOK'
  <2>1. pending' \in 0 .. WqeCnt
    BY <1>3, <1>4, <1>6, SqSizes
  <2> QED
    BY <1>1, <1>5, <1>7, <2>1 DEF SqInv, TypeOK, ringVars, deviceVars
<1> QED
  BY <1>2, <1>3, <1>6, <1>10, <1>11, <1>12, <1>13, <1>14, <1>15, <1>16, <1>17

(* ... is apart from all others, and is left over until it is copied.         *)
LEMMA BuildKeeps ==
  ASSUME SqInv, NEW d \in Desc, Unpublished \in Nat,
         Unpublished' = Unpublished + 1, Waiting' = Waiting,
         \A k \in 1 .. Waiting : Front(k)' = Front(k),
         \A m : m = Unpublished => /\ \A k \in 1 .. m : Left(k)' = Left(k)
                                   /\ Left(m + 1)' = d,
         wq.next \in Nat, wq'.pool = wq.pool, wq'.next = wq.next + 1,
         d.req_id = wq.pool[wq.next], UNCHANGED <<working, cqes, cur>>,
         \A e \in InRing \cup Taken \cup LeftOver : Apart(d, e)
  PROVE  /\ ContentsFit' /\ PostersApart' /\ TakenApart'
         /\ InRing' = InRing /\ Taken' = Taken
         /\ LeftOver' = LeftOver \cup {d}
<1>1. PICK m \in Nat : m = Unpublished
  OBVIOUS
<1>2. /\ \A k \in 1 .. m : Left(k)' = Left(k)
      /\ Left(m + 1)' = d /\ Unpublished' = m + 1
  BY <1>1
<1>3. /\ \A k \in 1 .. m + 1 : k \in 1 .. m \/ k = m + 1
      /\ \A k \in 1 .. m : k \in 1 .. m + 1
      /\ m + 1 \in 1 .. m + 1
  BY <1>1
<1>4. LeftOver = {Left(k) : k \in 1 .. m}
  BY <1>1 DEF LeftOver
<1>5. LeftOver' = {Left(k)' : k \in 1 .. m + 1}
  BY <1>2 DEF LeftOver
<1>6. LeftOver' = LeftOver \cup {d}
  <2>1. LeftOver' \subseteq LeftOver \cup {d}
    BY <1>2, <1>3, <1>4, <1>5
  <2>2. LeftOver \subseteq LeftOver'
    BY <1>2, <1>3, <1>4, <1>5
  <2>3. d \in LeftOver'
    BY <1>2, <1>3, <1>5
  <2> QED
    BY <2>1, <2>2, <2>3
<1>7. Taken' = Taken /\ InCq' = InCq /\ InHand' = InHand
  BY DEF Taken, InCq, InHand
<1>8. InRing' = InRing
  BY DEF InRing
<1>9. ContentsFit'
  <2>1. \A k \in 1 .. Waiting' : Front(k)' \in Desc
    BY DEF SqInv, ContentsFit
  <2>2. ASSUME NEW k \in 1 .. m + 1
        PROVE  Left(k)'.req_id = wq.pool[wq.next + 1 - (m + 1) + k - 1]
    <3>1. wq.next + 1 - (m + 1) + k - 1 = wq.next - m + k - 1
      OBVIOUS
    <3>2. CASE k \in 1 .. m
      <4>1. Left(k).req_id = wq.pool[wq.next - m + k - 1]
        BY <1>1, <3>2 DEF SqInv, ContentsFit
      <4> QED
        BY <1>2, <3>1, <3>2, <4>1
    <3>3. CASE k = m + 1
      <4>1. wq.next - m + k - 1 = wq.next
        BY <1>1, <3>3
      <4> QED
        BY <1>2, <3>1, <3>3, <4>1
    <3> QED
      BY <1>3, <3>2, <3>3
  <2> QED
    BY <1>2, <2>1, <2>2 DEF ContentsFit
<1>10. PostersApart'
  <2>1. ASSUME NEW j \in 1 .. m + 1, NEW k \in 1 .. m + 1, j # k
        PROVE  Apart(Left(j)', Left(k)')
    <3>1. CASE j \in 1 .. m /\ k \in 1 .. m
      BY <1>1, <1>2, <2>1, <3>1 DEF SqInv, PostersApart
    <3>2. CASE j = m + 1 /\ k \in 1 .. m
      BY <1>2, <1>4, <3>2
    <3>3. CASE j \in 1 .. m /\ k = m + 1
      BY <1>2, <1>4, <3>3, ApartTurned
    <3> QED
      BY <1>3, <2>1, <3>1, <3>2, <3>3
  <2>2. \A j, k \in 1 .. Unpublished' : j # k => Apart(Left(j)', Left(k)')
    BY <1>2, <2>1
  <2>3. \A j, k \in 1 .. Waiting' : j # k => Apart(Front(j)', Front(k)')
    BY DEF SqInv, PostersApart
  <2>4. ApartSets(InRing', LeftOver')
    BY <1>6, <1>8, ApartTurned DEF SqInv, PostersApart, ApartSets
  <2>5. ApartSets(LeftOver', Taken')
    BY <1>6, <1>7 DEF SqInv, PostersApart, ApartSets
  <2>6. ApartSets(InRing', Taken')
    BY <1>7, <1>8 DEF SqInv, PostersApart
  <2> QED
    BY <2>2, <2>3, <2>4, <2>5, <2>6 DEF PostersApart
<1>11. TakenApart'
  BY <1>7 DEF SqInv, TakenApart
<1> QED
  BY <1>6, <1>7, <1>8, <1>9, <1>10, <1>11

LEMMA SendWrStep ==
  ASSUME SqInv, NEW t \in SessionThreads, NEW id \in WrIds, SendWr(t, id)
  PROVE  SqInv' /\ PoolMove
<1> DEFINE d == NewDesc(id)
<1>1. /\ TypeOK' /\ LockFits' /\ SessionFits' /\ WindowFits' /\ DoorbellFits'
      /\ InSession /\ InSession' /\ Unpublished' = Unpublished + 1
  BY SendWrParts
<1>2. /\ ~Full(wq) /\ Unused(id) /\ UNCHANGED <<working, cqes, cur>>
      /\ wq' = CountPosted(GetNextWridIdx(wq, id)) /\ pos' = AdvancePos(pos)
  BY DEF SendWr, Accepts, deviceVars
<1>3. /\ d \in Desc /\ d.req_id = NextIdx(wq) /\ d.wr = id
      /\ wq'.pool = wq.pool /\ wq'.next = wq.next + 1
      /\ d.req_id = wq.pool[wq.next] /\ wq.next \in Nat
  BY <1>2, Take, PoolFacts
<1>4. \A e \in InRing \cup Taken \cup LeftOver : Apart(d, e)
  BY <1>2, NewIsApart
<1> HIDE DEF d
<1>5. /\ ContentsFit' /\ PostersApart' /\ TakenApart'
      /\ InRing' = InRing /\ Taken' = Taken /\ LeftOver' = LeftOver \cup {d}
  <2>1. /\ Unpublished \in Nat /\ Waiting' = Waiting
        /\ \A k \in 1 .. Waiting : Front(k)' = Front(k)
        /\ \A m : m = Unpublished => /\ \A k \in 1 .. m : Left(k)' = Left(k)
                                     /\ Left(m + 1)' = d
    BY SendWrParts DEF d
  <2> QED
    BY <1>1, <1>2, <1>3, <1>4, <2>1, BuildKeeps
<1>6. PP!PoolInv' /\ PoolMove
  <2>1. PartsAreNamed /\ PartsAreNamed'
    BY <1>1, PartsNamed, PTL DEF SqInv
  <2>2. /\ Outstanding' = Outstanding
        /\ SeqSet(Uncopied)' = SeqSet(Uncopied) \cup {d}
    BY <1>5, <2>1 DEF PartsAreNamed
  <2>3. OneEach(LeftOver) /\ OneEach(LeftOver)'
    BY <1>5, OneHolderEachNext, PTL DEF SqInv
  <2>4. OneEach(SeqSet(Uncopied)) /\ OneEach(SeqSet(Uncopied)')
    BY <2>1, <2>3 DEF PartsAreNamed
  <2>5. Holders(SeqSet(Uncopied))' =
          [Holders(SeqSet(Uncopied)) EXCEPT ![NextIdx(wq)] = id]
    BY <1>3, <2>2, <2>4, HoldersAdd
  <2>6. InSession' = InSession
    BY <1>1, SessionIsBoolean
  <2>7. PP!Build(id)
    BY <1>1, <1>2, <2>2, <2>5, <2>6, SameWq, SameFull DEF PP!Build
  <2> QED
    BY <2>7, PoolStep DEF PoolMove, PP!Next
<1> QED
  BY <1>1, <1>5, <1>6 DEF SqInv

----------------------------------------------------------------------------
(* Steps that move no request, or only forget those of the session.           *)
LEMMA QuietKeeps ==
  ASSUME SqInv, Waiting' = Waiting,
         \A k \in 1 .. Waiting : Front(k)' = Front(k),
         UNCHANGED <<working, cqes, cur>>,
         \/ Unpublished' = 0
         \/ /\ Unpublished' = Unpublished /\ wq' = wq
            /\ \A k \in 1 .. Unpublished : Left(k)' = Left(k)
  PROVE  /\ ContentsFit' /\ PostersApart' /\ TakenApart'
         /\ InRing' = InRing /\ Taken' = Taken
         /\ Unpublished = 0 => LeftOver = {}
         /\ Unpublished' = 0 => LeftOver' = {}
         /\ Unpublished' # 0 => LeftOver' = LeftOver
<1>1. Taken' = Taken /\ InCq' = InCq /\ InHand' = InHand
  BY DEF Taken, InCq, InHand
<1>2. InRing' = InRing
  BY DEF InRing
<1>3. /\ Unpublished = 0 => LeftOver = {}
      /\ Unpublished' = 0 => LeftOver' = {}
      /\ Unpublished' # 0 => LeftOver' = LeftOver
  BY DEF LeftOver
<1>4. LeftOver' \subseteq LeftOver
  BY <1>3
<1>5. ContentsFit'
  <2>1. \A k \in 1 .. Waiting' : Front(k)' \in Desc
    BY DEF SqInv, ContentsFit
  <2>2. CASE Unpublished' = 0
    BY <2>1, <2>2 DEF ContentsFit
  <2>3. CASE Unpublished' # 0
    BY <2>1, <2>3 DEF SqInv, ContentsFit
  <2> QED
    BY <2>2, <2>3
<1>6. PostersApart'
  <2>1. \A j, k \in 1 .. Waiting' : j # k => Apart(Front(j)', Front(k)')
    BY DEF SqInv, PostersApart
  <2>2. \A j, k \in 1 .. Unpublished' : j # k => Apart(Left(j)', Left(k)')
    <3>1. CASE Unpublished' = 0
      BY <3>1
    <3>2. CASE Unpublished' # 0
      BY <3>2 DEF SqInv, PostersApart
    <3> QED
      BY <3>1, <3>2
  <2>3. ApartSets(InRing', LeftOver') /\ ApartSets(LeftOver', Taken')
    BY <1>1, <1>2, <1>4 DEF SqInv, PostersApart, ApartSets
  <2>4. ApartSets(InRing', Taken')
    BY <1>1, <1>2 DEF SqInv, PostersApart
  <2> QED
    BY <2>1, <2>2, <2>3, <2>4 DEF PostersApart
<1>7. TakenApart'
  BY <1>1 DEF SqInv, TakenApart
<1> QED
  BY <1>1, <1>2, <1>3, <1>5, <1>6, <1>7

LEMMA NoHolders == Holders({}) = PP!NoneBuilding
  BY SameWq DEF Holders, HolderIn, PP!NoneBuilding

(* ... are no step of the pool, or the start, the end or the roll back of a   *)
(* session.                                                                   *)
LEMMA QuietPool ==
  ASSUME SqInv, TypeOK', SessionFits', WindowFits', InRing' = InRing,
         Taken' = Taken, Unpublished = 0 => LeftOver = {},
         Unpublished' = 0 => LeftOver' = {},
         Unpublished' # 0 => LeftOver' = LeftOver,
         \/ /\ InSession' <=> InSession
            /\ wq' = wq /\ Unpublished' = Unpublished
         \/ ~InSession /\ InSession' /\ wq' = wq /\ Unpublished' = 0
         \/ InSession /\ ~InSession' /\ wq' = wq /\ Unpublished = 0
         \/ InSession /\ ~InSession' /\ wq' = RollBackWq(wq, Unpublished)
  PROVE  PP!PoolInv' /\ PoolMove
<1>1. PartsAreNamed /\ PartsAreNamed'
  BY PartsNamed, PTL DEF SqInv
<1>2. Outstanding' = Outstanding
  BY <1>1 DEF PartsAreNamed
<1>3. ~InSession => Unpublished = 0
  BY DEF Unpublished
<1>4. ~InSession' => Unpublished' = 0
  BY DEF Unpublished
<1>5. CASE (InSession' <=> InSession) /\ wq' = wq /\ Unpublished' = Unpublished
  <2>1. LeftOver' = LeftOver
    BY <1>5
  <2>2. SeqSet(Uncopied)' = SeqSet(Uncopied)
    BY <1>1, <2>1 DEF PartsAreNamed
  <2>3. InSession' = InSession
    BY <1>5, SessionIsBoolean
  <2> QED
    BY <1>2, <1>5, <2>2, <2>3, PoolStep DEF PoolMove, PP!vars
<1>6. CASE ~InSession /\ InSession' /\ wq' = wq /\ Unpublished' = 0
  <2>1. SeqSet(Uncopied)' = {}
    BY <1>1, <1>6 DEF PartsAreNamed
  <2>2. Holders(SeqSet(Uncopied))' = PP!NoneBuilding
    BY <2>1, NoHolders
  <2>3. InSession' = TRUE
    BY <1>6, SessionIsBoolean
  <2>4. PP!Start
    BY <1>2, <1>6, <2>2, <2>3 DEF PP!Start
  <2> QED
    BY <2>4, PoolStep DEF PoolMove, PP!Next
<1>7. CASE InSession /\ ~InSession' /\ wq' = wq /\ Unpublished = 0
  <2>1. SeqSet(Uncopied)' = SeqSet(Uncopied) /\ Unpublished' = Unpublished
    BY <1>1, <1>4, <1>7 DEF PartsAreNamed
  <2>2. InSession' = FALSE
    BY <1>7, SessionIsBoolean
  <2>3. PP!Finish
    BY <1>2, <1>7, <2>1, <2>2 DEF PP!Finish
  <2> QED
    BY <2>3, PoolStep DEF PoolMove, PP!Next
<1>8. CASE InSession /\ ~InSession' /\ wq' = RollBackWq(wq, Unpublished)
  <2>1. SeqSet(Uncopied)' = {} /\ Unpublished' = 0
    BY <1>1, <1>4, <1>8 DEF PartsAreNamed
  <2>2. Holders(SeqSet(Uncopied))' = PP!NoneBuilding
    BY <2>1, NoHolders
  <2>3. InSession' = FALSE
    BY <1>8, SessionIsBoolean
  <2>4. PP!RollBack
    BY <1>2, <1>8, <2>1, <2>2, <2>3, SameWq DEF PP!RollBack
  <2> QED
    BY <2>4, PoolStep DEF PoolMove, PP!Next
<1> QED
  BY <1>5, <1>6, <1>7, <1>8

LEMMA QuietStep ==
  ASSUME SqInv, TypeOK', LockFits', SessionFits', WindowFits', DoorbellFits',
         UNCHANGED <<ring, deviceVars, cur>>, Published' = Published,
         Unpublished' = 0 \/ \A k \in 1 .. Unpublished : Left(k)' = Left(k),
         \/ /\ InSession' <=> InSession
            /\ wq' = wq /\ Unpublished' = Unpublished
         \/ ~InSession /\ InSession' /\ wq' = wq /\ Unpublished' = 0
         \/ InSession /\ ~InSession' /\ wq' = wq /\ Unpublished = 0
         \/ InSession /\ ~InSession' /\ wq' = RollBackWq(wq, Unpublished)
  PROVE  SqInv' /\ PoolMove
<1>1. /\ Waiting' = Waiting /\ UNCHANGED <<working, cqes, cur>>
      /\ \A k \in 1 .. Waiting : Front(k)' = Front(k)
  BY DEF Waiting, Front, deviceVars
<1>2. ~InSession' => Unpublished' = 0
  BY DEF Unpublished
<1>3. \/ Unpublished' = 0
      \/ /\ Unpublished' = Unpublished /\ wq' = wq
         /\ \A k \in 1 .. Unpublished : Left(k)' = Left(k)
  BY <1>2
<1>4. /\ ContentsFit' /\ PostersApart' /\ TakenApart'
      /\ InRing' = InRing /\ Taken' = Taken
      /\ Unpublished = 0 => LeftOver = {}
      /\ Unpublished' = 0 => LeftOver' = {}
      /\ Unpublished' # 0 => LeftOver' = LeftOver
  BY <1>1, <1>3, QuietKeeps
<1>5. PP!PoolInv' /\ PoolMove
  BY <1>4, QuietPool
<1> QED
  BY <1>4, <1>5 DEF SqInv

(* The lock of efa_post_send.                                                 *)
LEMMA PostSendStep ==
  ASSUME SqInv, NEW t \in Threads, PostSend(t)
  PROVE  SqInv' /\ PoolMove
<1>1. /\ t \in Callers /\ lock = NoThread /\ lock' = t /\ curbatch' = 0
      /\ at' = [at EXCEPT ![t] = "post_send"]
      /\ UNCHANGED <<wqVars, ringVars, state, sessionVars, deviceVars, cur>>
  BY DEF PostSend, Callers
<1>2. /\ LockFits' /\ at' \in [Callers -> Places] /\ at'[t] = "post_send"
      /\ lock' \in Callers \cup {NoThread}
      /\ \A u \in Callers \ {t} : at'[u] = at[u]
  BY <1>1, LockStep DEF SqInv, LockedPlaces, Places
<1>3. /\ ~InSession /\ Unpublished = 0 /\ curbatch = 0
      /\ \A u \in Callers : at[u] # "session"
  BY <1>1, WhoHolds DEF SqInv, DoorbellFits, LockedPlaces
<1>4. ~InSession' /\ Unpublished' = 0
  BY <1>1, <1>2 DEF InSession, Unpublished
<1>5. Published' = Published
  BY <1>1, <1>3, <1>4 DEF Published, wqVars
<1>6. TypeOK'
  BY <1>1, <1>2, SqSizes
     DEF SqInv, TypeOK, wqVars, ringVars, sessionVars, deviceVars
<1>7. SessionFits'
  BY <1>1, <1>2, <1>3, <1>4 DEF SqInv, SessionFits, sessionVars
<1>8. WindowFits'
  BY <1>1, <1>3, <1>4 DEF SqInv, WindowFits, wqVars, deviceVars
<1>9. DoorbellFits'
  BY <1>1, <1>3, <1>5, SqSizes
     DEF SqInv, DoorbellFits, Waiting, ringVars, deviceVars
<1> QED
  BY <1>1, <1>2, <1>3, <1>4, <1>5, <1>6, <1>7, <1>8, <1>9, QuietStep
     DEF ringVars, wqVars

(* The rest of a batch is announced before the unlock.                        *)
LEMMA RingsTheRest ==
  ASSUME SqInv, RingRest, Unpublished = 0, Unpublished' = 0, curbatch' = 0,
         UNCHANGED <<wqVars, devPc>>
  PROVE  /\ Published' = Published /\ DoorbellFits' /\ db' \in 0 .. U16 - 1
<1>1. /\ Published = pos.pc /\ pos.pc \in 0 .. U16 - 1 /\ db \in 0 .. U16 - 1
      /\ WrapSub(db, devPc, U16) + curbatch = Waiting
      /\ devPc \in 0 .. U16 - 1 /\ MaxBatchWr \in Nat \ {0} /\ U16 \in Nat \ {0}
  BY Typed, Window, SqSizes DEF SqInv, DoorbellFits, Published
<1>2. Published' = Published
  BY DEF Published, wqVars
<1>3. Waiting' = Waiting /\ Waiting = WrapSub(pos.pc, devPc, U16)
  BY <1>1, <1>2 DEF Waiting
<1>4. CASE curbatch # 0
  <2>1. db' = pos.pc
    BY <1>4 DEF RingRest
  <2>2. WrapSub(db', devPc', U16) + curbatch' = Waiting'
    BY <1>1, <1>3, <2>1 DEF WrapSub
  <2> QED
    BY <1>1, <1>2, <2>1, <2>2 DEF DoorbellFits
<1>5. CASE curbatch = 0
  <2>1. db' = db
    BY <1>5 DEF RingRest
  <2>2. WrapSub(db', devPc', U16) + curbatch' = Waiting'
    BY <1>1, <1>3, <1>5, <2>1
  <2> QED
    BY <1>1, <1>2, <2>1, <2>2 DEF DoorbellFits
<1> QED
  BY <1>4, <1>5

LEMMA PostSendDoneStep ==
  ASSUME SqInv, NEW t \in Threads, PostSendDone(t)
  PROVE  SqInv' /\ PoolMove
<1>1. /\ t \in Callers /\ at[t] = "post_send" /\ lock' = NoThread /\ curbatch' = 0
      /\ at' = [at EXCEPT ![t] = "idle"] /\ RingRest
      /\ UNCHANGED <<wqVars, ring, state, sessionVars, deviceVars, cur>>
  BY DEF PostSendDone, Callers
<1>2. lock = t /\ ~InSession /\ Unpublished = 0
  BY <1>1, WhoHolds DEF SqInv
<1>3. /\ LockFits' /\ at' \in [Callers -> Places] /\ at'[t] = "idle"
      /\ lock' \in Callers \cup {NoThread}
      /\ \A u \in Callers \ {t} : at'[u] = at[u]
  BY <1>1, <1>2, LockStep DEF SqInv, LockedPlaces, Places
<1>4. ~InSession' /\ Unpublished' = 0
  BY <1>1 DEF InSession, Unpublished
<1>5. Published' = Published /\ DoorbellFits' /\ db' \in 0 .. U16 - 1
  BY <1>1, <1>2, <1>4, RingsTheRest DEF deviceVars
<1>6. TypeOK'
  BY <1>1, <1>3, <1>5, SqSizes DEF SqInv, TypeOK, wqVars, sessionVars, deviceVars
<1>7. SessionFits'
  BY <1>1, <1>2, <1>3, <1>4 DEF SqInv, SessionFits, sessionVars
<1>8. WindowFits'
  BY <1>1, <1>2, <1>4 DEF SqInv, WindowFits, wqVars, deviceVars
<1> QED
  BY <1>1, <1>2, <1>3, <1>4, <1>5, <1>6, <1>7, <1>8, QuietStep DEF wqVars

(* The start of a session.                                                    *)
LEMMA WrStartStep ==
  ASSUME SqInv, NEW t \in SessionThreads, WrStart(t)
  PROVE  SqInv' /\ PoolMove
<1>1. /\ t \in Callers /\ lock = NoThread /\ lock' = t
      /\ at' = [at EXCEPT ![t] = "session"] /\ sessionErr' = "OK" /\ pending' = 0
      /\ phaseRb' = pos.phase /\ localQueue' = <<>>
      /\ UNCHANGED <<wqVars, ringVars, state, curbatch, deviceVars, cur>>
  BY DEF WrStart, Callers
<1>2. /\ LockFits' /\ at' \in [Callers -> Places] /\ at'[t] = "session"
      /\ lock' \in Callers \cup {NoThread} /\ t # NoThread
      /\ \A u \in Callers \ {t} : at'[u] = at[u]
  BY <1>1, LockStep, SqSizes DEF SqInv, LockedPlaces, Places
<1>3. /\ ~InSession /\ Unpublished = 0 /\ curbatch = 0
      /\ \A u \in Callers : at[u] # "session"
  BY <1>1, WhoHolds DEF SqInv, DoorbellFits, LockedPlaces
<1>4. InSession' /\ Unpublished' = 0
  BY <1>1, <1>2 DEF InSession, Unpublished
<1>5. Published' = Published
  BY <1>1, <1>3, <1>4 DEF Published, wqVars
<1>6. TypeOK'
  <2>1. pos.phase \in Phases /\ 0 \in 0 .. WqeCnt
    BY Typed, SqSizes DEF SqInv
  <2>2. localQueue' \in Seq(Desc)
    BY <1>1
  <2> QED
    BY <1>1, <1>2, <2>1, <2>2 DEF SqInv, TypeOK, wqVars, ringVars, deviceVars
<1>7. SessionFits'
  <2>1. Len(localQueue') = 0 /\ pending' = 0 /\ curbatch' = 0
    BY <1>1, <1>3
  <2> QED
    BY <1>2, <1>3, <1>4, <2>1 DEF SessionFits
<1>8. WindowFits'
  BY <1>1, <1>3, <1>4 DEF SqInv, WindowFits, wqVars, deviceVars
<1>9. DoorbellFits'
  BY <1>1, <1>5 DEF SqInv, DoorbellFits, Waiting, ringVars, deviceVars
<1> QED
  BY <1>1, <1>2, <1>3, <1>4, <1>5, <1>6, <1>7, <1>8, <1>9, QuietStep
     DEF ringVars, wqVars

(* A request or an argument that is refused.                                  *)
LEMMA SessionErrorStep ==
  ASSUME SqInv, NEW t \in SessionThreads, SessionError(t)
  PROVE  SqInv' /\ PoolMove
<1>1. /\ sessionErr' \in {"EINVAL", "ENOMEM"}
      /\ UNCHANGED <<wqVars, ringVars, state, lock, at, curbatch, localQueue,
                     pending, phaseRb, deviceVars, cur>>
  BY DEF SessionError
<1>2. LockFits' /\ (InSession' <=> InSession)
  BY <1>1, LockStays DEF SqInv
<1>3. Unpublished' = Unpublished
  BY <1>1, <1>2 DEF Unpublished
<1>4. Published' = Published
  BY <1>1, <1>3 DEF Published, wqVars
<1>5. \A k \in 1 .. Unpublished : Left(k)' = Left(k)
  BY <1>1, <1>3 DEF Left
<1>6. TypeOK'
  BY <1>1 DEF SqInv, TypeOK, wqVars, ringVars, deviceVars
<1>7. SessionFits'
  BY <1>1, <1>2 DEF SqInv, SessionFits
<1>8. WindowFits'
  BY <1>1, <1>3 DEF SqInv, WindowFits, wqVars, deviceVars
<1>9. DoorbellFits'
  BY <1>1, <1>4 DEF SqInv, DoorbellFits, Waiting, ringVars, deviceVars
<1> QED
  BY <1>1, <1>2, <1>3, <1>4, <1>5, <1>6, <1>7, <1>8, <1>9, QuietStep
     DEF ringVars, wqVars

(* A session that is rolled back, whichever way it ends.                      *)
LEMMA RollBackStep ==
  ASSUME SqInv, NEW t \in Callers, NEW place \in Places \ LockedPlaces,
         at[t] = "session", RollBack, UnlockTo(t, place),
         UNCHANGED <<ringVars, state, curbatch, pending, phaseRb, sessionErr,
                     deviceVars, cur>>
  PROVE  SqInv' /\ PoolMove
<1>1. /\ lock' = NoThread /\ at' = [at EXCEPT ![t] = place] /\ localQueue' = <<>>
      /\ wq' = RollBackWq(wq, pending) /\ pos' = RollBackPos(pos, pending, phaseRb)
  BY DEF RollBack, UnlockTo
<1>2. /\ lock = t /\ InSession /\ Unpublished = pending /\ t # NoThread
      /\ curbatch = 0
  BY WhoHolds, SqSizes DEF SqInv, SessionFits
<1>3. /\ LockFits' /\ at' \in [Callers -> Places] /\ at'[t] = place
      /\ lock' \in Callers \cup {NoThread}
      /\ \A u \in Callers \ {t} : at'[u] = at[u]
  BY <1>1, <1>2, LockStep DEF SqInv
<1>4. ~InSession' /\ Unpublished' = 0
  BY <1>1 DEF InSession, Unpublished
<1>5. /\ Published \in 0 .. U16 - 1 /\ Waiting \in 0 .. DescCnt
      /\ devPc \in 0 .. U16 - 1 /\ U16 \in Nat \ {0}
      /\ pending \in 0 .. WqeCnt
  BY Window, Typed, SqSizes DEF SqInv
<1>6. /\ wq \in WqType /\ pending \in Nat /\ pending <= wq.next
      /\ wq.next <= WqeCnt
  BY <1>2, PoolFacts
<1>7. wq' \in WqType
  BY <1>1, <1>6, BackWq
<1>8. pos' \in PosType /\ pos'.pc = Published
  <2>1. pos' = [pc |-> Published, phase |-> phaseRb]
    BY <1>1, <1>2 DEF RollBackPos, Published
  <2> QED
    BY <1>5, <2>1 DEF PosType, SqInv, TypeOK
<1>9. Published' = Published
  BY <1>4, <1>5, <1>8 DEF Published, WrapSub
<1>10. TypeOK'
  <2>1. localQueue' \in Seq(Desc)
    BY <1>1
  <2> QED
    BY <1>3, <1>7, <1>8, <2>1 DEF SqInv, TypeOK, ringVars, deviceVars
<1>11. \A u \in Callers : at'[u] # "session"
  BY <1>1, <1>3, SqSizes DEF LockFits, LockedPlaces
<1>12. SessionFits'
  BY <1>1, <1>4, <1>11 DEF SessionFits
<1>13. WindowFits'
  <2>1. WrapSub(pos'.pc, devPc', U16) = Waiting
    BY <1>8 DEF Waiting, deviceVars
  <2> QED
    BY <1>4, <1>5, <2>1 DEF WindowFits
<1>14. DoorbellFits'
  BY <1>2, <1>9 DEF SqInv, DoorbellFits, Waiting, ringVars, deviceVars
<1> QED
  BY <1>1, <1>2, <1>3, <1>4, <1>9, <1>10, <1>12, <1>13, <1>14, QuietStep
     DEF ringVars

(* efa_send_wr_complete up to its loop.                                       *)
LEMMA WrCompleteStep ==
  ASSUME SqInv, NEW t \in SessionThreads, WrComplete(t)
  PROVE  SqInv' /\ PoolMove
<1>1. /\ t \in Callers /\ at[t] = "session" /\ curbatch' = 0
      /\ at' = [at EXCEPT ![t] = "copying"]
      /\ UNCHANGED <<wqVars, ringVars, state, lock, sessionVars, deviceVars, cur>>
  BY DEF WrComplete, Callers
<1>2. /\ lock = t /\ InSession /\ Unpublished = pending /\ t # NoThread
      /\ curbatch = 0 /\ pending = Len(localQueue)
  BY <1>1, WhoHolds, SqSizes DEF SqInv, SessionFits
<1>3. /\ LockFits' /\ at' \in [Callers -> Places] /\ at'[t] = "copying"
      /\ lock' \in Callers \cup {NoThread}
      /\ \A u \in Callers \ {t} : at'[u] = at[u]
  BY <1>1, <1>2, LockStep DEF SqInv, LockedPlaces, Places
<1>4. InSession' /\ Unpublished' = Unpublished
  BY <1>1, <1>2, <1>3 DEF InSession, Unpublished, sessionVars
<1>5. Published' = Published
  BY <1>1, <1>4 DEF Published, wqVars
<1>6. \A k \in 1 .. Unpublished : Left(k)' = Left(k)
  BY <1>1, <1>4 DEF Left, sessionVars
<1>7. TypeOK'
  BY <1>1, <1>3, SqSizes DEF SqInv, TypeOK, wqVars, ringVars, sessionVars, deviceVars
<1>8. SessionFits'
  BY <1>1, <1>2, <1>3, <1>4 DEF SqInv, SessionFits, sessionVars
<1>9. WindowFits'
  BY <1>1, <1>4 DEF SqInv, WindowFits, wqVars, deviceVars
<1>10. DoorbellFits'
  BY <1>1, <1>2, <1>5 DEF SqInv, DoorbellFits, Waiting, ringVars, deviceVars
<1> QED
  BY <1>1, <1>2, <1>3, <1>4, <1>5, <1>6, <1>7, <1>8, <1>9, <1>10, QuietStep
     DEF ringVars, wqVars

(* ... and after its loop.                                                    *)
LEMMA WrCompleteDoneStep ==
  ASSUME SqInv, NEW t \in SessionThreads, WrCompleteDone(t)
  PROVE  SqInv' /\ PoolMove
<1>1. /\ t \in Callers /\ at[t] = "copying" /\ pending = 0 /\ lock' = NoThread
      /\ curbatch' = 0 /\ at' = [at EXCEPT ![t] = "returnSent"] /\ RingRest
      /\ localQueue' = <<>>
      /\ UNCHANGED <<wqVars, ring, state, pending, phaseRb, sessionErr,
                     deviceVars, cur>>
  BY DEF WrCompleteDone, UnlockTo, Callers
<1>2. lock = t /\ InSession /\ Unpublished = 0
  BY <1>1, WhoHolds DEF SqInv
<1>3. /\ LockFits' /\ at' \in [Callers -> Places] /\ at'[t] = "returnSent"
      /\ lock' \in Callers \cup {NoThread}
      /\ \A u \in Callers \ {t} : at'[u] = at[u]
  BY <1>1, <1>2, LockStep DEF SqInv, LockedPlaces, Places
<1>4. ~InSession' /\ Unpublished' = 0
  BY <1>1 DEF InSession, Unpublished
<1>5. Published' = Published /\ DoorbellFits' /\ db' \in 0 .. U16 - 1
  BY <1>1, <1>2, <1>4, RingsTheRest DEF deviceVars
<1>6. TypeOK'
  <2>1. localQueue' \in Seq(Desc)
    BY <1>1
  <2> QED
    BY <1>1, <1>3, <1>5, <2>1, SqSizes DEF SqInv, TypeOK, wqVars, deviceVars
<1>7. SessionFits'
  <2>1. \A u \in Callers : at'[u] # "session"
    BY <1>1, <1>3, SqSizes DEF LockFits
  <2> QED
    BY <1>1, <1>4, <2>1 DEF SessionFits
<1>8. WindowFits'
  BY <1>1, <1>2, <1>4 DEF SqInv, WindowFits, wqVars, deviceVars
<1> QED
  BY <1>1, <1>2, <1>3, <1>4, <1>5, <1>6, <1>7, <1>8, QuietStep DEF wqVars

(* Steps outside the lock.                                                    *)
LEMMA WrReturnStep ==
  ASSUME SqInv, NEW t \in SessionThreads, WrReturn(t)
  PROVE  SqInv' /\ PoolMove
<1>1. /\ t \in Callers /\ at[t] \in {"returnSent", "returnErr"}
      /\ at' = [at EXCEPT ![t] = "idle"]
      /\ UNCHANGED <<wqVars, ringVars, state, lock, curbatch, sessionVars,
                     deviceVars, cur>>
  BY DEF WrReturn, Callers
<1>2. lock # t
  BY <1>1, WhoHolds DEF SqInv, LockedPlaces
<1>3. /\ LockFits' /\ at' \in [Callers -> Places] /\ at'[t] = "idle"
      /\ lock' \in Callers \cup {NoThread}
      /\ \A u \in Callers \ {t} : at'[u] = at[u]
  BY <1>1, <1>2, LockStep DEF SqInv, LockedPlaces, Places
<1>4. (InSession' <=> InSession) /\ Unpublished' = Unpublished
  <2>1. lock # NoThread => lock \in Callers \ {t}
    BY <1>2 DEF SqInv, TypeOK
  <2>2. InSession' <=> InSession
    BY <1>1, <1>3, <2>1 DEF InSession
  <2> QED
    BY <1>1, <2>2 DEF Unpublished, sessionVars
<1>5. Published' = Published
  BY <1>1, <1>4 DEF Published, wqVars
<1>6. \A k \in 1 .. Unpublished : Left(k)' = Left(k)
  BY <1>1, <1>4 DEF Left, sessionVars
<1>7. TypeOK'
  BY <1>1, <1>3 DEF SqInv, TypeOK, wqVars, ringVars, sessionVars, deviceVars
<1>8. SessionFits'
  BY <1>1, <1>3, <1>4 DEF SqInv, SessionFits, sessionVars
<1>9. WindowFits'
  BY <1>1, <1>4 DEF SqInv, WindowFits, wqVars, deviceVars
<1>10. DoorbellFits'
  BY <1>1, <1>5 DEF SqInv, DoorbellFits, Waiting, ringVars, deviceVars
<1> QED
  BY <1>1, <1>3, <1>4, <1>5, <1>6, <1>7, <1>8, <1>9, <1>10, QuietStep
     DEF ringVars, wqVars

LEMMA ModifyRtsStep ==
  ASSUME SqInv, ModifyRts
  PROVE  SqInv' /\ PoolMove
<1>1. /\ state' = "RTS"
      /\ UNCHANGED <<wqVars, ringVars, lock, at, curbatch, sessionVars,
                     deviceVars, cur>>
  BY DEF ModifyRts
<1>2. LockFits' /\ (InSession' <=> InSession)
  BY <1>1, LockStays DEF SqInv
<1>3. Unpublished' = Unpublished
  BY <1>1, <1>2 DEF Unpublished, sessionVars
<1>4. Published' = Published
  BY <1>1, <1>3 DEF Published, wqVars
<1>5. \A k \in 1 .. Unpublished : Left(k)' = Left(k)
  BY <1>1, <1>3 DEF Left, sessionVars
<1>6. TypeOK'
  BY <1>1 DEF SqInv, TypeOK, wqVars, ringVars, sessionVars, deviceVars
<1>7. SessionFits'
  BY <1>1, <1>2 DEF SqInv, SessionFits, sessionVars
<1>8. WindowFits'
  BY <1>1, <1>3 DEF SqInv, WindowFits, wqVars, deviceVars
<1>9. DoorbellFits'
  BY <1>1, <1>4 DEF SqInv, DoorbellFits, Waiting, ringVars, deviceVars
<1> QED
  BY <1>1, <1>2, <1>3, <1>4, <1>5, <1>6, <1>7, <1>8, <1>9, QuietStep
     DEF ringVars, wqVars

----------------------------------------------------------------------------
(* One chunk of efa_send_wr_complete's loop. It is neither empty nor longer   *)
(* than the session, the rest of the ring or the rest of the batch.           *)
LEMMA ChunkFits ==
  ASSUME SqInv, pending > 0, InSession
  PROVE  /\ Chunk \in Nat /\ 1 <= Chunk /\ Chunk <= pending
         /\ Slot(Published) + Chunk <= DescCnt /\ curbatch + Chunk <= MaxBatchWr
<1>1. /\ Published \in 0 .. U16 - 1 /\ Published = WrapSub(pos.pc, pending, U16)
  BY Window DEF SqInv, Published, Unpublished
<1>2. Slot(Published) \in 0 .. DescCnt - 1
  BY <1>1, SlotInRing, SqSizes DEF Slots
<1>3. /\ pending \in Nat /\ curbatch \in Nat /\ curbatch < MaxBatchWr
      /\ MaxBatchWr \in Nat /\ DescCnt \in Nat /\ WqeCnt = DescCnt
  BY Typed, SqSizes DEF SqInv, DoorbellFits
<1>4. Chunk = Least(Least(pending, DescCnt - Slot(Published)),
                    MaxBatchWr - curbatch)
  BY <1>1, <1>3 DEF Chunk
<1> QED
  BY <1>2, <1>3, <1>4 DEF Least

LEMMA CopyChunkParts ==
  ASSUME SqInv, NEW t \in SessionThreads, CopyChunk(t),
         NEW c, c = Chunk, NEW n, n = Waiting, NEW m, m = Unpublished
  PROVE  /\ TypeOK' /\ LockFits' /\ SessionFits' /\ WindowFits' /\ DoorbellFits'
         /\ InSession /\ InSession' /\ UNCHANGED <<wq, working, cqes, cur>>
         /\ c \in Nat /\ 1 <= c /\ c <= m /\ n \in Nat /\ m \in 0 .. WqeCnt
         /\ Unpublished' = m - c /\ Waiting' = n + c
         /\ \A k \in 1 .. n : Front(k)' = Front(k)
         /\ \A j \in 1 .. c : Front(n + j)' = Left(j)
         /\ \A k \in 1 .. m - c : Left(k)' = Left(k + c)
<1> DEFINE first == Slot(WrapSub(pos.pc, pending, U16))
<1>1. /\ t \in Callers /\ at[t] = "copying" /\ pending > 0
      /\ ring' = [s \in Slots |->
                    IF s \in first .. first + Chunk - 1
                    THEN localQueue[Len(localQueue) - pending + (s - first) + 1]
                    ELSE ring[s]]
      /\ pending' = pending - Chunk
      /\ RingWhenFull(Chunk, WrapSub(pos.pc, pending', U16))
      /\ UNCHANGED <<wqVars, state, lock, at, localQueue, phaseRb, sessionErr,
                     deviceVars, cur>>
  BY DEF CopyChunk, LocalIdx, Callers
<1>2. /\ lock = t /\ InSession /\ Unpublished = pending /\ t # NoThread
      /\ LockFits' /\ InSession'
  BY <1>1, WhoHolds, LockStays, SqSizes DEF SqInv
<1>3. /\ n \in Nat /\ m \in 0 .. WqeCnt /\ m = pending /\ n + m <= DescCnt
      /\ WrapSub(pos.pc, devPc, U16) = n + m
      /\ pos.pc \in 0 .. U16 - 1 /\ devPc \in 0 .. U16 - 1
      /\ Published \in 0 .. U16 - 1 /\ Ahead(devPc, n) = Published
      /\ Published = WrapSub(pos.pc, pending, U16)
      /\ DescCnt \in Nat /\ DescCnt < U16 /\ WqeCnt = DescCnt /\ U16 \in Nat
  BY <1>2, Window, Typed, SqSizes DEF SqInv, Published
<1>4. /\ c \in Nat /\ 1 <= c /\ c <= m /\ first = Slot(Published)
      /\ first + c <= DescCnt /\ curbatch + c <= MaxBatchWr
      /\ first \in 0 .. DescCnt - 1
  <2>1. first = Slot(Published) /\ pending > 0
    BY <1>1, <1>3
  <2>2. first \in 0 .. DescCnt - 1
    BY <1>3, <2>1, SlotInRing DEF Slots
  <2> QED
    BY <1>2, <1>3, <2>1, <2>2, ChunkFits
<1> HIDE DEF first
<1>5. pending' = m - c /\ Unpublished' = m - c /\ m - c \in 0 .. m
  BY <1>1, <1>2, <1>3, <1>4 DEF Unpublished
<1>6. /\ Published' = WrapSub(pos.pc, m - c, U16) /\ Published' \in 0 .. U16 - 1
      /\ Waiting' = n + c
  <2>1. devPc' = devPc /\ pos' = pos
    BY <1>1 DEF wqVars, deviceVars
  <2>2. Published' = WrapSub(pos.pc, m - c, U16)
    BY <1>5, <2>1 DEF Published
  <2>3. PICK p \in 0 .. n + m : p = m - c
    BY <1>3, <1>4
  <2>4. /\ WrapSub(pos.pc, p, U16) \in 0 .. U16 - 1
        /\ WrapSub(WrapSub(pos.pc, p, U16), devPc, U16) = n + m - p
    BY <1>3, <2>3, DistanceMoves
  <2>5. n + m - p = n + c
    BY <1>3, <1>4, <2>3
  <2> QED
    BY <2>1, <2>2, <2>3, <2>4, <2>5 DEF Waiting
<1>7. ASSUME NEW j \in Nat, j < c
      PROVE  Slot(Ahead(devPc, n + j)) = first + j
  <2>1. Slot(Ahead(Published, j)) = first + j
    BY <1>3, <1>4, <1>7, SlotRun
  <2>2. Ahead(Ahead(devPc, n), j) = Ahead(devPc, n + j)
    <3>1. n \in 0 .. U16 /\ j \in 0 .. U16 /\ n + j <= U16
      BY <1>3, <1>4, <1>7
    <3> QED
      BY <1>3, <3>1, AheadAhead
  <2> QED
    BY <1>3, <2>1, <2>2
<1>8. /\ localQueue \in Seq(Desc) /\ Len(localQueue) \in Nat
      /\ m <= Len(localQueue) /\ ring \in [Slots -> Desc \cup {NoDesc}]
  BY <1>2, <1>3, Typed DEF SqInv, SessionFits, TypeOK
<1>9. \A s \in Slots : s \notin first .. first + c - 1 => ring'[s] = ring[s]
  BY <1>1
<1>10. ASSUME NEW j \in 1 .. c
       PROVE  first + (j - 1) \in Slots /\ ring'[first + (j - 1)] = Left(j)
  <2>1. PICK s \in Slots : s = first + (j - 1)
    BY <1>3, <1>4 DEF Slots
  <2>2. PICK b \in Nat, e \in Nat :
           /\ b = first /\ e = first + c - 1 /\ s \in b .. e /\ s - b = j - 1
    BY <1>3, <1>4, <2>1
  <2>3. PICK len \in Nat : len = Len(localQueue) /\ m <= len
    BY <1>8
  <2> m \in Nat /\ j \in Nat
    BY <1>3, <1>4
  <2>4. PICK i \in Nat : i = len - m + j
    BY <2>3
  <2>5. i = Len(localQueue) - pending + (s - b) + 1
    <3>1. pending = m /\ Len(localQueue) = len /\ s - b = j - 1
      BY <1>3, <2>2, <2>3
    <3> QED
      BY <2>4, <3>1
  <2>6. ring'[s] = localQueue[Len(localQueue) - pending + (s - first) + 1]
    BY <1>1, <1>4, <2>2
  <2>7. ring'[s] = localQueue[i]
    BY <2>2, <2>5, <2>6
  <2>8. Left(j) = localQueue[i]
    BY <2>3, <2>4 DEF Left
  <2> QED
    BY <2>1, <2>7, <2>8
<1>11. ASSUME NEW k \in 1 .. n PROVE Front(k)' = Front(k)
  <2>1. /\ k - 1 \in 0 .. DescCnt - 1 /\ Ahead(devPc, k - 1) \in Nat
    <3>1. PICK i \in 0 .. U16 : i = k - 1 /\ i \in 0 .. DescCnt - 1
      BY <1>3
    <3>2. Ahead(devPc, i) \in 0 .. U16 - 1
      BY <1>3, <3>1, AheadValue
    <3> QED
      BY <1>3, <3>1, <3>2
  <2>2. Slot(Ahead(devPc, k - 1)) \in Slots
    BY <2>1, SlotInRing
  <2>3. Slot(Ahead(devPc, k - 1)) \notin first .. first + c - 1
    <3> SUFFICES ASSUME Slot(Ahead(devPc, k - 1)) \in first .. first + c - 1
                 PROVE  FALSE
      OBVIOUS
    <3>1. PICK j \in Nat : j < c /\ Slot(Ahead(devPc, k - 1)) = first + j
      <4>1. Slot(Ahead(devPc, k - 1)) - first \in Nat
        BY <1>4
      <4> QED
        BY <1>4, <4>1
    <3>2. Slot(Ahead(devPc, n + j)) = Slot(Ahead(devPc, k - 1))
      BY <1>7, <3>1
    <3>3. PICK p \in 0 .. DescCnt - 1 : p = n + j
      BY <1>3, <1>4, <3>1
    <3>4. p = k - 1
      BY <1>3, <2>1, <3>2, <3>3, SlotsApart
    <3> QED
      BY <1>3, <3>1, <3>3, <3>4
  <2> QED
    BY <1>1, <1>9, <2>2, <2>3 DEF Front, deviceVars
<1>12. ASSUME NEW j \in 1 .. c PROVE Front(n + j)' = Left(j)
  <2>1. PICK i \in Nat, p \in Nat :
           i = j - 1 /\ i < c /\ p = n + i /\ p = n + j - 1
    BY <1>3, <1>4
  <2>2. Slot(Ahead(devPc, p)) = first + i
    BY <1>7, <2>1
  <2>3. ring'[first + i] = Left(j)
    BY <1>10, <2>1
  <2>4. PICK q \in Nat : q = n + j
    BY <1>3, <1>4
  <2>5. q - 1 = p
    BY <1>3, <1>4, <2>1, <2>4
  <2>6. Front(q)' = ring'[Slot(Ahead(devPc', p))]
    BY <2>5 DEF Front
  <2> QED
    BY <1>1, <2>2, <2>3, <2>4, <2>6 DEF deviceVars
<1>13. ASSUME NEW k \in 1 .. m - c PROVE Left(k)' = Left(k + c)
  <2>1. Len(localQueue) - (m - c) + k = Len(localQueue) - m + (k + c)
    BY <1>3, <1>4, <1>8
  <2> QED
    BY <1>1, <1>5, <2>1 DEF Left
<1>14. WindowFits'
  <2>1. WrapSub(pos'.pc, devPc', U16) = n + m
    BY <1>1, <1>3 DEF wqVars, deviceVars
  <2> QED
    BY <1>3, <1>4, <1>5, <2>1 DEF WindowFits
<1>15. SessionFits'
  <2>1. \A u \in Callers : at'[u] # "session"
    BY <1>1, <1>2 DEF SqInv, LockFits
  <2>2. pending' <= Len(localQueue')
    BY <1>1, <1>3, <1>4, <1>5, <1>8
  <2> QED
    BY <1>2, <2>1, <2>2 DEF SessionFits
<1>16. DoorbellFits' /\ db' \in 0 .. U16 - 1 /\ curbatch' \in 0 .. MaxBatchWr
  <2>1. RingWhenFull(c, Published')
    BY <1>1, <1>5, <1>6
  <2>2. lock' # NoThread /\ devPc' = devPc
    BY <1>1, <1>2 DEF deviceVars
  <2> QED
    BY <1>4, <1>6, <2>1, <2>2, RingsWhenFull
<1>17. TypeOK'
  <2>1. ring' \in [Slots -> Desc \cup {NoDesc}]
    <3>1. ASSUME NEW s \in Slots PROVE ring'[s] \in Desc \cup {NoDesc}
      <4>1. CASE s \in first .. first + c - 1
        <5>1. PICK j \in 1 .. c : s = first + (j - 1)
          <6>1. PICK b \in Nat, e \in Nat :
                   b = first /\ e = first + c - 1 /\ s \in b .. e
            BY <1>4, <4>1
          <6>2. PICK i \in 1 .. c : i = s - b + 1
            BY <1>4, <6>1
          <6>3. s = b + (i - 1)
            BY <6>1, <6>2
          <6> QED
            BY <6>1, <6>2, <6>3
        <5>2. PICK i \in 1 .. Len(localQueue) : i = Len(localQueue) - m + j
          <6>1. PICK len \in Nat : len = Len(localQueue) /\ m <= len
            BY <1>8
          <6>2. len - m + j \in 1 .. len
            BY <1>3, <1>4, <6>1
          <6> QED
            BY <6>1, <6>2
        <5>3. ring'[s] = localQueue[i]
          BY <1>2, <1>10, <5>1, <5>2 DEF Left
        <5> QED
          BY <1>8, <5>2, <5>3
      <4>2. CASE s \notin first .. first + c - 1
        BY <1>8, <1>9, <4>2
      <4> QED
        BY <4>1, <4>2
    <3> QED
      BY <1>1, <3>1
  <2>2. pending' \in 0 .. WqeCnt
    BY <1>3, <1>5
  <2> QED
    BY <1>1, <1>16, <2>1, <2>2 DEF SqInv, TypeOK, wqVars, deviceVars
<1> QED
  BY <1>1, <1>2, <1>3, <1>4, <1>5, <1>6, <1>11, <1>12, <1>13, <1>14, <1>15,
     <1>16, <1>17 DEF wqVars, deviceVars

(* The chunk's requests move from the session to the ring.                    *)
LEMMA PublishKeeps ==
  ASSUME SqInv, NEW c \in Nat, NEW n \in Nat, NEW m \in Nat, c <= m,
         n = Waiting, m = Unpublished, Unpublished' = m - c, Waiting' = n + c,
         \A k \in 1 .. n : Front(k)' = Front(k),
         \A j \in 1 .. c : Front(n + j)' = Left(j),
         \A k \in 1 .. m - c : Left(k)' = Left(k + c),
         UNCHANGED <<wq, working, cqes, cur>>
  PROVE  /\ ContentsFit' /\ PostersApart' /\ TakenApart' /\ Taken' = Taken
         /\ InRing' = InRing \cup {Left(j) : j \in 1 .. c}
         /\ LeftOver' = {Left(k) : k \in c + 1 .. m}
         /\ LeftOver = {Left(k) : k \in 1 .. m}
<1>1. \A k \in 1 .. n + c : k \in 1 .. n \/ \E j \in 1 .. c : k = n + j
  <2> SUFFICES ASSUME NEW k \in 1 .. n + c, k \notin 1 .. n
               PROVE  \E j \in 1 .. c : k = n + j
    OBVIOUS
  <2>1. k - n \in 1 .. c /\ k = n + (k - n)
    OBVIOUS
  <2> QED
    BY <2>1
<1>2. \A k \in 1 .. n : k \in 1 .. n + c
  OBVIOUS
<1>3. \A j \in 1 .. c : n + j \in 1 .. n + c /\ j \in 1 .. m
  OBVIOUS
<1>4. \A k \in 1 .. m - c : k + c \in c + 1 .. m
  OBVIOUS
<1>5. \A k \in c + 1 .. m : \E j \in 1 .. m - c : k = j + c
  <2> SUFFICES ASSUME NEW k \in c + 1 .. m
               PROVE  \E j \in 1 .. m - c : k = j + c
    OBVIOUS
  <2>1. k - c \in 1 .. m - c /\ k = k - c + c
    OBVIOUS
  <2> QED
    BY <2>1
<1>6. \A k \in c + 1 .. m : k \in 1 .. m /\ k \notin 1 .. c
  OBVIOUS
<1> DEFINE moved == {Left(j) : j \in 1 .. c}
           rest == {Left(k) : k \in c + 1 .. m}
<1>7. InRing = {Front(k) : k \in 1 .. n} /\ LeftOver = {Left(k) : k \in 1 .. m}
  BY DEF InRing, LeftOver
<1>8. InRing' = InRing \cup moved
  <2>1. InRing' = {Front(k)' : k \in 1 .. n + c}
    BY DEF InRing
  <2>2. InRing' \subseteq InRing \cup moved
    BY <1>1, <1>7, <2>1
  <2>3. InRing \subseteq InRing'
    BY <1>2, <1>7, <2>1
  <2>4. moved \subseteq InRing'
    BY <1>3, <2>1
  <2> QED
    BY <2>2, <2>3, <2>4
<1>9. LeftOver' = rest
  <2>1. LeftOver' = {Left(k)' : k \in 1 .. m - c}
    BY DEF LeftOver
  <2>2. LeftOver' \subseteq rest
    BY <1>4, <2>1
  <2>3. rest \subseteq LeftOver'
    BY <1>5, <2>1
  <2> QED
    BY <2>2, <2>3
<1>10. Taken' = Taken /\ InCq' = InCq /\ InHand' = InHand
  BY DEF Taken, InCq, InHand
<1>11. moved \subseteq LeftOver /\ rest \subseteq LeftOver
  BY <1>3, <1>6, <1>7
<1>12. ContentsFit'
  <2>1. LeftOver \subseteq Desc
    BY OfDesc DEF SqInv
  <2>2. \A k \in 1 .. n + c : Front(k)' \in Desc
    BY <1>1, <1>3, <1>7, <2>1 DEF SqInv, ContentsFit
  <2>3. ASSUME NEW k \in 1 .. m - c
        PROVE  Left(k)'.req_id = wq.pool[wq.next - (m - c) + k - 1]
    <3>1. PICK j \in 1 .. m : j = k + c
      BY <1>4, <1>6
    <3>2. Left(j).req_id = wq.pool[wq.next - m + j - 1]
      BY DEF SqInv, ContentsFit
    <3>3. wq.next \in Nat
      BY PoolFacts
    <3>4. wq.next - m + j - 1 = wq.next - (m - c) + k - 1
      BY <3>1, <3>3
    <3> QED
      BY <3>1, <3>2, <3>4
  <2> QED
    BY <2>2, <2>3 DEF ContentsFit
<1>13. PostersApart'
  <2>1. ASSUME NEW j \in 1 .. n + c, NEW k \in 1 .. n + c, j # k
        PROVE  Apart(Front(j)', Front(k)')
    <3>1. CASE j \in 1 .. n /\ k \in 1 .. n
      BY <2>1, <3>1 DEF SqInv, PostersApart
    <3>2. CASE j \in 1 .. n /\ k \notin 1 .. n
      <4>1. Front(j)' \in InRing /\ Front(k)' \in LeftOver
        BY <1>1, <1>3, <1>7, <3>2
      <4> QED
        BY <4>1 DEF SqInv, PostersApart, ApartSets
    <3>3. CASE j \notin 1 .. n /\ k \in 1 .. n
      <4>1. Front(k)' \in InRing /\ Front(j)' \in LeftOver
        BY <1>1, <1>3, <1>7, <3>3
      <4> QED
        BY <4>1, ApartTurned DEF SqInv, PostersApart, ApartSets
    <3>4. CASE j \notin 1 .. n /\ k \notin 1 .. n
      <4>1. PICK i \in 1 .. c, l \in 1 .. c : j = n + i /\ k = n + l
        BY <1>1, <3>4
      <4>2. i # l /\ i \in 1 .. m /\ l \in 1 .. m
        BY <1>3, <2>1, <4>1
      <4>3. Apart(Left(i), Left(l))
        BY <4>2 DEF SqInv, PostersApart
      <4> QED
        BY <4>1, <4>3
    <3> QED
      BY <3>1, <3>2, <3>3, <3>4
  <2>2. ASSUME NEW j \in 1 .. m - c, NEW k \in 1 .. m - c, j # k
        PROVE  Apart(Left(j)', Left(k)')
    <3>1. j + c \in 1 .. m /\ k + c \in 1 .. m /\ j + c # k + c
      BY <1>4, <1>6, <2>2
    <3>2. Apart(Left(j + c), Left(k + c))
      BY <3>1 DEF SqInv, PostersApart
    <3> QED
      BY <3>2
  <2>3. ApartSets(moved, rest)
    <3> SUFFICES ASSUME NEW i \in 1 .. c, NEW k \in c + 1 .. m
                 PROVE  Apart(Left(i), Left(k))
      BY DEF ApartSets
    <3>1. i \in 1 .. m /\ k \in 1 .. m /\ i # k
      BY <1>3, <1>6
    <3> QED
      BY <3>1 DEF SqInv, PostersApart
  <2> HIDE DEF moved, rest
  <2>4. ApartSets(InRing', LeftOver')
    BY <1>8, <1>9, <1>11, <2>3 DEF SqInv, PostersApart, ApartSets
  <2>5. ApartSets(LeftOver', Taken')
    BY <1>9, <1>10, <1>11 DEF SqInv, PostersApart, ApartSets
  <2>6. ApartSets(InRing', Taken')
    BY <1>8, <1>10, <1>11 DEF SqInv, PostersApart, ApartSets
  <2> QED
    BY <2>1, <2>2, <2>4, <2>5, <2>6 DEF PostersApart
<1>14. TakenApart'
  BY <1>10 DEF SqInv, TakenApart
<1> QED
  BY <1>7, <1>8, <1>9, <1>10, <1>12, <1>13, <1>14

LEMMA CopyChunkStep ==
  ASSUME SqInv, NEW t \in SessionThreads, CopyChunk(t)
  PROVE  SqInv' /\ PoolMove
<1>1. PICK c, n, m : c = Chunk /\ n = Waiting /\ m = Unpublished
  OBVIOUS
<1>2. /\ TypeOK' /\ LockFits' /\ SessionFits' /\ WindowFits' /\ DoorbellFits'
      /\ InSession /\ InSession' /\ UNCHANGED <<wq, working, cqes, cur>>
      /\ c \in Nat /\ 1 <= c /\ c <= m /\ n \in Nat /\ m \in 0 .. WqeCnt
      /\ Unpublished' = m - c /\ Waiting' = n + c
      /\ \A k \in 1 .. n : Front(k)' = Front(k)
      /\ \A j \in 1 .. c : Front(n + j)' = Left(j)
      /\ \A k \in 1 .. m - c : Left(k)' = Left(k + c)
  BY <1>1, CopyChunkParts
<1> DEFINE moved == {Left(j) : j \in 1 .. c}
           rest == {Left(k) : k \in c + 1 .. m}
           ids == {wq.pool[k] : k \in PP!Base .. PP!Base + c - 1}
<1>3. m \in Nat /\ WqeCnt \in Nat
  BY <1>2, SqSizes
<1>4. /\ ContentsFit' /\ PostersApart' /\ TakenApart' /\ Taken' = Taken
      /\ InRing' = InRing \cup moved /\ LeftOver' = rest
      /\ LeftOver = {Left(k) : k \in 1 .. m}
  BY <1>1, <1>2, <1>3, PublishKeeps
<1>5. PartsAreNamed /\ PartsAreNamed'
  BY <1>2, PartsNamed, PTL DEF SqInv
<1>6. /\ OneEach(InRing \cup Taken) /\ OneEach(InRing' \cup Taken')
      /\ OneEach(LeftOver) /\ OneEach(LeftOver')
  <2>1. /\ OneEach(InRing \cup Taken) /\ OneEach(InRing \cup Taken)'
        /\ OneEach(LeftOver) /\ OneEach(LeftOver)'
    BY <1>4, OneHolderEachNext, PTL DEF SqInv
  <2> QED
    BY <2>1
<1>7. \A j \in 1 .. c : j \in 1 .. m
  BY <1>2, <1>3
<1>8. \A i : i \in ids <=> \E d \in moved : d.req_id = i
  <2>1. wq.next \in Nat /\ PP!Base = wq.next - m
    BY <1>1, PoolFacts DEF PP!Base
  <2>2. \A j \in 1 .. c : Left(j).req_id = wq.pool[wq.next - m + j - 1]
    BY <1>1, <1>7 DEF SqInv, ContentsFit
  <2>3. ASSUME NEW j \in 1 .. c PROVE Left(j).req_id \in ids
    <3>1. wq.next - m + j - 1 \in PP!Base .. PP!Base + c - 1
      BY <1>2, <1>3, <2>1
    <3> QED
      BY <2>2, <3>1
  <2>4. ASSUME NEW k \in PP!Base .. PP!Base + c - 1
        PROVE  \E j \in 1 .. c : Left(j).req_id = wq.pool[k]
    <3>1. PICK j \in 1 .. c : k = wq.next - m + j - 1
      <4>1. PICK b \in Int : b = wq.next - m /\ b = PP!Base
        BY <1>3, <2>1
      <4>2. PICK j \in 1 .. c : j = k - b + 1
        BY <1>2, <4>1
      <4>3. k = wq.next - m + j - 1
        BY <4>1, <4>2
      <4> QED
        BY <4>3
    <3> QED
      BY <2>2, <3>1
  <2> QED
    BY <2>3, <2>4
<1> HIDE DEF moved, rest, ids
<1>9. LeftOver = moved \cup rest
  <2>1. \A k \in 1 .. m : k \in 1 .. c \/ k \in c + 1 .. m
    BY <1>2, <1>3
  <2>2. \A k \in c + 1 .. m : k \in 1 .. m
    BY <1>2, <1>3
  <2> QED
    BY <1>4, <1>7, <2>1, <2>2 DEF moved, rest
<1>10. ASSUME NEW i \in Idx
       PROVE  /\ i \in ids =>
                   /\ Holders(InRing' \cup Taken')[i] = Holders(LeftOver)[i]
                   /\ Holders(LeftOver')[i] = NoWr
              /\ i \notin ids =>
                   /\ Holders(InRing' \cup Taken')[i]
                         = Holders(InRing \cup Taken)[i]
                   /\ Holders(LeftOver')[i] = Holders(LeftOver)[i]
  <2>1. CASE i \in ids
    <3>1. PICK d \in moved : d.req_id = i
      BY <1>8, <2>1
    <3>2. Holders(InRing' \cup Taken')[i] = d.wr /\ Holders(LeftOver)[i] = d.wr
      BY <1>4, <1>6, <1>9, <3>1, Holder
    <3>3. \A e \in LeftOver' : e.req_id # i
      <4>1. d \in InRing'
        BY <1>4
      <4> QED
        BY <1>4, <3>1, <4>1 DEF PostersApart, ApartSets, Apart
    <3>4. Holders(LeftOver')[i] = NoWr
      BY <1>6, <3>3, Holder
    <3> QED
      BY <2>1, <3>2, <3>4
  <2>2. CASE i \notin ids
    <3>1. \A d \in moved : d.req_id # i
      BY <1>8, <2>2
    <3>2. Holders(InRing' \cup Taken')[i] = Holders(InRing \cup Taken)[i]
      <4>1. CASE \E d \in InRing \cup Taken : d.req_id = i
        BY <1>4, <1>6, <4>1, Holder
      <4>2. CASE \A d \in InRing \cup Taken : d.req_id # i
        BY <1>4, <1>6, <3>1, <4>2, Holder
      <4> QED
        BY <4>1, <4>2
    <3>3. Holders(LeftOver')[i] = Holders(LeftOver)[i]
      <4>1. CASE \E d \in rest : d.req_id = i
        BY <1>4, <1>6, <1>9, <4>1, Holder
      <4>2. CASE \A d \in rest : d.req_id # i
        BY <1>4, <1>6, <1>9, <3>1, <4>2, Holder
      <4> QED
        BY <4>1, <4>2
    <3> QED
      BY <2>2, <3>2, <3>3
  <2> QED
    BY <2>1, <2>2
<1>11. PP!PoolInv' /\ PoolMove
  <2>1. /\ Outstanding = InRing \cup Taken /\ SeqSet(Uncopied) = LeftOver
        /\ Outstanding' = InRing' \cup Taken' /\ SeqSet(Uncopied)' = LeftOver'
    BY <1>5 DEF PartsAreNamed
  <2>2. Holders(Outstanding)' =
          [i \in PP!Idx |-> IF i \in ids THEN Holders(SeqSet(Uncopied))[i]
                           ELSE Holders(Outstanding)[i]]
    <3>1. Holders(Outstanding)' = [i \in Idx |-> Holders(Outstanding')[i]]
      BY DEF Holders
    <3> QED
      BY <1>10, <2>1, <3>1, SameWq
  <2>3. Holders(SeqSet(Uncopied))' =
          [i \in PP!Idx |-> IF i \in ids THEN NoWr
                           ELSE Holders(SeqSet(Uncopied))[i]]
    <3>1. Holders(SeqSet(Uncopied))' =
            [i \in Idx |-> Holders(SeqSet(Uncopied)')[i]]
      BY DEF Holders
    <3> QED
      BY <1>10, <2>1, <3>1, SameWq
  <2>4. InSession' = InSession /\ Unpublished' = Unpublished - c
        /\ c <= Unpublished
    BY <1>1, <1>2, SessionIsBoolean
  <2>5. PP!Commit(c)
    BY <1>2, <2>2, <2>3, <2>4 DEF PP!Commit, ids
  <2>6. c \in 1 .. WqeCnt
    BY <1>2, <1>3
  <2> QED
    BY <2>5, <2>6, PoolStep DEF PoolMove, PP!Next
<1> QED
  BY <1>2, <1>4, <1>11 DEF SqInv

----------------------------------------------------------------------------
(* The device and the poller. What they move stays outstanding, but for the   *)
(* completion whose index is given back.                                      *)
LEMMA PoolUnmoved ==
  ASSUME SqInv, TypeOK', SessionFits', WindowFits', LeftOver' = LeftOver,
         InRing' \cup Taken' = InRing \cup Taken,
         wq' = wq, Unpublished' = Unpublished, InSession' <=> InSession
  PROVE  PP!PoolInv' /\ PoolMove
<1>1. PartsAreNamed /\ PartsAreNamed'
  BY PartsNamed, PTL DEF SqInv
<1>2. Outstanding' = Outstanding /\ SeqSet(Uncopied)' = SeqSet(Uncopied)
  BY <1>1 DEF PartsAreNamed
<1>3. InSession' = InSession
  BY SessionIsBoolean
<1> QED
  BY <1>2, <1>3, PoolStep DEF PoolMove, PP!vars

(* Steps of the device or the poller that do not touch the ring.              *)
LEMMA RingKeeps ==
  ASSUME SqInv, UNCHANGED <<ring, pos, devPc, localQueue, pending, lock, at>>,
         lock = NoThread \/ wq' = wq, Taken' \subseteq Taken
  PROVE  /\ ContentsFit' /\ PostersApart' /\ LockFits'
         /\ InRing' = InRing /\ LeftOver' = LeftOver /\ Waiting' = Waiting
         /\ Unpublished' = Unpublished /\ (InSession' <=> InSession)
<1>1. LockFits' /\ (InSession' <=> InSession)
  BY LockStays DEF SqInv
<1>2. Unpublished' = Unpublished
  BY <1>1 DEF Unpublished
<1>3. Waiting' = Waiting
  BY <1>2 DEF Waiting, Published
<1>4. /\ \A k \in 1 .. Waiting : Front(k)' = Front(k)
      /\ \A k \in 1 .. Unpublished : Left(k)' = Left(k)
  BY <1>2 DEF Front, Left
<1>5. InRing' = InRing /\ LeftOver' = LeftOver
  BY <1>2, <1>3, <1>4 DEF InRing, LeftOver
<1>6. Unpublished = 0 \/ wq' = wq
  BY DEF Unpublished, InSession
<1>7. ContentsFit'
  <2>1. \A k \in 1 .. Waiting' : Front(k)' \in Desc
    BY <1>3, <1>4 DEF SqInv, ContentsFit
  <2>2. CASE Unpublished = 0
    BY <1>2, <2>1, <2>2 DEF ContentsFit
  <2>3. CASE wq' = wq
    BY <1>2, <1>4, <2>1, <2>3 DEF SqInv, ContentsFit
  <2> QED
    BY <1>6, <2>2, <2>3
<1>8. PostersApart'
  <2>1. \A j, k \in 1 .. Waiting' : j # k => Apart(Front(j)', Front(k)')
    BY <1>3, <1>4 DEF SqInv, PostersApart
  <2>2. \A j, k \in 1 .. Unpublished' : j # k => Apart(Left(j)', Left(k)')
    BY <1>2, <1>4 DEF SqInv, PostersApart
  <2>3. ApartSets(InRing', LeftOver')
    BY <1>5 DEF SqInv, PostersApart
  <2>4. ApartSets(LeftOver', Taken') /\ ApartSets(InRing', Taken')
    BY <1>5 DEF SqInv, PostersApart, ApartSets
  <2> QED
    BY <2>1, <2>2, <2>3, <2>4 DEF PostersApart
<1> QED
  BY <1>1, <1>2, <1>3, <1>5, <1>7, <1>8

LEMMA DevCompleteStep ==
  ASSUME SqInv, NEW d \in working, DevComplete(d)
  PROVE  SqInv' /\ PoolMove
<1>1. /\ working' = working \ {d} /\ cqes' = Append(cqes, d)
      /\ UNCHANGED <<wqVars, ringVars, state, lock, at, curbatch, sessionVars,
                     devPc, cur>>
  BY DEF DevComplete
<1>2. cqes \in Seq(Desc) /\ working \subseteq Desc /\ d \in Desc
  BY Typed DEF SqInv
<1>3. PICK n \in Nat : n = Len(cqes)
  BY <1>2
<1>4. /\ cqes' \in Seq(Desc) /\ Len(cqes') = n + 1 /\ cqes'[n + 1] = d
      /\ \A k \in 1 .. n : cqes'[k] = cqes[k]
  BY <1>1, <1>2, <1>3
<1>5. /\ \A k \in 1 .. n + 1 : k \in 1 .. n \/ k = n + 1
      /\ \A k \in 1 .. n : k \in 1 .. n + 1
      /\ n + 1 \in 1 .. n + 1
  BY <1>3
<1>6. InCq' = InCq \cup {d}
  <2>1. InCq = {cqes[k] : k \in 1 .. n} /\ InCq' = {cqes'[k] : k \in 1 .. n + 1}
    BY <1>3, <1>4 DEF InCq
  <2>2. InCq' \subseteq InCq \cup {d}
    BY <1>4, <1>5, <2>1
  <2>3. InCq \subseteq InCq' /\ d \in InCq'
    BY <1>4, <1>5, <2>1
  <2> QED
    BY <2>2, <2>3
<1>7. InHand' = InHand /\ Taken' = Taken
  BY <1>1, <1>6 DEF InHand, Taken
<1>8. TakenApart'
  <2>1. \A e \in InCq : Apart(d, e)
    BY DEF SqInv, TakenApart, ApartSets
  <2>2. ASSUME NEW j \in 1 .. n + 1, NEW k \in 1 .. n + 1, j # k
        PROVE  Apart(cqes'[j], cqes'[k])
    <3>1. CASE j \in 1 .. n /\ k \in 1 .. n
      BY <1>3, <1>4, <2>2, <3>1 DEF SqInv, TakenApart
    <3>2. CASE j = n + 1 /\ k \in 1 .. n
      BY <1>3, <1>4, <2>1, <3>2 DEF InCq
    <3>3. CASE j \in 1 .. n /\ k = n + 1
      BY <1>3, <1>4, <2>1, <3>3, ApartTurned DEF InCq
    <3> QED
      BY <1>5, <2>2, <3>1, <3>2, <3>3
  <2>3. \A e \in working' : Apart(e, d)
    BY <1>1 DEF SqInv, TakenApart
  <2>4. ApartSets(working', InCq')
    BY <1>1, <1>6, <2>3 DEF SqInv, TakenApart, ApartSets
  <2>5. ApartSets(working', InHand') /\ ApartSets(InCq', InHand')
    BY <1>1, <1>6, <1>7 DEF SqInv, TakenApart, ApartSets
  <2>6. \A e, f \in working' : e # f => Apart(e, f)
    BY <1>1 DEF SqInv, TakenApart
  <2> QED
    BY <1>4, <2>2, <2>4, <2>5, <2>6 DEF TakenApart
<1>9. /\ ContentsFit' /\ PostersApart' /\ LockFits'
      /\ InRing' = InRing /\ LeftOver' = LeftOver /\ Waiting' = Waiting
      /\ Unpublished' = Unpublished /\ (InSession' <=> InSession)
  BY <1>1, <1>7, RingKeeps DEF wqVars, ringVars, sessionVars
<1>10. TypeOK'
  <2>1. working' \subseteq Desc
    BY <1>1, <1>2
  <2> QED
    BY <1>1, <1>4, <2>1 DEF SqInv, TypeOK, wqVars, ringVars, sessionVars
<1>11. SessionFits'
  BY <1>1, <1>9 DEF SqInv, SessionFits, sessionVars
<1>12. WindowFits'
  BY <1>1, <1>9 DEF SqInv, WindowFits, wqVars
<1>13. DoorbellFits'
  BY <1>1, <1>9 DEF SqInv, DoorbellFits, ringVars
<1>14. PP!PoolInv' /\ PoolMove
  BY <1>1, <1>7, <1>9, <1>10, <1>11, <1>12, PoolUnmoved DEF wqVars
<1> QED
  BY <1>8, <1>9, <1>10, <1>11, <1>12, <1>13, <1>14 DEF SqInv

LEMMA PollCqeStep ==
  ASSUME SqInv, PollCqe
  PROVE  SqInv' /\ PoolMove
<1>1. /\ cur = NoDesc /\ cqes # <<>> /\ cur' = Head(cqes) /\ cqes' = Tail(cqes)
      /\ UNCHANGED <<wqVars, ringVars, state, lock, at, curbatch, sessionVars,
                     devPc, working>>
  BY DEF PollCqe
<1>2. cqes \in Seq(Desc)
  BY Typed DEF SqInv
<1>3. PICK n \in Nat : Len(cqes) = n + 1
  <2>1. Len(cqes) \in Nat /\ Len(cqes) # 0
    BY <1>1, <1>2
  <2>2. Len(cqes) - 1 \in Nat /\ Len(cqes) = Len(cqes) - 1 + 1
    BY <2>1
  <2> QED
    BY <2>2
<1>4. /\ cur' = cqes[1] /\ cur' \in Desc /\ cqes' \in Seq(Desc) /\ Len(cqes') = n
      /\ \A k \in 1 .. n : cqes'[k] = cqes[k + 1]
  <2>1. 1 \in 1 .. n + 1
    BY <1>3
  <2>2. cur' = cqes[1] /\ cqes[1] \in Desc
    BY <1>1, <1>2, <1>3, <2>1
  <2> QED
    BY <1>1, <1>2, <1>3, <2>2
<1>5. /\ \A k \in 1 .. n + 1 : k = 1 \/ \E j \in 1 .. n : k = j + 1
      /\ \A k \in 1 .. n : k + 1 \in 1 .. n + 1 /\ k + 1 # 1
      /\ 1 \in 1 .. n + 1
  <2>1. \A k \in 1 .. n + 1 : k = 1 \/ (k - 1 \in 1 .. n /\ k = k - 1 + 1)
    BY <1>3
  <2> QED
    BY <1>3, <2>1
<1>6. InCq = InCq' \cup {cur'}
  <2>1. InCq = {cqes[k] : k \in 1 .. n + 1} /\ InCq' = {cqes'[k] : k \in 1 .. n}
    BY <1>3, <1>4 DEF InCq
  <2>2. InCq \subseteq InCq' \cup {cur'}
    <3> SUFFICES ASSUME NEW k \in 1 .. n + 1
                 PROVE  cqes[k] \in InCq' \cup {cur'}
      BY <2>1
    <3>1. CASE k = 1
      BY <1>4, <3>1
    <3>2. CASE \E j \in 1 .. n : k = j + 1
      <4>1. PICK j \in 1 .. n : k = j + 1
        BY <3>2
      <4>2. cqes[k] = cqes'[j]
        BY <1>4, <4>1
      <4> QED
        BY <2>1, <4>2
    <3> QED
      BY <1>5, <3>1, <3>2
  <2>3. InCq' \subseteq InCq /\ cur' \in InCq
    BY <1>4, <1>5, <2>1
  <2> QED
    BY <2>2, <2>3
<1>7. InHand = {} /\ InHand' = {cur'}
  BY <1>1, <1>4, SqSizes DEF InHand
<1>8. Taken' = Taken
  BY <1>1, <1>6, <1>7 DEF Taken
<1>9. TakenApart'
  <2>1. ASSUME NEW j \in 1 .. n, NEW k \in 1 .. n, j # k
        PROVE  Apart(cqes'[j], cqes'[k])
    <3>1. j + 1 \in 1 .. n + 1 /\ k + 1 \in 1 .. n + 1 /\ j + 1 # k + 1
      BY <1>5, <2>1
    <3>2. Apart(cqes[j + 1], cqes[k + 1])
      BY <1>3, <3>1 DEF SqInv, TakenApart
    <3> QED
      BY <1>4, <3>2
  <2>2. ApartSets(InCq', InHand')
    <3> SUFFICES ASSUME NEW k \in 1 .. n PROVE Apart(cqes'[k], cur')
      BY <1>4, <1>7 DEF ApartSets, InCq
    <3>1. Apart(cqes[k + 1], cqes[1])
      BY <1>3, <1>5 DEF SqInv, TakenApart
    <3> QED
      BY <1>4, <3>1
  <2>3. ApartSets(working', InCq') /\ ApartSets(working', InHand')
    BY <1>1, <1>6, <1>7 DEF SqInv, TakenApart, ApartSets
  <2>4. \A e, f \in working' : e # f => Apart(e, f)
    BY <1>1 DEF SqInv, TakenApart
  <2> QED
    BY <1>4, <2>1, <2>2, <2>3, <2>4 DEF TakenApart
<1>10. /\ ContentsFit' /\ PostersApart' /\ LockFits'
       /\ InRing' = InRing /\ LeftOver' = LeftOver /\ Waiting' = Waiting
       /\ Unpublished' = Unpublished /\ (InSession' <=> InSession)
  BY <1>1, <1>8, RingKeeps DEF wqVars, ringVars, sessionVars
<1>11. TypeOK'
  BY <1>1, <1>4 DEF SqInv, TypeOK, wqVars, ringVars, sessionVars
<1>12. SessionFits'
  BY <1>1, <1>10 DEF SqInv, SessionFits, sessionVars
<1>13. WindowFits'
  BY <1>1, <1>10 DEF SqInv, WindowFits, wqVars
<1>14. DoorbellFits'
  BY <1>1, <1>10 DEF SqInv, DoorbellFits, ringVars
<1>15. PP!PoolInv' /\ PoolMove
  BY <1>1, <1>8, <1>10, <1>11, <1>12, <1>13, PoolUnmoved DEF wqVars
<1> QED
  BY <1>9, <1>10, <1>11, <1>12, <1>13, <1>14, <1>15 DEF SqInv

(* The device fetches the oldest descriptor that waits.                       *)
LEMMA DevFetchParts ==
  ASSUME SqInv, DevFetch, NEW n, n = Waiting
  PROVE  /\ n \in 1 .. DescCnt /\ Waiting' = n - 1
         /\ LockFits' /\ (InSession' <=> InSession)
         /\ Unpublished' = Unpublished /\ Published' = Published
         /\ WrapSub(pos.pc, devPc', U16) = n + Unpublished - 1
         /\ WrapSub(db, devPc', U16) = WrapSub(db, devPc, U16) - 1
         /\ WrapSub(db, devPc, U16) \in Nat /\ devPc' \in 0 .. U16 - 1
         /\ working' = working \cup {Front(1)}
         /\ \A k \in 1 .. n - 1 :
               Front(k)' = Front(k + 1) /\ k + 1 \in 1 .. n /\ k + 1 # 1
<1>1. /\ devPc # db /\ devPc' = WrapInc(devPc, U16)
      /\ working' = working \cup {ring[Slot(devPc)]}
      /\ UNCHANGED <<wqVars, ringVars, state, lock, at, curbatch, sessionVars, cqes,
                     cur>>
  BY DEF DevFetch
<1>2. n \in 0 .. DescCnt
  BY Window DEF SqInv
<1>3. PICK m \in 0 .. DescCnt : m = Unpublished
  BY Window DEF SqInv
<1>4. PICK a \in Nat : a = WrapSub(db, devPc, U16)
  BY Typed, Distance DEF SqInv
<1>5. /\ pos.pc \in 0 .. U16 - 1 /\ devPc \in 0 .. U16 - 1 /\ db \in 0 .. U16 - 1
      /\ Published \in 0 .. U16 - 1 /\ DescCnt \in Nat /\ DescCnt < U16
      /\ U16 \in Nat /\ curbatch \in Nat
  BY Typed, Window, SqSizes DEF SqInv
<1>6. /\ a > 0 /\ a + curbatch = n /\ n > 0
  <2>1. a # 0
    BY <1>1, <1>4, <1>5, Distance
  <2> QED
    BY <1>2, <1>4, <1>5, <2>1 DEF SqInv, DoorbellFits
<1>7. /\ WrapSub(pos.pc, devPc, U16) = n + m /\ n + m <= DescCnt
      /\ WrapSub(Published, devPc, U16) = n
  BY <1>2, <1>3, Window DEF SqInv, Waiting
<1>8. /\ WrapSub(pos.pc, devPc', U16) = n + m - 1
      /\ WrapSub(Published, devPc', U16) = n - 1
      /\ WrapSub(db, devPc', U16) = a - 1
      /\ devPc' \in 0 .. U16 - 1
  <2>1. devPc' \in 0 .. U16 - 1
    BY <1>1, <1>5, SlotOfNext
  <2>2. PICK p \in Nat : p = n + m /\ p > 0
    BY <1>2, <1>3, <1>5, <1>6
  <2>3. WrapSub(pos.pc, devPc', U16) = p - 1
    BY <1>1, <1>5, <1>7, <2>2, DistanceMoves
  <2>4. WrapSub(Published, devPc', U16) = n - 1
    BY <1>1, <1>5, <1>6, <1>7, DistanceMoves
  <2>5. WrapSub(db, devPc', U16) = a - 1
    BY <1>1, <1>4, <1>5, <1>6, DistanceMoves
  <2> QED
    BY <1>2, <1>3, <2>1, <2>2, <2>3, <2>4, <2>5
<1>9. LockFits' /\ (InSession' <=> InSession)
  BY <1>1, LockStays DEF SqInv
<1>10. Unpublished' = Unpublished /\ Published' = Published
  BY <1>1, <1>9 DEF Unpublished, Published, wqVars, sessionVars
<1>11. Waiting' = n - 1
  BY <1>8, <1>10 DEF Waiting
<1>13. Front(1) = ring[Slot(devPc)]
  <2>1. Ahead(devPc, 1 - 1) = devPc
    BY <1>5, AheadValue
  <2> QED
    BY <2>1 DEF Front
<1>14. ASSUME NEW k \in 1 .. n - 1
       PROVE  Front(k)' = Front(k + 1) /\ k + 1 \in 1 .. n /\ k + 1 # 1
  <2>1. PICK i \in 0 .. U16 : i = k - 1 /\ 1 + i <= U16 /\ 1 + i = k + 1 - 1
    BY <1>2, <1>5
  <2>2. devPc' = Ahead(devPc, 1)
    BY <1>1, <1>5, SlotOfNext
  <2>3. Ahead(devPc', i) = Ahead(devPc, 1 + i)
    BY <1>5, <2>1, <2>2, AheadAhead
  <2>4. k + 1 \in 1 .. n /\ k + 1 # 1
    BY <1>2
  <2> QED
    BY <1>1, <2>1, <2>3, <2>4 DEF Front, ringVars
<1> QED
  BY <1>1, <1>2, <1>3, <1>4, <1>5, <1>6, <1>8, <1>9, <1>10, <1>11, <1>13, <1>14

LEMMA DevFetchStep ==
  ASSUME SqInv, DevFetch
  PROVE  SqInv' /\ PoolMove
<1>1. /\ devPc' = WrapInc(devPc, U16)
      /\ UNCHANGED <<wqVars, ringVars, state, lock, at, curbatch, sessionVars, cqes,
                     cur>>
  BY DEF DevFetch
<1>2. PICK n : n = Waiting
  OBVIOUS
<1>3. /\ n \in 1 .. DescCnt /\ Waiting' = n - 1
      /\ LockFits' /\ (InSession' <=> InSession)
      /\ Unpublished' = Unpublished /\ Published' = Published
      /\ WrapSub(pos.pc, devPc', U16) = n + Unpublished - 1
      /\ WrapSub(db, devPc', U16) = WrapSub(db, devPc, U16) - 1
      /\ WrapSub(db, devPc, U16) \in Nat /\ devPc' \in 0 .. U16 - 1
      /\ working' = working \cup {Front(1)}
      /\ \A k \in 1 .. n - 1 :
            Front(k)' = Front(k + 1) /\ k + 1 \in 1 .. n /\ k + 1 # 1
  BY <1>2, DevFetchParts
<1>4. PICK m \in 0 .. DescCnt : m = Unpublished
  BY Window DEF SqInv
<1>5. PICK a \in Nat : a = WrapSub(db, devPc, U16)
  BY <1>3
<1>6. a + curbatch = n /\ curbatch \in Nat /\ n + m <= DescCnt /\ DescCnt \in Nat
  BY <1>2, <1>3, <1>4, <1>5, Window, Typed, SqSizes DEF SqInv, DoorbellFits
<1>7. /\ \A k \in 1 .. Unpublished : Left(k)' = Left(k)
      /\ LeftOver' = LeftOver
  BY <1>1, <1>3 DEF Left, LeftOver, sessionVars
<1>8. \A k \in 1 .. n : k = 1 \/ \E j \in 1 .. n - 1 : k = j + 1
  <2>1. \A k \in 1 .. n : k = 1 \/ (k - 1 \in 1 .. n - 1 /\ k = k - 1 + 1)
    BY <1>2, <1>3
  <2> QED
    BY <2>1
<1>9. /\ 1 \in 1 .. n /\ Front(1) \in InRing /\ Front(1) \in Desc
  <2>1. 1 \in 1 .. n
    BY <1>2, <1>3, <1>6
  <2> QED
    BY <1>2, <1>3, <2>1 DEF SqInv, ContentsFit, InRing
<1>10. InRing = InRing' \cup {Front(1)}
  <2>1. InRing = {Front(k) : k \in 1 .. n} /\ InRing' = {Front(k)' : k \in 1 .. n - 1}
    BY <1>2, <1>3 DEF InRing
  <2>2. InRing \subseteq InRing' \cup {Front(1)}
    <3> SUFFICES ASSUME NEW k \in 1 .. n
                 PROVE  Front(k) \in InRing' \cup {Front(1)}
      BY <2>1
    <3>1. CASE k = 1
      BY <3>1
    <3>2. CASE \E j \in 1 .. n - 1 : k = j + 1
      BY <1>3, <2>1, <3>2
    <3> QED
      BY <1>8, <3>1, <3>2
  <2>3. InRing' \subseteq InRing
    BY <1>3, <2>1
  <2> QED
    BY <1>9, <2>2, <2>3
<1>11. /\ working' = working \cup {Front(1)} /\ InCq' = InCq /\ InHand' = InHand
       /\ Taken' = Taken \cup {Front(1)}
  BY <1>1, <1>3 DEF InCq, InHand, Taken
<1>12. \A e \in Taken \cup LeftOver : Apart(Front(1), e)
  BY <1>9 DEF SqInv, PostersApart, ApartSets
<1>13. \A e \in InRing' : Apart(e, Front(1))
  <2> SUFFICES ASSUME NEW k \in 1 .. n - 1 PROVE Apart(Front(k)', Front(1))
    BY <1>3 DEF InRing
  <2> QED
    BY <1>2, <1>3, <1>9 DEF SqInv, PostersApart
<1>14. ContentsFit'
  <2>1. \A k \in 1 .. Waiting' : Front(k)' \in Desc
    BY <1>2, <1>3 DEF SqInv, ContentsFit
  <2>2. \A k \in 1 .. Unpublished' :
           Left(k)'.req_id = wq'.pool[wq'.next - Unpublished' + k - 1]
    BY <1>1, <1>3, <1>7 DEF SqInv, ContentsFit, wqVars
  <2> QED
    BY <2>1, <2>2 DEF ContentsFit
<1>15. PostersApart'
  <2>1. ASSUME NEW j \in 1 .. n - 1, NEW k \in 1 .. n - 1, j # k
        PROVE  Apart(Front(j)', Front(k)')
    <3>1. j + 1 \in 1 .. n /\ k + 1 \in 1 .. n /\ j + 1 # k + 1
      BY <1>3, <2>1
    <3>2. Apart(Front(j + 1), Front(k + 1))
      BY <1>2, <1>3, <3>1 DEF SqInv, PostersApart
    <3> QED
      BY <1>3, <3>2
  <2>2. \A j, k \in 1 .. Unpublished' : j # k => Apart(Left(j)', Left(k)')
    BY <1>3, <1>7 DEF SqInv, PostersApart
  <2>3. ApartSets(InRing', LeftOver')
    BY <1>7, <1>10 DEF SqInv, PostersApart, ApartSets
  <2>4. ApartSets(LeftOver', Taken')
    BY <1>7, <1>11, <1>12, ApartTurned DEF SqInv, PostersApart, ApartSets
  <2>5. ApartSets(InRing', Taken')
    BY <1>10, <1>11, <1>13 DEF SqInv, PostersApart, ApartSets
  <2> QED
    BY <1>3, <2>1, <2>2, <2>3, <2>4, <2>5 DEF PostersApart
<1>16. TakenApart'
  <2>1. \A e \in Taken : Apart(Front(1), e) /\ Apart(e, Front(1))
    BY <1>12, ApartTurned
  <2>2. \A e, f \in working' : e # f => Apart(e, f)
    BY <1>11, <2>1 DEF SqInv, TakenApart, Taken
  <2>3. ApartSets(working', InCq') /\ ApartSets(working', InHand')
    BY <1>11, <2>1 DEF SqInv, TakenApart, ApartSets, Taken
  <2>4. ApartSets(InCq', InHand')
    BY <1>11 DEF SqInv, TakenApart
  <2>5. \A j, k \in 1 .. Len(cqes') : j # k => Apart(cqes'[j], cqes'[k])
    BY <1>1 DEF SqInv, TakenApart
  <2> QED
    BY <2>2, <2>3, <2>4, <2>5 DEF TakenApart
<1>17. TypeOK'
  <2>1. working' \subseteq Desc
    BY <1>9, <1>11, Typed DEF SqInv
  <2> QED
    BY <1>1, <1>3, <2>1 DEF SqInv, TypeOK, wqVars, ringVars, sessionVars
<1>18. SessionFits'
  BY <1>1, <1>3 DEF SqInv, SessionFits, sessionVars
<1>19. WindowFits'
  <2>1. WrapSub(pos'.pc, devPc', U16) = n + m - 1
    BY <1>1, <1>3, <1>4 DEF wqVars
  <2> QED
    BY <1>2, <1>4, <1>6, <1>3, <2>1 DEF WindowFits
<1>20. DoorbellFits'
  <2>1. WrapSub(db', devPc', U16) + curbatch' = Waiting'
    BY <1>1, <1>5, <1>6, <1>3 DEF ringVars
  <2> QED
    BY <1>1, <2>1 DEF SqInv, DoorbellFits
<1>21. PP!PoolInv' /\ PoolMove
  <2>1. InRing' \cup Taken' = InRing \cup Taken
    BY <1>10, <1>11
  <2> QED
    BY <1>1, <1>3, <1>7, <1>17, <1>18, <1>19, <2>1, PoolUnmoved DEF wqVars
<1> QED
  BY <1>3, <1>14, <1>15, <1>16, <1>17, <1>18, <1>19, <1>20, <1>21 DEF SqInv

(* The index of a completion is given back: its request, which nothing else   *)
(* stands for, is forgotten.                                                  *)
LEMMA HoldersRemove ==
  ASSUME NEW ds, NEW d \in ds, NEW es, es = ds \ {d}, OneEach(ds)
  PROVE  Holders(es) = [Holders(ds) EXCEPT ![d.req_id] = NoWr]
<1>1. OneEach(es)
  BY DEF OneEach
<1>2. ASSUME NEW k \in Idx
      PROVE  Holders(es)[k] = IF k = d.req_id THEN NoWr ELSE Holders(ds)[k]
  <2>1. CASE k = d.req_id
    <3>1. \A e \in es : e.req_id # k
      BY <2>1 DEF OneEach
    <3> QED
      BY <1>1, <2>1, <3>1, Holder
  <2>2. CASE k # d.req_id
    <3>1. CASE \E e \in es : e.req_id = k
      BY <1>1, <2>2, <3>1, Holder
    <3>2. CASE \A e \in es : e.req_id # k
      <4>1. \A e \in ds : e.req_id # k
        BY <2>2, <3>2
      <4> QED
        BY <1>1, <2>2, <3>2, <4>1, Holder
    <3> QED
      BY <3>1, <3>2
  <2> QED
    BY <2>1, <2>2
<1> QED
  BY <1>2 DEF Holders

LEMMA PutCurStep ==
  ASSUME SqInv, PutCur
  PROVE  SqInv' /\ PoolMove
<1> DEFINE i == cur.req_id
<1>1. /\ cur # NoDesc /\ lock = NoThread /\ cur' = NoDesc
      /\ wq' = PutWridIdx(wq, i)
      /\ UNCHANGED <<pos, ringVars, state, lock, at, curbatch, sessionVars,
                     deviceVars>>
  BY DEF PutCur
<1>2. cur \in Desc /\ i \in Idx /\ cur.wr # NoWr /\ cur \in InHand
  BY <1>1, OfDesc DEF SqInv, TypeOK, InHand
<1>3. /\ InHand = {cur} /\ InHand' = {} /\ InCq' = InCq /\ working' = working
  BY <1>1, <1>2 DEF InHand, InCq, deviceVars
<1>4. Taken' \subseteq Taken
  BY <1>3 DEF Taken
<1>5. /\ ContentsFit' /\ PostersApart' /\ LockFits'
      /\ InRing' = InRing /\ LeftOver' = LeftOver /\ Waiting' = Waiting
      /\ Unpublished' = Unpublished /\ (InSession' <=> InSession)
  BY <1>1, <1>4, RingKeeps DEF ringVars, sessionVars, deviceVars
<1>6. TakenApart'
  BY <1>1, <1>3 DEF SqInv, TakenApart, ApartSets, deviceVars
<1>7. /\ ~InSession /\ Unpublished = 0
  BY <1>1 DEF InSession, Unpublished
<1>8. SessionFits'
  BY <1>1, <1>5 DEF SqInv, SessionFits, sessionVars
<1>9. WindowFits'
  BY <1>1, <1>5 DEF SqInv, WindowFits, deviceVars
<1>10. DoorbellFits'
  BY <1>1, <1>5 DEF SqInv, DoorbellFits, ringVars, deviceVars
<1>11. TypeOK'
  <2>1. wq.next > 0
    <3>1. Holders(Outstanding)[i] # NoWr
      BY <1>2, InFlightHolds DEF Taken
    <3>2. PP!Base > 0
      BY <1>2, <3>1, WqAssumption, SameWq, PP!HeldMeansTaken
         DEF SqInv, PP!PoolInv
    <3> QED
      BY <1>7, <3>2, PoolFacts DEF PP!Base
  <2>2. wq' \in WqType
    BY <1>1, <1>2, <2>1, PoolFacts, PutWq
  <2> QED
    BY <1>1, <2>2 DEF SqInv, TypeOK, ringVars, sessionVars, deviceVars
<1>12. PP!PoolInv' /\ PoolMove
  <2>1. PartsAreNamed /\ (TypeOK /\ WindowFits /\ SessionFits => PartsAreNamed)'
    BY PartsNamed, PTL DEF SqInv
  <2>2. PartsAreNamed'
    BY <1>8, <1>9, <1>11, <2>1
  <2>3. cur \notin InRing /\ cur \notin working /\ cur \notin InCq
    BY <1>2 DEF SqInv, PostersApart, TakenApart, ApartSets, Apart, Taken
  <2>4. /\ Outstanding' = Outstanding \ {cur} /\ cur \in Outstanding
        /\ SeqSet(Uncopied)' = SeqSet(Uncopied)
    BY <1>3, <1>5, <2>1, <2>2, <2>3 DEF PartsAreNamed, Taken
  <2>5. OneEach(Outstanding)
    BY <2>1, OneHolderEach DEF SqInv, PartsAreNamed
  <2>6. Holders(Outstanding)' = [Holders(Outstanding) EXCEPT ![i] = NoWr]
    BY <2>4, <2>5, HoldersRemove
  <2>7. Holders(Outstanding)[i] # NoWr
    BY <1>2, InFlightHolds DEF Taken
  <2>8. InSession' = InSession
    BY <1>5, SessionIsBoolean
  <2>9. PP!Put(i)
    BY <1>1, <1>5, <1>7, <2>4, <2>6, <2>7, <2>8, SameWq DEF PP!Put
  <2>10. i \in PP!Idx
    BY <1>2, SameWq
  <2> QED
    BY <2>9, <2>10, PoolStep DEF PoolMove, PP!Next
<1> QED
  BY <1>5, <1>6, <1>8, <1>9, <1>10, <1>11, <1>12 DEF SqInv

(* A drained queue is set back: nothing is in flight before or after.         *)
LEMMA ModifyResetStep ==
  ASSUME DrainedReset, SqInv, ModifyReset
  PROVE  SqInv' /\ PoolMove
<1>1. /\ lock = NoThread /\ cqes = <<>> /\ cur = NoDesc /\ Outstanding = {}
      /\ state' = "RESET" /\ wq' = InitIndices(wq) /\ pos' = InitPos(pos)
      /\ ring' = [s \in Slots |-> NoDesc] /\ db' = 0 /\ devPc' = 0
      /\ working' = {}
      /\ UNCHANGED <<lock, at, curbatch, sessionVars, cqes, cur>>
  BY DEF ModifyReset, DrainedReset
<1>2. LockFits' /\ (InSession' <=> InSession) /\ ~InSession
  BY <1>1, LockStays DEF SqInv, InSession
<1>3. Unpublished' = 0 /\ Unpublished = 0
  BY <1>2 DEF Unpublished
<1>4. /\ wq \in WqType /\ pos \in PosType /\ curbatch = 0
  BY <1>1 DEF SqInv, TypeOK, DoorbellFits
<1>5. wq' \in WqType
  <2>1. wq' = [wq EXCEPT !.next = 0, !.posted = 0, !.completed = 0]
    BY <1>1 DEF InitIndices
  <2>2. 0 \in 0 .. U16 - 1 /\ 0 \in 0 .. U32 - 1
    BY WqAssumption
  <2> QED
    BY <1>4, <2>1, <2>2 DEF WqType
<1>6. pos' \in PosType /\ pos'.pc = 0
  <2>1. 0 \in 0 .. U16 - 1
    BY SqSizes
  <2> QED
    BY <1>1, <1>4, <2>1 DEF InitPos, PosType
<1>7. Waiting' = 0 /\ Published' = 0
  BY <1>1, <1>3, <1>6 DEF Waiting, Published, WrapSub
<1>8. TypeOK'
  <2>1. 0 \in 0 .. U16 - 1 /\ {} \subseteq Desc
    BY SqSizes
  <2> QED
    BY <1>1, <1>5, <1>6, <2>1 DEF SqInv, TypeOK, sessionVars
<1>9. SessionFits'
  BY <1>1, <1>2 DEF SqInv, SessionFits, sessionVars
<1>10. WindowFits'
  BY <1>1, <1>3, <1>6, SqSizes DEF WindowFits, WrapSub
<1>11. DoorbellFits'
  BY <1>1, <1>4, <1>7, SqSizes DEF DoorbellFits, WrapSub
<1>12. /\ InRing' = {} /\ LeftOver' = {} /\ InCq' = {} /\ InHand' = {}
       /\ Taken' = {}
  <2>1. Len(cqes') = 0 /\ cur' = NoDesc
    BY <1>1
  <2> QED
    BY <1>1, <1>3, <1>7, <2>1 DEF InRing, LeftOver, InCq, InHand, Taken
<1>13. ContentsFit'
  BY <1>3, <1>7 DEF ContentsFit
<1>14. PostersApart'
  BY <1>3, <1>7, <1>12 DEF PostersApart, ApartSets
<1>15. TakenApart'
  <2>1. Len(cqes') = 0 /\ working' = {}
    BY <1>1
  <2> QED
    BY <1>12, <2>1 DEF TakenApart, ApartSets
<1>16. PP!PoolInv' /\ PoolMove
  <2>1. PartsAreNamed /\ PartsAreNamed'
    BY <1>8, <1>9, <1>10, PartsNamed, PTL DEF SqInv
  <2>2. /\ Outstanding' = Outstanding /\ SeqSet(Uncopied)' = SeqSet(Uncopied)
    <3>1. LeftOver = {}
      BY <1>3 DEF LeftOver
    <3> QED
      BY <1>1, <1>12, <2>1, <3>1 DEF PartsAreNamed
  <2>3. InSession' = InSession
    BY <1>2, SessionIsBoolean
  <2>4. PP!Held = {}
    BY <1>1, NoHolders DEF PP!Held, PP!NoneBuilding
  <2>5. PP!Reset
    BY <1>1, <1>2, <1>3, <2>2, <2>3, <2>4, SameWq DEF PP!Reset
  <2> QED
    BY <2>5, PoolStep DEF PoolMove, PP!Next
<1> QED
  BY <1>2, <1>8, <1>9, <1>10, <1>11, <1>13, <1>14, <1>15, <1>16 DEF SqInv

----------------------------------------------------------------------------
LEMMA InitSqInv == Init => SqInv
<1> SUFFICES ASSUME Init PROVE SqInv
  OBVIOUS
<1>1. /\ wq = WqInitial /\ pos = PosInitial /\ ring = [s \in Slots |-> NoDesc]
      /\ db = 0 /\ state = "RTS" /\ lock = NoThread
      /\ at = [t \in Callers |-> "idle"] /\ curbatch = 0
      /\ localQueue = <<>> /\ pending = 0 /\ phaseRb = 0 /\ sessionErr = "OK"
      /\ devPc = 0 /\ working = {} /\ cqes = <<>> /\ cur = NoDesc
  BY DEF Init
<1>2. /\ ~InSession /\ Unpublished = 0 /\ pos.pc = 0 /\ pos.phase = 0
  BY <1>1 DEF InSession, Unpublished, PosInitial
<1>3. Waiting = 0 /\ Published = 0
  BY <1>1, <1>2 DEF Waiting, Published, WrapSub
<1>4. Len(localQueue) = 0 /\ Len(cqes) = 0
  BY <1>1
<1>5. TypeOK
  <2>1. 0 \in 0 .. U16 - 1 /\ 0 \in 0 .. U32 - 1 /\ 0 \in Phases
        /\ 0 \in 0 .. MaxBatchWr /\ 0 \in 0 .. WqeCnt
    BY WqAssumption, SqSizes DEF Phases
  <2>2. wq \in WqType
    BY <1>1, <2>1 DEF WqInitial, WqType, Ids
  <2>3. pos \in PosType
    BY <1>1, <2>1 DEF PosInitial, PosType
  <2>4. at \in [Callers -> Places]
    BY <1>1 DEF Places
  <2> QED
    BY <1>1, <2>1, <2>2, <2>3, <2>4 DEF TypeOK
<1>6. LockFits
  BY <1>1, SqSizes DEF LockFits
<1>7. SessionFits
  BY <1>1, <1>2 DEF SessionFits
<1>8. WindowFits
  BY <1>1, <1>2, SqSizes DEF WindowFits, WrapSub
<1>9. DoorbellFits
  BY <1>1, <1>3, SqSizes DEF DoorbellFits, WrapSub
<1>10. InRing = {} /\ LeftOver = {} /\ InCq = {} /\ InHand = {} /\ Taken = {}
  BY <1>1, <1>2, <1>3, <1>4 DEF InRing, LeftOver, InCq, InHand, Taken
<1>11. ContentsFit
  BY <1>2, <1>3 DEF ContentsFit
<1>12. PostersApart
  BY <1>2, <1>3, <1>10 DEF PostersApart, ApartSets
<1>13. TakenApart
  BY <1>1, <1>4, <1>10 DEF TakenApart, ApartSets
<1>14. PP!PoolInv
  <2>1. Outstanding = {} /\ SeqSet(Uncopied) = {}
    BY <1>5, <1>7, <1>8, <1>10, Parts
  <2>2. InSession = FALSE
    BY <1>2, SessionIsBoolean
  <2>3. PP!Init
    BY <1>1, <1>2, <2>1, <2>2, NoHolders, SameWq DEF PP!Init, PP!NoneBuilding
  <2> QED
    BY <2>3, WqAssumption, PP!InitPoolInv
<1> QED
  BY <1>5, <1>6, <1>7, <1>8, <1>9, <1>11, <1>12, <1>13, <1>14 DEF SqInv

LEMMA StutterKeeps ==
  ASSUME SqInv, UNCHANGED vars
  PROVE  SqInv' /\ PoolMove
<1>1. UNCHANGED <<wq, pos, ring, db, state, lock, at, curbatch, localQueue,
                  pending, phaseRb, sessionErr, devPc, working, cqes, cur>>
  BY DEF vars
<1>2. LockFits' /\ (InSession' <=> InSession)
  BY <1>1, LockStays DEF SqInv
<1>3. Unpublished' = Unpublished
  BY <1>1, <1>2 DEF Unpublished
<1>4. Published' = Published
  BY <1>1, <1>3 DEF Published
<1>5. TypeOK'
  BY <1>1 DEF SqInv, TypeOK
<1>6. SessionFits'
  BY <1>1, <1>2 DEF SqInv, SessionFits
<1>7. WindowFits'
  BY <1>1, <1>3 DEF SqInv, WindowFits
<1>8. DoorbellFits'
  BY <1>1, <1>4 DEF SqInv, DoorbellFits, Waiting
<1>9. \A k \in 1 .. Unpublished : Left(k)' = Left(k)
  BY <1>1, <1>3 DEF Left
<1> QED
  BY <1>1, <1>2, <1>3, <1>4, <1>5, <1>6, <1>7, <1>8, <1>9, QuietStep
     DEF deviceVars

LEMMA NextKeeps ==
  ASSUME DrainedReset, SqInv, [Next]_vars
  PROVE  SqInv' /\ PoolMove
<1>1. ASSUME NEW t \in Threads, PosterNext(t) PROVE SqInv' /\ PoolMove
  BY <1>1, PostSendStep, PostSendDoneStep, PostSendWrStep DEF PosterNext
<1>2. ASSUME NEW t \in SessionThreads, SessionNext(t) PROVE SqInv' /\ PoolMove
  <2>1. CASE WrStart(t) \/ SessionError(t) \/ WrComplete(t) \/ CopyChunk(t)
    BY <2>1, WrStartStep, SessionErrorStep, WrCompleteStep, CopyChunkStep
  <2>2. CASE WrCompleteDone(t) \/ WrReturn(t)
    BY <2>2, WrCompleteDoneStep, WrReturnStep
  <2>3. CASE \E id \in WrIds : SendWr(t, id)
    BY <2>3, SendWrStep
  <2>4. /\ t \in Callers /\ "idle" \in Places \ LockedPlaces
        /\ "returnErr" \in Places \ LockedPlaces
    BY DEF Callers, Places, LockedPlaces
  <2>5. CASE WrAbort(t)
    BY <2>4, <2>5, RollBackStep DEF WrAbort
  <2>6. CASE WrCompleteErr(t)
    BY <2>4, <2>6, RollBackStep DEF WrCompleteErr
  <2> QED
    BY <1>2, <2>1, <2>2, <2>3, <2>5, <2>6 DEF SessionNext
<1>3. CASE DevFetch \/ PollCqe \/ PutCur
  BY <1>3, DevFetchStep, PollCqeStep, PutCurStep
<1>4. CASE ModifyReset \/ ModifyRts
  BY <1>4, ModifyResetStep, ModifyRtsStep
<1>5. ASSUME NEW d \in working, DevComplete(d) PROVE SqInv' /\ PoolMove
  BY <1>5, DevCompleteStep
<1>6. CASE UNCHANGED vars
  BY <1>6, StutterKeeps
<1> QED
  BY <1>1, <1>2, <1>3, <1>4, <1>5, <1>6 DEF Next

----------------------------------------------------------------------------
(* Of every behaviour of a queue whose resets are drained.                    *)
THEOREM SendQueueCorrect ==
  ASSUME DrainedReset
  PROVE  Spec => []SqInv
<1>1. SqInv /\ [Next]_vars => SqInv'
  BY NextKeeps
<1> QED
  BY <1>1, InitSqInv, PTL DEF Spec

(* Every variable of the send queue keeps its type.                           *)
THEOREM SendQueueTyped ==
  ASSUME DrainedReset
  PROVE  Spec => []TypeOK
<1>1. SqInv => TypeOK
  BY DEF SqInv
<1> QED
  BY <1>1, SendQueueCorrect, PTL

(* A completion that is reported now or later, however late and out of order, *)
(* names the request it was posted for: the entry of wrid[] at its index is   *)
(* intact.                                                                    *)
THEOREM CompletionsNamed ==
  ASSUME DrainedReset
  PROVE  Spec => []CompletionNamesItsRequest
<1>1. SqInv => CompletionNamesItsRequest
  <2> SUFFICES ASSUME SqInv PROVE CompletionNamesItsRequest
    OBVIOUS
  <2>1. Outstanding = InRing \cup Taken /\ SeqSet(Uncopied) = LeftOver
    BY Parts DEF SqInv
  <2> QED
    BY <2>1, InFlightHolds DEF CompletionNamesItsRequest
<1> QED
  BY <1>1, SendQueueCorrect, PTL

(* Two requests in flight never share an index, and none of theirs is left in *)
(* the free part of the pool.                                                 *)
THEOREM IndexesNotShared ==
  ASSUME DrainedReset
  PROVE  Spec => []NoSharedIndex /\ []NeverOverlap
<1>1. ASSUME SqInv PROVE NoSharedIndex /\ NeverOverlap
  <2>1. Outstanding = InRing \cup Taken /\ SeqSet(Uncopied) = LeftOver
    BY <1>1, Parts DEF SqInv
  <2>2. OneEach(InRing \cup Taken) /\ OneEach(LeftOver)
    BY <1>1, OneHolderEach DEF SqInv
  <2>3. \A d \in LeftOver, e \in InRing \cup Taken : d.req_id # e.req_id
    BY <1>1 DEF SqInv, PostersApart, ApartSets, Apart
  <2>4. wq.next <= WqeCnt
    BY <1>1, PoolFacts
  <2>5. ASSUME NEW d \in InRing \cup Taken \cup LeftOver,
               NEW k \in wq.next .. WqeCnt - 1
        PROVE  wq.pool[k] # d.req_id
    <3>1. /\ wq.next \in Nat /\ Unpublished \in Nat /\ Unpublished <= wq.next
          /\ PP!Base = wq.next - Unpublished /\ WqeCnt \in Nat
      BY <1>1, PoolFacts, SqSizes DEF PP!Base
    <3>2. k \in PP!Uncommitted /\ \A j \in PP!Base .. wq.next - 1 :
                                   j \in PP!Uncommitted /\ j # k
      BY <2>4, <3>1 DEF PP!Uncommitted
    <3>3. d.req_id \in PP!Idx /\ d.wr # NoWr
      BY <1>1, OfDesc, SameWq DEF SqInv
    <3>4. CASE d \in InRing \cup Taken
      <4>1. Holders(Outstanding)[d.req_id] # NoWr
        BY <1>1, <3>3, <3>4, InFlightHolds
      <4> QED
        BY <1>1, <3>2, <3>3, <4>1 DEF SqInv, PP!PoolInv, PP!Partitioned
    <3>5. CASE d \in LeftOver
      <4>1. Holders(SeqSet(Uncopied))[d.req_id] # NoWr
        BY <1>1, <3>3, <3>5, InFlightHolds
      <4>2. PICK j \in PP!Base .. wq.next - 1 : wq.pool[j] = d.req_id
        BY <1>1, <3>3, <4>1 DEF SqInv, PP!PoolInv, PP!SessionHolds
      <4> QED
        BY <1>1, <3>2, <4>2 DEF SqInv, PP!PoolInv, PP!PoolInjective
    <3> QED
      BY <3>4, <3>5
  <2>6. NoSharedIndex
    BY <2>1, <2>2, <2>3, <2>4, <2>5 DEF NoSharedIndex, OneEach
  <2>7. NeverOverlap
    BY <2>1, <2>2 DEF NeverOverlap, OneEach
  <2> QED
    BY <2>6, <2>7
<1>2. SqInv => NoSharedIndex /\ NeverOverlap
  BY <1>1
<1> QED
  BY <1>2, SendQueueCorrect, PTL

(* The doorbell announces what is in the ring: never more, and all of it when *)
(* no thread holds the lock.                                                  *)
THEOREM DoorbellsExact ==
  ASSUME DrainedReset
  PROVE  Spec => []DoorbellExact
<1>1. ASSUME SqInv PROVE DoorbellExact
  <2>1. PICK n \in Nat : n = Waiting
    BY <1>1, Window DEF SqInv
  <2>2. Len(Unfetched) = n
    <3>1. Unfetched = [k \in 1 .. n |-> Front(k)]
      BY <1>1, <2>1, Parts DEF SqInv
    <3> HIDE DEF Front
    <3> QED
      BY <3>1
  <2>3. /\ WrapSub(db, devPc, U16) \in Nat /\ curbatch \in Nat
        /\ WrapSub(db, devPc, U16) + curbatch = n
        /\ lock = NoThread => curbatch = 0
    BY <1>1, <2>1, Typed, Distance, SqSizes DEF SqInv, DoorbellFits
  <2> QED
    BY <2>2, <2>3 DEF DoorbellExact
<1>2. SqInv => DoorbellExact
  BY <1>1
<1> QED
  BY <1>2, SendQueueCorrect, PTL

=============================================================================
