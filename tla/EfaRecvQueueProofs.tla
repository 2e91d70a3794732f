-------------------------- MODULE EfaRecvQueueProofs --------------------------
(* The safety properties of EfaRecvQueue, for every size of the ring and of   *)
(* the scatter lists, every width of the counters, any number of threads and  *)
(* every depth of the device.                                                 *)
EXTENDS EfaRecvQueue, EfaRingProofs, FiniteSetTheorems, SequenceTheorems

PP == INSTANCE EfaWridPoolProofs WITH
        owner <- Holders(Outstanding), session <- FALSE,
        building <- [i \in Idx |-> NoWr], pending <- 0

----------------------------------------------------------------------------
(* Two requests that nothing confuses.                                        *)
Apart(d, e) == d.req_id # e.req_id /\ d.wr # e.wr
ApartSets(S, T) == \A d \in S, e \in T : Apart(d, e)

(* Where a request can be: in the ring, at the position of its first          *)
(* descriptor, or taken by the device: in the works, in the completion queue, *)
(* in the poller's hand.                                                      *)
Span == WrapSub(pos.pc, devPc, U16)
Front(k) == ring[Slot(Ahead(devPc, k - 1))]
Asked(k) == [req_id |-> Front(k).req_id, wr |-> Front(k).wr]
Heads == {k \in 1 .. Span : Front(k).first}
InRing == {Asked(k) : k \in Heads}
InCq == {cqes[k] : k \in 1 .. Len(cqes)}
InHand == {cur} \ {NoDesc}
Taken == working \cup InCq \cup InHand

----------------------------------------------------------------------------
(* What waits is whole requests, one after the other.                         *)
Follows(d, e) == e.wr = d.wr /\ e.sge = d.sge + 1 /\ e.of = d.of
Whole(k) ==
  /\ Front(k) \in Desc
  /\ Front(k).first <=> Front(k).sge = 1
  /\ Front(k).last <=> Front(k).sge = Front(k).of
Joined(k) ==
  IF k = 1 \/ Front(k - 1).last THEN Front(k).first ELSE Follows(Front(k - 1), Front(k))
RingWhole ==
  /\ \A k \in 1 .. Span : Whole(k) /\ Joined(k)
  /\ Span > 0 => Front(Span).last

(* From any first descriptor on, no more descriptors wait than the requests   *)
(* that wait may have.                                                        *)
HeadsFrom(k) == {j \in Heads : j >= k}
RingFits ==
  /\ Span <= DescCnt
  /\ \A k \in Heads : Span - k + 1 <= MaxSge * Cardinality(HeadsFrom(k))

(* The doorbell announces whole requests, all of them when nobody posts.      *)
Announced == WrapSub(db, devPc, U16)
DoorbellFits ==
  /\ Announced <= Span
  /\ Announced > 0 => Front(Announced).last
  /\ lock = NoThread => Announced = Span

(* No two requests in flight have an index or a name in common, wherever each *)
(* of them is.                                                                *)
PostersApart ==
  /\ \A j, k \in Heads : j # k => Apart(Asked(j), Asked(k))
  /\ ApartSets(InRing, Taken)
TakenApart ==
  /\ \A d, e \in working : d # e => Apart(d, e)
  /\ \A j, k \in 1 .. Len(cqes) : j # k => Apart(cqes[j], cqes[k])
  /\ ApartSets(working, InCq)
  /\ ApartSets(working, InHand)
  /\ ApartSets(InCq, InHand)

RqInv ==
  /\ TypeOK /\ RingWhole /\ RingFits /\ DoorbellFits
  /\ PostersApart /\ TakenApart /\ PP!PoolInv

----------------------------------------------------------------------------
(* The constants, and the types the proofs below use most.                    *)
LEMMA RqSizes ==
  /\ DescCnt \in Nat \ {0} /\ U16 \in Nat \ {0} /\ DescCnt < U16
  /\ WqeCnt \in Nat \ {0} /\ MaxSge \in Nat \ {0} /\ MaxSge <= DescCnt
  /\ MaxSge * WqeCnt <= DescCnt
  /\ NoThread \notin Threads /\ NoWr \notin WrIds
  /\ NoDesc \notin Desc /\ NoDesc \notin Request
<1>1. /\ DescCnt \in Nat \ {0} /\ U16 \in Nat \ {0} /\ WqeCnt \in Nat \ {0}
      /\ MaxSge \in Nat \ {0} /\ DescCnt < U16
  BY WqAssumption, RqAssumption
<1>2. MaxSge * WqeCnt <= DescCnt
  <2>1. PICK D \in Nat \ {0}, x \in Nat : D = MaxSge /\ x = DescCnt
    BY <1>1
  <2>2. x % D \in 0 .. D - 1 /\ x = D * (x \div D) + (x % D) /\ x \div D \in Int
    BY SMT
  <2>3. WqeCnt = x \div D
    BY <2>1, RqAssumption
  <2> QED
    BY <1>1, <2>1, <2>2, <2>3
<1>3. MaxSge <= MaxSge * WqeCnt
  BY <1>1, SMT
<1>4. MaxSge * WqeCnt \in Nat
  BY <1>1, SMT
<1> QED
  BY <1>1, <1>2, <1>3, <1>4, WqAssumption, RqAssumption

LEMMA Typed ==
  ASSUME TypeOK
  PROVE  /\ pos.pc \in 0 .. U16 - 1 /\ pos.phase \in Phases
         /\ db \in 0 .. U16 - 1 /\ devPc \in 0 .. U16 - 1
         /\ ring \in [Slots -> Desc \cup {NoDesc}]
         /\ working \subseteq Request /\ cqes \in Seq(Request) /\ Len(cqes) \in Nat
         /\ cur \in Request \cup {NoDesc}
         /\ wq \in WqType /\ wq.next \in Nat /\ wq.pool \in [Idx -> Idx]
         /\ Span \in 0 .. U16 - 1 /\ Span \in Nat
         /\ Announced \in 0 .. U16 - 1 /\ Announced \in Nat
<1>1. /\ pos.pc \in 0 .. U16 - 1 /\ pos.phase \in Phases
      /\ db \in 0 .. U16 - 1 /\ devPc \in 0 .. U16 - 1
  BY DEF TypeOK, PosType
<1>2. wq \in WqType /\ wq.next \in Nat /\ wq.pool \in [Idx -> Idx]
  BY RqSizes DEF TypeOK, WqType
<1>3. Span \in 0 .. U16 - 1 /\ Announced \in 0 .. U16 - 1
  BY <1>1, Distance DEF Span, Announced
<1> QED
  BY <1>1, <1>2, <1>3, RqSizes DEF TypeOK

(* The properties' own words for the parts of the queue.                      *)
LEMMA Parts ==
  ASSUME TypeOK
  PROVE  /\ Unfetched = [k \in 1 .. Span |-> Front(k)] /\ Len(Unfetched) = Span
         /\ Firsts = Heads /\ \A k \in Heads : RequestAt(k) = Asked(k)
         /\ SeqSet(cqes) = InCq
         /\ Outstanding = InRing \cup Taken
<1>1. Span \in Nat /\ devPc \in Nat
  BY Typed, RqSizes
<1>2. Unfetched = [k \in 1 .. Span |-> Front(k)]
  <2>1. \A k \in 1 .. Span : (devPc + k - 1) % U16 = Ahead(devPc, k - 1)
    BY <1>1 DEF Ahead
  <2> QED
    BY <2>1 DEF Unfetched, Front, Span
<1>3. Len(Unfetched) = Span
  BY <1>1, <1>2
<1>4. Firsts = Heads
  BY <1>2 DEF Firsts, Heads
<1>5. \A k \in Heads : RequestAt(k) = Asked(k)
  BY <1>2 DEF RequestAt, Asked, Heads
<1>6. SeqSet(cqes) = InCq
  BY Typed DEF SeqSet, InCq
<1>7. Outstanding = InRing \cup Taken
  BY <1>4, <1>5, <1>6 DEF Outstanding, InRing, Taken, InHand
<1> QED
  BY <1>2, <1>3, <1>4, <1>5, <1>6, <1>7

LEMMA OfRequest ==
  ASSUME TypeOK, RingWhole
  PROVE  /\ InRing \subseteq Request /\ Taken \subseteq Request
         /\ \A d \in Request : d.req_id \in Idx /\ d.wr \in WrIds /\ d.wr # NoWr
<1>1. InRing \subseteq Request
  <2> SUFFICES ASSUME NEW k \in Heads PROVE Asked(k) \in Request
    BY DEF InRing
  <2>1. Front(k) \in Desc
    BY DEF RingWhole, Whole, Heads
  <2> QED
    BY <2>1 DEF Asked, Desc, Request
<1>2. Taken \subseteq Request
  BY Typed DEF Taken, InCq, InHand
<1> QED
  BY <1>1, <1>2, RqSizes DEF Request

----------------------------------------------------------------------------
(* EfaWridPoolProofs reads EfaWq under the same constants.                    *)
LEMMA SameWq ==
  /\ PP!Idx = Idx /\ PP!Ids = Ids /\ PP!WqType = WqType
  /\ \A w : PP!NextIdx(w) = NextIdx(w)
  /\ \A w, id : PP!GetNextWridIdx(w, id) = GetNextWridIdx(w, id)
  /\ \A w : PP!CountPosted(w) = CountPosted(w)
  /\ \A w, i : PP!PutWridIdx(w, i) = PutWridIdx(w, i)
  /\ \A w : PP!InitIndices(w) = InitIndices(w)
  /\ PP!WqInitial = WqInitial
<1>1. PP!Idx = Idx /\ PP!Ids = Ids
  BY DEF PP!Idx, Idx, PP!Ids, Ids
<1>2. \A x, m : PP!WrapInc(x, m) = WrapInc(x, m)
  BY DEF PP!WrapInc, WrapInc
<1>3. \A x, m : PP!WrapDec(x, m) = WrapDec(x, m)
  BY DEF PP!WrapDec, WrapDec
<1>4. \A w : PP!NextIdx(w) = NextIdx(w)
  BY DEF PP!NextIdx, NextIdx
<1>5. \A w, id : PP!GetNextWridIdx(w, id) = GetNextWridIdx(w, id)
  BY <1>2, <1>4 DEF PP!GetNextWridIdx, GetNextWridIdx
<1>6. \A w : PP!CountPosted(w) = CountPosted(w)
  BY <1>2 DEF PP!CountPosted, CountPosted
<1>7. \A w, i : PP!PutWridIdx(w, i) = PutWridIdx(w, i)
  BY <1>2, <1>3 DEF PP!PutWridIdx, PutWridIdx
<1>8. \A w : PP!InitIndices(w) = InitIndices(w)
  BY DEF PP!InitIndices, InitIndices
<1>9. PP!WqInitial = WqInitial
  BY <1>1 DEF PP!WqInitial, WqInitial
<1> QED
  BY <1>1, <1>4, <1>5, <1>6, <1>7, <1>8, <1>9 DEF PP!WqType, WqType

LEMMA SameFull == \A w : PP!Full(w) <=> Full(w)
  BY DEF PP!Full, Full, PP!WrapSub, WrapSub

(* Who holds an index, when no two requests of a set have it in common.       *)
OneEach(ds) == \A d, e \in ds : d.req_id = e.req_id => d = e

LEMMA Holder ==
  ASSUME NEW ds, OneEach(ds), NEW i \in Idx
  PROVE  /\ \A d \in ds : d.req_id = i => Holders(ds)[i] = d.wr
         /\ (\A d \in ds : d.req_id # i) => Holders(ds)[i] = NoWr
<1>1. Holders(ds)[i] = HolderIn(ds, i)
  BY DEF Holders
<1>2. ASSUME NEW d \in ds, d.req_id = i PROVE HolderIn(ds, i) = d.wr
  <2>1. (CHOOSE e \in ds : e.req_id = i) = d
    BY <1>2 DEF OneEach
  <2> QED
    BY <1>2, <2>1 DEF HolderIn
<1> QED
  BY <1>1, <1>2 DEF HolderIn

LEMMA OneHolderEach ==
  ASSUME PostersApart, TakenApart
  PROVE  OneEach(InRing \cup Taken)
<1>1. \A d, e \in InRing : d.req_id = e.req_id => d = e
  BY DEF PostersApart, InRing, Apart
<1>2. \A d, e \in Taken : d.req_id = e.req_id => d = e
  <2>1. \A d, e \in InCq : d.req_id = e.req_id => d = e
    BY DEF TakenApart, InCq, Apart
  <2>2. \A d, e \in working : d.req_id = e.req_id => d = e
    BY DEF TakenApart, Apart
  <2>3. \A d, e \in InHand : d = e
    BY DEF InHand
  <2> QED
    BY <2>1, <2>2, <2>3 DEF TakenApart, ApartSets, Apart, Taken
<1>3. \A d \in InRing, e \in Taken : d.req_id # e.req_id
  BY DEF PostersApart, ApartSets, Apart
<1> QED
  BY <1>1, <1>2, <1>3 DEF OneEach

(* Every request in flight holds its index, and the entry of the table at its *)
(* index has its name.                                                        *)
LEMMA InFlightHolds ==
  ASSUME RqInv
  PROVE  \A d \in InRing \cup Taken :
           Holders(Outstanding)[d.req_id] = d.wr /\ wq.wrid[d.req_id] = d.wr
<1> SUFFICES ASSUME NEW d \in InRing \cup Taken
             PROVE  Holders(Outstanding)[d.req_id] = d.wr /\ wq.wrid[d.req_id] = d.wr
  OBVIOUS
<1>1. Outstanding = InRing \cup Taken
  BY Parts DEF RqInv
<1>2. OneEach(InRing \cup Taken)
  BY OneHolderEach DEF RqInv
<1>3. d.req_id \in Idx /\ d.wr # NoWr
  BY OfRequest DEF RqInv
<1>4. Holders(Outstanding)[d.req_id] = d.wr
  BY <1>1, <1>2, <1>3, Holder
<1>5. \A i \in Idx :
         Holders(Outstanding)[i] # NoWr => wq.wrid[i] = Holders(Outstanding)[i]
  BY SameWq DEF RqInv, PP!PoolInv, PP!WridIntact
<1> QED
  BY <1>3, <1>4, <1>5

----------------------------------------------------------------------------
(* The index pool through its own invariant.                                  *)
LEMMA PoolFacts ==
  ASSUME RqInv
  PROVE  wq \in WqType /\ wq.next \in Nat /\ wq.next <= WqeCnt
  BY Typed DEF RqInv, PP!PoolInv, PP!CountersAgree

(* When the full test passes, the index the next request gets is nobody's.    *)
LEMMA NextIsNobodys ==
  ASSUME RqInv, ~Full(wq)
  PROVE  /\ wq.next < WqeCnt /\ NextIdx(wq) \in Idx
         /\ \A d \in InRing \cup Taken : d.req_id # NextIdx(wq)
<1>1. wq.next < WqeCnt /\ NextIdx(wq) \notin PP!Held
  <2>1. PP!NextIsFree
    BY WqAssumption, PP!FreeWhenNotFull DEF RqInv
  <2> QED
    BY <2>1, SameWq, SameFull DEF PP!NextIsFree
<1>2. NextIdx(wq) \in Idx
  <2>1. wq.next \in Nat /\ wq.pool \in [Idx -> Idx]
    BY Typed DEF RqInv
  <2> QED
    BY <1>1, <2>1, RqSizes DEF NextIdx, Idx
<1>3. \A d \in InRing \cup Taken : d.req_id \in Idx /\ d.wr # NoWr
  BY OfRequest DEF RqInv
<1>4. \A d \in InRing \cup Taken : d.req_id \in PP!Held
  BY <1>3, SameWq, InFlightHolds DEF PP!Held
<1> QED
  BY <1>1, <1>2, <1>4

LEMMA TakeWq ==
  ASSUME NEW w \in WqType, NEW id \in WrIds, w.next < WqeCnt,
         NEW v, v = CountPosted(GetNextWridIdx(w, id))
  PROVE  v \in WqType
<1>1. w \in PP!WqType /\ v = PP!CountPosted(PP!GetNextWridIdx(w, id))
  BY SameWq
<1>2. v \in PP!WqType
  BY ONLY <1>1, id \in WrIds, w.next < WqeCnt, WqAssumption, PP!TakeLemma, ZenonT(90)
<1> QED
  BY <1>2, SameWq

LEMMA PutWq ==
  ASSUME NEW w \in WqType, NEW i \in Idx, w.next > 0, w.next <= WqeCnt,
         NEW v, v = PutWridIdx(w, i)
  PROVE  v \in WqType
<1>1. w \in PP!WqType /\ v = PP!PutWridIdx(w, i) /\ i \in PP!Idx
  BY SameWq
<1>2. v \in PP!WqType
  BY <1>1, WqAssumption, PP!PutLemma, ZenonT(60)
<1> QED
  BY <1>2, SameWq

(* What every step of the queue is to its index pool.                         *)
PoolMove == PP!Next \/ UNCHANGED PP!vars

LEMMA PoolStep ==
  ASSUME RqInv, PoolMove
  PROVE  PP!PoolInv' /\ PoolMove
  BY WqAssumption, PP!NextPreserves DEF RqInv, PoolMove

----------------------------------------------------------------------------
(* When the full test passes, the ring has room for the longest list: the     *)
(* requests that wait have different indexes, and none has the next one.      *)
LEMMA FewHeads ==
  ASSUME RqInv, ~Full(wq)
  PROVE  IsFiniteSet(Heads) /\ Cardinality(Heads) \in 0 .. WqeCnt - 1
<1> DEFINE rest == Idx \ {NextIdx(wq)}
           f == [k \in Heads |-> Front(k).req_id]
<1>1. IsFiniteSet(Idx) /\ Cardinality(Idx) = WqeCnt
  BY FS_Interval, RqSizes DEF Idx
<1>2. IsFiniteSet(rest) /\ Cardinality(rest) = WqeCnt - 1
  BY <1>1, NextIsNobodys, FS_RemoveElement
<1>3. \A k \in Heads : Front(k).req_id \in rest
  <2> SUFFICES ASSUME NEW k \in Heads PROVE Front(k).req_id \in rest
    OBVIOUS
  <2>1. Asked(k) \in InRing /\ Asked(k).req_id = Front(k).req_id
    BY DEF InRing, Asked
  <2>2. Asked(k).req_id \in Idx
    BY <2>1, OfRequest DEF RqInv
  <2> QED
    BY <2>1, <2>2, NextIsNobodys
<1>4. \A j, k \in Heads : j # k => Front(j).req_id # Front(k).req_id
  BY DEF RqInv, PostersApart, Apart, Asked
<1>5. f \in Injection(Heads, rest)
  BY <1>3, <1>4 DEF Injection, IsInjective
<1>6. IsFiniteSet(Heads) /\ Cardinality(Heads) <= Cardinality(rest)
  BY <1>2, <1>5, FS_Injection
<1>7. Cardinality(Heads) \in Nat
  BY <1>6, FS_CardinalityType
<1> QED
  BY <1>2, <1>6, <1>7, RqSizes

LEMMA RoomLeft ==
  ASSUME RqInv, ~Full(wq)
  PROVE  Span + MaxSge <= DescCnt
<1>1. Span \in Nat
  BY Typed DEF RqInv
<1>2. CASE Span = 0
  BY <1>2, RqSizes
<1>3. CASE Span # 0
  <2>1. 1 \in 1 .. Span
    BY <1>1, <1>3
  <2>2. 1 \in Heads
    BY <2>1 DEF RqInv, RingWhole, Joined, Heads
  <2>3. HeadsFrom(1) = Heads
    BY DEF HeadsFrom, Heads
  <2>4. Span <= MaxSge * Cardinality(Heads)
    BY <1>1, <2>2, <2>3 DEF RqInv, RingFits
  <2>5. PICK c \in Nat : c = Cardinality(Heads) /\ c <= WqeCnt - 1
    BY FewHeads, RqSizes
  <2>6. PICK m \in Nat, w \in Nat : m = MaxSge /\ w = WqeCnt
    BY RqSizes
  <2>7. m * c <= m * (w - 1) /\ m * (w - 1) = m * w - m
    BY <2>5, <2>6, SMT
  <2>8. m * c \in Nat /\ m * w \in Nat
    BY SMT
  <2> QED
    BY <1>1, <2>4, <2>5, <2>6, <2>7, <2>8, RqSizes
<1> QED
  BY <1>2, <1>3

----------------------------------------------------------------------------
(* Two lemmas from above, in the state a step leads to.                       *)
PartsAreNamed == Outstanding = InRing \cup Taken
LEMMA PartsNamed == TypeOK => PartsAreNamed
  BY Parts DEF PartsAreNamed
LEMMA OneHolderEachNext == PostersApart /\ TakenApart => OneEach(InRing \cup Taken)
  BY OneHolderEach

LEMMA ApartTurned == \A d, e : Apart(d, e) <=> Apart(e, d)
  BY DEF Apart

(* Requests that move from one place to another keep their indexes.           *)
LEMMA PoolUnmoved ==
  ASSUME RqInv, TypeOK', InRing' \cup Taken' = InRing \cup Taken, wq' = wq
  PROVE  PP!PoolInv' /\ PoolMove
<1>1. PartsAreNamed /\ PartsAreNamed'
  BY PartsNamed, PTL DEF RqInv
<1>2. Outstanding' = Outstanding
  BY <1>1 DEF PartsAreNamed
<1> QED
  BY <1>2, PoolStep DEF PoolMove, PP!vars

(* Steps that do not touch the ring.                                          *)
LEMMA RingSame ==
  ASSUME RqInv, UNCHANGED <<ring, pos, devPc>>
  PROVE  /\ Span' = Span /\ Heads' = Heads /\ InRing' = InRing
         /\ \A k : Front(k)' = Front(k) /\ Asked(k)' = Asked(k)
         /\ RingWhole' /\ RingFits'
<1>1. Span' = Span
  BY DEF Span
<1>2. \A k : Front(k)' = Front(k) /\ Asked(k)' = Asked(k)
  BY DEF Front, Asked
<1>3. Heads' = Heads
  BY <1>1, <1>2 DEF Heads
<1>4. InRing' = InRing
  BY <1>2, <1>3 DEF InRing
<1>5. RingWhole'
  <2>1. \A k : (Whole(k)' <=> Whole(k)) /\ (Joined(k)' <=> Joined(k))
    BY <1>2 DEF Whole, Joined, Follows
  <2> QED
    BY <1>1, <1>2, <2>1 DEF RqInv, RingWhole
<1>6. RingFits'
  <2>1. \A k : HeadsFrom(k)' = HeadsFrom(k)
    BY <1>3 DEF HeadsFrom
  <2> QED
    BY <1>1, <1>3, <2>1 DEF RqInv, RingFits
<1> QED
  BY <1>1, <1>2, <1>3, <1>4, <1>5, <1>6

LEMMA PostersStay ==
  ASSUME RqInv, UNCHANGED <<ring, pos, devPc>>, Taken' \subseteq Taken
  PROVE  PostersApart'
<1>1. \A j, k \in Heads' : j # k => Apart(Asked(j)', Asked(k)')
  BY RingSame DEF RqInv, PostersApart
<1>2. ApartSets(InRing', Taken')
  BY RingSame DEF RqInv, PostersApart, ApartSets
<1> QED
  BY <1>1, <1>2 DEF PostersApart

LEMMA DoorbellStays ==
  ASSUME RqInv, UNCHANGED <<ring, pos, devPc, db, lock>>
  PROVE  DoorbellFits'
<1>1. Announced' = Announced
  BY DEF Announced
<1>2. Span' = Span /\ Front(Announced)' = Front(Announced')
  BY <1>1, RingSame DEF Front
<1>3. \A k : Front(k)' = Front(k)
  BY RingSame
<1> QED
  BY <1>1, <1>2, <1>3 DEF RqInv, DoorbellFits

(* Steps of the posters and of efa_modify_qp that move nothing: the doorbell  *)
(* is rung for all there is, or nothing is unlocked.                          *)
LEMMA QuietStep ==
  ASSUME RqInv, UNCHANGED <<wq, pos, ring, devPc, working, cqes, cur>>,
         \/ db' = pos.pc
         \/ db' = db /\ (lock' = NoThread => lock = NoThread),
         lock' \in Threads \cup {NoThread}, state' \in {"RESET", "INIT", "ERR"}
  PROVE  RqInv' /\ PoolMove
<1>1. TypeOK'
  <2>1. db' \in 0 .. U16 - 1
    BY Typed DEF RqInv
  <2> QED
    BY <2>1 DEF RqInv, TypeOK
<1>2. /\ InCq' = InCq /\ InHand' = InHand /\ Taken' = Taken
  BY DEF InCq, InHand, Taken
<1>3. /\ Span' = Span /\ InRing' = InRing /\ \A k : Front(k)' = Front(k)
      /\ RingWhole' /\ RingFits' /\ PostersApart'
  BY <1>2, RingSame, PostersStay
<1>4. TakenApart'
  BY <1>2 DEF RqInv, TakenApart
<1>5. DoorbellFits'
  <2>1. CASE db' = pos.pc
    <3>1. Announced' = Span
      BY <2>1 DEF Announced, Span
    <3>2. (Announced > 0 => Front(Announced).last)' <=> (Span > 0 => Front(Span).last)
      BY <1>3, <3>1 DEF Front
    <3> QED
      BY <1>3, <3>1, <3>2, Typed DEF RqInv, RingWhole, DoorbellFits
  <2>2. CASE db' = db /\ (lock' = NoThread => lock = NoThread)
    <3>1. Announced' = Announced
      BY <2>2 DEF Announced
    <3>2. (Announced > 0 => Front(Announced).last)'
            <=> (Announced > 0 => Front(Announced).last)
      BY <3>1 DEF Front
    <3> QED
      BY <1>3, <2>2, <3>1, <3>2 DEF RqInv, DoorbellFits
  <2> QED
    BY <2>1, <2>2
<1>6. PP!PoolInv' /\ PoolMove
  BY <1>1, <1>2, <1>3, PoolUnmoved
<1> QED
  BY <1>1, <1>3, <1>4, <1>5, <1>6 DEF RqInv

LEMMA LockSteps ==
  ASSUME RqInv,
         \/ \E t \in Threads : \/ PostRecv(t) \/ PostRecvDone(t)
                               \/ \E n \in NumSges : PostRecvRefuse(t, n)
         \/ ModifyErr \/ ModifyInit \/ UNCHANGED vars
  PROVE  RqInv' /\ PoolMove
<1>1. lock \in Threads \cup {NoThread} /\ state \in {"RESET", "INIT", "ERR"}
  BY DEF RqInv, TypeOK
<1>2. ASSUME NEW t \in Threads, PostRecv(t) PROVE RqInv' /\ PoolMove
  <2>1. t # NoThread
    BY RqSizes
  <2> QED
    BY <1>1, <1>2, <2>1, QuietStep DEF PostRecv
<1>3. ASSUME NEW t \in Threads,
             PostRecvDone(t) \/ \E n \in NumSges : PostRecvRefuse(t, n)
      PROVE  RqInv' /\ PoolMove
  BY <1>1, <1>3, QuietStep DEF PostRecvDone, PostRecvRefuse
<1>4. CASE ModifyErr \/ ModifyInit
  BY <1>1, <1>4, QuietStep DEF ModifyErr, ModifyInit
<1>5. CASE UNCHANGED vars
  BY <1>1, <1>5, QuietStep DEF vars
<1> QED
  BY <1>2, <1>3, <1>4, <1>5

----------------------------------------------------------------------------
(* The device and the poller.                                                 *)
LEMMA DevCompleteStep ==
  ASSUME RqInv, NEW d \in working, DevComplete(d)
  PROVE  RqInv' /\ PoolMove
<1>1. /\ working' = working \ {d} /\ cqes' = Append(cqes, d)
      /\ UNCHANGED <<wq, pos, ring, db, state, lock, devPc, cur>>
  BY DEF DevComplete
<1>2. cqes \in Seq(Request) /\ working \subseteq Request /\ d \in Request
  BY Typed DEF RqInv
<1>3. PICK n \in Nat : n = Len(cqes)
  BY <1>2
<1>4. /\ cqes' \in Seq(Request) /\ Len(cqes') = n + 1 /\ cqes'[n + 1] = d
      /\ \A k \in 1 .. n : cqes'[k] = cqes[k]
  BY <1>1, <1>2, <1>3
<1>5. /\ \A k \in 1 .. n + 1 : k \in 1 .. n \/ k = n + 1
      /\ \A k \in 1 .. n : k \in 1 .. n + 1
      /\ n + 1 \in 1 .. n + 1
  BY <1>3
<1>6. InCq' = InCq \cup {d}
  <2>1. InCq = {cqes[k] : k \in 1 .. n} /\ InCq' = {cqes'[k] : k \in 1 .. n + 1}
    BY <1>3, <1>4 DEF InCq
  <2>2. InCq' \subseteq InCq \cup {d}
    BY <1>4, <1>5, <2>1
  <2>3. InCq \subseteq InCq' /\ d \in InCq'
    BY <1>4, <1>5, <2>1
  <2> QED
    BY <2>2, <2>3
<1>7. InHand' = InHand /\ Taken' = Taken
  BY <1>1, <1>6 DEF InHand, Taken
<1>8. TakenApart'
  <2>1. \A e \in InCq : Apart(d, e)
    BY DEF RqInv, TakenApart, ApartSets
  <2>2. ASSUME NEW j \in 1 .. n + 1, NEW k \in 1 .. n + 1, j # k
        PROVE  Apart(cqes'[j], cqes'[k])
    <3>1. CASE j \in 1 .. n /\ k \in 1 .. n
      BY <1>3, <1>4, <2>2, <3>1 DEF RqInv, TakenApart
    <3>2. CASE j = n + 1 /\ k \in 1 .. n
      BY <1>3, <1>4, <2>1, <3>2 DEF InCq
    <3>3. CASE j \in 1 .. n /\ k = n + 1
      BY <1>3, <1>4, <2>1, <3>3, ApartTurned DEF InCq
    <3> QED
      BY <1>5, <2>2, <3>1, <3>2, <3>3
  <2>3. \A e \in working' : Apart(e, d)
    BY <1>1 DEF RqInv, TakenApart
  <2>4. ApartSets(working', InCq')
    BY <1>1, <1>6, <2>3 DEF RqInv, TakenApart, ApartSets
  <2>5. ApartSets(working', InHand') /\ ApartSets(InCq', InHand')
    BY <1>1, <1>6, <1>7 DEF RqInv, TakenApart, ApartSets
  <2>6. \A e, f \in working' : e # f => Apart(e, f)
    BY <1>1 DEF RqInv, TakenApart
  <2> QED
    BY <1>4, <2>2, <2>4, <2>5, <2>6 DEF TakenApart
<1>9. InRing' = InRing /\ RingWhole' /\ RingFits' /\ PostersApart' /\ DoorbellFits'
  BY <1>1, <1>7, RingSame, PostersStay, DoorbellStays
<1>10. TypeOK'
  <2>1. working' \subseteq Request
    BY <1>1, <1>2
  <2> QED
    BY <1>1, <1>4, <2>1 DEF RqInv, TypeOK
<1>11. PP!PoolInv' /\ PoolMove
  BY <1>1, <1>7, <1>9, <1>10, PoolUnmoved
<1> QED
  BY <1>8, <1>9, <1>10, <1>11 DEF RqInv

LEMMA PollCqeStep ==
  ASSUME RqInv, PollCqe
  PROVE  RqInv' /\ PoolMove
<1>1. /\ cur = NoDesc /\ cqes # <<>> /\ cur' = Head(cqes) /\ cqes' = Tail(cqes)
      /\ UNCHANGED <<wq, pos, ring, db, state, lock, devPc, working>>
  BY DEF PollCqe
<1>2. cqes \in Seq(Request)
  BY Typed DEF RqInv
<1>3. PICK n \in Nat : Len(cqes) = n + 1
  <2>1. Len(cqes) \in Nat /\ Len(cqes) # 0
    BY <1>1, <1>2
  <2>2. Len(cqes) - 1 \in Nat /\ Len(cqes) = Len(cqes) - 1 + 1
    BY <2>1
  <2> QED
    BY <2>2
<1>4. /\ cur' = cqes[1] /\ cur' \in Request /\ cqes' \in Seq(Request)
      /\ Len(cqes') = n /\ \A k \in 1 .. n : cqes'[k] = cqes[k + 1]
  <2>1. 1 \in 1 .. n + 1
    BY <1>3
  <2>2. cur' = cqes[1] /\ cqes[1] \in Request
    BY <1>1, <1>2, <1>3, <2>1
  <2> QED
    BY <1>1, <1>2, <1>3, <2>2
<1>5. /\ \A k \in 1 .. n + 1 : k = 1 \/ \E j \in 1 .. n : k = j + 1
      /\ \A k \in 1 .. n : k + 1 \in 1 .. n + 1 /\ k + 1 # 1
      /\ 1 \in 1 .. n + 1
  <2>1. \A k \in 1 .. n + 1 : k = 1 \/ (k - 1 \in 1 .. n /\ k = k - 1 + 1)
    BY <1>3
  <2> QED
    BY <1>3, <2>1
<1>6. InCq = InCq' \cup {cur'}
  <2>1. InCq = {cqes[k] : k \in 1 .. n + 1} /\ InCq' = {cqes'[k] : k \in 1 .. n}
    BY <1>3, <1>4 DEF InCq
  <2>2. InCq \subseteq InCq' \cup {cur'}
    <3> SUFFICES ASSUME NEW k \in 1 .. n + 1
                 PROVE  cqes[k] \in InCq' \cup {cur'}
      BY <2>1
    <3>1. CASE k = 1
      BY <1>4, <3>1
    <3>2. CASE \E j \in 1 .. n : k = j + 1
      <4>1. PICK j \in 1 .. n : k = j + 1
        BY <3>2
      <4>2. cqes[k] = cqes'[j]
        BY <1>4, <4>1
      <4> QED
        BY <2>1, <4>2
    <3> QED
      BY <1>5, <3>1, <3>2
  <2>3. InCq' \subseteq InCq /\ cur' \in InCq
    BY <1>4, <1>5, <2>1
  <2> QED
    BY <2>2, <2>3
<1>7. InHand = {} /\ InHand' = {cur'}
  BY <1>1, <1>4, RqSizes DEF InHand
<1>8. Taken' = Taken
  BY <1>1, <1>6, <1>7 DEF Taken
<1>9. TakenApart'
  <2>1. ASSUME NEW j \in 1 .. n, NEW k \in 1 .. n, j # k
        PROVE  Apart(cqes'[j], cqes'[k])
    <3>1. j + 1 \in 1 .. n + 1 /\ k + 1 \in 1 .. n + 1 /\ j + 1 # k + 1
      BY <1>5, <2>1
    <3>2. Apart(cqes[j + 1], cqes[k + 1])
      BY <1>3, <3>1 DEF RqInv, TakenApart
    <3> QED
      BY <1>4, <3>2
  <2>2. ApartSets(InCq', InHand')
    <3> SUFFICES ASSUME NEW k \in 1 .. n PROVE Apart(cqes'[k], cur')
      BY <1>4, <1>7 DEF ApartSets, InCq
    <3>1. Apart(cqes[k + 1], cqes[1])
      BY <1>3, <1>5 DEF RqInv, TakenApart
    <3> QED
      BY <1>4, <3>1
  <2>3. ApartSets(working', InCq') /\ ApartSets(working', InHand')
    BY <1>1, <1>6, <1>7 DEF RqInv, TakenApart, ApartSets
  <2>4. \A e, f \in working' : e # f => Apart(e, f)
    BY <1>1 DEF RqInv, TakenApart
  <2> QED
    BY <1>4, <2>1, <2>2, <2>3, <2>4 DEF TakenApart
<1>10. InRing' = InRing /\ RingWhole' /\ RingFits' /\ PostersApart' /\ DoorbellFits'
  BY <1>1, <1>8, RingSame, PostersStay, DoorbellStays
<1>11. TypeOK'
  BY <1>1, <1>4 DEF RqInv, TypeOK
<1>12. PP!PoolInv' /\ PoolMove
  BY <1>1, <1>8, <1>10, <1>11, PoolUnmoved
<1> QED
  BY <1>9, <1>10, <1>11, <1>12 DEF RqInv

(* The index of a completion is given back: its request, which nothing else   *)
(* stands for, is forgotten.                                                  *)
LEMMA HoldersRemove ==
  ASSUME NEW ds, NEW d \in ds, NEW es, es = ds \ {d}, OneEach(ds)
  PROVE  Holders(es) = [Holders(ds) EXCEPT ![d.req_id] = NoWr]
<1>1. OneEach(es)
  BY DEF OneEach
<1>2. ASSUME NEW k \in Idx
      PROVE  Holders(es)[k] = IF k = d.req_id THEN NoWr ELSE Holders(ds)[k]
  <2>1. CASE k = d.req_id
    <3>1. \A e \in es : e.req_id # k
      BY <2>1 DEF OneEach
    <3> QED
      BY <1>1, <2>1, <3>1, Holder
  <2>2. CASE k # d.req_id
    <3>1. CASE \E e \in es : e.req_id = k
      BY <1>1, <2>2, <3>1, Holder
    <3>2. CASE \A e \in es : e.req_id # k
      <4>1. \A e \in ds : e.req_id # k
        BY <2>2, <3>2
      <4> QED
        BY <1>1, <2>2, <3>2, <4>1, Holder
    <3> QED
      BY <3>1, <3>2
  <2> QED
    BY <2>1, <2>2
<1> QED
  BY <1>2 DEF Holders

LEMMA PutCurStep ==
  ASSUME RqInv, PutCur
  PROVE  RqInv' /\ PoolMove
<1> DEFINE i == cur.req_id
<1>1. /\ cur # NoDesc /\ lock = NoThread /\ cur' = NoDesc
      /\ wq' = PutWridIdx(wq, i)
      /\ UNCHANGED <<pos, ring, db, state, lock, devPc, working, cqes>>
  BY DEF PutCur
<1>2. cur \in Request /\ i \in Idx /\ cur.wr # NoWr /\ cur \in InHand
  BY <1>1, OfRequest DEF RqInv, TypeOK, InHand
<1>3. /\ InHand = {cur} /\ InHand' = {} /\ InCq' = InCq /\ working' = working
  BY <1>1, <1>2 DEF InHand, InCq
<1>4. Taken' \subseteq Taken
  BY <1>3 DEF Taken
<1>5. InRing' = InRing /\ RingWhole' /\ RingFits' /\ PostersApart' /\ DoorbellFits'
  BY <1>1, <1>4, RingSame, PostersStay, DoorbellStays
<1>6. TakenApart'
  BY <1>1, <1>3 DEF RqInv, TakenApart, ApartSets
<1>7. Holders(Outstanding)[i] # NoWr
  BY <1>2, InFlightHolds DEF Taken
<1>8. TypeOK'
  <2>1. wq.next > 0
    <3>1. PP!Base > 0
      BY <1>2, <1>7, WqAssumption, SameWq, PP!HeldMeansTaken
         DEF RqInv, PP!PoolInv
    <3> QED
      BY <3>1, PoolFacts DEF PP!Base
  <2>2. wq' \in WqType
    BY <1>1, <1>2, <2>1, PoolFacts, PutWq
  <2> QED
    BY <1>1, <2>2 DEF RqInv, TypeOK
<1>9. PP!PoolInv' /\ PoolMove
  <2>1. PartsAreNamed /\ (TypeOK => PartsAreNamed)'
    BY PartsNamed, PTL DEF RqInv
  <2>2. PartsAreNamed'
    BY <1>8, <2>1
  <2>3. cur \notin InRing /\ cur \notin working /\ cur \notin InCq
    BY <1>2 DEF RqInv, PostersApart, TakenApart, ApartSets, Apart, Taken
  <2>4. Outstanding' = Outstanding \ {cur} /\ cur \in Outstanding
    BY <1>3, <1>5, <2>1, <2>2, <2>3 DEF PartsAreNamed, Taken
  <2>5. OneEach(Outstanding)
    BY <2>1, OneHolderEach DEF RqInv, PartsAreNamed
  <2>6. Holders(Outstanding)' = [Holders(Outstanding) EXCEPT ![i] = NoWr]
    BY <2>4, <2>5, HoldersRemove
  <2>7. PP!Put(i)
    BY <1>1, <1>7, <2>6, SameWq DEF PP!Put
  <2>8. i \in PP!Idx
    BY <1>2, SameWq
  <2> QED
    BY <2>7, <2>8, PoolStep DEF PoolMove, PP!Next
<1> QED
  BY <1>5, <1>6, <1>8, <1>9 DEF RqInv

(* A drained queue is set back: nothing is in flight before or after.         *)
LEMMA NoHolders == Holders({}) = [i \in Idx |-> NoWr]
  BY DEF Holders, HolderIn

Emptied == Span = 0 /\ cqes = <<>> /\ working = {} /\ cur = NoDesc
NothingThere ==
  /\ Heads = {} /\ InRing = {} /\ Taken = {}
  /\ RingWhole /\ RingFits /\ PostersApart /\ TakenApart

LEMMA NothingLeft == Emptied => NothingThere
<1> SUFFICES ASSUME Span = 0, cqes = <<>>, working = {}, cur = NoDesc
             PROVE  NothingThere
  BY DEF Emptied
<1>1. /\ Heads = {} /\ InRing = {} /\ InCq = {} /\ InHand = {} /\ Taken = {}
  <2>1. Len(cqes) = 0
    OBVIOUS
  <2>2. Heads = {} /\ InCq = {}
    BY <2>1 DEF Heads, InCq
  <2> QED
    BY <2>2 DEF InRing, InHand, Taken
<1>2. RingWhole
  BY DEF RingWhole
<1>3. RingFits
  BY <1>1, RqSizes DEF RingFits
<1>4. PostersApart
  BY <1>1 DEF PostersApart, ApartSets
<1>5. TakenApart
  <2>1. Len(cqes) = 0
    OBVIOUS
  <2> QED
    BY <1>1, <2>1 DEF TakenApart, ApartSets
<1> QED
  BY <1>1, <1>2, <1>3, <1>4, <1>5 DEF NothingThere

LEMMA ModifyResetStep ==
  ASSUME RqInv, ModifyReset
  PROVE  RqInv' /\ PoolMove
<1>1. /\ lock = NoThread /\ Outstanding = {}
      /\ state' = "RESET" /\ wq' = InitIndices(wq) /\ pos' = InitPos(pos)
      /\ db' = 0 /\ devPc' = 0 /\ UNCHANGED <<ring, lock, working, cqes, cur>>
  BY DEF ModifyReset
<1>2. working = {} /\ cqes = <<>> /\ cur = NoDesc
  <2>1. PartsAreNamed
    BY PartsNamed DEF RqInv
  <2>2. Taken = {}
    BY <1>1, <2>1 DEF PartsAreNamed
  <2>3. Len(cqes) = 0
    <3> SUFFICES ASSUME Len(cqes) # 0 PROVE FALSE
      OBVIOUS
    <3>1. 1 \in 1 .. Len(cqes)
      BY Typed DEF RqInv
    <3> QED
      BY <2>2, <3>1 DEF Taken, InCq
  <2> QED
    BY <2>2, <2>3, Typed DEF RqInv, Taken, InHand
<1>3. wq \in WqType /\ pos \in PosType
  BY DEF RqInv, TypeOK
<1>4. wq' \in WqType
  <2>1. wq' = [wq EXCEPT !.next = 0, !.posted = 0, !.completed = 0]
    BY <1>1 DEF InitIndices
  <2>2. 0 \in 0 .. U16 - 1 /\ 0 \in 0 .. U32 - 1
    BY WqAssumption
  <2> QED
    BY <1>3, <2>1, <2>2 DEF WqType
<1>5. pos' \in PosType /\ pos'.pc = 0
  <2>1. 0 \in 0 .. U16 - 1
    BY RqSizes
  <2> QED
    BY <1>1, <1>3, <2>1 DEF InitPos, PosType
<1>6. TypeOK'
  <2>1. 0 \in 0 .. U16 - 1
    BY RqSizes
  <2> QED
    BY <1>1, <1>4, <1>5, <2>1 DEF RqInv, TypeOK
<1>7. Span' = 0 /\ Announced' = 0
  BY <1>1, <1>5 DEF Span, Announced, WrapSub
<1>8. /\ InRing' = {} /\ Taken' = {}
      /\ RingWhole' /\ RingFits' /\ PostersApart' /\ TakenApart'
  <2>1. Emptied'
    BY <1>1, <1>2, <1>7 DEF Emptied
  <2>2. NothingThere'
    BY <2>1, NothingLeft, PTL
  <2> QED
    BY <2>2 DEF NothingThere
<1>9. DoorbellFits'
  BY <1>7 DEF DoorbellFits
<1>10. PP!PoolInv' /\ PoolMove
  <2>1. PartsAreNamed'
    BY <1>6, PartsNamed, PTL
  <2>2. Outstanding' = Outstanding /\ Outstanding = {}
    BY <1>1, <1>8, <2>1 DEF PartsAreNamed
  <2>3. PP!Held = {}
    BY <2>2, NoHolders, SameWq DEF PP!Held
  <2>4. PP!Reset
    BY <1>1, <2>2, <2>3, SameWq DEF PP!Reset
  <2> QED
    BY <2>4, PoolStep DEF PoolMove, PP!Next
<1> QED
  BY <1>6, <1>8, <1>9, <1>10 DEF RqInv

----------------------------------------------------------------------------
(* The device takes up the oldest request: all its descriptors, and no other. *)
LEMMA FetchParts ==
  ASSUME RqInv, DevFetch
  PROVE  \E n \in Nat \ {0} :
           /\ n <= Announced /\ n <= Span /\ Front(n).last
           /\ \A k \in 1 .. n - 1 : ~Front(k).last
           /\ Span' = Span - n /\ Announced' = Announced - n
           /\ devPc' \in 0 .. U16 - 1
           /\ \A k \in 1 .. Span - n : Front(k)' = Front(k + n)
           /\ working' = working \cup {Asked(1)}
<1>1. PICK n \in 1 .. Announced :
         /\ ring[Slot((devPc + n - 1) % U16)].last
         /\ \A k \in 1 .. n - 1 : ~ring[Slot((devPc + k - 1) % U16)].last
         /\ working' = working \cup
              {[req_id |-> ring[Slot(devPc)].req_id, wr |-> ring[Slot(devPc)].wr]}
         /\ devPc' = (devPc + n) % U16
         /\ UNCHANGED <<wq, pos, ring, db, state, lock, cqes, cur>>
  BY DEF DevFetch, Announced
<1>2. PICK a \in 0 .. U16 - 1, s \in 0 .. U16 - 1 :
         a = Announced /\ s = Span /\ a <= s
  BY Typed DEF RqInv, DoorbellFits
<1>3. n \in 1 .. a /\ n \in Nat \ {0} /\ n \in 0 .. U16 /\ U16 \in Nat
  BY <1>1, <1>2, RqSizes
<1>4. /\ devPc \in 0 .. U16 - 1 /\ db \in 0 .. U16 - 1 /\ pos.pc \in 0 .. U16 - 1
  BY Typed DEF RqInv
<1>5. \A k \in 1 .. n : Slot((devPc + k - 1) % U16) = Slot(Ahead(devPc, k - 1))
  <2>1. \A k \in 1 .. n : devPc + k - 1 = devPc + (k - 1)
    BY <1>3, <1>4
  <2> QED
    BY <2>1 DEF Ahead
<1>6. Front(n).last /\ \A k \in 1 .. n - 1 : ~Front(k).last
  <2>1. n \in 1 .. n /\ \A k \in 1 .. n - 1 : k \in 1 .. n
    BY <1>3
  <2> QED
    BY <1>1, <1>5, <2>1 DEF Front
<1>7. Front(1) = ring[Slot(devPc)]
  <2>1. Ahead(devPc, 1 - 1) = devPc
    BY <1>3, <1>4, AheadValue
  <2> QED
    BY <2>1 DEF Front
<1>8. working' = working \cup {Asked(1)}
  BY <1>1, <1>7 DEF Asked
<1>9. devPc' = Ahead(devPc, n) /\ devPc' \in 0 .. U16 - 1
  BY <1>1, <1>3, <1>4, AheadValue DEF Ahead
<1>10. WrapSub(devPc', devPc, U16) = n
  <2>1. devPc' = IF devPc + n < U16 THEN devPc + n ELSE devPc + n - U16
    BY <1>3, <1>4, <1>9, AheadValue
  <2> QED
    BY <1>2, <1>3, <1>4, <2>1 DEF WrapSub
<1>11. Span' = Span - n /\ Announced' = Announced - n
  <2>1. WrapSub(pos.pc, devPc', U16) = Span - n
    BY <1>2, <1>3, <1>4, <1>9, <1>10, Between DEF Span
  <2>2. WrapSub(db, devPc', U16) = Announced - n
    BY <1>2, <1>3, <1>4, <1>9, <1>10, Between DEF Announced
  <2> QED
    BY <1>1, <2>1, <2>2 DEF Span, Announced
<1>12. ASSUME NEW k \in 1 .. Span - n PROVE Front(k)' = Front(k + n)
  <2>1. PICK i \in 0 .. U16 : i = k - 1 /\ n + i <= U16 /\ n + i = k + n - 1
    BY <1>2, <1>3
  <2>2. Ahead(devPc', i) = Ahead(devPc, n + i)
    BY <1>3, <1>4, <1>9, <2>1, AheadAhead
  <2> QED
    BY <1>1, <2>1, <2>2 DEF Front
<1>13. n <= Announced /\ n <= Span
  BY <1>2, <1>3
<1> QED
  BY <1>3, <1>6, <1>8, <1>9, <1>11, <1>12, <1>13

(* The places of the first descriptors that are left, n nearer to the front.  *)
LEMMA HeadsMoveUp ==
  ASSUME RqInv, NEW n \in Nat \ {0}, n <= Span, Front(n).last,
         \A k \in 1 .. n - 1 : ~Front(k).last,
         Span' = Span - n, \A k \in 1 .. Span - n : Front(k)' = Front(k + n)
  PROVE  /\ 1 \in Heads
         /\ \A j \in Heads : j = 1 \/ (j > n /\ j - n \in Heads')
         /\ \A j \in Heads' : j + n \in Heads /\ Asked(j)' = Asked(j + n)
         /\ \A j \in Heads' : Cardinality(HeadsFrom(j)') = Cardinality(HeadsFrom(j + n))
<1>1. PICK s \in Nat : s = Span
  BY Typed DEF RqInv
<1>2. 1 \in Heads
  <2>1. 1 \in 1 .. s
    BY <1>1
  <2> QED
    BY <1>1, <2>1 DEF RqInv, RingWhole, Joined, Heads
<1>3. ASSUME NEW j \in 2 .. n PROVE ~Front(j).first
  <2>1. j \in 1 .. s /\ j - 1 \in 1 .. s /\ j - 1 \in 1 .. n - 1 /\ j # 1
    BY <1>1
  <2>2. Follows(Front(j - 1), Front(j))
    BY <1>1, <2>1 DEF RqInv, RingWhole, Joined
  <2>3. Front(j - 1) \in Desc /\ (Front(j).first <=> Front(j).sge = 1)
    BY <1>1, <2>1 DEF RqInv, RingWhole, Whole
  <2>4. Front(j - 1).sge \in 1 .. MaxSge
    BY <2>3 DEF Desc
  <2> QED
    BY <2>2, <2>3, <2>4, RqSizes DEF Follows
<1>4. ASSUME NEW j \in Heads PROVE j = 1 \/ (j > n /\ j - n \in Heads')
  <2>1. j \in 1 .. s /\ Front(j).first
    BY <1>1 DEF Heads
  <2>2. j = 1 \/ j > n
    BY <1>3, <2>1
  <2>3. CASE j > n
    <3>1. j - n \in 1 .. s - n /\ j - n + n = j
      BY <2>1, <2>3
    <3>2. Front(j - n)'.first
      BY <1>1, <2>1, <3>1
    <3> QED
      BY <1>1, <2>3, <3>1, <3>2 DEF Heads
  <2> QED
    BY <2>2, <2>3
<1>5. ASSUME NEW j \in Heads' PROVE j + n \in Heads /\ Asked(j)' = Asked(j + n)
  <2>1. j \in 1 .. s - n /\ Front(j)'.first
    BY <1>1 DEF Heads
  <2>2. j + n \in 1 .. s /\ Front(j)' = Front(j + n)
    BY <1>1, <2>1
  <2> QED
    BY <1>1, <2>1, <2>2 DEF Heads, Asked
<1>6. ASSUME NEW j \in Heads'
      PROVE  Cardinality(HeadsFrom(j)') = Cardinality(HeadsFrom(j + n))
  <2> DEFINE A == HeadsFrom(j)'
             B == HeadsFrom(j + n)
             f == [i \in A |-> i + n]
  <2>1. A = {i \in Heads' : i >= j} /\ B = {i \in Heads : i >= j + n}
    BY DEF HeadsFrom
  <2>2. j \in Nat \ {0} /\ Heads' \subseteq Nat /\ Heads \subseteq Nat
    BY <1>1 DEF Heads
  <2>3. \A i \in A : i \in Nat /\ i + n \in B
    <3> SUFFICES ASSUME NEW i \in A PROVE i \in Nat /\ i + n \in B
      OBVIOUS
    <3>1. i \in Heads' /\ i \in Nat /\ i >= j
      BY <2>1, <2>2
    <3>2. i + n >= j + n /\ i + n \in Heads
      BY <1>5, <2>2, <3>1
    <3> QED
      BY <2>1, <3>1, <3>2
  <2>4. \A i \in B : i - n \in A /\ i - n + n = i
    <3> SUFFICES ASSUME NEW i \in B PROVE i - n \in A /\ i - n + n = i
      OBVIOUS
    <3>1. i \in Heads /\ i \in Nat /\ i >= j + n
      BY <2>1, <2>2
    <3>2. i # 1 /\ i - n >= j /\ i - n + n = i
      BY <2>2, <3>1
    <3> QED
      BY <1>4, <2>1, <3>1, <3>2
  <2> HIDE DEF A, B
  <2>5. f \in Bijection(A, B)
    <3>1. f \in [A -> B]
      BY <2>3
    <3>2. \A i, k \in A : f[i] = f[k] => i = k
      BY <2>3
    <3>3. \A i \in B : \E k \in A : f[k] = i
      BY <2>4
    <3> QED
      BY <3>1, <3>2, <3>3 DEF Bijection, Injection, IsInjective, Surjection
  <2>6. IsFiniteSet(A)
    <3>1. A \subseteq 1 .. s - n
      BY <1>1, <2>1 DEF Heads
    <3>2. IsFiniteSet(1 .. s - n)
      BY FS_Interval
    <3> QED
      BY <3>1, <3>2, FS_Subset
  <2>7. Cardinality(A) = Cardinality(B)
    BY <2>5, <2>6, FS_Bijection DEF ExistsBijection
  <2> QED
    BY <2>7 DEF A, B
<1> QED
  BY <1>2, <1>4, <1>5, <1>6

LEMMA DevFetchStep ==
  ASSUME RqInv, DevFetch
  PROVE  RqInv' /\ PoolMove
<1>1. UNCHANGED <<wq, pos, ring, db, state, lock, cqes, cur>>
  BY DEF DevFetch
<1>2. PICK n \in Nat \ {0} :
         /\ n <= Announced /\ n <= Span /\ Front(n).last
         /\ \A k \in 1 .. n - 1 : ~Front(k).last
         /\ Span' = Span - n /\ Announced' = Announced - n
         /\ devPc' \in 0 .. U16 - 1
         /\ \A k \in 1 .. Span - n : Front(k)' = Front(k + n)
         /\ working' = working \cup {Asked(1)}
  BY FetchParts
<1>3. /\ 1 \in Heads
      /\ \A j \in Heads : j = 1 \/ (j > n /\ j - n \in Heads')
      /\ \A j \in Heads' : j + n \in Heads /\ Asked(j)' = Asked(j + n)
      /\ \A j \in Heads' : Cardinality(HeadsFrom(j)') = Cardinality(HeadsFrom(j + n))
  BY <1>2, HeadsMoveUp
<1>4. PICK s \in Nat, a \in Nat : s = Span /\ a = Announced
  BY Typed DEF RqInv
<1>5. InRing = InRing' \cup {Asked(1)}
  <2>1. ASSUME NEW j \in Heads PROVE Asked(j) \in InRing' \cup {Asked(1)}
    <3>1. CASE j = 1
      BY <3>1
    <3>2. CASE j > n /\ j - n \in Heads'
      <4>1. j - n + n = j
        BY <1>4 DEF Heads
      <4>2. Asked(j - n)' = Asked(j)
        BY <1>3, <3>2, <4>1
      <4>3. Asked(j - n)' \in InRing'
        BY <3>2 DEF InRing
      <4> QED
        BY <4>2, <4>3
    <3> QED
      BY <1>3, <3>1, <3>2
  <2>2. ASSUME NEW j \in Heads' PROVE Asked(j)' \in InRing
    BY <1>3 DEF InRing
  <2>3. Asked(1) \in InRing
    BY <1>3 DEF InRing
  <2> QED
    BY <2>1, <2>2, <2>3 DEF InRing
<1>6. /\ InCq' = InCq /\ InHand' = InHand /\ Taken' = Taken \cup {Asked(1)}
  BY <1>1, <1>2 DEF InCq, InHand, Taken
<1>7. \A e \in Taken : Apart(Asked(1), e) /\ Apart(e, Asked(1))
  BY <1>3, ApartTurned DEF RqInv, PostersApart, ApartSets, InRing
<1>8. PostersApart'
  <2>1. ASSUME NEW j \in Heads', NEW k \in Heads', j # k
        PROVE  Apart(Asked(j)', Asked(k)')
    <3>1. j + n # k + n
      BY <1>4, <2>1 DEF Heads
    <3> QED
      BY <1>3, <3>1 DEF RqInv, PostersApart
  <2>2. ASSUME NEW j \in Heads' PROVE Apart(Asked(j)', Asked(1))
    <3>1. j + n # 1
      BY <1>4 DEF Heads
    <3> QED
      BY <1>3, <3>1 DEF RqInv, PostersApart
  <2>3. \A e \in InRing' : Apart(e, Asked(1))
    BY <2>2 DEF InRing
  <2>4. ApartSets(InRing', Taken')
    BY <1>5, <1>6, <2>3 DEF RqInv, PostersApart, ApartSets
  <2> QED
    BY <2>1, <2>4 DEF PostersApart
<1>9. TakenApart'
  <2>1. \A e, f \in working' : e # f => Apart(e, f)
    BY <1>2, <1>7 DEF RqInv, TakenApart, Taken
  <2>2. ApartSets(working', InCq') /\ ApartSets(working', InHand')
    BY <1>2, <1>6, <1>7 DEF RqInv, TakenApart, ApartSets, Taken
  <2>3. ApartSets(InCq', InHand')
    BY <1>6 DEF RqInv, TakenApart
  <2>4. \A j, k \in 1 .. Len(cqes') : j # k => Apart(cqes'[j], cqes'[k])
    BY <1>1 DEF RqInv, TakenApart
  <2> QED
    BY <2>1, <2>2, <2>3, <2>4 DEF TakenApart
<1>10. RingWhole'
  <2>1. ASSUME NEW k \in 1 .. s - n PROVE Whole(k)'
    <3>1. k + n \in 1 .. s /\ Front(k)' = Front(k + n)
      BY <1>2, <1>4
    <3> QED
      BY <1>4, <3>1 DEF RqInv, RingWhole, Whole
  <2>2. ASSUME NEW k \in 1 .. s - n PROVE Joined(k)'
    <3>1. k + n \in 1 .. s /\ Front(k)' = Front(k + n) /\ k + n # 1
      BY <1>2, <1>4
    <3>2. IF Front(k + n - 1).last THEN Front(k + n).first
          ELSE Follows(Front(k + n - 1), Front(k + n))
      BY <1>4, <3>1 DEF RqInv, RingWhole, Joined
    <3>3. CASE k = 1
      <4>1. k + n - 1 = n
        BY <3>3
      <4> QED
        BY <1>2, <3>1, <3>2, <3>3, <4>1 DEF Joined
    <3>4. CASE k # 1
      <4>1. k - 1 \in 1 .. s - n /\ k - 1 + n = k + n - 1
        BY <3>4
      <4>2. Front(k - 1)' = Front(k + n - 1)
        BY <1>2, <1>4, <4>1
      <4> QED
        BY <3>1, <3>2, <3>4, <4>2 DEF Joined, Follows
    <3> QED
      BY <3>3, <3>4
  <2>3. (Span > 0 => Front(Span).last)'
    <3>1. s - n > 0 => s - n \in 1 .. s - n /\ s - n + n = s /\ s > 0
      BY <1>2, <1>4
    <3>2. Front(Span)' = Front(s - n)'
      BY <1>2, <1>4 DEF Front
    <3>3. Front(s).last \/ s = 0
      BY <1>4 DEF RqInv, RingWhole
    <3> QED
      BY <1>2, <1>4, <3>1, <3>2, <3>3
  <2> QED
    BY <1>2, <1>4, <2>1, <2>2, <2>3 DEF RingWhole
<1>11. RingFits'
  <2>1. Span' <= DescCnt
    BY <1>2, <1>4, RqSizes DEF RqInv, RingFits
  <2>2. ASSUME NEW k \in Heads'
        PROVE  Span' - k + 1 <= MaxSge * Cardinality(HeadsFrom(k)')
    <3>1. k + n \in Heads /\ k \in Nat
      BY <1>2, <1>3, <1>4 DEF Heads
    <3>2. Span - (k + n) + 1 <= MaxSge * Cardinality(HeadsFrom(k + n))
      BY <3>1 DEF RqInv, RingFits
    <3>3. Span' - k + 1 = Span - (k + n) + 1
      BY <1>2, <1>4, <3>1
    <3> QED
      BY <1>3, <3>2, <3>3
  <2> QED
    BY <2>1, <2>2 DEF RingFits
<1>12. DoorbellFits'
  <2>1. a <= s /\ n <= a
    BY <1>2, <1>4 DEF RqInv, DoorbellFits
  <2>2. (Announced > 0 => Front(Announced).last)'
    <3>1. a - n > 0 => a - n \in 1 .. s - n /\ a - n + n = a /\ a > 0
      BY <1>2, <2>1
    <3>2. Front(Announced)' = Front(a - n)'
      BY <1>2, <1>4 DEF Front
    <3>3. Front(a).last \/ a = 0
      BY <1>4 DEF RqInv, DoorbellFits
    <3> QED
      BY <1>2, <1>4, <3>1, <3>2, <3>3
  <2>3. Announced' <= Span' /\ (lock' = NoThread => Announced' = Span')
    BY <1>1, <1>2, <1>4, <2>1 DEF RqInv, DoorbellFits
  <2> QED
    BY <2>2, <2>3 DEF DoorbellFits
<1>13. TypeOK'
  <2>1. Asked(1) \in Request
    BY <1>3, OfRequest DEF RqInv, InRing
  <2>2. working' \subseteq Request
    BY <1>2, <2>1, Typed DEF RqInv
  <2> QED
    BY <1>1, <1>2, <2>2 DEF RqInv, TypeOK
<1>14. PP!PoolInv' /\ PoolMove
  <2>1. InRing' \cup Taken' = InRing \cup Taken
    BY <1>5, <1>6
  <2> QED
    BY <1>1, <1>13, <2>1, PoolUnmoved
<1> QED
  BY <1>8, <1>9, <1>10, <1>11, <1>12, <1>13, <1>14 DEF RqInv

----------------------------------------------------------------------------
(* A request that is accepted writes the slots from pc on, and no others.     *)
EntryOf(s, x) == WrapSub(s, Slot(x), DescCnt)

LEMMA EntrySlot ==
  ASSUME NEW x \in 0 .. U16 - 1
  PROVE  /\ \A i \in 0 .. DescCnt - 1 : EntryOf(Slot(Ahead(x, i)), x) = i
         /\ \A s \in Slots : /\ EntryOf(s, x) \in 0 .. DescCnt - 1
                             /\ Slot(Ahead(x, EntryOf(s, x))) = s
<1>1. Slot(x) \in 0 .. DescCnt - 1 /\ DescCnt \in Nat \ {0}
  BY RqSizes, SlotInRing DEF Slots
<1>2. ASSUME NEW i \in 0 .. DescCnt - 1 PROVE EntryOf(Slot(Ahead(x, i)), x) = i
  <2>1. i \in 0 .. DescCnt
    BY <1>1
  <2>2. Slot(Ahead(x, i)) = IF Slot(x) + i < DescCnt THEN Slot(x) + i
                            ELSE Slot(x) + i - DescCnt
    BY <2>1, SlotAfter
  <2> QED
    BY <1>1, <2>2 DEF EntryOf, WrapSub
<1>3. ASSUME NEW s \in Slots
      PROVE  /\ EntryOf(s, x) \in 0 .. DescCnt - 1
             /\ Slot(Ahead(x, EntryOf(s, x))) = s
  <2>1. PICK i \in 0 .. DescCnt - 1 :
           i = EntryOf(s, x) /\ i = (IF s >= Slot(x) THEN s - Slot(x)
                                     ELSE s - Slot(x) + DescCnt)
    BY <1>1 DEF EntryOf, WrapSub, Slots
  <2>2. i \in 0 .. DescCnt
    BY <1>1
  <2>3. Slot(Ahead(x, i)) = IF Slot(x) + i < DescCnt THEN Slot(x) + i
                            ELSE Slot(x) + i - DescCnt
    BY <2>2, SlotAfter
  <2>4. Slot(Ahead(x, i)) = s
    BY <1>1, <2>1, <2>3 DEF Slots
  <2> QED
    BY <2>1, <2>4
<1> QED
  BY <1>2, <1>3

LEMMA WrParts ==
  ASSUME RqInv, NEW t \in Threads, NEW id \in WrIds, NEW n \in NumSges,
         PostRecvWr(t, id, n)
  PROVE  /\ n \in Nat \ {0} /\ n <= MaxSge /\ TypeOK'
         /\ Span + n <= DescCnt /\ Span' = Span + n
         /\ \A k \in 1 .. Span : Front(k)' = Front(k)
         /\ \A s, j : s = Span /\ j \in 1 .. n =>
              RxDesc(id, j, n) \in Desc /\ Front(s + j)' = RxDesc(id, j, n)
<1>1. /\ ~Full(wq) /\ n <= MaxSge /\ n \in Nat \ {0}
      /\ ring' = [s \in Slots |-> IF EntryOf(s, pos.pc) + 1 <= n
                                  THEN RxDesc(id, EntryOf(s, pos.pc) + 1, n)
                                  ELSE ring[s]]
      /\ wq' = CountPosted(GetNextWridIdx(wq, id)) /\ pos' = AdvanceBy(n)
      /\ UNCHANGED <<db, state, lock, devPc, working, cqes, cur>>
  BY RqAssumption DEF PostRecvWr, Accepts, Take, EntryOf
<1>2. /\ wq.next < WqeCnt /\ NextIdx(wq) \in Idx /\ wq \in WqType
  BY <1>1, NextIsNobodys, PoolFacts
<1>3. /\ pos.pc \in 0 .. U16 - 1 /\ devPc \in 0 .. U16 - 1 /\ pos.phase \in Phases
      /\ ring \in [Slots -> Desc \cup {NoDesc}]
  BY Typed DEF RqInv
<1>4. PICK c \in Nat, s \in Nat : c = DescCnt /\ s = Span
  BY Typed, RqSizes DEF RqInv
<1>5. s + n <= c /\ c < U16 /\ U16 \in Nat /\ n \in 0 .. U16 /\ s \in 0 .. U16
  BY <1>1, <1>4, RoomLeft, RqSizes
<1>6. Ahead(devPc, s) = pos.pc
  BY <1>3, <1>4, Distance DEF Span
<1>7. pos'.pc = Ahead(pos.pc, n) /\ pos'.pc \in 0 .. U16 - 1 /\ pos' \in PosType
  <2>1. Ahead(pos.pc, n) \in 0 .. U16 - 1
    BY <1>3, <1>5, AheadValue
  <2>2. 1 - pos.phase \in Phases
    BY <1>3 DEF Phases
  <2> QED
    BY <1>1, <1>3, <2>1, <2>2 DEF AdvanceBy, Ahead, PosType
<1>8. Span' = s + n
  <2>1. pos'.pc = IF pos.pc + n < U16 THEN pos.pc + n ELSE pos.pc + n - U16
    BY <1>3, <1>5, <1>7, AheadValue
  <2>2. WrapSub(pos.pc, devPc, U16) = s
    BY <1>4 DEF Span
  <2>3. WrapSub(pos'.pc, devPc, U16) = s + n
    BY <1>3, <1>4, <1>5, <2>1, <2>2 DEF WrapSub
  <2> QED
    BY <1>1, <2>3 DEF Span
<1>9. ASSUME NEW j \in 1 .. n PROVE RxDesc(id, j, n) \in Desc
  <2>1. j \in 1 .. MaxSge /\ n \in 1 .. MaxSge
    BY <1>1, RqSizes
  <2>2. 0 \in Idx
    BY RqSizes DEF Idx
  <2> QED
    BY <1>2, <2>1, <2>2 DEF RxDesc, Desc
<1>10. ASSUME NEW k \in 1 .. s PROVE Front(k)' = Front(k)
  <2>1. PICK i \in 0 .. c - 1 : i = k - 1 /\ i < s
    BY <1>1, <1>5
  <2> DEFINE x == Slot(Ahead(devPc, i))
  <2>2. x \in Slots
    <3>1. i \in 0 .. U16
      BY <1>5
    <3>2. Ahead(devPc, i) \in Nat
      BY <1>3, <1>5, <3>1, AheadValue
    <3> QED
      BY <3>2, SlotInRing
  <2> HIDE DEF x
  <2>3. ~(EntryOf(x, pos.pc) + 1 <= n)
    <3> SUFFICES ASSUME EntryOf(x, pos.pc) + 1 <= n PROVE FALSE
      OBVIOUS
    <3>1. PICK e \in 0 .. c - 1 : e = EntryOf(x, pos.pc) /\ Slot(Ahead(pos.pc, e)) = x
      BY <1>3, <1>4, <2>2, EntrySlot
    <3>2. e \in 0 .. U16 /\ s + e <= U16 /\ s + e \in 0 .. c - 1
      BY <1>1, <1>5, <3>1
    <3>3. Ahead(pos.pc, e) = Ahead(devPc, s + e)
      BY <1>3, <1>5, <1>6, <3>2, AheadAhead
    <3>4. Slot(Ahead(devPc, i)) = Slot(Ahead(devPc, s + e))
      BY <3>1, <3>3 DEF x
    <3>5. i = s + e
      BY <1>3, <1>4, <3>2, <3>4, SlotsApart
    <3> QED
      BY <2>1, <3>1, <3>5
  <2>4. ring'[x] = ring[x]
    BY <1>1, <2>2, <2>3
  <2> QED
    BY <1>1, <2>1, <2>4 DEF Front, x
<1>11. ASSUME NEW j \in 1 .. n PROVE Front(s + j)' = RxDesc(id, j, n)
  <2>1. PICK i \in 0 .. c - 1 :
           /\ i = j - 1 /\ i + 1 = j /\ s + j - 1 = s + i /\ i \in 0 .. U16
           /\ s + i <= U16
    BY <1>1, <1>4, <1>5
  <2>2. Ahead(devPc, s + i) = Ahead(pos.pc, i)
    BY <1>3, <1>5, <1>6, <2>1, AheadAhead
  <2>3. EntryOf(Slot(Ahead(pos.pc, i)), pos.pc) = i
    BY <1>3, <1>4, EntrySlot
  <2>4. Slot(Ahead(pos.pc, i)) \in Slots
    <3>1. Ahead(pos.pc, i) \in Nat
      BY <1>3, <1>5, <2>1, AheadValue
    <3> QED
      BY <3>1, SlotInRing
  <2>5. ring'[Slot(Ahead(pos.pc, i))] = RxDesc(id, j, n)
    BY <1>1, <2>1, <2>3, <2>4
  <2> QED
    BY <1>1, <2>1, <2>2, <2>5 DEF Front
<1>12. TypeOK'
  <2>1. wq' \in WqType
    BY <1>1, <1>2, TakeWq
  <2>2. ASSUME NEW x \in Slots PROVE ring'[x] \in Desc \cup {NoDesc}
    <3>1. EntryOf(x, pos.pc) \in 0 .. c - 1
      BY <1>3, <1>4, EntrySlot
    <3>2. CASE EntryOf(x, pos.pc) + 1 <= n
      <4>1. EntryOf(x, pos.pc) + 1 \in 1 .. n
        BY <1>1, <3>1, <3>2
      <4> QED
        BY <1>1, <1>9, <3>2, <4>1
    <3>3. CASE ~(EntryOf(x, pos.pc) + 1 <= n)
      BY <1>1, <1>3, <3>3
    <3> QED
      BY <3>2, <3>3
  <2>3. ring' \in [Slots -> Desc \cup {NoDesc}]
    BY <1>1, <2>2
  <2> QED
    BY <1>1, <1>7, <2>1, <2>3 DEF RqInv, TypeOK
<1> QED
  BY <1>1, <1>4, <1>5, <1>8, <1>9, <1>10, <1>11, <1>12

LEMMA WrittenDesc ==
  ASSUME NEW id, NEW j, NEW n, NEW e, e = RxDesc(id, j, n)
  PROVE  /\ (e.first <=> j = 1) /\ (e.last <=> j = n)
         /\ e.wr = id /\ e.sge = j /\ e.of = n
  BY Zenon DEF RxDesc

(* ... it is one request more, whole, and apart from all others.              *)
LEMMA WrHeads ==
  ASSUME RqInv, NEW t \in Threads, NEW id \in WrIds, NEW n \in NumSges,
         PostRecvWr(t, id, n), NEW s, s = Span, NEW d,
         d = [req_id |-> NextIdx(wq), wr |-> id]
  PROVE  /\ Heads' = Heads \cup {s + 1} /\ s + 1 \notin Heads /\ s \in Nat
         /\ \A k \in Heads : Asked(k)' = Asked(k)
         /\ Asked(s + 1)' = d
<1>1. /\ n \in Nat \ {0} /\ Span' = s + n
      /\ \A k \in 1 .. s : Front(k)' = Front(k)
      /\ \A j \in 1 .. n : Front(s + j)' = RxDesc(id, j, n)
  BY WrParts
<1>2. s \in Nat
  BY Typed DEF RqInv
<1>3. ASSUME NEW k \in 1 .. s + n, ~(k \in 1 .. s)
      PROVE  Front(k)'.first <=> k = s + 1
  <2>1. PICK j \in 1 .. n : k = s + j
    <3>1. k - s \in 1 .. n /\ k = s + (k - s)
      BY <1>1, <1>2, <1>3
    <3> QED
      BY <3>1
  <2>2. Front(k)' = RxDesc(id, j, n)
    BY <1>1, <2>1
  <2> QED
    BY <1>2, <2>1, <2>2, WrittenDesc
<1>4. Heads' = Heads \cup {s + 1} /\ s + 1 \notin Heads
  <2>1. Heads = {k \in 1 .. s : Front(k).first}
    BY DEF Heads
  <2>2. Heads' = {k \in 1 .. s + n : Front(k)'.first}
    BY <1>1 DEF Heads
  <2>3. /\ \A k \in 1 .. s : k \in 1 .. s + n /\ k # s + 1
        /\ s + 1 \in 1 .. s + n /\ s + 1 \notin 1 .. s
    BY <1>1, <1>2
  <2>4. Heads' \subseteq Heads \cup {s + 1}
    BY <1>1, <1>3, <2>1, <2>2
  <2>5. Heads \cup {s + 1} \subseteq Heads'
    BY <1>1, <1>3, <2>1, <2>2, <2>3
  <2> QED
    BY <2>1, <2>3, <2>4, <2>5
<1>5. \A k \in Heads : Asked(k)' = Asked(k)
  BY <1>1 DEF Heads, Asked
<1>6. Asked(s + 1)' = d
  <2>1. 1 \in 1 .. n
    BY <1>1
  <2>2. Front(s + 1)' = RxDesc(id, 1, n)
    BY <1>1, <2>1
  <2> QED
    BY <2>2 DEF Asked, RxDesc
<1> QED
  BY <1>2, <1>4, <1>5, <1>6

LEMMA WrRing ==
  ASSUME RqInv, NEW t \in Threads, NEW id \in WrIds, NEW n \in NumSges,
         PostRecvWr(t, id, n)
  PROVE  RingWhole' /\ RingFits' /\ DoorbellFits'
<1>1. PICK s \in Nat, m \in Nat \ {0} : s = Span /\ m = MaxSge
  BY Typed, RqSizes DEF RqInv
<1>2. /\ n \in Nat \ {0} /\ n <= m /\ s + n <= DescCnt /\ Span' = s + n
      /\ \A k \in 1 .. s : Front(k)' = Front(k)
      /\ \A j \in 1 .. n : Front(s + j)' = RxDesc(id, j, n)
      /\ \A j \in 1 .. n : RxDesc(id, j, n) \in Desc
  BY <1>1, WrParts
<1>3. /\ Heads' = Heads \cup {s + 1} /\ s + 1 \notin Heads
  BY <1>1, WrHeads
<1>4. lock # NoThread /\ UNCHANGED <<db, devPc, lock>>
  BY RqSizes DEF PostRecvWr
<1>5. ASSUME NEW k \in 1 .. s + n, ~(k \in 1 .. s)
      PROVE  k - s \in 1 .. n /\ k = s + (k - s)
  BY <1>1, <1>2, <1>5
<1>6. RingWhole'
  <2>1. ASSUME NEW k \in 1 .. s + n PROVE Whole(k)'
    <3>1. CASE k \in 1 .. s
      BY <1>1, <1>2, <3>1 DEF RqInv, RingWhole, Whole
    <3>2. CASE ~(k \in 1 .. s)
      <4>1. PICK j \in 1 .. n : Front(k)' = RxDesc(id, j, n)
        BY <1>2, <1>5, <3>2
      <4> QED
        BY <1>2, <4>1, WrittenDesc DEF Whole
    <3> QED
      BY <3>1, <3>2
  <2>2. ASSUME NEW k \in 1 .. s + n PROVE Joined(k)'
    <3>1. CASE k \in 1 .. s
      <4>1. k # 1 => k - 1 \in 1 .. s
        BY <1>1, <3>1
      <4> QED
        BY <1>1, <1>2, <3>1, <4>1 DEF RqInv, RingWhole, Joined, Follows
    <3>2. CASE ~(k \in 1 .. s)
      <4>1. PICK j \in 1 .. n : k = s + j /\ Front(k)' = RxDesc(id, j, n)
        BY <1>2, <1>5, <3>2
      <4>2. CASE j = 1
        <5>1. Front(k)'.first
          BY <4>1, <4>2, WrittenDesc
        <5>2. k = 1 \/ (k - 1 = s /\ s \in 1 .. s)
          BY <1>1, <4>1, <4>2
        <5>3. s \in 1 .. s => Front(s)'.last
          BY <1>1, <1>2 DEF RqInv, RingWhole
        <5> QED
          BY <5>1, <5>2, <5>3 DEF Joined
      <4>3. CASE j # 1
        <5>1. j - 1 \in 1 .. n /\ k - 1 = s + (j - 1) /\ k # 1 /\ j - 1 # n
              /\ j - 1 + 1 = j
          BY <1>1, <1>2, <4>1, <4>3
        <5>2. Front(k - 1)' = RxDesc(id, j - 1, n)
          BY <1>2, <5>1
        <5> QED
          BY <4>1, <5>1, <5>2 DEF Joined, Follows, RxDesc
      <4> QED
        BY <4>2, <4>3
    <3> QED
      BY <3>1, <3>2
  <2>3. (Span > 0 => Front(Span).last)'
    <3>1. n \in 1 .. n
      BY <1>2
    <3>2. Front(Span)' = Front(s + n)'
      BY <1>2 DEF Front
    <3>3. Front(s + n)'.last
      BY <1>2, <3>1, WrittenDesc
    <3> QED
      BY <3>2, <3>3
  <2> QED
    BY <1>2, <2>1, <2>2, <2>3 DEF RingWhole
<1>7. RingFits'
  <2>1. Heads \subseteq 1 .. s /\ IsFiniteSet(Heads)
    <3>1. Heads \subseteq 1 .. s
      BY <1>1 DEF Heads
    <3> QED
      <4>1. IsFiniteSet(1 .. s)
        BY <1>1, FS_Interval
      <4> QED
        BY <3>1, <4>1, FS_Subset
  <2>2. ASSUME NEW k \in Heads'
        PROVE  Span' - k + 1 <= MaxSge * Cardinality(HeadsFrom(k)')
    <3>1. HeadsFrom(k)' = {j \in Heads \cup {s + 1} : j >= k}
      BY <1>3 DEF HeadsFrom
    <3>2. CASE k = s + 1
      <4>1. HeadsFrom(k)' = {s + 1}
        <5>1. \A j \in Heads : ~(j >= k)
          BY <1>1, <2>1, <3>2
        <5>2. s + 1 >= k
          BY <1>1, <3>2
        <5> QED
          BY <3>1, <5>1, <5>2
      <4>2. Cardinality(HeadsFrom(k)') = 1
        BY <4>1, FS_Singleton
      <4>3. Span' - k + 1 = n
        BY <1>1, <1>2, <3>2
      <4> QED
        BY <1>1, <1>2, <4>2, <4>3
    <3>3. CASE k \in Heads
      <4>1. k \in 1 .. s /\ s + 1 \notin HeadsFrom(k) /\ IsFiniteSet(HeadsFrom(k))
        <5>1. HeadsFrom(k) \subseteq Heads
          BY DEF HeadsFrom
        <5> QED
          BY <1>3, <2>1, <3>3, <5>1, FS_Subset
      <4>2. HeadsFrom(k)' = HeadsFrom(k) \cup {s + 1}
        <5>1. s + 1 >= k
          BY <1>1, <4>1
        <5> QED
          BY <3>1, <5>1 DEF HeadsFrom
      <4>3. PICK c \in Nat : c = Cardinality(HeadsFrom(k))
        BY <4>1, FS_CardinalityType
      <4>4. Cardinality(HeadsFrom(k)') = c + 1
        BY <4>1, <4>2, <4>3, FS_AddElement
      <4>5. s - k + 1 <= m * c
        BY <1>1, <3>3, <4>3 DEF RqInv, RingFits
      <4>6. m * (c + 1) = m * c + m /\ m * c \in Nat
        BY SMT
      <4>7. Span' - k + 1 = (s - k + 1) + n
        BY <1>1, <1>2, <4>1
      <4>8. Span' - k + 1 <= m * (c + 1)
        BY <1>1, <1>2, <4>1, <4>5, <4>6, <4>7
      <4> QED
        BY <1>1, <4>4, <4>8
    <3> QED
      BY <1>3, <3>2, <3>3
  <2> QED
    BY <1>2, <2>2 DEF RingFits
<1>8. DoorbellFits'
  <2>1. PICK a \in Nat : a = Announced /\ a <= s
    BY <1>1, Typed DEF RqInv, DoorbellFits
  <2>2. Announced' = a
    BY <1>4, <2>1 DEF Announced
  <2>3. (Announced > 0 => Front(Announced).last)'
    <3>1. Front(Announced)' = Front(a)'
      BY <2>2 DEF Front
    <3>2. CASE a = 0
      BY <2>2, <3>2
    <3>3. CASE a # 0
      <4>1. a \in 1 .. s
        BY <2>1, <3>3
      <4>2. Front(a)' = Front(a)
        BY <1>2, <4>1
      <4>3. Front(a).last
        BY <2>1, <3>3 DEF RqInv, DoorbellFits
      <4> QED
        BY <3>1, <4>2, <4>3
    <3> QED
      BY <3>2, <3>3
  <2>4. Announced' <= Span' /\ lock' # NoThread
    BY <1>1, <1>2, <1>4, <2>1, <2>2
  <2> QED
    BY <2>3, <2>4 DEF DoorbellFits
<1> QED
  BY <1>6, <1>7, <1>8

(* Holders of a set with one more request.                                    *)
LEMMA HoldersAdd ==
  ASSUME NEW ds, NEW d, NEW es, es = ds \cup {d}, OneEach(ds), OneEach(es),
         NEW i, d.req_id = i, NEW id, d.wr = id
  PROVE  Holders(es) = [Holders(ds) EXCEPT ![i] = id]
<1>1. ASSUME NEW k \in Idx
      PROVE  Holders(es)[k] = IF k = i THEN id ELSE Holders(ds)[k]
  <2>1. CASE k = i
    BY <2>1, Holder
  <2>2. CASE k # i
    <3>1. CASE \E e \in ds : e.req_id = k
      BY <3>1, <2>2, Holder
    <3>2. CASE ~ \E e \in ds : e.req_id = k
      BY <3>2, <2>2, Holder
    <3> QED
      BY <3>1, <3>2
  <2> QED
    BY <2>1, <2>2
<1> QED
  BY <1>1 DEF Holders

LEMMA PostRecvWrStep ==
  ASSUME RqInv, NEW t \in Threads, NEW id \in WrIds, NEW n \in NumSges,
         PostRecvWr(t, id, n)
  PROVE  RqInv' /\ PoolMove
<1> DEFINE d == [req_id |-> NextIdx(wq), wr |-> id]
<1>1. PICK s : s = Span
  OBVIOUS
<1>2. /\ Heads' = Heads \cup {s + 1} /\ s + 1 \notin Heads /\ s \in Nat
      /\ \A k \in Heads : Asked(k)' = Asked(k)
      /\ Asked(s + 1)' = d
  BY <1>1, WrHeads
<1>3. TypeOK' /\ RingWhole' /\ RingFits' /\ DoorbellFits'
  BY WrParts, WrRing
<1>4. /\ ~Full(wq) /\ Unused(id) /\ wq' = CountPosted(GetNextWridIdx(wq, id))
      /\ UNCHANGED <<working, cqes, cur>>
  BY DEF PostRecvWr, Accepts, Take
<1>5. d.req_id = NextIdx(wq) /\ d.wr = id
  OBVIOUS
<1> HIDE DEF d
<1>6. \A e \in InRing \cup Taken : Apart(d, e) /\ Apart(e, d)
  <2>1. Outstanding = InRing \cup Taken
    BY Parts DEF RqInv
  <2>2. \A e \in InRing \cup Taken : e.wr # id
    BY <1>4, <2>1 DEF Unused
  <2>3. \A e \in InRing \cup Taken : e.req_id # NextIdx(wq)
    BY <1>4, NextIsNobodys
  <2> QED
    BY <1>5, <2>2, <2>3 DEF Apart
<1>7. Taken' = Taken /\ InCq' = InCq /\ InHand' = InHand
  BY <1>4 DEF Taken, InCq, InHand
<1>8. InRing' = InRing \cup {d}
  <2>1. InRing' = {Asked(k)' : k \in Heads'}
    BY DEF InRing
  <2> QED
    BY <1>2, <2>1 DEF InRing
<1>9. PostersApart'
  <2>1. ASSUME NEW j \in Heads', NEW k \in Heads', j # k
        PROVE  Apart(Asked(j)', Asked(k)')
    <3>1. CASE j \in Heads /\ k \in Heads
      BY <1>2, <2>1, <3>1 DEF RqInv, PostersApart
    <3>2. CASE j = s + 1 /\ k \in Heads
      BY <1>2, <1>6, <3>2 DEF InRing
    <3>3. CASE j \in Heads /\ k = s + 1
      BY <1>2, <1>6, <3>3 DEF InRing
    <3> QED
      BY <1>2, <2>1, <3>1, <3>2, <3>3
  <2>2. ApartSets(InRing', Taken')
    BY <1>6, <1>7, <1>8 DEF RqInv, PostersApart, ApartSets
  <2> QED
    BY <2>1, <2>2 DEF PostersApart
<1>10. TakenApart'
  BY <1>4, <1>7 DEF RqInv, TakenApart
<1>11. PP!PoolInv' /\ PoolMove
  <2>1. PartsAreNamed /\ PartsAreNamed'
    BY <1>3, PartsNamed, PTL DEF RqInv
  <2>2. Outstanding' = Outstanding \cup {d}
    BY <1>7, <1>8, <2>1 DEF PartsAreNamed
  <2>3. OneEach(InRing \cup Taken) /\ OneEach(InRing \cup Taken)'
    BY <1>9, <1>10, OneHolderEachNext, PTL DEF RqInv
  <2>4. OneEach(Outstanding) /\ OneEach(Outstanding')
    BY <2>1, <2>3 DEF PartsAreNamed
  <2>5. Holders(Outstanding)' = [Holders(Outstanding) EXCEPT ![NextIdx(wq)] = id]
    BY <1>5, <2>2, <2>4, HoldersAdd
  <2>6. PP!Post(id)
    BY <1>4, <2>5, SameWq, SameFull DEF PP!Post
  <2> QED
    BY <2>6, PoolStep DEF PoolMove, PP!Next
<1> QED
  BY <1>3, <1>9, <1>10, <1>11 DEF RqInv

----------------------------------------------------------------------------
LEMMA InitRqInv == Init => RqInv
<1> SUFFICES ASSUME Init PROVE RqInv
  OBVIOUS
<1>1. /\ wq = WqInitial /\ pos = PosInitial /\ ring = [s \in Slots |-> NoDesc]
      /\ db = 0 /\ state = "INIT" /\ lock = NoThread
      /\ devPc = 0 /\ working = {} /\ cqes = <<>> /\ cur = NoDesc
  BY DEF Init
<1>2. pos.pc = 0 /\ Span = 0 /\ Announced = 0
  BY <1>1 DEF PosInitial, Span, Announced, WrapSub
<1>3. TypeOK
  <2>1. 0 \in 0 .. U16 - 1 /\ 0 \in 0 .. U32 - 1 /\ 0 \in Phases
    BY WqAssumption DEF Phases
  <2>2. wq \in WqType
    BY <1>1, <2>1 DEF WqInitial, WqType, Ids
  <2>3. pos \in PosType
    BY <1>1, <2>1 DEF PosInitial, PosType
  <2> QED
    BY <1>1, <2>1, <2>2, <2>3 DEF TypeOK
<1>4. InRing = {} /\ Taken = {} /\ RingWhole /\ RingFits /\ PostersApart /\ TakenApart
  BY <1>1, <1>2, NothingLeft DEF Emptied, NothingThere
<1>5. DoorbellFits
  BY <1>2 DEF DoorbellFits
<1>6. PP!PoolInv
  <2>1. Outstanding = {}
    BY <1>3, <1>4, Parts
  <2>2. PP!Init
    BY <1>1, <2>1, NoHolders, SameWq DEF PP!Init, PP!NoneBuilding
  <2> QED
    BY <2>2, WqAssumption, PP!InitPoolInv
<1> QED
  BY <1>3, <1>4, <1>5, <1>6 DEF RqInv

LEMMA NextKeeps ==
  ASSUME RqInv, [Next]_vars
  PROVE  RqInv' /\ PoolMove
<1>1. ASSUME NEW t \in Threads, NEW n \in NumSges,
             \E id \in WrIds : PostRecvWr(t, id, n)
      PROVE  RqInv' /\ PoolMove
  BY <1>1, PostRecvWrStep
<1>2. ASSUME NEW d \in working, DevComplete(d) PROVE RqInv' /\ PoolMove
  BY <1>2, DevCompleteStep
<1>3. CASE DevFetch \/ PollCqe \/ PutCur \/ ModifyReset
  BY <1>3, DevFetchStep, PollCqeStep, PutCurStep, ModifyResetStep
<1>4. CASE \/ \E t \in Threads : \/ PostRecv(t) \/ PostRecvDone(t)
                                 \/ \E n \in NumSges : PostRecvRefuse(t, n)
           \/ ModifyErr \/ ModifyInit \/ UNCHANGED vars
  BY <1>4, LockSteps
<1> QED
  BY <1>1, <1>2, <1>3, <1>4 DEF Next

----------------------------------------------------------------------------
(* Of every behaviour of a receive queue.                                     *)
THEOREM RecvQueueCorrect == Spec => []RqInv
<1>1. RqInv /\ [Next]_vars => RqInv'
  BY NextKeeps
<1> QED
  BY <1>1, InitRqInv, PTL DEF Spec

(* Every variable of the receive queue keeps its type.                        *)
THEOREM RecvQueueTyped == Spec => []TypeOK
<1>1. RqInv => TypeOK
  BY DEF RqInv
<1> QED
  BY <1>1, RecvQueueCorrect, PTL

(* A receive that completes, however late and out of order, is told by the    *)
(* wr_id of the request whose buffers were filled.                            *)
THEOREM RecvCompletionsNamed == Spec => []CompletionNamesItsRequest
<1>1. RqInv => CompletionNamesItsRequest
  <2> SUFFICES ASSUME RqInv PROVE CompletionNamesItsRequest
    OBVIOUS
  <2>1. Outstanding = InRing \cup Taken
    BY Parts DEF RqInv
  <2> QED
    BY <2>1, InFlightHolds DEF CompletionNamesItsRequest
<1> QED
  BY <1>1, RecvQueueCorrect, PTL

(* The ring is never overrun, though what is counted are requests and what    *)
(* fills it are their descriptors: every scatter list the device has yet to   *)
(* fetch is whole, from its first entry to its last, at every position of the *)
(* ring.                                                                      *)
THEOREM ListsWhole == Spec => []ScatterListsWhole
<1>1. RqInv => ScatterListsWhole
  <2> SUFFICES ASSUME RqInv PROVE ScatterListsWhole
    OBVIOUS
  <2>1. PICK s \in Nat : s = Span
    BY Typed DEF RqInv
  <2>2. Unfetched = [k \in 1 .. s |-> Front(k)] /\ Len(Unfetched) = s
    BY <2>1, Parts DEF RqInv
  <2>3. s <= DescCnt
    BY <2>1 DEF RqInv, RingFits
  <2>4. ASSUME NEW k \in 1 .. s
        PROVE  /\ Front(k).first <=> Front(k).sge = 1
               /\ Front(k).last <=> Front(k).sge = Front(k).of
               /\ IF k = 1 \/ Front(k - 1).last THEN Front(k).first
                  ELSE Follows(Front(k - 1), Front(k))
               /\ k = s => Front(k).last
    BY <2>1 DEF RqInv, RingWhole, Whole, Joined
  <2>5. ASSUME NEW k \in 1 .. s
        PROVE  /\ Unfetched[k].first <=> Unfetched[k].sge = 1
               /\ Unfetched[k].last <=> Unfetched[k].sge = Unfetched[k].of
               /\ IF k = 1 \/ Unfetched[k - 1].last THEN Unfetched[k].first
                  ELSE Follows(Unfetched[k - 1], Unfetched[k])
               /\ k = s => Unfetched[k].last
    <3>1. Unfetched[k] = Front(k)
      BY <2>2
    <3>2. k # 1 => Unfetched[k - 1] = Front(k - 1)
      <4>1. k # 1 => k - 1 \in 1 .. s
        BY <2>1
      <4> QED
        BY <2>2, <4>1
    <3> QED
      BY <2>4, <3>1, <3>2
  <2> QED
    BY <2>2, <2>3, <2>5 DEF ScatterListsWhole, Follows
<1> QED
  BY <1>1, RecvQueueCorrect, PTL

(* The device is never told of half a request, nor of one that is not there,  *)
(* and once efa_post_recv has returned it has been told of every request.     *)
THEOREM RecvDoorbellsExact == Spec => []DoorbellExact
<1>1. RqInv => DoorbellExact
  <2> SUFFICES ASSUME RqInv PROVE DoorbellExact
    OBVIOUS
  <2>1. PICK s \in Nat, a \in Nat : s = Span /\ a = Announced
    BY Typed DEF RqInv
  <2>2. Unfetched = [k \in 1 .. s |-> Front(k)] /\ Len(Unfetched) = s
    BY <2>1, Parts DEF RqInv
  <2>3. a <= s /\ (a > 0 => Front(a).last) /\ (lock = NoThread => a = s)
    BY <2>1 DEF RqInv, DoorbellFits
  <2>4. a > 0 => Unfetched[a].last
    BY <2>1, <2>2, <2>3
  <2> QED
    BY <2>1, <2>2, <2>3, <2>4 DEF DoorbellExact, Announced
<1> QED
  BY <1>1, RecvQueueCorrect, PTL

(* Advancing over the n descriptors of a list is advancing n times over one:  *)
(* what efa_post_recv does, entry by entry, with pc and phase.                *)
THEOREM AdvanceByIsSteps ==
  ASSUME pos \in PosType
  PROVE  /\ AdvanceBy(0) = pos
         /\ \A n \in 0 .. DescCnt - 1 : AdvanceBy(n + 1) = AdvancePos(AdvanceBy(n))
<1>1. /\ DescCnt \in Nat \ {0} /\ U16 \in Nat \ {0} /\ DescCnt < U16
      /\ pos.pc \in 0 .. U16 - 1 /\ pos.phase \in {0, 1}
      /\ pos = [pc |-> pos.pc, phase |-> pos.phase]
  BY RqSizes DEF PosType, Phases
<1>2. Slot(pos.pc) \in 0 .. DescCnt - 1
  BY <1>1, SlotInRing DEF Slots
<1>3. \A n \in 0 .. DescCnt : AdvanceBy(n).pc = Ahead(pos.pc, n)
  BY DEF AdvanceBy, Ahead
<1>4. AdvanceBy(0) = pos
  <2>1. Ahead(pos.pc, 0) = pos.pc
    BY <1>1, AheadValue
  <2> QED
    BY <1>1, <1>2, <2>1 DEF AdvanceBy, Ahead
<1>5. ASSUME NEW n \in 0 .. DescCnt - 1
      PROVE  AdvanceBy(n + 1) = AdvancePos(AdvanceBy(n))
  <2>1. PICK m \in 0 .. DescCnt :
           m = n + 1 /\ m \in 0 .. U16 /\ n \in 0 .. U16 /\ n \in 0 .. DescCnt
    BY <1>1
  <2>2. WrapInc(Ahead(pos.pc, n), U16) = Ahead(pos.pc, m)
    <3>1. Ahead(pos.pc, n) \in 0 .. U16 - 1
      BY <1>1, <2>1, AheadValue
    <3>2. 1 \in 0 .. U16 /\ n + 1 <= U16
      BY <1>1
    <3>3. Ahead(Ahead(pos.pc, n), 1) = Ahead(pos.pc, m)
      BY <1>1, <2>1, <3>2, AheadAhead
    <3> QED
      BY <3>1, <3>3, SlotOfNext
  <2>3. Slot(Ahead(pos.pc, m)) = IF Slot(pos.pc) + m < DescCnt THEN Slot(pos.pc) + m
                                 ELSE Slot(pos.pc) + m - DescCnt
    BY <1>1, SlotAfter
  <2>4. AdvancePos(AdvanceBy(n)) =
          [pc |-> Ahead(pos.pc, m),
           phase |-> IF Slot(Ahead(pos.pc, m)) = 0 THEN 1 - AdvanceBy(n).phase
                     ELSE AdvanceBy(n).phase]
    BY <1>3, <2>1, <2>2 DEF AdvancePos
  <2>5. (IF Slot(pos.pc) + m < DescCnt THEN pos.phase ELSE 1 - pos.phase) =
          IF Slot(Ahead(pos.pc, m)) = 0 THEN 1 - AdvanceBy(n).phase
          ELSE AdvanceBy(n).phase
    <3>1. AdvanceBy(n).phase =
            IF Slot(pos.pc) + n < DescCnt THEN pos.phase ELSE 1 - pos.phase
      BY DEF AdvanceBy
    <3> QED
      BY <1>1, <1>2, <2>1, <2>3, <3>1
  <2> QED
    BY <2>1, <2>4, <2>5 DEF AdvanceBy, Ahead
<1> QED
  BY <1>4, <1>5

----------------------------------------------------------------------------
(* Places in the order of their numbers.                                      *)
Places(H) == H \subseteq Nat /\ IsFiniteSet(H)
Under(H, k) == {j \in H : j < k}
Below(H, k) == Cardinality(Under(H, k))
Nth(H, n) == CHOOSE k \in H : Below(H, k) = n - 1

LEMMA BelowGrows ==
  ASSUME NEW H, Places(H)
  PROVE  /\ Cardinality(H) \in Nat
         /\ \A k \in H : Below(H, k) \in 0 .. Cardinality(H) - 1
         /\ \A j, k \in H : j < k => Below(H, j) < Below(H, k)
<1>1. H \subseteq Nat /\ IsFiniteSet(H) /\ Cardinality(H) \in Nat
  BY FS_CardinalityType DEF Places
<1>2. ASSUME NEW k \in H
      PROVE  /\ IsFiniteSet(Under(H, k)) /\ Below(H, k) \in Nat
             /\ Cardinality(Under(H, k) \cup {k}) = Below(H, k) + 1
             /\ Under(H, k) \cup {k} \subseteq H
  <2>1. Under(H, k) \subseteq H /\ k \notin Under(H, k)
    BY <1>1 DEF Under
  <2>2. IsFiniteSet(Under(H, k))
    BY <1>1, <2>1, FS_Subset
  <2>3. Below(H, k) \in Nat
    BY <2>2, FS_CardinalityType DEF Below
  <2>4. Cardinality(Under(H, k) \cup {k}) = Below(H, k) + 1
    BY <2>1, <2>2, FS_AddElement DEF Below
  <2> QED
    BY <2>1, <2>2, <2>3, <2>4
<1>3. ASSUME NEW k \in H PROVE Below(H, k) \in 0 .. Cardinality(H) - 1
  <2>1. Cardinality(Under(H, k) \cup {k}) <= Cardinality(H)
    BY <1>1, <1>2, FS_Subset
  <2> QED
    BY <1>1, <1>2, <2>1
<1>4. ASSUME NEW j \in H, NEW k \in H, j < k PROVE Below(H, j) < Below(H, k)
  <2>1. Under(H, j) \cup {j} \subseteq Under(H, k)
    <3> SUFFICES ASSUME NEW i \in H, i < j \/ i = j PROVE i \in Under(H, k)
      BY DEF Under
    <3>1. i < k
      BY <1>1, <1>4
    <3> QED
      BY <3>1 DEF Under
  <2>2. Cardinality(Under(H, j) \cup {j}) <= Cardinality(Under(H, k))
    BY <1>2, <2>1, FS_Subset
  <2>3. Below(H, j) \in Nat /\ Below(H, k) \in Nat
    BY <1>2
  <2>4. Below(H, j) + 1 <= Below(H, k)
    BY <1>2, <2>2 DEF Below
  <2> QED
    BY <2>3, <2>4
<1> QED
  BY <1>1, <1>3, <1>4

LEMMA NthIsThere ==
  ASSUME NEW H, Places(H)
  PROVE  /\ \A n \in 1 .. Cardinality(H) :
              Nth(H, n) \in H /\ Below(H, Nth(H, n)) = n - 1
         /\ \A k \in H, n \in Nat : Below(H, k) = n - 1 => Nth(H, n) = k
<1>1. PICK c \in Nat : c = Cardinality(H)
  BY BelowGrows
<1>2. /\ \A k \in H : Below(H, k) \in 0 .. c - 1
      /\ \A j, k \in H : j < k => Below(H, j) < Below(H, k)
      /\ H \subseteq Nat
  BY <1>1, BelowGrows DEF Places
<1>3. \A j, k \in H : Below(H, j) = Below(H, k) => j = k
  <2> SUFFICES ASSUME NEW j \in H, NEW k \in H, Below(H, j) = Below(H, k)
               PROVE  j = k
    OBVIOUS
  <2>1. ~(Below(H, j) < Below(H, k)) /\ ~(Below(H, k) < Below(H, j))
    BY <1>2
  <2>2. ~(j < k) /\ ~(k < j)
    BY <1>2, <2>1
  <2> QED
    BY <1>2, <2>2
<1>4. \A n \in 0 .. c - 1 : \E k \in H : Below(H, k) = n
  <2> SUFFICES ASSUME NEW n \in 0 .. c - 1, \A k \in H : Below(H, k) # n
               PROVE  FALSE
    OBVIOUS
  <2> DEFINE T == (0 .. c - 1) \ {n}
             f == [k \in H |-> Below(H, k)]
  <2>1. IsFiniteSet(0 .. c - 1) /\ Cardinality(0 .. c - 1) = c
    BY FS_Interval
  <2>2. IsFiniteSet(T) /\ Cardinality(T) = c - 1
    BY <2>1, FS_RemoveElement
  <2>3. f \in [H -> T]
    BY <1>2
  <2>4. f \in Injection(H, T)
    BY <1>3, <2>3 DEF Injection, IsInjective
  <2>5. c <= c - 1
    BY <1>1, <2>2, <2>4, FS_Injection
  <2> QED
    BY <2>5
<1>5. ASSUME NEW k \in H, NEW n \in Nat, Below(H, k) = n - 1 PROVE Nth(H, n) = k
  <2>1. Nth(H, n) \in H /\ Below(H, Nth(H, n)) = n - 1
    BY <1>5 DEF Nth
  <2> QED
    BY <1>3, <1>5, <2>1
<1>6. ASSUME NEW n \in 1 .. c
      PROVE  Nth(H, n) \in H /\ Below(H, Nth(H, n)) = n - 1
  <2>1. n - 1 \in 0 .. c - 1
    OBVIOUS
  <2>2. PICK k \in H : Below(H, k) = n - 1
    BY <1>4, <2>1
  <2> QED
    BY <2>2 DEF Nth
<1> QED
  BY <1>1, <1>5, <1>6

(* A new last place, and a first place that goes while the others move up.    *)
LEMMA NthAfterLast ==
  ASSUME NEW H, Places(H), NEW m \in Nat, \A j \in H : j < m,
         NEW G, G = H \cup {m}
  PROVE  /\ Places(G) /\ Cardinality(G) = Cardinality(H) + 1
         /\ Nth(G, Cardinality(H) + 1) = m
         /\ \A n \in 1 .. Cardinality(H) : Nth(G, n) = Nth(H, n)
<1>1. m \notin H /\ G \subseteq Nat /\ H \subseteq Nat /\ m \in G /\ H \subseteq G
  BY DEF Places
<1>2. Places(G) /\ Cardinality(G) = Cardinality(H) + 1
  BY <1>1, FS_AddElement DEF Places
<1>3. PICK c \in Nat : c = Cardinality(H) /\ c = c + 1 - 1 /\ c + 1 \in Nat
  <2>1. Cardinality(H) \in Nat
    BY BelowGrows
  <2> QED
    BY <2>1
<1>4. Below(G, m) = c
  <2>1. Under(G, m) \subseteq H
    BY DEF Under
  <2>2. H \subseteq Under(G, m)
    BY <1>1 DEF Under
  <2>3. Under(G, m) = H
    BY <2>1, <2>2
  <2> QED
    BY <1>3, <2>3 DEF Below
<1>5. Nth(G, c + 1) = m
  BY <1>1, <1>2, <1>3, <1>4, NthIsThere
<1>6. ASSUME NEW n \in 1 .. c PROVE Nth(G, n) = Nth(H, n)
  <2>1. PICK k \in H : k = Nth(H, n) /\ Below(H, k) = n - 1 /\ n \in Nat
    BY <1>3, NthIsThere
  <2>2. Under(G, k) = Under(H, k)
    <3>1. ~(m < k)
      BY <1>1, <2>1
    <3> QED
      BY <3>1 DEF Under
  <2>3. Below(G, k) = n - 1
    BY <2>1, <2>2 DEF Below
  <2> QED
    BY <1>1, <1>2, <2>1, <2>3, NthIsThere
<1> QED
  BY <1>2, <1>3, <1>5, <1>6

MovedUp(H, G, n) ==
  /\ Places(H) /\ Places(G) /\ 0 \notin H /\ 0 \notin G /\ 1 \in H
  /\ \A j \in H : j = 1 \/ (j > n /\ j - n \in G)
  /\ \A j \in G : j + n \in H

LEMMA BelowMovedUp ==
  ASSUME NEW H, NEW G, NEW n \in Nat \ {0}, MovedUp(H, G, n),
         NEW b \in Nat \ {0}
  PROVE  Below(H, b + n) = Below(G, b) + 1
<1> USE DEF MovedUp
<1> DEFINE S == Under(G, b)
           T == Under(H, b + n) \ {1}
           f == [j \in S |-> j + n]
<1>1. ASSUME NEW j \in S PROVE j + n \in T
  <2>1. j \in Nat \ {0} /\ j \in G /\ j < b
    BY DEF Under, Places
  <2>2. j + n < b + n /\ j + n # 1
    BY <2>1
  <2> QED
    BY <2>1, <2>2 DEF Under
<1>2. ASSUME NEW j \in T PROVE j - n \in S /\ j - n + n = j
  <2>1. j \in Nat \ {0} /\ j \in H /\ j < b + n /\ j # 1
    BY DEF Under, Places
  <2>2. j - n \in G /\ j - n < b /\ j - n + n = j
    BY <2>1
  <2> QED
    BY <2>2 DEF Under
<1>3. S \subseteq Nat /\ T \subseteq Nat /\ S \subseteq G
  BY DEF Under, Places
<1>4. IsFiniteSet(S)
  BY <1>3, FS_Subset DEF Places
<1>5. Under(H, b + n) = T \cup {1} /\ 1 \notin T
  <2>1. 1 < b + n
    OBVIOUS
  <2>2. 1 \in Under(H, b + n)
    BY <2>1 DEF Under
  <2> QED
    BY <2>2 DEF T
<1> HIDE DEF T
<1>6. f \in Bijection(S, T)
  <2> HIDE DEF S
  <2>1. f \in [S -> T]
    BY <1>1
  <2>2. \A i, k \in S : f[i] = f[k] => i = k
    BY <1>3
  <2>3. \A i \in T : \E k \in S : f[k] = i
    BY <1>2
  <2> QED
    BY <2>1, <2>2, <2>3 DEF Bijection, Injection, IsInjective, Surjection
<1>7. IsFiniteSet(T) /\ Cardinality(T) = Cardinality(S)
  BY <1>4, <1>6, FS_Bijection DEF ExistsBijection
<1>8. Cardinality(T \cup {1}) = Cardinality(T) + 1
  BY <1>5, <1>7, FS_AddElement
<1> QED
  BY <1>5, <1>7, <1>8 DEF Below

ClimbsIn(s, H, G, n) ==
  /\ H \subseteq 1 .. s /\ G \subseteq 1 .. s - n /\ n <= s /\ 1 \in H
  /\ \A j \in H : j = 1 \/ (j > n /\ j - n \in G)
  /\ \A j \in G : j + n \in H

LEMMA NthMovedUp ==
  ASSUME NEW s \in Nat, NEW H, NEW G, NEW n \in Nat \ {0}, ClimbsIn(s, H, G, n)
  PROVE  /\ Places(G) /\ Places(H)
         /\ Cardinality(H) = Cardinality(G) + 1
         /\ Nth(H, 1) = 1
         /\ \A i \in 1 .. Cardinality(G) : Nth(H, i + 1) = Nth(G, i) + n
<1> USE DEF ClimbsIn
<1>1. Places(H) /\ Places(G) /\ 0 \notin H /\ 0 \notin G /\ MovedUp(H, G, n)
  <2>1. IsFiniteSet(1 .. s) /\ IsFiniteSet(1 .. s - n)
    BY FS_Interval
  <2>2. IsFiniteSet(H) /\ IsFiniteSet(G)
    BY <2>1, FS_Subset
  <2>3. Places(H) /\ Places(G) /\ 0 \notin H /\ 0 \notin G
    BY <2>2 DEF Places
  <2> QED
    BY <2>3 DEF MovedUp
<1>2. ASSUME NEW b \in Nat \ {0} PROVE Below(H, b + n) = Below(G, b) + 1
  BY <1>1, BelowMovedUp
<1>3. PICK c \in Nat : c = Cardinality(G)
  BY <1>1, BelowGrows
<1>4. Cardinality(H) = c + 1
  <2>1. PICK b \in Nat \ {0} : b = s - n + 1 /\ b + n = s + 1
    OBVIOUS
  <2>2. Under(H, b + n) = H
    <3>1. \A j \in H : j < b + n
      BY <2>1
    <3> QED
      BY <3>1 DEF Under
  <2>3. Under(G, b) = G
    <3>1. \A j \in G : j < b
      BY <2>1
    <3> QED
      BY <3>1 DEF Under
  <2>4. Below(H, b + n) = Below(G, b) + 1
    BY <1>2
  <2> QED
    BY <1>3, <2>2, <2>3, <2>4 DEF Below
<1>5. Nth(H, 1) = 1
  <2>1. Under(H, 1) = {}
    <3>1. \A j \in H : ~(j < 1)
      OBVIOUS
    <3> QED
      BY <3>1 DEF Under
  <2>2. Below(H, 1) = 1 - 1
    BY <2>1, FS_EmptySet DEF Below
  <2> QED
    BY <1>1, <2>2, NthIsThere
<1>6. ASSUME NEW i \in 1 .. c PROVE Nth(H, i + 1) = Nth(G, i) + n
  <2>1. PICK k \in G : k = Nth(G, i) /\ Below(G, k) = i - 1
    BY <1>1, <1>3, NthIsThere
  <2>2. k \in Nat \ {0} /\ k + n \in H /\ i + 1 \in Nat
    OBVIOUS
  <2>3. Below(H, k + n) = Below(G, k) + 1
    BY <1>2, <2>2
  <2>4. Below(H, k + n) = i + 1 - 1
    BY <2>1, <2>3
  <2> QED
    BY <1>1, <2>1, <2>2, <2>4, NthIsThere
<1> QED
  BY <1>1, <1>3, <1>4, <1>5, <1>6

----------------------------------------------------------------------------

(* The wr_id pool the queue is used as is the one EfaWridPoolProofs speaks of.*)
LEMMA SamePoolWq ==
  /\ Pool!Idx = PP!Idx /\ Pool!Ids = PP!Ids
  /\ Pool!NoneBuilding = PP!NoneBuilding /\ Pool!WqInitial = PP!WqInitial
  /\ Pool!Held = PP!Held /\ Pool!Base = PP!Base
  /\ \A w : Pool!NextIdx(w) = PP!NextIdx(w)
  /\ \A w : Pool!Full(w) <=> PP!Full(w)
  /\ \A w, id : Pool!CountPosted(Pool!GetNextWridIdx(w, id)) =
                   PP!CountPosted(PP!GetNextWridIdx(w, id))
  /\ \A w, i : Pool!PutWridIdx(w, i) = PP!PutWridIdx(w, i)
  /\ \A w, n : Pool!RollBackWq(w, n) = PP!RollBackWq(w, n)
  /\ \A w : Pool!InitIndices(w) = PP!InitIndices(w)
<1>1. Pool!Idx = PP!Idx /\ Pool!Ids = PP!Ids
  BY DEF Pool!Idx, PP!Idx, Pool!Ids, PP!Ids
<1>2. \A x, m : Pool!WrapInc(x, m) = PP!WrapInc(x, m)
  BY DEF Pool!WrapInc, PP!WrapInc
<1>3. \A x, m : Pool!WrapDec(x, m) = PP!WrapDec(x, m)
  BY DEF Pool!WrapDec, PP!WrapDec
<1>4. \A x, y, m : Pool!WrapSub(x, y, m) = PP!WrapSub(x, y, m)
  BY DEF Pool!WrapSub, PP!WrapSub
<1>5. Pool!NoneBuilding = PP!NoneBuilding /\ Pool!WqInitial = PP!WqInitial
  BY <1>1 DEF Pool!NoneBuilding, PP!NoneBuilding, Pool!WqInitial, PP!WqInitial
<1>6. Pool!Held = PP!Held /\ Pool!Base = PP!Base
  BY <1>1 DEF Pool!Held, PP!Held, Pool!Base, PP!Base
<1>7. \A w : Pool!NextIdx(w) = PP!NextIdx(w)
  BY DEF Pool!NextIdx, PP!NextIdx
<1>8. \A w : Pool!Full(w) <=> PP!Full(w)
  BY <1>4 DEF Pool!Full, PP!Full
<1>9. \A w, id : Pool!GetNextWridIdx(w, id) = PP!GetNextWridIdx(w, id)
  BY <1>2, <1>7 DEF Pool!GetNextWridIdx, PP!GetNextWridIdx
<1>10. \A w : Pool!CountPosted(w) = PP!CountPosted(w)
  BY <1>2 DEF Pool!CountPosted, PP!CountPosted
<1>11. \A w, i : Pool!PutWridIdx(w, i) = PP!PutWridIdx(w, i)
  BY <1>2, <1>3 DEF Pool!PutWridIdx, PP!PutWridIdx
<1>12. \A w, n : Pool!RollBackWq(w, n) = PP!RollBackWq(w, n)
  BY <1>4 DEF Pool!RollBackWq, PP!RollBackWq
<1>13. \A w : Pool!InitIndices(w) = PP!InitIndices(w)
  BY DEF Pool!InitIndices, PP!InitIndices
<1> QED
  BY <1>1, <1>5, <1>6, <1>7, <1>8, <1>9, <1>10, <1>11, <1>12, <1>13

LEMMA SamePoolStep == PP!Next => Pool!Next
<1> SUFFICES ASSUME PP!Next PROVE Pool!Next
  OBVIOUS
<1>1. ASSUME NEW id \in WrIds, PP!Post(id) PROVE Pool!Post(id)
  BY <1>1, SamePoolWq DEF PP!Post, Pool!Post
<1>2. ASSUME NEW id \in WrIds, PP!Build(id) PROVE Pool!Build(id)
  BY <1>2, SamePoolWq DEF PP!Build, Pool!Build
<1>3. PP!Start => Pool!Start
  BY SamePoolWq DEF PP!Start, Pool!Start
<1>4. PP!Finish => Pool!Finish
  BY DEF PP!Finish, Pool!Finish
<1>5. PP!RollBack => Pool!RollBack
  BY SamePoolWq DEF PP!RollBack, Pool!RollBack
<1>6. PP!Reset => Pool!Reset
  BY SamePoolWq DEF PP!Reset, Pool!Reset
<1>7. ASSUME NEW n \in 1 .. WqeCnt, PP!Commit(n) PROVE Pool!Commit(n)
  BY <1>7, SamePoolWq DEF PP!Commit, Pool!Commit
<1>8. ASSUME NEW i \in PP!Idx, PP!Put(i) PROVE i \in Pool!Idx /\ Pool!Put(i)
  BY <1>8, SamePoolWq DEF PP!Put, Pool!Put
<1> QED
  BY <1>1, <1>2, <1>3, <1>4, <1>5, <1>6, <1>7, <1>8 DEF PP!Next, Pool!Next

LEMMA PoolStarts == Init => Pool!Init
<1> SUFFICES ASSUME Init PROVE Pool!Init
  OBVIOUS
<1>1. wq = WqInitial /\ Emptied
  BY DEF Init, Emptied, PosInitial, Span, WrapSub
<1>2. InRing = {} /\ Taken = {} /\ TypeOK
  BY <1>1, NothingLeft, InitRqInv DEF NothingThere, RqInv
<1>3. Outstanding = {}
  BY <1>2, Parts
<1> QED
  BY <1>1, <1>3, NoHolders, SameWq, SamePoolWq DEF Pool!Init, PP!NoneBuilding

(* Through every list, refusal, completion, move to ERR and RESET the receive *)
(* queue uses the wr_id pool the way EfaWridPool says it is used: what is     *)
(* proved there of a work queue holds of struct efa_rq.                       *)
THEOREM RecvPoolImplemented == Spec => ImplementsPool
<1>1. ASSUME RqInv, [Next]_vars PROVE [Pool!Next]_(Pool!vars)
  <2>1. PoolMove
    BY <1>1, NextKeeps
  <2> QED
    BY <2>1, SamePoolStep DEF PoolMove, PP!vars, Pool!vars
<1> QED
  BY <1>1, PoolStarts, RecvQueueCorrect, PTL DEF Spec, ImplementsPool, Pool!Spec


----------------------------------------------------------------------------
(* Members of a sequence that grows at its end, or loses its head.            *)
LEMMA SeqSets ==
  ASSUME NEW S, NEW s \in Seq(S)
  PROVE  /\ \A d \in S : SeqSet(Append(s, d)) = SeqSet(s) \cup {d}
         /\ s # <<>> => SeqSet(s) = SeqSet(Tail(s)) \cup {Head(s)}
<1>1. PICK n \in Nat : n = Len(s) /\ DOMAIN s = 1 .. n
  OBVIOUS
<1>2. ASSUME NEW d \in S PROVE SeqSet(Append(s, d)) = SeqSet(s) \cup {d}
  <2>1. /\ DOMAIN Append(s, d) = 1 .. n + 1 /\ Append(s, d)[n + 1] = d
        /\ \A k \in 1 .. n : Append(s, d)[k] = s[k]
    BY <1>1
  <2>2. /\ \A k \in 1 .. n + 1 : k \in 1 .. n \/ k = n + 1
        /\ \A k \in 1 .. n : k \in 1 .. n + 1
        /\ n + 1 \in 1 .. n + 1
    BY <1>1
  <2>3. SeqSet(Append(s, d)) \subseteq SeqSet(s) \cup {d}
    BY <1>1, <2>1, <2>2 DEF SeqSet
  <2>4. SeqSet(s) \cup {d} \subseteq SeqSet(Append(s, d))
    BY <1>1, <2>1, <2>2 DEF SeqSet
  <2> QED
    BY <2>3, <2>4
<1>3. ASSUME s # <<>> PROVE SeqSet(s) = SeqSet(Tail(s)) \cup {Head(s)}
  <2>1. n # 0 /\ Head(s) = s[1]
    BY <1>1, <1>3
  <2>2. /\ DOMAIN Tail(s) = 1 .. n - 1
        /\ \A k \in 1 .. n - 1 : Tail(s)[k] = s[k + 1]
    BY <1>1, <1>3, <2>1
  <2>3. /\ \A k \in 1 .. n : k = 1 \/ (k - 1 \in 1 .. n - 1 /\ k - 1 + 1 = k)
        /\ \A k \in 1 .. n - 1 : k + 1 \in 1 .. n
        /\ 1 \in 1 .. n
    BY <1>1, <2>1
  <2>4. SeqSet(s) \subseteq SeqSet(Tail(s)) \cup {Head(s)}
    <3> SUFFICES ASSUME NEW k \in 1 .. n
                 PROVE  s[k] \in SeqSet(Tail(s)) \cup {Head(s)}
      BY <1>1 DEF SeqSet
    <3>1. CASE k = 1
      BY <2>1, <3>1
    <3>2. CASE k # 1
      BY <2>2, <2>3, <3>2 DEF SeqSet
    <3> QED
      BY <3>1, <3>2
  <2>5. SeqSet(Tail(s)) \cup {Head(s)} \subseteq SeqSet(s)
    BY <1>1, <2>1, <2>2, <2>3 DEF SeqSet
  <2> QED
    BY <2>4, <2>5
<1> QED
  BY <1>2, <1>3

(* A waiting request needs a position of its own beside those the device has  *)
(* taken: both are indexes of the table.                                      *)
LEMMA Occupancy ==
  ASSUME RqInv
  PROVE  /\ Places(Heads) /\ Cardinality(Heads) \in Nat
         /\ IsFiniteSet(Names(Taken)) /\ Cardinality(Names(Taken)) \in Nat
         /\ Cardinality(Heads) + Cardinality(Names(Taken)) <= WqeCnt
<1>1. Places(Heads)
  <2>1. PICK s \in Nat : s = Span
    BY Typed DEF RqInv
  <2>2. IsFiniteSet(1 .. s)
    BY FS_Interval
  <2>3. Heads \subseteq 1 .. s
    BY <2>1 DEF Heads
  <2>4. IsFiniteSet(Heads)
    BY <2>2, <2>3, FS_Subset
  <2> QED
    BY <2>3, <2>4 DEF Places
<1>2. /\ InRing \subseteq Request /\ Taken \subseteq Request
      /\ \A d \in Request : d.req_id \in Idx
  BY OfRequest DEF RqInv
<1> DEFINE A == {Asked(k).req_id : k \in Heads}
           B == {d.req_id : d \in Taken}
           f == [k \in Heads |-> Asked(k).req_id]
           g == [d \in Taken |-> d.req_id]
           h == [d \in Taken |-> d.wr]
<1>3. IsFiniteSet(Idx) /\ Cardinality(Idx) = WqeCnt
  BY FS_Interval, RqSizes DEF Idx
<1>4. A \subseteq Idx /\ B \subseteq Idx
  BY <1>2 DEF InRing
<1>5. A \cap B = {}
  <2>1. \A d \in InRing, e \in Taken : d.req_id # e.req_id
    BY DEF RqInv, PostersApart, ApartSets, Apart
  <2> QED
    BY <2>1 DEF InRing
<1>6. IsFiniteSet(A) /\ IsFiniteSet(B)
  BY <1>3, <1>4, FS_Subset
<1>7. Cardinality(A) = Cardinality(Heads)
  <2>1. f \in Bijection(Heads, A)
    <3>1. \A j, k \in Heads : j # k => Asked(j).req_id # Asked(k).req_id
      BY DEF RqInv, PostersApart, Apart
    <3>2. f \in [Heads -> A] /\ \A a \in A : \E k \in Heads : f[k] = a
      OBVIOUS
    <3> QED
      BY <3>1, <3>2 DEF Bijection, Injection, IsInjective, Surjection
  <2>2. ExistsBijection(Heads, A)
    BY <2>1 DEF ExistsBijection
  <2> QED
    BY <1>1, <2>2, FS_Bijection DEF Places
<1>8. IsFiniteSet(Taken) /\ Cardinality(Taken) <= Cardinality(B)
  <2>1. \A d, e \in Taken : d.req_id = e.req_id => d = e
    BY OneHolderEach DEF RqInv, OneEach
  <2>2. g \in [Taken -> B] /\ \A d \in Taken : g[d] = d.req_id
    OBVIOUS
  <2>3. g \in Injection(Taken, B)
    BY <2>1, <2>2 DEF Injection, IsInjective
  <2> QED
    BY <1>6, <2>3, FS_Injection
<1>9. /\ IsFiniteSet(Names(Taken))
      /\ Cardinality(Names(Taken)) <= Cardinality(Taken)
  <2>1. h \in [Taken -> Names(Taken)] /\ \A r \in Names(Taken) :
                                           \E d \in Taken : h[d] = r
    BY DEF Names
  <2>2. h \in Surjection(Taken, Names(Taken))
    BY <2>1 DEF Surjection
  <2> QED
    BY <1>8, <2>2, FS_Surjection
<1>10. Cardinality(A \cup B) = Cardinality(A) + Cardinality(B)
  <2>1. Cardinality(A \cap B) = 0
    BY <1>5, FS_EmptySet
  <2>2. Cardinality(A) \in Nat /\ Cardinality(B) \in Nat
    BY <1>6, FS_CardinalityType
  <2>3. Cardinality(A \cup B) =
          Cardinality(A) + Cardinality(B) - Cardinality(A \cap B)
    BY <1>6, FS_Union
  <2> QED
    BY <2>1, <2>2, <2>3
<1>11. Cardinality(A \cup B) <= WqeCnt
  <2>1. A \cup B \subseteq Idx
    BY <1>4
  <2> QED
    BY <1>3, <2>1, FS_Subset
<1>12. /\ Cardinality(A) \in Nat /\ Cardinality(B) \in Nat
       /\ Cardinality(Taken) \in Nat /\ Cardinality(Names(Taken)) \in Nat
  BY <1>6, <1>8, <1>9, FS_CardinalityType
<1> HIDE DEF A, B
<1> QED
  BY <1>1, <1>7, <1>8, <1>9, <1>10, <1>11, <1>12, RqSizes

(* The abstract queue through the parts of this one.                          *)
QueueIsSeen ==
  /\ Places(Heads) /\ Cardinality(Heads) \in Nat
  /\ Queued = [n \in 1 .. Cardinality(Heads) |-> Asked(Nth(Heads, n)).wr]
  /\ \A k \in Heads : Asked(k) \in InRing /\ Asked(k).wr \in WrIds
  /\ SeqSet(cqes) = InCq
  /\ ReportedWrId = IF cur = NoDesc THEN NoWr ELSE cur.wr
  /\ \A d \in InRing \cup Taken : d.wr \in WrIds /\ d.wr # NoWr
  /\ WQ!Queued = Names(InRing)
  /\ WQ!Outstanding = Names(InRing) \cup Names(Taken)
  /\ WQ!Outstanding \ WQ!Queued = Names(Taken)
  /\ Cardinality(Names(Taken)) \in Nat
  /\ Cardinality(Heads) + Cardinality(Names(Taken)) <= WqeCnt

LEMMA Seen == RqInv => QueueIsSeen
<1> SUFFICES ASSUME RqInv PROVE QueueIsSeen
  OBVIOUS
<1>1. Places(Heads) /\ Cardinality(Heads) \in Nat
  BY Occupancy
<1>2. PICK c \in Nat : c = Cardinality(Heads)
  BY <1>1
<1>3. /\ Firsts = Heads /\ \A k \in Heads : RequestAt(k) = Asked(k)
      /\ SeqSet(cqes) = InCq
  BY Parts DEF RqInv
<1>4. \A n \in 1 .. c : Nth(Heads, n) \in Heads
  BY <1>1, <1>2, NthIsThere
<1>5. \A n : NthFirst(n) = Nth(Heads, n)
  BY <1>3 DEF NthFirst, Nth, Below, Under
<1>6. Queued = [n \in 1 .. c |-> Asked(Nth(Heads, n)).wr]
  <2>1. Waiting = [n \in 1 .. c |-> RequestAt(NthFirst(n))]
    BY <1>2, <1>3 DEF Waiting
  <2>2. \A n \in 1 .. c : RequestAt(NthFirst(n)) = Asked(Nth(Heads, n))
    BY <1>3, <1>4, <1>5
  <2> QED
    BY <2>1, <2>2 DEF Queued
<1>7. \A d \in InRing \cup Taken : d.wr \in WrIds /\ d.wr # NoWr
  BY OfRequest DEF RqInv
<1>8. \A k \in Heads : Asked(k) \in InRing /\ Asked(k).wr \in WrIds
  BY <1>7 DEF InRing
<1>9. ReportedWrId = IF cur = NoDesc THEN NoWr ELSE cur.wr
  <2>1. cur # NoDesc => cur \in Taken
    BY DEF Taken, InHand
  <2> QED
    BY <2>1, InFlightHolds DEF ReportedWrId
<1>10. WQ!Queued = Names(InRing)
  <2>1. Len(Queued) = c
    BY <1>6
  <2>2. WQ!Queued = {Asked(Nth(Heads, n)).wr : n \in 1 .. c}
    BY <1>6, <2>1 DEF WQ!Queued
  <2>3. Names(InRing) = {Asked(k).wr : k \in Heads}
    BY DEF Names, InRing
  <2>4. \A k \in Heads : \E n \in 1 .. c : Nth(Heads, n) = k
    <3> SUFFICES ASSUME NEW k \in Heads PROVE \E n \in 1 .. c : Nth(Heads, n) = k
      OBVIOUS
    <3>1. PICK b \in 0 .. c - 1 : b = Below(Heads, k)
      BY <1>1, <1>2, BelowGrows
    <3>2. b + 1 \in 1 .. c /\ b + 1 \in Nat /\ b = b + 1 - 1
      BY <3>1
    <3>3. Nth(Heads, b + 1) = k
      BY <1>1, <3>1, <3>2, NthIsThere
    <3> QED
      BY <3>2, <3>3
  <2> QED
    BY <1>4, <2>2, <2>3, <2>4
<1>11. {ReportedWrId} \ {NoWr} = Names(InHand)
  <2>1. CASE cur = NoDesc
    BY <1>9, <2>1 DEF Names, InHand
  <2>2. CASE cur # NoDesc
    <3>1. InHand = {cur} /\ cur.wr # NoWr
      BY <1>7, <2>2 DEF InHand, Taken
    <3> QED
      BY <1>9, <2>2, <3>1 DEF Names
  <2> QED
    BY <2>1, <2>2
<1>12. Names(Taken) = Names(working) \cup Names(InCq) \cup Names(InHand)
  BY DEF Names, Taken
<1>13. WQ!Outstanding = Names(InRing) \cup Names(Taken)
  BY <1>3, <1>10, <1>11, <1>12 DEF WQ!Outstanding
<1>14. \A d \in InRing, e \in Taken : d.wr # e.wr
  BY DEF RqInv, PostersApart, ApartSets, Apart
<1>15. WQ!Outstanding \ WQ!Queued = Names(Taken)
  BY <1>10, <1>13, <1>14 DEF Names
<1> QED
  BY <1>1, <1>2, <1>3, <1>6, <1>7, <1>8, <1>9, <1>10, <1>13, <1>15, Occupancy
     DEF QueueIsSeen

LEMMA SameCardinality == \A S : WQ!Cardinality(S) = Cardinality(S)
  BY DEF WQ!Cardinality, Cardinality

(* Steps that do not touch the ring leave the queue as it was.                *)
LEMMA QueueSame ==
  ASSUME RqInv, RqInv', UNCHANGED <<ring, pos, devPc>>
  PROVE  Queued' = Queued
<1>1. QueueIsSeen /\ QueueIsSeen'
  BY Seen, PTL
<1>2. Heads' = Heads /\ \A k : Asked(k)' = Asked(k)
  BY RingSame
<1>3. Queued' = [n \in 1 .. Cardinality(Heads') |-> Asked(Nth(Heads, n))'.wr]
  BY <1>1 DEF QueueIsSeen
<1>4. \A n : Asked(Nth(Heads, n))' = Asked(Nth(Heads, n))
  <2> SUFFICES ASSUME NEW n PROVE Asked(Nth(Heads, n))' = Asked(Nth(Heads, n))
    OBVIOUS
  <2>1. PICK k : k = Nth(Heads, n)
    OBVIOUS
  <2>2. Asked(Nth(Heads, n))' = Asked(k)'
    BY <1>2, <2>1 DEF Asked, Front
  <2> QED
    BY <1>2, <2>1, <2>2
<1> QED
  BY <1>1, <1>2, <1>3, <1>4 DEF QueueIsSeen

(* Steps that neither post nor move a request are not seen.                   *)
LEMMA UnseenStep ==
  ASSUME RqInv, RqInv', UNCHANGED <<ring, pos, devPc, working, cqes, cur>>
  PROVE  UNCHANGED WQ!vars
<1>1. QueueIsSeen /\ QueueIsSeen' /\ Queued' = Queued
  <2>1. QueueIsSeen /\ QueueIsSeen'
    BY Seen, PTL
  <2> QED
    BY <2>1, QueueSame
<1>2. ReportedWrId' = ReportedWrId
  BY <1>1 DEF QueueIsSeen
<1>3. Names(working)' = Names(working) /\ Names(SeqSet(cqes))' = Names(SeqSet(cqes))
  BY DEF Names, SeqSet
<1> QED
  BY <1>1, <1>2, <1>3 DEF WQ!vars

FirstThen(q, x) == [i \in 1 .. Len(q) + 1 |-> IF i <= Len(q) THEN q[i] ELSE x]

LEMMA Concatenated ==
  ASSUME NEW S, NEW q \in Seq(S), NEW x \in S, NEW b \in Seq(S), Len(b) = 1, b[1] = x
  PROVE  q \o b = FirstThen(q, x)
<1>1. /\ q \o b \in Seq(S) /\ Len(q \o b) = Len(q) + Len(b)
      /\ \A i \in 1 .. Len(q) + Len(b) : (q \o b)[i] =
           IF i <= Len(q) THEN q[i] ELSE b[i - Len(q)]
  BY ONLY ConcatProperties, Zenon
<1>2. PICK n \in Nat : n = Len(q)
  OBVIOUS
<1>3. PICK r : r = q \o b
  OBVIOUS
<1>4. /\ r \in Seq(S) /\ Len(r) = n + 1
      /\ \A i \in 1 .. n + 1 : r[i] = IF i <= n THEN q[i] ELSE b[i - n]
  BY <1>1, <1>2, <1>3
<1>5. \A i \in 1 .. n + 1 : ~(i <= n) => i - n = 1
  OBVIOUS
<1>6. \A i \in 1 .. n + 1 : r[i] = IF i <= n THEN q[i] ELSE x
  BY <1>4, <1>5
<1>7. r = [i \in 1 .. n + 1 |-> r[i]]
  BY <1>4
<1>8. r = [i \in 1 .. n + 1 |-> IF i <= n THEN q[i] ELSE x]
  BY <1>6, <1>7
<1> QED
  BY <1>2, <1>8, <1>3 DEF FirstThen

(* A request that is posted comes last, and there is room for it.             *)
LEMMA ArrivalIsSeen ==
  ASSUME RqInv, RqInv', NEW t \in Threads, NEW id \in WrIds, NEW n \in NumSges,
         PostRecvWr(t, id, n)
  PROVE  WQ!Next
<1> DEFINE d == [req_id |-> NextIdx(wq), wr |-> id]
           batch == [k \in 1 .. 1 |-> id]
<1>1. QueueIsSeen /\ QueueIsSeen'
  BY Seen, PTL
<1>2. PICK s \in Nat, c \in Nat : s = Span /\ c = Cardinality(Heads)
  BY <1>1, Typed DEF RqInv, QueueIsSeen
<1>3. /\ Heads' = Heads \cup {s + 1} /\ \A k \in Heads : Asked(k)' = Asked(k)
      /\ Asked(s + 1)' = d
  BY <1>2, WrHeads
<1>4. UNCHANGED <<working, cqes, cur>> /\ Unused(id)
  BY DEF PostRecvWr
<1>5. d.wr = id
  OBVIOUS
<1> HIDE DEF d
<1>6. /\ Cardinality(Heads') = c + 1 /\ Nth(Heads', c + 1) = s + 1
      /\ \A i \in 1 .. c : Nth(Heads', i) = Nth(Heads, i) /\ Nth(Heads, i) \in Heads
  <2>1. Places(Heads)
    BY <1>1 DEF QueueIsSeen
  <2>2. s + 1 \in Nat /\ \A j \in Heads : j < s + 1
    BY <1>2 DEF Heads
  <2>3. /\ Cardinality(Heads') = c + 1 /\ Nth(Heads', c + 1) = s + 1
        /\ \A i \in 1 .. c : Nth(Heads', i) = Nth(Heads, i)
    BY <1>2, <1>3, <2>1, <2>2, NthAfterLast
  <2>4. \A i \in 1 .. c : Nth(Heads, i) \in Heads
    BY <1>2, <2>1, NthIsThere
  <2> QED
    BY <2>3, <2>4
<1>7. /\ Queued = [i \in 1 .. c |-> Asked(Nth(Heads, i)).wr] /\ Queued \in Seq(WrIds)
      /\ Len(Queued) = c
  <2>1. /\ Queued = [i \in 1 .. c |-> Asked(Nth(Heads, i)).wr]
        /\ \A k \in Heads : Asked(k).wr \in WrIds
    BY <1>1, <1>2 DEF QueueIsSeen
  <2> QED
    BY <1>2, <1>6, <2>1
<1>8. \A i \in 1 .. c + 1 : Queued'[i] = IF i <= c THEN Queued[i] ELSE id
  <2> SUFFICES ASSUME NEW i \in 1 .. c + 1
               PROVE  Queued'[i] = IF i <= c THEN Queued[i] ELSE id
    OBVIOUS
  <2>1. PICK k : k = Nth(Heads', i)
    OBVIOUS
  <2>2. Queued'[i] = Asked(k)'.wr
    <3>1. Queued' = [j \in 1 .. c + 1 |-> Asked(Nth(Heads, j))'.wr]
      BY <1>1, <1>6 DEF QueueIsSeen
    <3>2. Asked(Nth(Heads, i))' = Asked(k)'
      BY <2>1 DEF Asked, Front
    <3> QED
      BY <3>1, <3>2
  <2>3. CASE i <= c
    <3>1. i \in 1 .. c
      BY <1>2, <2>3
    <3>2. k = Nth(Heads, i) /\ k \in Heads
      BY <1>6, <2>1, <3>1
    <3> QED
      BY <1>3, <1>7, <2>2, <2>3, <3>1, <3>2
  <2>4. CASE ~(i <= c)
    <3>1. i = c + 1
      BY <1>2, <2>4
    <3> QED
      BY <1>3, <1>5, <1>6, <2>1, <2>2, <2>4, <3>1
  <2> QED
    BY <2>3, <2>4
<1>9. batch \in [1 .. 1 -> WrIds] /\ Len(batch) = 1 /\ batch \in Seq(WrIds)
      /\ \A k \in 1 .. 1 : batch[k] = id
  OBVIOUS
<1> HIDE DEF batch
<1>10. Queued' = Queued \o batch
  <2>1. Queued \o batch = FirstThen(Queued, id)
    <3>1. Len(batch) = 1 /\ batch[1] = id
      BY <1>9
    <3> QED
      BY <1>7, <1>9, <3>1, Concatenated
  <2>2. Queued' = [i \in 1 .. c + 1 |-> Asked(Nth(Heads, i))'.wr]
    BY <1>1, <1>6 DEF QueueIsSeen
  <2>3. Queued' = [i \in 1 .. c + 1 |-> Queued'[i]]
    BY <2>2
  <2>4. Queued' = [i \in 1 .. c + 1 |-> IF i <= c THEN Queued[i] ELSE id]
    BY <1>8, <2>3
  <2> QED
    BY <1>7, <2>1, <2>4 DEF FirstThen
<1>11. id \notin WQ!Outstanding
  <2>1. Outstanding = InRing \cup Taken
    BY Parts DEF RqInv
  <2> QED
    BY <1>1, <1>4, <2>1 DEF QueueIsSeen, Names, Unused
<1>12. PICK m \in Nat : m = Cardinality(Names(Taken)) /\ c + 1 + m <= WqeCnt
  <2>1. Taken' = Taken
    BY <1>4 DEF Taken, InCq, InHand
  <2>2. Cardinality(Heads') + Cardinality(Names(Taken')) <= WqeCnt
    BY <1>1 DEF QueueIsSeen, Names
  <2> QED
    BY <1>1, <1>6, <2>1, <2>2 DEF QueueIsSeen
<1>13. WQ!Post(batch)
  <2>1. Len(Queued) + Cardinality(WQ!Outstanding \ WQ!Queued) + Len(batch) <= WqeCnt
    <3>1. Cardinality(WQ!Outstanding \ WQ!Queued) = m
      BY <1>1, <1>12 DEF QueueIsSeen
    <3> QED
      BY <1>2, <1>7, <1>9, <1>12, <3>1, RqSizes
  <2>2. Names(working)' = Names(working) /\ Names(SeqSet(cqes))' = Names(SeqSet(cqes))
    BY <1>4 DEF Names, SeqSet
  <2>3. \A k \in 1 .. Len(batch) : batch[k] \notin WQ!Outstanding
    BY <1>9, <1>11
  <2>4. ReportedWrId' = ReportedWrId
    BY <1>1, <1>4 DEF QueueIsSeen
  <2> QED
    BY <1>10, <2>1, <2>2, <2>3, <2>4, SameCardinality DEF WQ!Post
<1>14. 1 \in 1 .. WqeCnt
  BY RqSizes
<1> QED
  BY <1>9, <1>13, <1>14 DEF WQ!Next

(* The request the device takes up is the first of the queue.                 *)
LEMMA TakeUpIsSeen ==
  ASSUME RqInv, RqInv', DevFetch
  PROVE  WQ!Next
<1>1. QueueIsSeen /\ QueueIsSeen'
  BY Seen, PTL
<1>2. UNCHANGED <<cqes, cur>>
  BY DEF DevFetch
<1>3. PICK n \in Nat \ {0} :
         /\ n <= Announced /\ n <= Span /\ Front(n).last
         /\ \A k \in 1 .. n - 1 : ~Front(k).last
         /\ Span' = Span - n /\ Announced' = Announced - n
         /\ devPc' \in 0 .. U16 - 1
         /\ \A k \in 1 .. Span - n : Front(k)' = Front(k + n)
         /\ working' = working \cup {Asked(1)}
  BY FetchParts
<1>4. /\ 1 \in Heads
      /\ \A j \in Heads : j = 1 \/ (j > n /\ j - n \in Heads')
      /\ \A j \in Heads' : j + n \in Heads /\ Asked(j)' = Asked(j + n)
  BY <1>3, HeadsMoveUp
<1>5. PICK s \in Nat, c \in Nat : s = Span /\ c = Cardinality(Heads')
  BY <1>1, Typed DEF RqInv, QueueIsSeen
<1>6. /\ Cardinality(Heads) = c + 1 /\ Nth(Heads, 1) = 1
      /\ \A i \in 1 .. c : /\ Nth(Heads, i + 1) = Nth(Heads', i) + n
                           /\ Nth(Heads', i) \in Heads'
  <2>1. Heads \subseteq 1 .. s /\ Heads' \subseteq 1 .. s - n
    BY <1>3, <1>5 DEF Heads
  <2>2. /\ Places(Heads') /\ Cardinality(Heads) = c + 1 /\ Nth(Heads, 1) = 1
        /\ \A i \in 1 .. c : Nth(Heads, i + 1) = Nth(Heads', i) + n
    <3>1. PICK H, G : H = Heads /\ G = Heads'
      OBVIOUS
    <3>2. ClimbsIn(s, H, G, n)
      BY <1>3, <1>4, <1>5, <2>1, <3>1 DEF ClimbsIn
    <3>3. /\ Places(G) /\ Cardinality(H) = Cardinality(G) + 1 /\ Nth(H, 1) = 1
          /\ \A i \in 1 .. Cardinality(G) : Nth(H, i + 1) = Nth(G, i) + n
      BY <1>5, <3>2, NthMovedUp
    <3> QED
      BY <1>5, <3>1, <3>3
  <2>3. \A i \in 1 .. c : Nth(Heads', i) \in Heads'
    BY <1>5, <2>2, NthIsThere
  <2> QED
    BY <2>2, <2>3
<1>7. /\ Queued = [i \in 1 .. c + 1 |-> Asked(Nth(Heads, i)).wr]
      /\ Queued \in Seq(WrIds) /\ Len(Queued) = c + 1 /\ Queued # <<>>
  <2>1. Queued = [i \in 1 .. c + 1 |-> Asked(Nth(Heads, i)).wr]
    BY <1>1, <1>6 DEF QueueIsSeen
  <2>2. \A i \in 1 .. c + 1 : Asked(Nth(Heads, i)).wr \in WrIds
    <3>1. Places(Heads) /\ \A k \in Heads : Asked(k).wr \in WrIds
      BY <1>1 DEF QueueIsSeen
    <3>2. \A i \in 1 .. c + 1 : Nth(Heads, i) \in Heads
      BY <1>6, <3>1, NthIsThere
    <3> QED
      BY <3>1, <3>2
  <2> QED
    BY <1>5, <2>1, <2>2
<1>8. Head(Queued) = Asked(1).wr
  BY <1>5, <1>6, <1>7
<1>9. Queued' = Tail(Queued)
  <2>1. Tail(Queued) = [i \in 1 .. c |-> Queued[i + 1]]
    BY <1>5, <1>7
  <2>2. Queued' = [i \in 1 .. c |-> Asked(Nth(Heads, i))'.wr]
    BY <1>1, <1>5 DEF QueueIsSeen
  <2>3. ASSUME NEW i \in 1 .. c PROVE Asked(Nth(Heads, i))'.wr = Queued[i + 1]
    <3>1. PICK k \in Heads' : k = Nth(Heads', i) /\ Nth(Heads, i + 1) = k + n
      BY <1>6
    <3>2. Asked(Nth(Heads, i))' = Asked(k)'
      BY <3>1 DEF Asked, Front
    <3>3. i + 1 \in 1 .. c + 1
      BY <1>5
    <3> QED
      BY <1>4, <1>7, <3>1, <3>2, <3>3
  <2> QED
    BY <2>1, <2>2, <2>3
<1>10. Names(working)' = Names(working) \cup {Asked(1).wr}
  BY <1>3 DEF Names
<1>11. ReportedWrId' = ReportedWrId /\ Names(SeqSet(cqes))' = Names(SeqSet(cqes))
  BY <1>1, <1>2 DEF QueueIsSeen, Names, SeqSet
<1> QED
  BY <1>7, <1>8, <1>9, <1>10, <1>11 DEF WQ!Next, WQ!TakeUp

LEMMA CompletionIsSeen ==
  ASSUME RqInv, RqInv', NEW d \in working, DevComplete(d)
  PROVE  WQ!Next
<1>1. QueueIsSeen /\ QueueIsSeen'
  BY Seen, PTL
<1>2. /\ working' = working \ {d} /\ cqes' = Append(cqes, d)
      /\ UNCHANGED <<pos, ring, devPc, cur>>
  BY DEF DevComplete
<1>3. /\ \A e \in working : e # d => e.wr # d.wr
      /\ d \in Request /\ cqes \in Seq(Request) /\ d.wr \in WrIds
  <2>1. d \in Request /\ cqes \in Seq(Request)
    BY Typed DEF RqInv
  <2> QED
    BY <1>1, <2>1 DEF QueueIsSeen, RqInv, TakenApart, Apart, Taken
<1>4. Names(working)' = Names(working) \ {d.wr} /\ d.wr \in Names(working)
  BY <1>2, <1>3 DEF Names
<1>5. Names(SeqSet(cqes))' = Names(SeqSet(cqes)) \cup {d.wr}
  <2>1. SeqSet(cqes') = SeqSet(cqes) \cup {d}
    BY <1>2, <1>3, SeqSets
  <2> QED
    BY <2>1 DEF Names
<1>6. ReportedWrId' = ReportedWrId
  BY <1>1, <1>2 DEF QueueIsSeen
<1>7. Queued' = Queued
  BY <1>2, QueueSame
<1> QED
  BY <1>3, <1>4, <1>5, <1>6, <1>7 DEF WQ!Next, WQ!Complete

LEMMA ReportIsSeen ==
  ASSUME RqInv, RqInv', PollCqe
  PROVE  WQ!Next
<1>1. QueueIsSeen /\ QueueIsSeen'
  BY Seen, PTL
<1>2. /\ cur = NoDesc /\ cqes # <<>> /\ cur' = Head(cqes) /\ cqes' = Tail(cqes)
      /\ UNCHANGED <<pos, ring, devPc, working>>
  BY DEF PollCqe
<1>3. cqes \in Seq(Request) /\ cur' \in Request /\ cur' # NoDesc
  <2>1. cqes \in Seq(Request)
    BY Typed DEF RqInv
  <2> QED
    BY <1>2, <2>1, RqSizes
<1>4. SeqSet(cqes) = SeqSet(cqes') \cup {cur'}
  BY <1>2, <1>3, SeqSets
<1>5. \A e \in SeqSet(cqes') : e.wr # cur'.wr
  <2>1. SeqSet(cqes)' = InCq' /\ InHand' = {cur'}
    BY <1>1, <1>3 DEF QueueIsSeen, InHand
  <2>2. ApartSets(InCq', InHand')
    BY DEF RqInv, TakenApart
  <2>3. \A e \in InCq' : e.wr # cur'.wr
    BY <2>1, <2>2 DEF ApartSets, Apart
  <2> QED
    BY <2>1, <2>3
<1>6. /\ cur'.wr \in Names(SeqSet(cqes)) /\ cur'.wr \in WrIds
      /\ Names(SeqSet(cqes))' = Names(SeqSet(cqes)) \ {cur'.wr}
  BY <1>3, <1>4, <1>5 DEF Names, Request
<1>7. ReportedWrId = NoWr /\ ReportedWrId' = cur'.wr
  BY <1>1, <1>2, <1>3 DEF QueueIsSeen
<1>8. Names(working)' = Names(working) /\ Queued' = Queued
  <2>1. Queued' = Queued
    BY <1>2, QueueSame
  <2> QED
    BY <1>2, <2>1 DEF Names
<1> QED
  BY <1>6, <1>7, <1>8 DEF WQ!Next, WQ!Report

LEMMA ReleaseIsSeen ==
  ASSUME RqInv, RqInv', PutCur
  PROVE  WQ!Next
<1>1. QueueIsSeen /\ QueueIsSeen'
  BY Seen, PTL
<1>2. /\ cur # NoDesc /\ cur' = NoDesc
      /\ UNCHANGED <<pos, ring, devPc, working, cqes>>
  BY DEF PutCur
<1>3. ReportedWrId # NoWr /\ ReportedWrId' = NoWr
  BY <1>1, <1>2 DEF QueueIsSeen, Taken, InHand
<1>4. Queued' = Queued
  BY <1>2, QueueSame
<1>5. Names(working)' = Names(working) /\ Names(SeqSet(cqes))' = Names(SeqSet(cqes))
  BY <1>2 DEF Names, SeqSet
<1> QED
  BY <1>3, <1>4, <1>5 DEF WQ!Next, WQ!Release

(* With nothing outstanding the queue is empty before a reset, and after.     *)
LEMMA NoneQueued ==
  ASSUME QueueIsSeen, Heads = {}
  PROVE  Queued = <<>>
<1>1. Cardinality(Heads) = 0
  BY FS_EmptySet
<1> QED
  BY <1>1 DEF QueueIsSeen

LEMMA ResetIsUnseen ==
  ASSUME RqInv, RqInv', ModifyReset
  PROVE  UNCHANGED WQ!vars
<1>1. /\ Outstanding = {} /\ UNCHANGED <<working, cqes, cur>>
      /\ pos' = InitPos(pos) /\ devPc' = 0
  BY DEF ModifyReset
<1>2. QueueIsSeen /\ QueueIsSeen'
  BY Seen, PTL
<1>3. InRing = {}
  BY <1>1, Parts DEF RqInv
<1>4. Heads = {}
  BY <1>3 DEF InRing
<1>5. Heads' = {}
  <2>1. Span' = 0
    BY <1>1 DEF Span, InitPos, WrapSub, RqInv, TypeOK, PosType
  <2> QED
    BY <2>1 DEF Heads
<1>6. Queued = <<>>
  BY <1>2, <1>4, NoneQueued
<1>7. Queued' = <<>>
  <2>1. Queued' = [n \in 1 .. Cardinality(Heads') |-> Asked(Nth(Heads, n))'.wr]
    BY <1>2 DEF QueueIsSeen
  <2>2. Cardinality(Heads') = 0
    BY <1>5, FS_EmptySet
  <2> QED
    BY <2>1, <2>2
<1>8. ReportedWrId' = ReportedWrId
  BY <1>1, <1>2 DEF QueueIsSeen
<1>9. Names(working)' = Names(working) /\ Names(SeqSet(cqes))' = Names(SeqSet(cqes))
  BY <1>1 DEF Names, SeqSet
<1> QED
  BY <1>6, <1>7, <1>8, <1>9 DEF WQ!vars

(* The receive ring, its doorbell, the lock and the index pool together are   *)
(* a work queue as an application knows it: receives taken up in the order    *)
(* posted, each as one request however many descriptors it has, none lost at  *)
(* a wrap of the ring, each reported once under its own name, never more than *)
(* WqeCnt of them (efa_post_recv, efa_wq_put_wrid_idx_unlocked).              *)
THEOREM RecvWorkQueueImplemented == Spec => ImplementsWorkQueue
<1>1. Init => WQ!Init
  <2> SUFFICES ASSUME Init PROVE WQ!Init
    OBVIOUS
  <2>1. QueueIsSeen
    BY InitRqInv, Seen
  <2>2. working = {} /\ cqes = <<>> /\ cur = NoDesc
    BY DEF Init
  <2>3. Heads = {}
    <3>1. Span = 0
      BY DEF Init, PosInitial, Span, WrapSub
    <3> QED
      BY <3>1 DEF Heads
  <2>4. Queued = <<>>
    BY <2>1, <2>3, NoneQueued
  <2> QED
    BY <2>1, <2>2, <2>4 DEF WQ!Init, QueueIsSeen, Names, SeqSet
<1>2. ASSUME RqInv, RqInv', [Next]_vars PROVE WQ!Next \/ UNCHANGED WQ!vars
  <2>1. CASE \/ \E t \in Threads : PostRecv(t) \/ PostRecvDone(t)
             \/ \E t \in Threads : \E n \in NumSges : PostRecvRefuse(t, n)
             \/ ModifyErr \/ ModifyInit \/ UNCHANGED vars
    <3>1. UNCHANGED <<ring, pos, devPc, working, cqes, cur>>
      BY <2>1 DEF PostRecv, PostRecvDone, PostRecvRefuse, ModifyErr, ModifyInit, vars
    <3> QED
      BY <1>2, <3>1, UnseenStep
  <2>2. CASE \E t \in Threads : \E n \in NumSges : \E id \in WrIds : PostRecvWr(t, id, n)
    BY <1>2, <2>2, ArrivalIsSeen
  <2>3. CASE DevFetch
    BY <1>2, <2>3, TakeUpIsSeen
  <2>4. CASE PollCqe
    BY <1>2, <2>4, ReportIsSeen
  <2>5. CASE PutCur
    BY <1>2, <2>5, ReleaseIsSeen
  <2>6. CASE \E d \in working : DevComplete(d)
    BY <1>2, <2>6, CompletionIsSeen
  <2>7. CASE ModifyReset
    BY <1>2, <2>7, ResetIsUnseen
  <2> QED
    BY <1>2, <2>1, <2>2, <2>3, <2>4, <2>5, <2>6, <2>7 DEF Next
<1>3. RqInv /\ RqInv' /\ [Next]_vars => [WQ!Next]_(WQ!vars)
  BY <1>2
<1> QED
  BY <1>1, <1>3, RecvQueueCorrect, PTL DEF Spec, ImplementsWorkQueue, WQ!Spec
=============================================================================
