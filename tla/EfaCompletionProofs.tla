------------------------- MODULE EfaCompletionProofs -------------------------
(* The safety properties of EfaCompletion, for any number of queues, QPs and  *)
(* sub CQs, every size of them and every width of the counters.               *)
EXTENDS EfaCompletion, FiniteSetTheorems, TLAPS

(* What EfaRingProofs proves of the descriptor ring holds of a sub CQ too.    *)
CR == INSTANCE EfaRingProofs WITH DescCnt <- CqeCnt

----------------------------------------------------------------------------
(* The entries of sub CQ s the device is ahead by, oldest first from 0 on.    *)
Ahead(x, j) == (x + j) % U16
Span(s) == WrapSub(prod[s], consumed[s], U16)
Unread(s) == 0 .. Span(s) - 1
Entry(s, k) == ring[s][CqeSlot(Ahead(consumed[s], k))]

(* Two entries of one queue are for different indexes.                        *)
Differ(c, e) == c.q = e.q => c.req_id # e.req_id

EntriesOk ==
  \A s \in SubCqs :
    /\ Span(s) <= CqeCnt
    /\ \A k \in Unread(s) : Entry(s, k) \in Cqe /\ SubCqOf[Entry(s, k).q] = s
    /\ \A j, k \in Unread(s) : j # k => Differ(Entry(s, j), Entry(s, k))

WorkingOk ==
  \A q \in Wqs :
    /\ working[q] # {} => Live(q)
    /\ \A d, e \in working[q] : d # e => d.req_id # e.req_id
    /\ \A d \in working[q], k \in Unread(SubCqOf[q]) :
         Entry(SubCqOf[q], k).q = q => Entry(SubCqOf[q], k).req_id # d.req_id

(* The entry that is read in place is the one just behind consumed_cnt, and   *)
(* the device does not reach it: there are too few requests for that.         *)
InUse == call \in {"polled", "session"} /\ cur # None
HandFacts ==
  /\ Span(cur[1]) < CqeCnt
  /\ cur[2] = CqeSlot(Ahead(consumed[cur[1]], CqeCnt - 1))
  /\ CurCqe \in Cqe /\ curWq = CurCqe.q /\ SubCqOf[curWq] = cur[1] /\ Live(curWq)
  /\ refCnt[cur[1]] > 0
  /\ \A k \in Unread(cur[1]) : Differ(Entry(cur[1], k), CurCqe)
  /\ \A d \in working[curWq] : d.req_id # CurCqe.req_id
HandOk == InUse => HandFacts

(* The phase in every slot: the current lap's for what is written from the    *)
(* one at consumed_cnt on, the other for what is not.                         *)
Base(s) == CqeSlot(consumed[s])
PhaseDue(s, j) ==
  (WrapSub(j, Base(s), CqeCnt) < Span(s)) <=> (j >= Base(s))
PhasesOk ==
  \A s \in SubCqs :
    /\ prodPhase[s] = IF Base(s) + Span(s) < CqeCnt THEN phase[s] ELSE 1 - phase[s]
    /\ \A j \in CqeSlots :
         ring[s][j].phase = IF PhaseDue(s, j) THEN phase[s] ELSE 1 - phase[s]

(* A sub CQ is polled as long as a queue of a QP in the table completes in it.*)
RefsOk ==
  \A s \in SubCqs : refCnt[s] = Cardinality({q \in Wqs : SubCqOf[q] = s /\ Live(q)})

(* An application that drains its QPs leaves no orphan.                       *)
NoOrphans ==
  app.drains => \A s \in SubCqs : \A k \in Unread(s) : Live(Entry(s, k).q)

(* A session that goes on over nothing ends with cur_cqe NULL: a sub CQ in    *)
(* use is still to come.                                                      *)
StillToCome(j) == refCnt[(nextPoll + j) % NumSubCqs] > 0
CallOk ==
  /\ call # "failed" /\ (call \in {"start", "session", "next"} => app.sessions)
  /\ call = "polled" => cur # None
  /\ call \in {"poll", "polled"} => got < Nwc
  /\ call = "next" => cur = None \/ \E j \in 0 .. NumSubCqs - 1 - scanned : StillToCome(j)

(* An index pool and the requests that have indexes out of it: an index is    *)
(* free or a request's, the counters count the requests, and wrid[] has the   *)
(* name of each.                                                              *)
FreeOf(w) == w.next .. WqeCnt - 1
PoolServes(w, reqs) ==
  /\ w \in WqType /\ reqs \subseteq Request
  /\ WrapSub(w.posted, w.completed, U32) = w.next /\ w.next <= WqeCnt
  /\ \A j, k \in FreeOf(w) : w.pool[j] = w.pool[k] => j = k
  /\ \A i \in Idx : (\E d \in reqs : d.req_id = i) <=> (\A k \in FreeOf(w) : w.pool[k] # i)
  /\ \A d \in reqs : w.wrid[d.req_id] = d.wr
PoolsOk == \A q \in Wqs : Live(q) => PoolServes(wq[q], Outstanding(q))

CqInv ==
  /\ TypeOK /\ EntriesOk /\ WorkingOk /\ HandOk /\ PhasesOk /\ RefsOk
  /\ NoOrphans /\ CallOk /\ PoolsOk

(* What is asked of the applications: one that polls in sessions drains a QP  *)
(* before it destroys it (the run orphan_session shows what happens else).    *)
SessionsDrain == \A a \in Apps : a.sessions => a.drains

----------------------------------------------------------------------------
(* The constants the proofs use.                                              *)
LEMMA CqSizes ==
  /\ WqeCnt \in Nat \ {0} /\ U16 \in Nat \ {0} /\ WqeCnt < U16
  /\ U32 \in Nat \ {0} /\ WqeCnt < U32
  /\ CqeCnt \in Nat \ {0} /\ CqeCnt < U16
  /\ NumSubCqs \in Nat \ {0} /\ Nwc \in Nat \ {0}
  /\ Apps \subseteq [sessions : BOOLEAN, drains : BOOLEAN]
  /\ IsFiniteSet(Wqs) /\ QpOf \in [Wqs -> Qps] /\ SubCqOf \in [Wqs -> SubCqs]
  /\ None \notin Wqs /\ \A c \in SubCqs \X CqeSlots : c # None
  BY WqAssumption, CqAssumption

LEMMA RingOfCq == CR!WqAssumption
  BY WqAssumption, CqAssumption DEF CR!WqAssumption

(* The count j after count x, and the slot of a sub CQ it names.              *)
LEMMA AheadOf ==
  ASSUME NEW x \in 0 .. U16 - 1, NEW j \in 0 .. U16
  PROVE  /\ Ahead(x, j) = IF x + j < U16 THEN x + j ELSE x + j - U16
         /\ Ahead(x, j) \in 0 .. U16 - 1
<1>1. Ahead(x, j) = CR!Ahead(x, j)
  BY DEF Ahead, CR!Ahead
<1>2. /\ CR!Ahead(x, j) = IF x + j < U16 THEN x + j ELSE x + j - U16
      /\ CR!Ahead(x, j) \in 0 .. U16 - 1
  BY RingOfCq, CR!AheadValue
<1> QED
  BY <1>1, <1>2

LEMMA SlotOf ==
  ASSUME NEW x \in 0 .. U16 - 1, NEW j \in 0 .. CqeCnt
  PROVE  /\ CqeSlot(x) \in 0 .. CqeCnt - 1
         /\ CqeSlot(Ahead(x, j)) = IF CqeSlot(x) + j < CqeCnt THEN CqeSlot(x) + j
                                   ELSE CqeSlot(x) + j - CqeCnt
         /\ CqeSlot(WrapInc(x, U16)) = WrapInc(CqeSlot(x), CqeCnt)
<1>1. /\ CqeSlot(Ahead(x, j)) = CR!Slot(CR!Ahead(x, j))
      /\ CqeSlot(x) = CR!Slot(x)
      /\ CqeSlot(WrapInc(x, U16)) = CR!Slot(CR!WrapInc(x, U16))
      /\ WrapInc(CqeSlot(x), CqeCnt) = CR!WrapInc(CR!Slot(x), CqeCnt)
  BY DEF Ahead, CR!Ahead, CqeSlot, CR!Slot, WrapInc, CR!WrapInc
<1>2. CR!Slot(CR!Ahead(x, j)) = IF CR!Slot(x) + j < CqeCnt THEN CR!Slot(x) + j
                                ELSE CR!Slot(x) + j - CqeCnt
  BY RingOfCq, CR!SlotAfter
<1>3. CR!Slot(CR!WrapInc(x, U16)) = CR!WrapInc(CR!Slot(x), CqeCnt)
  BY RingOfCq, CR!SlotOfNext
<1>4. CR!Slot(x) \in CR!Slots
  <2>1. x \in Nat
    BY CqSizes
  <2> QED
    BY <2>1, RingOfCq, CR!SlotInRing
<1> QED
  BY <1>1, <1>2, <1>3, <1>4 DEF CR!Slots

(* Slots that are not further apart than the ring is long are different.      *)
LEMMA SlotsApart ==
  ASSUME NEW x \in 0 .. U16 - 1, NEW j \in 0 .. CqeCnt - 1, NEW k \in 0 .. CqeCnt - 1,
         j # k
  PROVE  CqeSlot(Ahead(x, j)) # CqeSlot(Ahead(x, k))
<1>1. j \in 0 .. CqeCnt /\ k \in 0 .. CqeCnt
  BY CqSizes
<1>2. PICK b \in 0 .. CqeCnt - 1 :
         /\ CqeSlot(Ahead(x, j)) = IF b + j < CqeCnt THEN b + j ELSE b + j - CqeCnt
         /\ CqeSlot(Ahead(x, k)) = IF b + k < CqeCnt THEN b + k ELSE b + k - CqeCnt
  BY <1>1, SlotOf
<1> QED
  BY <1>2, CqSizes

(* Moving a count by one.                                                     *)
LEMMA CountMoves ==
  ASSUME NEW x \in 0 .. U16 - 1, NEW y \in 0 .. U16 - 1
  PROVE  /\ WrapInc(x, U16) \in 0 .. U16 - 1
         /\ WrapSub(y, x, U16) \in 0 .. U16 - 1
         /\ (WrapSub(y, x, U16) = 0) <=> (x = y)
         /\ WrapSub(y, x, U16) + 1 < U16 =>
              WrapSub(WrapInc(y, U16), x, U16) = WrapSub(y, x, U16) + 1
         /\ WrapSub(y, x, U16) > 0 =>
              WrapSub(y, WrapInc(x, U16), U16) = WrapSub(y, x, U16) - 1
         /\ Ahead(x, WrapSub(y, x, U16)) = y
         /\ Ahead(x, 0) = x
<1>1. /\ WrapInc(x, U16) \in 0 .. U16 - 1
      /\ WrapSub(y, x, U16) \in 0 .. U16 - 1
      /\ (WrapSub(y, x, U16) = 0) <=> (x = y)
      /\ WrapSub(y, x, U16) + 1 < U16 =>
           WrapSub(WrapInc(y, U16), x, U16) = WrapSub(y, x, U16) + 1
      /\ WrapSub(y, x, U16) > 0 =>
           WrapSub(y, WrapInc(x, U16), U16) = WrapSub(y, x, U16) - 1
  BY CqSizes DEF WrapInc, WrapSub
<1>2. PICK n \in 0 .. U16 : n = WrapSub(y, x, U16)
  BY <1>1, CqSizes
<1>3. Ahead(x, n) = IF x + n < U16 THEN x + n ELSE x + n - U16
  BY AheadOf
<1>4. Ahead(x, n) = y
  BY <1>2, <1>3, CqSizes DEF WrapSub
<1>5. Ahead(x, 0) = x
  <2>1. 0 \in 0 .. U16 /\ x + 0 < U16 /\ x + 0 = x
    BY CqSizes
  <2> QED
    BY <2>1, AheadOf
<1> QED
  BY <1>1, <1>2, <1>4, <1>5

LEMMA AheadOfNext ==
  ASSUME NEW x \in 0 .. U16 - 1, NEW k \in 0 .. U16 - 1
  PROVE  Ahead(WrapInc(x, U16), k) = Ahead(x, k + 1)
<1>1. PICK y \in 0 .. U16 - 1 : y = WrapInc(x, U16)
  BY CqSizes DEF WrapInc
<1>2. k \in 0 .. U16 /\ k + 1 \in 0 .. U16
  BY CqSizes
<1>3. Ahead(y, k) = IF y + k < U16 THEN y + k ELSE y + k - U16
  BY <1>2, AheadOf
<1>4. Ahead(x, k + 1) = IF x + (k + 1) < U16 THEN x + (k + 1) ELSE x + (k + 1) - U16
  BY <1>2, AheadOf
<1> QED
  BY <1>1, <1>3, <1>4, CqSizes DEF WrapInc

----------------------------------------------------------------------------
(* An index pool, and what taking an index and giving one back do to it.      *)
LEMMA WqFields ==
  ASSUME NEW w \in WqType
  PROVE  /\ w.wrid \in [Idx -> Ids] /\ w.pool \in [Idx -> Idx]
         /\ w.next \in Nat /\ w.next < U16
         /\ w.posted \in 0 .. U32 - 1 /\ w.completed \in 0 .. U32 - 1
  BY CqSizes DEF WqType

LEMMA IdxFinite == IsFiniteSet(Idx) /\ Cardinality(Idx) = WqeCnt
  BY FS_Interval, CqSizes DEF Idx

LEMMA ServesNone == PoolServes(WqInitial, {})
<1>1. WqInitial \in WqType
  BY CqSizes DEF WqInitial, WqType, Idx, Ids
<1>2. FreeOf(WqInitial) = Idx /\ \A k \in Idx : WqInitial.pool[k] = k
  BY DEF FreeOf, WqInitial, Idx
<1>3. /\ WqInitial.next = 0
      /\ WrapSub(WqInitial.posted, WqInitial.completed, U32) = 0
  BY DEF WqInitial, WrapSub
<1> QED
  BY <1>1, <1>2, <1>3, CqSizes DEF PoolServes

LEMMA OneRequestEach ==
  ASSUME NEW w, NEW reqs, PoolServes(w, reqs), NEW d \in reqs, NEW e \in reqs,
         d.req_id = e.req_id
  PROVE  d = e
<1>1. d \in Request /\ e \in Request /\ d.wr = e.wr
  BY DEF PoolServes
<1> QED
  BY <1>1 DEF Request

(* A request that is accepted gets an index no other has.                     *)
LEMMA TakeServes ==
  ASSUME NEW w, NEW reqs, PoolServes(w, reqs), ~Full(w), NEW id \in WrIds,
         NEW v, v = CountPosted(GetNextWridIdx(w, id)),
         NEW d, d = [req_id |-> NextIdx(w), wr |-> id]
  PROVE  /\ PoolServes(v, reqs \cup {d}) /\ d \in Request
         /\ \A e \in reqs : e.req_id # d.req_id
<1>1. /\ w \in WqType /\ w.next \in Nat /\ w.next < WqeCnt
      /\ w.pool \in [Idx -> Idx] /\ w.wrid \in [Idx -> Ids]
      /\ w.posted \in 0 .. U32 - 1 /\ w.completed \in 0 .. U32 - 1
      /\ WrapSub(w.posted, w.completed, U32) = w.next
  <2>1. /\ w \in WqType /\ w.next <= WqeCnt
        /\ WrapSub(w.posted, w.completed, U32) = w.next /\ w.next # WqeCnt
    BY DEF PoolServes, Full
  <2>2. /\ w.pool \in [Idx -> Idx] /\ w.wrid \in [Idx -> Ids]
        /\ w.posted \in 0 .. U32 - 1 /\ w.completed \in 0 .. U32 - 1
        /\ w.next \in Nat
    BY <2>1, WqFields
  <2>3. w.next < WqeCnt
    BY <2>1, <2>2, CqSizes
  <2> QED
    BY <2>1, <2>2, <2>3
<1>2. PICK i \in Idx : i = w.pool[w.next] /\ w.next \in Idx /\ i = NextIdx(w)
  BY <1>1, CqSizes DEF Idx, NextIdx
<1>3. /\ WrapInc(w.next, U16) = w.next + 1 /\ w.next + 1 \in 0 .. U16 - 1
      /\ WrapInc(w.posted, U32) \in 0 .. U32 - 1
      /\ WrapSub(WrapInc(w.posted, U32), w.completed, U32) = w.next + 1
  BY <1>1, CqSizes DEF WrapInc, WrapSub
<1>4. /\ v.next = w.next + 1 /\ v.pool = w.pool
      /\ v.wrid = [w.wrid EXCEPT ![i] = id]
      /\ v.posted = WrapInc(w.posted, U32) /\ v.completed = w.completed
      /\ v \in WqType
  <2>1. [w.wrid EXCEPT ![i] = id] \in [Idx -> Ids]
    BY <1>1, <1>2 DEF Ids
  <2> QED
    BY <1>1, <1>2, <1>3, <2>1 DEF WqType, CountPosted, GetNextWridIdx
<1>5. /\ \A k \in FreeOf(v) : k \in FreeOf(w) /\ k # w.next
      /\ \A k \in FreeOf(w) : k = w.next \/ k \in FreeOf(v)
      /\ w.next \in FreeOf(w)
  BY <1>1, <1>4, CqSizes DEF FreeOf
<1>6. \A e \in reqs : e.req_id # i
  BY <1>2, <1>5 DEF PoolServes
<1>7. d \in Request /\ d.req_id = i /\ d.wr = id
  BY <1>2 DEF Request
<1>8. \A j, k \in FreeOf(v) : v.pool[j] = v.pool[k] => j = k
  BY <1>4, <1>5 DEF PoolServes
<1>9. \A j \in Idx : (\E e \in reqs \cup {d} : e.req_id = j)
                        <=> (\A k \in FreeOf(v) : v.pool[k] # j)
  <2> SUFFICES ASSUME NEW j \in Idx
               PROVE  (\E e \in reqs \cup {d} : e.req_id = j)
                        <=> (\A k \in FreeOf(v) : v.pool[k] # j)
    OBVIOUS
  <2>1. CASE j = i
    <3>1. \A k \in FreeOf(v) : w.pool[k] # i
      BY <1>2, <1>5 DEF PoolServes
    <3> QED
      BY <1>4, <1>7, <2>1, <3>1
  <2>2. CASE j # i
    <3>1. (\E e \in reqs \cup {d} : e.req_id = j) <=> (\E e \in reqs : e.req_id = j)
      BY <1>7, <2>2
    <3>2. (\A k \in FreeOf(v) : v.pool[k] # j) <=> (\A k \in FreeOf(w) : w.pool[k] # j)
      BY <1>2, <1>4, <1>5, <2>2
    <3> QED
      BY <3>1, <3>2 DEF PoolServes
  <2> QED
    BY <2>1, <2>2
<1>10. \A e \in reqs \cup {d} : v.wrid[e.req_id] = e.wr
  <2>1. \A e \in reqs : e.req_id \in Idx /\ e.req_id # i /\ w.wrid[e.req_id] = e.wr
    BY <1>6 DEF PoolServes, Request
  <2> QED
    BY <1>1, <1>2, <1>4, <1>7, <2>1
<1>11. /\ reqs \cup {d} \subseteq Request /\ v.next <= WqeCnt
       /\ WrapSub(v.posted, v.completed, U32) = v.next
  BY <1>1, <1>3, <1>4, <1>7, CqSizes DEF PoolServes
<1> QED
  BY <1>4, <1>6, <1>7, <1>8, <1>9, <1>10, <1>11 DEF PoolServes

(* The index of a request goes back.                                          *)
LEMMA PutServes ==
  ASSUME NEW w, NEW reqs, PoolServes(w, reqs), NEW d \in reqs,
         NEW v, v = PutWridIdx(w, d.req_id)
  PROVE  PoolServes(v, reqs \ {d})
<1>1. /\ w \in WqType /\ w.next \in Nat /\ w.next <= WqeCnt
      /\ w.pool \in [Idx -> Idx] /\ w.wrid \in [Idx -> Ids]
      /\ w.posted \in 0 .. U32 - 1 /\ w.completed \in 0 .. U32 - 1
      /\ WrapSub(w.posted, w.completed, U32) = w.next
  BY WqFields DEF PoolServes
<1>2. PICK i \in Idx : i = d.req_id
  BY DEF PoolServes, Request
<1>3. \A k \in FreeOf(w) : w.pool[k] # i
  BY <1>2 DEF PoolServes
<1>4. w.next > 0
  <2> SUFFICES ASSUME w.next = 0 PROVE FALSE
    BY <1>1
  <2>1. FreeOf(w) = Idx
    BY DEF FreeOf, Idx
  <2>2. w.pool \in [Idx -> Idx \ {i}]
    BY <1>1, <1>3, <2>1
  <2>3. IsFiniteSet(Idx) /\ Cardinality(Idx) = WqeCnt
    BY IdxFinite
  <2>4. IsFiniteSet(Idx \ {i}) /\ Cardinality(Idx \ {i}) = WqeCnt - 1
    BY <2>3, FS_RemoveElement
  <2>5. Cardinality(Idx \ {i}) < Cardinality(Idx)
    BY <2>3, <2>4, CqSizes
  <2>6. \E x, y \in Idx : x # y /\ w.pool[x] = w.pool[y]
    BY <2>2, <2>3, <2>4, <2>5, FS_PigeonHole
  <2> QED
    BY <2>1, <2>6 DEF PoolServes
<1>5. /\ WrapDec(w.next, U16) = w.next - 1 /\ w.next - 1 \in Idx
      /\ w.next - 1 \in 0 .. U16 - 1 /\ WrapInc(w.completed, U32) \in 0 .. U32 - 1
      /\ WrapSub(w.posted, WrapInc(w.completed, U32), U32) = w.next - 1
  <2>1. PICK n \in Nat \ {0}, x \in 0 .. U32 - 1, y \in 0 .. U32 - 1 :
           n = w.next /\ x = w.posted /\ y = w.completed
    BY <1>1, <1>4
  <2>2. WrapDec(n, U16) = n - 1 /\ n - 1 \in 0 .. WqeCnt - 1 /\ n - 1 \in 0 .. U16 - 1
    BY <1>1, <2>1, CqSizes DEF WrapDec
  <2>3. WrapInc(y, U32) \in 0 .. U32 - 1
    BY CqSizes DEF WrapInc
  <2>4. WrapSub(x, WrapInc(y, U32), U32) = n - 1
    BY <1>1, <2>1, CqSizes DEF WrapInc, WrapSub
  <2> QED
    BY <2>1, <2>2, <2>3, <2>4 DEF Idx
<1>6. /\ v.next = w.next - 1 /\ v.pool = [w.pool EXCEPT ![w.next - 1] = i]
      /\ v.wrid = w.wrid /\ v.posted = w.posted
      /\ v.completed = WrapInc(w.completed, U32)
      /\ v \in WqType
  <2>1. [w.pool EXCEPT ![w.next - 1] = i] \in [Idx -> Idx]
    BY <1>1, <1>2, <1>5
  <2> QED
    BY <1>1, <1>2, <1>5, <2>1 DEF WqType, PutWridIdx
<1>7. /\ \A k \in FreeOf(v) : k = w.next - 1 \/ (k \in FreeOf(w) /\ k # w.next - 1)
      /\ \A k \in FreeOf(w) : k \in FreeOf(v) /\ k # w.next - 1 /\ k \in Idx
      /\ w.next - 1 \in FreeOf(v)
  <2>1. PICK n \in Nat \ {0} : n = w.next /\ n <= WqeCnt
    BY <1>1, <1>4
  <2>2. FreeOf(w) = n .. WqeCnt - 1 /\ FreeOf(v) = n - 1 .. WqeCnt - 1
    BY <1>6, <2>1 DEF FreeOf
  <2> QED
    BY <2>1, <2>2, CqSizes DEF Idx
<1>8. /\ v.pool[w.next - 1] = i
      /\ \A k \in FreeOf(w) : v.pool[k] = w.pool[k]
  BY <1>1, <1>5, <1>6, <1>7
<1>9. \A j, k \in FreeOf(v) : v.pool[j] = v.pool[k] => j = k
  BY <1>3, <1>7, <1>8 DEF PoolServes
<1>10. \A e \in reqs \ {d} : e.req_id # i
  BY <1>2, OneRequestEach
<1>11. \A j \in Idx : (\E e \in reqs \ {d} : e.req_id = j)
                        <=> (\A k \in FreeOf(v) : v.pool[k] # j)
  <2> SUFFICES ASSUME NEW j \in Idx
               PROVE  (\E e \in reqs \ {d} : e.req_id = j)
                        <=> (\A k \in FreeOf(v) : v.pool[k] # j)
    OBVIOUS
  <2>1. CASE j = i
    BY <1>7, <1>8, <1>10, <2>1
  <2>2. CASE j # i
    <3>1. (\E e \in reqs \ {d} : e.req_id = j) <=> (\E e \in reqs : e.req_id = j)
      BY <1>2, <2>2
    <3>2. (\A k \in FreeOf(v) : v.pool[k] # j) <=> (\A k \in FreeOf(w) : w.pool[k] # j)
      BY <1>7, <1>8, <2>2
    <3> QED
      BY <3>1, <3>2 DEF PoolServes
  <2> QED
    BY <2>1, <2>2
<1>12. /\ reqs \ {d} \subseteq Request /\ v.next <= WqeCnt
       /\ WrapSub(v.posted, v.completed, U32) = v.next
       /\ \A e \in reqs \ {d} : v.wrid[e.req_id] = e.wr
  BY <1>1, <1>4, <1>5, <1>6, CqSizes DEF PoolServes
<1> QED
  BY <1>6, <1>9, <1>11, <1>12 DEF PoolServes

(* As many indexes are out as there are requests.                             *)
LEMMA ServesCounts ==
  ASSUME NEW w, NEW reqs, PoolServes(w, reqs)
  PROVE  w.next = Cardinality({d.req_id : d \in reqs})
<1> DEFINE out == {d.req_id : d \in reqs}
           f == [k \in FreeOf(w) |-> w.pool[k]]
<1>1. /\ w.next \in Nat /\ w.next <= WqeCnt /\ w.pool \in [Idx -> Idx]
  BY WqFields DEF PoolServes
<1>2. IsFiniteSet(Idx) /\ Cardinality(Idx) = WqeCnt
  BY IdxFinite
<1>3. IsFiniteSet(FreeOf(w)) /\ Cardinality(FreeOf(w)) = WqeCnt - w.next
  <2>1. w.next \in Int /\ WqeCnt - 1 \in Int
    BY <1>1, CqSizes
  <2>2. /\ IsFiniteSet(w.next .. WqeCnt - 1)
        /\ Cardinality(w.next .. WqeCnt - 1) =
             IF w.next > WqeCnt - 1 THEN 0 ELSE (WqeCnt - 1) - w.next + 1
    BY <2>1, FS_Interval
  <2> QED
    BY <1>1, <2>2, CqSizes DEF FreeOf
<1>4. out \subseteq Idx
  BY DEF PoolServes, Request
<1>5. \A k \in FreeOf(w) : k \in Idx
  BY <1>1, CqSizes DEF FreeOf, Idx
<1>6. \A i \in Idx : i \in out <=> (\A k \in FreeOf(w) : w.pool[k] # i)
  BY DEF PoolServes
<1>7. f \in Bijection(FreeOf(w), Idx \ out)
  <2>1. f \in [FreeOf(w) -> Idx \ out]
    BY <1>1, <1>5, <1>6
  <2>2. \A j, k \in FreeOf(w) : f[j] = f[k] => j = k
    BY DEF PoolServes
  <2>3. \A i \in Idx \ out : \E k \in FreeOf(w) : f[k] = i
    BY <1>6
  <2> HIDE DEF f
  <2> QED
    BY <2>1, <2>2, <2>3 DEF Bijection, Injection, IsInjective, Surjection
<1>8. Cardinality(Idx \ out) = WqeCnt - w.next
  BY <1>3, <1>7, FS_Bijection DEF ExistsBijection
<1>9. Cardinality(Idx \ out) = WqeCnt - Cardinality(out)
  <2>1. Idx \cap out = out
    BY <1>4
  <2> QED
    BY <1>2, <2>1, FS_Difference
<1>10. Cardinality(out) \in Nat
  BY <1>2, <1>4, FS_Subset, FS_CardinalityType
<1> HIDE DEF out
<1>11. w.next = Cardinality(out)
  BY <1>1, <1>8, <1>9, <1>10, CqSizes
<1> QED
  BY <1>11 DEF out

----------------------------------------------------------------------------
(* The types the proofs below use most.                                       *)
LEMMA Typed ==
  ASSUME TypeOK
  PROVE  /\ \A s \in SubCqs : /\ consumed[s] \in 0 .. U16 - 1 /\ prod[s] \in 0 .. U16 - 1
                              /\ phase[s] \in Phases /\ prodPhase[s] \in Phases
                              /\ Span(s) \in 0 .. U16 - 1
                              /\ ring[s] \in [CqeSlots -> Cqe \cup {NoCqe}]
         /\ consumed \in [SubCqs -> 0 .. U16 - 1] /\ prod \in [SubCqs -> 0 .. U16 - 1]
         /\ ring \in [SubCqs -> [CqeSlots -> Cqe \cup {NoCqe}]]
         /\ \A q \in Wqs : working[q] \subseteq Request /\ SubCqOf[q] \in SubCqs
         /\ working \in [Wqs -> SUBSET Request] /\ wq \in [Wqs -> WqType]
         /\ cur # None => cur[1] \in SubCqs /\ cur[2] \in CqeSlots /\ cur = <<cur[1], cur[2]>>
<1>1. \A s \in SubCqs : consumed[s] \in 0 .. U16 - 1 /\ prod[s] \in 0 .. U16 - 1
  BY DEF TypeOK
<1>2. \A s \in SubCqs : Span(s) \in 0 .. U16 - 1
  BY <1>1, CountMoves DEF Span
<1> QED
  BY <1>1, <1>2, CqSizes DEF TypeOK

(* What queue q has outstanding: at the device, in its sub CQ, in hand.       *)
InSubCq(q, d) ==
  \E k \in Unread(SubCqOf[q]) :
     Entry(SubCqOf[q], k).q = q /\ d = Strip(Entry(SubCqOf[q], k))
IsHeld(q, d) == InUse /\ curWq = q /\ d = Strip(CurCqe)
ThreeParts ==
  \A q \in Wqs : \A d :
    d \in Outstanding(q) <=> (d \in working[q] \/ InSubCq(q, d) \/ IsHeld(q, d))

LEMMA OutstandingParts == ThreeParts
<1> SUFFICES ASSUME NEW q \in Wqs
             PROVE  \A d : d \in Outstanding(q)
                             <=> (d \in working[q] \/ InSubCq(q, d) \/ IsHeld(q, d))
  BY DEF ThreeParts
<1>1. PICK s, n : s = SubCqOf[q] /\ n = Span(s)
  OBVIOUS
<1>2. Unconsumed(q) = {c \in {Entry(s, k) : k \in 0 .. n - 1} : c.q = q}
  BY <1>1 DEF Unconsumed, Entry, Ahead, Span
<1>3. \A c : c \in Unconsumed(q) <=> \E k \in Unread(s) : c = Entry(s, k) /\ c.q = q
  BY <1>1, <1>2 DEF Unread
<1>4. \A c : c \in InHand(q) <=> InUse /\ curWq = q /\ c = CurCqe
  BY DEF InHand, InUse
<1>5. \A d : d \in Outstanding(q) <=> \/ d \in working[q]
                                      \/ \E c \in Unconsumed(q) : d = Strip(c)
                                      \/ \E c \in InHand(q) : d = Strip(c)
  BY DEF Outstanding
<1>6. \A d : InSubCq(q, d) <=> \E c \in Unconsumed(q) : d = Strip(c)
  BY <1>1, <1>3 DEF InSubCq
<1>7. \A d : IsHeld(q, d) <=> \E c \in InHand(q) : d = Strip(c)
  BY <1>4 DEF IsHeld
<1> QED
  BY <1>5, <1>6, <1>7

(* The entries stay the same where the ring and the counters do.              *)
LEMMA EntriesStay ==
  ASSUME UNCHANGED <<ring, prod, consumed>>
  PROVE  \A s : /\ Span(s)' = Span(s) /\ Unread(s)' = Unread(s) /\ Base(s)' = Base(s)
                /\ \A k : Entry(s, k)' = Entry(s, k)
  BY DEF Unread, Span, Entry, Base

(* The requests of a queue, where no entry is consumed or written.            *)
LEMMA OutstandingThen ==
  ASSUME UNCHANGED <<ring, prod, consumed>>, NEW q \in Wqs
  PROVE  \A d : d \in Outstanding(q)'
                  <=> (d \in working'[q] \/ InSubCq(q, d) \/ IsHeld(q, d)')
<1>1. ThreeParts'
  BY OutstandingParts, PTL
<1>2. \A d : InSubCq(q, d)' <=> InSubCq(q, d)
  BY EntriesStay DEF InSubCq
<1> QED
  BY <1>1, <1>2 DEF ThreeParts

----------------------------------------------------------------------------
(* The initial state.                                                         *)
LEMMA InitCqInv == Init => CqInv
<1> SUFFICES ASSUME Init PROVE CqInv
  OBVIOUS
<1>1. \A s \in SubCqs : Cardinality({q \in Wqs : SubCqOf[q] = s}) \in 0 .. Cardinality(Wqs)
  <2> SUFFICES ASSUME NEW s \in SubCqs
               PROVE  Cardinality({q \in Wqs : SubCqOf[q] = s}) \in 0 .. Cardinality(Wqs)
    OBVIOUS
  <2>1. {q \in Wqs : SubCqOf[q] = s} \subseteq Wqs
    OBVIOUS
  <2> QED
    BY <2>1, CqSizes, FS_Subset, FS_CardinalityType
<1>2. WqInitial \in WqType
  BY ServesNone DEF PoolServes
<1>3. TypeOK
  BY <1>1, <1>2, CqSizes DEF Init, TypeOK, SubCqs, Calls, Phases
<1>4. \A s \in SubCqs : Span(s) = 0 /\ Unread(s) = {} /\ Base(s) = 0
  BY CqSizes DEF Init, Span, Unread, Base, WrapSub, CqeSlot
<1>5. EntriesOk /\ WorkingOk /\ NoOrphans
  BY <1>4, CqSizes DEF Init, EntriesOk, WorkingOk, NoOrphans
<1>6. HandOk /\ CallOk
  BY DEF Init, HandOk, InUse, CallOk
<1>7. PhasesOk
  <2>1. \A s \in SubCqs, j \in CqeSlots : ~PhaseDue(s, j) /\ ring[s][j].phase = 0
    BY <1>4, CqSizes DEF PhaseDue, WrapSub, CqeSlots, Init, NoCqe
  <2>2. \A s \in SubCqs : phase[s] = 1 /\ prodPhase[s] = 1
    BY DEF Init
  <2> QED
    BY <1>4, <2>1, <2>2, CqSizes DEF PhasesOk
<1>8. RefsOk
  <2>1. \A s : {q \in Wqs : SubCqOf[q] = s /\ Live(q)} = {q \in Wqs : SubCqOf[q] = s}
    BY CqSizes DEF Init, Live
  <2> QED
    BY <2>1 DEF Init, RefsOk
<1>9. PoolsOk
  <2>1. \A q \in Wqs : wq[q] = WqInitial /\ working[q] = {}
    BY DEF Init
  <2>2. \A q \in Wqs : \A d : ~InSubCq(q, d) /\ ~IsHeld(q, d)
    BY <1>4, CqSizes DEF Init, InSubCq, IsHeld, InUse
  <2>3. \A q \in Wqs : Outstanding(q) = {}
    BY <2>1, <2>2, OutstandingParts DEF ThreeParts
  <2> QED
    BY <2>1, <2>3, ServesNone DEF PoolsOk
<1> QED
  BY <1>3, <1>5, <1>6, <1>7, <1>8, <1>9 DEF CqInv

(* Steps of the caller that touch neither an entry nor a pool.                *)
LEMMA QuietKeeps ==
  ASSUME CqInv, UNCHANGED <<app, wq, qpVars, devVars, consumed, phase>>, ~InUse, ~InUse'
  PROVE  /\ EntriesOk' /\ WorkingOk' /\ HandOk' /\ PhasesOk' /\ RefsOk'
         /\ NoOrphans' /\ PoolsOk'
<1>1. UNCHANGED <<app, wq, table, refCnt, working, ring, prod, prodPhase, consumed, phase>>
  BY DEF qpVars, devVars
<1>2. EntriesOk' /\ WorkingOk'
  BY <1>1, EntriesStay DEF CqInv, EntriesOk, WorkingOk, Live
<1>3. PhasesOk'
  BY <1>1, EntriesStay DEF CqInv, PhasesOk, PhaseDue
<1>4. HandOk'
  BY DEF HandOk
<1>5. \A q : Live(q)' <=> Live(q)
  BY <1>1 DEF Live
<1>6. RefsOk' /\ NoOrphans'
  BY <1>1, <1>5, EntriesStay DEF CqInv, RefsOk, NoOrphans
<1>7. \A q \in Wqs : Outstanding(q)' = Outstanding(q)
  <2>1. \A q \in Wqs : \A d : d \in Outstanding(q)' <=> d \in Outstanding(q)
    BY <1>1, OutstandingThen, OutstandingParts DEF ThreeParts, IsHeld
  <2> QED
    BY <2>1
<1>8. PoolsOk'
  BY <1>1, <1>5, <1>7 DEF CqInv, PoolsOk
<1> QED
  BY <1>2, <1>3, <1>4, <1>6, <1>8

----------------------------------------------------------------------------
(* The steps of the caller.                                                   *)
LEMMA PollCqKeeps == ASSUME CqInv, PollCq, UNCHANGED app PROVE CqInv'
<1>1. TypeOK'
  BY CqSizes DEF CqInv, TypeOK, PollCq, Calls, qpVars, devVars, cqVars, curVars
<1>2. CallOk'
  BY CqSizes DEF CqInv, CallOk, PollCq, curVars
<1>3. /\ ~InUse /\ ~InUse'
      /\ UNCHANGED <<app, wq, qpVars, devVars, consumed, phase>>
  BY DEF InUse, PollCq, cqVars
<1> QED
  BY <1>1, <1>2, <1>3, QuietKeeps DEF CqInv

LEMMA StartPollKeeps == ASSUME CqInv, StartPoll, UNCHANGED app PROVE CqInv'
<1>1. TypeOK'
  BY CqSizes DEF CqInv, TypeOK, StartPoll, Calls, qpVars, devVars, cqVars, curVars
<1>2. CallOk'
  BY CqSizes DEF CqInv, CallOk, StartPoll, curVars
<1>3. /\ ~InUse /\ ~InUse'
      /\ UNCHANGED <<app, wq, qpVars, devVars, consumed, phase>>
  BY DEF InUse, StartPoll, cqVars
<1> QED
  BY <1>1, <1>2, <1>3, QuietKeeps DEF CqInv

(* (x + j) % n for x, j < n, and that a round of n comes by everyone.         *)
LEMMA RoundTrip ==
  ASSUME NEW n \in Nat \ {0}, NEW a \in 0 .. n - 1, NEW b \in 0 .. n - 1
  PROVE  /\ (a + b) % n = IF a + b < n THEN a + b ELSE a + b - n
         /\ \E j \in 0 .. n - 1 : (a + j) % n = b
<1>1. ASSUME NEW j \in 0 .. n - 1
      PROVE  (a + j) % n = IF a + j < n THEN a + j ELSE a + j - n
  <2>1. CASE a + j < n
    BY <2>1
  <2>2. CASE a + j >= n
    <3>1. a + j = n * 1 + (a + j - n) /\ a + j - n \in 0 .. n - 1 /\ a + j \in Nat
      BY <2>2
    <3> QED
      BY <2>2, <3>1, RingOfCq, CR!Remainder
  <2> QED
    BY <2>1, <2>2
<1>2. \E j \in 0 .. n - 1 : (a + j) % n = b
  <2>1. CASE b >= a
    <3>1. b - a \in 0 .. n - 1 /\ a + (b - a) = b
      BY <2>1
    <3>2. (a + (b - a)) % n = b
      BY <1>1, <3>1
    <3> QED
      BY <3>1, <3>2
  <2>2. CASE b < a
    <3>1. b - a + n \in 0 .. n - 1 /\ a + (b - a + n) = b + n
      BY <2>2
    <3>2. (a + (b - a + n)) % n = b
      BY <1>1, <3>1
    <3> QED
      BY <3>1, <3>2
  <2> QED
    BY <2>1, <2>2
<1> QED
  BY <1>1, <1>2

LEMMA RestOfRound ==
  ASSUME NEW n \in Nat \ {0}, NEW a \in 0 .. n - 1, NEW j \in 0 .. n - 1, j # 0
  PROVE  /\ (a + 1) % n \in 0 .. n - 1
         /\ (((a + 1) % n) + (j - 1)) % n = (a + j) % n
<1>1. 1 \in 0 .. n - 1 /\ j - 1 \in 0 .. n - 1
  OBVIOUS
<1>2. (a + 1) % n = IF a + 1 < n THEN a + 1 ELSE a + 1 - n
  BY <1>1, RoundTrip
<1>3. PICK b \in 0 .. n - 1 : b = (a + 1) % n
  BY <1>2
<1>4. (b + (j - 1)) % n = IF b + (j - 1) < n THEN b + (j - 1) ELSE b + (j - 1) - n
  BY <1>1, RoundTrip
<1>5. (a + j) % n = IF a + j < n THEN a + j ELSE a + j - n
  BY RoundTrip
<1> QED
  BY <1>2, <1>3, <1>4, <1>5

LEMMA ScanNothingKeeps == ASSUME CqInv, ScanNothing, UNCHANGED app PROVE CqInv'
<1>1. /\ call \in Scanning /\ call' = call /\ scanned' = scanned + 1
      /\ scanned \in Nat /\ scanned < NumSubCqs /\ got' = got
      /\ nextPoll \in 0 .. NumSubCqs - 1 /\ nextPoll' = (nextPoll + 1) % NumSubCqs
      /\ UNCHANGED <<app, wq, qpVars, devVars, consumed, phase, refCnt>>
  BY DEF CqInv, TypeOK, ScanNothing, RoundRobin, SubCqs, qpVars
<1>2. nextPoll' \in SubCqs
  BY <1>1, CqSizes DEF SubCqs
<1>3. TypeOK'
  <2>1. cur' \in (SubCqs \X CqeSlots) \cup {None} /\ curWq' = curWq
    BY DEF CqInv, TypeOK, ScanNothing
  <2>2. scanned' \in 0 .. NumSubCqs
    BY <1>1, CqSizes
  <2> QED
    BY <1>1, <1>2, <2>1, <2>2 DEF CqInv, TypeOK, qpVars, devVars
<1>4. CallOk'
  <2>1. ASSUME call = "next", cur' # None
        PROVE  \E j \in 0 .. NumSubCqs - 1 - scanned' : StillToCome(j)'
    <3>1. refCnt[nextPoll] = 0 /\ cur # None
      BY <2>1 DEF ScanNothing
    <3>2. PICK j \in 0 .. NumSubCqs - 1 - scanned : StillToCome(j)
      BY <2>1, <3>1 DEF CqInv, CallOk
    <3>3. j # 0
      <4>1. (nextPoll + 0) % NumSubCqs = nextPoll
        BY <1>1, CqSizes
      <4> QED
        BY <3>1, <3>2, <4>1 DEF StillToCome
    <3>4. j \in 0 .. NumSubCqs - 1 /\ j - 1 \in 0 .. NumSubCqs - 1 - scanned'
      BY <1>1, <3>3, CqSizes
    <3>5. (nextPoll' + (j - 1)) % NumSubCqs = (nextPoll + j) % NumSubCqs
      BY <1>1, <3>3, <3>4, CqSizes, RestOfRound
    <3>6. StillToCome(j - 1)'
      BY <1>1, <3>2, <3>5 DEF StillToCome
    <3> QED
      BY <3>4, <3>6
  <2>2. call' # "failed" /\ call' # "polled" /\ call' # "session"
    BY <1>1 DEF Scanning
  <2> QED
    BY <1>1, <2>1, <2>2 DEF CqInv, CallOk
<1>5. ~InUse /\ ~InUse'
  BY <1>1 DEF InUse, Scanning
<1> QED
  BY <1>1, <1>3, <1>4, <1>5, QuietKeeps DEF CqInv

LEMMA ScanEndKeeps == ASSUME CqInv, ScanEnd, UNCHANGED app PROVE CqInv'
<1>1. TypeOK'
  BY CqSizes DEF CqInv, TypeOK, ScanEnd, Calls, qpVars, devVars, cqVars, curVars
<1>2. call = "next" => cur = None
  <2>1. scanned = NumSubCqs
    BY DEF ScanEnd
  <2>2. \A j : j \notin 0 .. NumSubCqs - 1 - scanned
    BY <2>1, CqSizes
  <2> QED
    BY <2>2 DEF CqInv, CallOk
<1>3. CallOk'
  BY <1>2 DEF CqInv, CallOk, ScanEnd, curVars, Scanning
<1>4. /\ ~InUse /\ ~InUse'
      /\ UNCHANGED <<app, wq, qpVars, devVars, consumed, phase>>
  BY <1>2 DEF InUse, ScanEnd, Scanning, cqVars, curVars
<1> QED
  BY <1>1, <1>3, <1>4, QuietKeeps DEF CqInv

(* The index of the completion in hand goes back.                             *)
LEMMA PutKeeps ==
  ASSUME CqInv, InUse, PutCur, ~InUse',
         UNCHANGED <<app, qpVars, devVars, consumed, phase, cur, curWq>>
  PROVE  /\ EntriesOk' /\ WorkingOk' /\ HandOk' /\ PhasesOk' /\ RefsOk'
         /\ NoOrphans' /\ PoolsOk' /\ wq' \in [Wqs -> WqType]
<1>1. UNCHANGED <<app, table, refCnt, working, ring, prod, prodPhase, consumed, phase>>
  BY DEF qpVars, devVars
<1>2. EntriesOk' /\ WorkingOk'
  BY <1>1, EntriesStay DEF CqInv, EntriesOk, WorkingOk, Live
<1>3. PhasesOk'
  BY <1>1, EntriesStay DEF CqInv, PhasesOk, PhaseDue
<1>4. HandOk'
  BY DEF HandOk
<1>5. \A q : Live(q)' <=> Live(q)
  BY <1>1 DEF Live
<1>6. RefsOk' /\ NoOrphans'
  BY <1>1, <1>5, EntriesStay DEF CqInv, RefsOk, NoOrphans
<1>7. /\ curWq \in Wqs /\ Live(curWq) /\ CurCqe.q = curWq /\ SubCqOf[curWq] = cur[1]
      /\ \A k \in Unread(cur[1]) : Differ(Entry(cur[1], k), CurCqe)
      /\ \A d \in working[curWq] : d.req_id # CurCqe.req_id
  BY DEF CqInv, HandOk, HandFacts, Cqe
<1>8. PICK h : h = Strip(CurCqe) /\ h.req_id = CurCqe.req_id
  <2>1. Strip(CurCqe).req_id = CurCqe.req_id
    BY DEF Strip
  <2> QED
    BY <2>1
<1>9. h \in Outstanding(curWq)
  BY <1>7, <1>8, OutstandingParts DEF ThreeParts, IsHeld
<1>10. \A q \in Wqs : q # curWq => Outstanding(q)' = Outstanding(q)
  <2>1. \A q \in Wqs : q # curWq => \A d : d \in Outstanding(q)' <=> d \in Outstanding(q)
    BY <1>1, OutstandingThen, OutstandingParts DEF ThreeParts, IsHeld
  <2> QED
    BY <2>1
<1>11. Outstanding(curWq)' = Outstanding(curWq) \ {h}
  <2>1. \A d : d \in Outstanding(curWq)' <=> d \in working[curWq] \/ InSubCq(curWq, d)
    BY <1>1, <1>7, OutstandingThen DEF IsHeld
  <2>2. \A d : d \in Outstanding(curWq)
                 <=> (d \in working[curWq] \/ InSubCq(curWq, d) \/ d = h)
    BY <1>7, <1>8, OutstandingParts DEF ThreeParts, IsHeld
  <2>3. h \notin working[curWq]
    BY <1>7, <1>8
  <2>4. ~InSubCq(curWq, h)
    BY <1>7, <1>8 DEF InSubCq, Differ, Strip
  <2> QED
    BY <2>1, <2>2, <2>3, <2>4
<1>12. PICK w, v, reqs : /\ w = wq[curWq] /\ v = PutWridIdx(w, h.req_id)
                         /\ reqs = Outstanding(curWq)
  OBVIOUS
<1>13. PoolServes(v, reqs \ {h}) /\ v \in WqType
  <2>1. PoolServes(w, reqs)
    BY <1>7, <1>12 DEF CqInv, PoolsOk
  <2>2. PoolServes(v, reqs \ {h})
    BY <1>9, <1>12, <2>1, PutServes
  <2> QED
    BY <2>2 DEF PoolServes
<1>14. wq' = [wq EXCEPT ![curWq] = v] /\ wq \in [Wqs -> WqType]
  BY <1>8, <1>12 DEF PutCur, CqInv, TypeOK
<1>15. PoolsOk'
  <2>1. \A q \in Wqs : wq'[q] = IF q = curWq THEN v ELSE wq[q]
    BY <1>7, <1>14
  <2>2. \A q \in Wqs : q # curWq /\ Live(q) => PoolServes(wq'[q], Outstanding(q)')
    BY <1>10, <2>1 DEF CqInv, PoolsOk
  <2>3. PoolServes(wq'[curWq], Outstanding(curWq)')
    BY <1>7, <1>11, <1>12, <1>13, <2>1
  <2> QED
    BY <1>1, <1>5, <2>2, <2>3 DEF PoolsOk
<1> QED
  BY <1>2, <1>3, <1>4, <1>6, <1>13, <1>14, <1>15

LEMMA PutPolledKeeps == ASSUME CqInv, PutPolled, UNCHANGED app PROVE CqInv'
<1>1. /\ InUse /\ ~InUse' /\ PutCur
      /\ UNCHANGED <<app, qpVars, devVars, consumed, phase, cur, curWq>>
  BY DEF CqInv, CallOk, InUse, PutPolled, cqVars, curVars
<1>2. wq' \in [Wqs -> WqType]
  BY <1>1, PutKeeps
<1>3. got' = got + 1 /\ got \in Nat /\ got < Nwc /\ Nwc \in Nat
  BY CqSizes DEF CqInv, TypeOK, CallOk, PutPolled
<1>4. call' = (IF got + 1 < Nwc THEN "poll" ELSE "none") /\ scanned' = 0
  BY DEF PutPolled
<1>5. got' \in 0 .. Nwc /\ (call' = "poll" => got' < Nwc)
  BY <1>3, <1>4
<1>6. TypeOK'
  <2>1. scanned' \in 0 .. NumSubCqs
    BY <1>4, CqSizes
  <2> QED
    BY <1>1, <1>2, <1>4, <1>5, <2>1 DEF CqInv, TypeOK, PutPolled, Calls, qpVars, devVars, cqVars
<1>7. CallOk'
  BY <1>4, <1>5 DEF CallOk
<1> QED
  BY <1>1, <1>6, <1>7, PutKeeps DEF CqInv

LEMMA NextPollKeeps == ASSUME CqInv, NextPoll, UNCHANGED app PROVE CqInv'
<1>1. /\ InUse /\ ~InUse' /\ PutCur /\ call = "session" /\ call' = "next" /\ scanned' = 0
      /\ UNCHANGED <<app, qpVars, devVars, consumed, phase, cur, curWq, got, nextPoll>>
  BY DEF InUse, NextPoll, cqVars, curVars
<1>2. wq' \in [Wqs -> WqType]
  BY <1>1, PutKeeps
<1>3. TypeOK'
  <2>1. scanned' \in 0 .. NumSubCqs
    BY <1>1, CqSizes
  <2> QED
    BY <1>1, <1>2, <2>1 DEF CqInv, TypeOK, Calls, qpVars, devVars
<1>4. CallOk'
  <2>1. cur[1] \in 0 .. NumSubCqs - 1 /\ nextPoll \in 0 .. NumSubCqs - 1
    BY <1>1, Typed DEF CqInv, InUse, TypeOK, SubCqs
  <2>2. PICK j \in 0 .. NumSubCqs - 1 : (nextPoll + j) % NumSubCqs = cur[1]
    <3>1. NumSubCqs \in Nat \ {0}
      BY CqSizes
    <3> QED
      BY <2>1, <3>1, RoundTrip
  <2>3. refCnt' = refCnt /\ refCnt[cur[1]] > 0
    BY <1>1 DEF CqInv, HandOk, HandFacts, qpVars
  <2>4. StillToCome(j)'
    BY <1>1, <2>2, <2>3 DEF StillToCome
  <2>5. j \in 0 .. NumSubCqs - 1 - scanned'
    BY <1>1, CqSizes
  <2> QED
    BY <1>1, <2>4, <2>5 DEF CqInv, CallOk
<1> QED
  BY <1>1, <1>3, <1>4, PutKeeps DEF CqInv

LEMMA EndPollKeeps == ASSUME CqInv, EndPoll, UNCHANGED app PROVE CqInv'
<1>1. /\ call = "session" /\ call' = "none" /\ ~InUse'
      /\ UNCHANGED <<app, qpVars, devVars, consumed, phase, cur, curWq, got, nextPoll, scanned>>
  BY DEF CqInv, CallOk, InUse, EndPoll, cqVars, curVars
<1>2. CallOk'
  BY <1>1 DEF CallOk
<1>3. CASE cur # None
  <2>1. InUse /\ PutCur
    BY <1>1, <1>3 DEF InUse, EndPoll
  <2>2. wq' \in [Wqs -> WqType]
    BY <1>1, <2>1, PutKeeps
  <2>3. TypeOK'
    BY <1>1, <2>2 DEF CqInv, TypeOK, Calls, qpVars, devVars
  <2> QED
    BY <1>1, <1>2, <2>1, <2>3, PutKeeps DEF CqInv
<1>4. CASE cur = None
  <2>1. ~InUse /\ UNCHANGED wq
    BY <1>4 DEF InUse, EndPoll
  <2>2. TypeOK'
    BY <1>1, <2>1 DEF CqInv, TypeOK, Calls, qpVars, devVars
  <2> QED
    BY <1>1, <1>2, <2>1, <2>2, QuietKeeps DEF CqInv
<1> QED
  BY <1>3, <1>4

----------------------------------------------------------------------------
(* Posting.                                                                   *)
LEMMA PostKeeps ==
  ASSUME CqInv, NEW q \in Wqs, NEW id \in WrIds, Post(q, id), UNCHANGED app
  PROVE  CqInv'
<1>1. /\ UNCHANGED <<app, table, refCnt, ring, prod, prodPhase, consumed, phase, nextPoll,
                      call, scanned, got, cur, curWq>>
      /\ Live(q) /\ ~Full(wq[q])
  BY DEF Post, qpVars, cqVars, callVars, curVars
<1>2. PICK w, v, reqs, d : /\ w = wq[q] /\ v = CountPosted(GetNextWridIdx(w, id))
                           /\ reqs = Outstanding(q)
                           /\ d = [req_id |-> NextIdx(w), wr |-> id]
  OBVIOUS
<1>3. PoolServes(w, reqs)
  BY <1>1, <1>2 DEF CqInv, PoolsOk
<1>4. /\ PoolServes(v, reqs \cup {d}) /\ d \in Request
      /\ \A e \in reqs : e.req_id # d.req_id
  BY <1>1, <1>2, <1>3, TakeServes
<1>5. /\ wq' = [wq EXCEPT ![q] = v] /\ wq \in [Wqs -> WqType] /\ v \in WqType
      /\ working' = [working EXCEPT ![q] = @ \cup {d}] /\ working \in [Wqs -> SUBSET Request]
  BY <1>2, <1>4 DEF Post, CqInv, TypeOK, PoolServes
<1>6. /\ \A o \in Wqs : wq'[o] = IF o = q THEN v ELSE wq[o]
      /\ \A o \in Wqs : working'[o] = IF o = q THEN working[q] \cup {d} ELSE working[o]
      /\ wq' \in [Wqs -> WqType] /\ working' \in [Wqs -> SUBSET Request]
  BY <1>4, <1>5
<1>7. TypeOK'
  BY <1>1, <1>6 DEF CqInv, TypeOK
<1>8. \A o \in Wqs : IF o = q THEN Outstanding(o)' = reqs \cup {d}
                     ELSE Outstanding(o)' = Outstanding(o)
  <2>1. \A o \in Wqs : \A e : IsHeld(o, e)' <=> IsHeld(o, e)
    BY <1>1 DEF IsHeld, InUse, CurCqe
  <2>2. \A o \in Wqs : o # q => \A e : e \in Outstanding(o)' <=> e \in Outstanding(o)
    BY <1>1, <1>6, <2>1, OutstandingThen, OutstandingParts DEF ThreeParts
  <2>3. \A e : e \in Outstanding(q)' <=> (e \in Outstanding(q) \/ e = d)
    BY <1>1, <1>6, <2>1, OutstandingThen, OutstandingParts DEF ThreeParts
  <2> QED
    BY <1>2, <2>2, <2>3
<1>9. \A o : Live(o)' <=> Live(o)
  BY <1>1 DEF Live
<1>10. /\ \A e \in working[q] : e.req_id # d.req_id
       /\ \A k \in Unread(SubCqOf[q]) :
            Entry(SubCqOf[q], k).q = q => Entry(SubCqOf[q], k).req_id # d.req_id
       /\ InUse /\ curWq = q => CurCqe.req_id # d.req_id
  <2>1. \A e \in working[q] : e \in reqs
    BY <1>2, OutstandingParts DEF ThreeParts
  <2>2. \A k \in Unread(SubCqOf[q]) :
          Entry(SubCqOf[q], k).q = q => Strip(Entry(SubCqOf[q], k)) \in reqs
    BY <1>2, OutstandingParts DEF ThreeParts, InSubCq
  <2>3. InUse /\ curWq = q => Strip(CurCqe) \in reqs
    BY <1>2, OutstandingParts DEF ThreeParts, IsHeld
  <2>4. \A c : Strip(c).req_id = c.req_id
    BY DEF Strip
  <2> QED
    BY <1>4, <2>1, <2>2, <2>3, <2>4
<1>11. EntriesOk' /\ NoOrphans'
  BY <1>1, <1>9, EntriesStay DEF CqInv, EntriesOk, NoOrphans
<1>12. PhasesOk'
  BY <1>1, EntriesStay DEF CqInv, PhasesOk, PhaseDue
<1>13. WorkingOk'
  <2>1. \A o \in Wqs : \A e, f \in working'[o] : e # f => e.req_id # f.req_id
    BY <1>6, <1>10 DEF CqInv, WorkingOk
  <2>2. \A o \in Wqs : \A e \in working'[o], k \in Unread(SubCqOf[o]) :
          Entry(SubCqOf[o], k).q = o => Entry(SubCqOf[o], k).req_id # e.req_id
    BY <1>6, <1>10 DEF CqInv, WorkingOk
  <2>3. \A o \in Wqs : working'[o] # {} => Live(o)'
    BY <1>1, <1>6, <1>9 DEF CqInv, WorkingOk
  <2> QED
    BY <1>1, <2>1, <2>2, <2>3, EntriesStay DEF WorkingOk
<1>14. HandOk'
  <2> SUFFICES ASSUME InUse' PROVE HandFacts'
    BY DEF HandOk
  <2>1. InUse /\ CurCqe' = CurCqe
    BY <1>1 DEF InUse, CurCqe
  <2>2. HandFacts
    BY <2>1 DEF CqInv, HandOk
  <2>3. curWq \in Wqs
    BY <2>2 DEF HandFacts, Cqe
  <2>4. \A e \in working'[curWq] : e.req_id # CurCqe.req_id
    BY <1>6, <1>10, <2>1, <2>2, <2>3 DEF HandFacts
  <2> QED
    BY <1>1, <1>9, <2>1, <2>2, <2>4, EntriesStay DEF HandFacts
<1>15. RefsOk' /\ CallOk'
  BY <1>1, <1>9 DEF CqInv, RefsOk, CallOk, StillToCome
<1>16. PoolsOk'
  BY <1>4, <1>6, <1>8, <1>9 DEF CqInv, PoolsOk
<1> QED
  BY <1>7, <1>11, <1>12, <1>13, <1>14, <1>15, <1>16 DEF CqInv

----------------------------------------------------------------------------
(* The device.                                                                *)
(* A sub CQ has room for every index of every queue that completes in it.     *)
LEMMA RoomForAll ==
  ASSUME NEW s \in SubCqs, NEW m \in Nat,
         NEW f \in [1 .. m -> {q \in Wqs : SubCqOf[q] = s} \X Idx],
         \A j, k \in 1 .. m : f[j] = f[k] => j = k
  PROVE  m <= CqeCnt
<1>1. PICK Q : Q = {q \in Wqs : SubCqOf[q] = s}
  OBVIOUS
<1>2. Q \subseteq Wqs
  BY <1>1
<1>3. IsFiniteSet(Q)
  BY <1>2, CqSizes, FS_Subset
<1>4. Cardinality(Q) \in Nat
  BY <1>3, FS_CardinalityType
<1>5. IsFiniteSet(Idx) /\ Cardinality(Idx) = WqeCnt
  BY IdxFinite
<1>6. IsFiniteSet(Q \X Idx) /\ Cardinality(Q \X Idx) = Cardinality(Q) * WqeCnt
  BY <1>3, <1>5, FS_Product
<1>7. f \in Injection(1 .. m, Q \X Idx)
  BY <1>1 DEF Injection, IsInjective
<1>8. Cardinality(1 .. m) <= Cardinality(Q \X Idx)
  BY <1>6, <1>7, FS_Injection
<1>9. 1 \in Int /\ m \in Int
  OBVIOUS
<1>10. Cardinality(1 .. m) = IF 1 > m THEN 0 ELSE m - 1 + 1
  BY <1>9, FS_Interval
<1>11. WqeCnt * Cardinality(Q) <= CqeCnt
  BY <1>1, CqAssumption
<1>12. Cardinality(Q) * WqeCnt = WqeCnt * Cardinality(Q)
  BY <1>4, CqSizes
<1>13. PICK p \in Nat : p = Cardinality(Q \X Idx)
  BY <1>6, FS_CardinalityType
<1>14. p <= CqeCnt
  BY <1>6, <1>11, <1>12, <1>13
<1>15. Cardinality(1 .. m) = m
  BY <1>10
<1> QED
  BY <1>8, <1>13, <1>14, <1>15, CqSizes

(* The device has room for the next completion, and does not reach the one    *)
(* in hand.                                                                   *)
LEMMA RoomForNext ==
  ASSUME CqInv, NEW q \in Wqs, NEW d \in working[q], NEW s, s = SubCqOf[q]
  PROVE  Span(s) < CqeCnt /\ (InUse /\ cur[1] = s => Span(s) + 1 < CqeCnt)
<1>1. s \in SubCqs /\ d.req_id \in Idx /\ d \in working[q]
  BY Typed DEF CqInv, Request
<1>2. PICK n \in 0 .. U16 - 1 : n = Span(s) /\ Unread(s) = 0 .. n - 1
  BY <1>1, Typed DEF CqInv, Unread
<1>3. \A k \in 0 .. n - 1 : /\ Entry(s, k).q \in Wqs /\ Entry(s, k).req_id \in Idx
                            /\ SubCqOf[Entry(s, k).q] = s
                            /\ Entry(s, k).q = q => Entry(s, k).req_id # d.req_id
  BY <1>1, <1>2 DEF CqInv, EntriesOk, WorkingOk, Cqe
<1>4. \A j, k \in 0 .. n - 1 : j # k => Differ(Entry(s, j), Entry(s, k))
  BY <1>1, <1>2 DEF CqInv, EntriesOk
<1>5. n < CqeCnt
  <2> DEFINE f == [k \in 1 .. n + 1 |-> IF k = n + 1 THEN <<q, d.req_id>>
                     ELSE <<Entry(s, k - 1).q, Entry(s, k - 1).req_id>>]
  <2>1. \A k \in 1 .. n + 1 : k # n + 1 => k - 1 \in 0 .. n - 1
    BY <1>2
  <2>2. f \in [1 .. n + 1 -> {o \in Wqs : SubCqOf[o] = s} \X Idx]
    BY <1>1, <1>3, <2>1
  <2>3. \A j, k \in 1 .. n + 1 : f[j] = f[k] => j = k
    <3> SUFFICES ASSUME NEW j \in 1 .. n + 1, NEW k \in 1 .. n + 1, j # k
                 PROVE  f[j] # f[k]
      OBVIOUS
    <3>1. CASE j = n + 1
      BY <1>3, <2>1, <3>1
    <3>2. CASE k = n + 1
      BY <1>3, <2>1, <3>2
    <3>3. CASE j # n + 1 /\ k # n + 1
      <4>1. Differ(Entry(s, j - 1), Entry(s, k - 1))
        BY <1>4, <2>1, <3>3
      <4> QED
        BY <3>3, <4>1 DEF Differ
    <3> QED
      BY <3>1, <3>2, <3>3
  <2> HIDE DEF f
  <2>4. n + 1 \in Nat
    OBVIOUS
  <2>5. n + 1 <= CqeCnt
    BY <1>1, <2>2, <2>3, <2>4, RoomForAll
  <2> QED
    BY <2>5, CqSizes
<1>6. ASSUME InUse, cur[1] = s PROVE n + 1 < CqeCnt
  <2>1. PICK h : h = CurCqe
    OBVIOUS
  <2>2. /\ h.q \in Wqs /\ h.req_id \in Idx /\ SubCqOf[h.q] = s
        /\ \A k \in 0 .. n - 1 : Differ(Entry(s, k), h)
        /\ h.q = q => h.req_id # d.req_id
    BY <1>2, <1>6, <2>1 DEF CqInv, HandOk, HandFacts, Cqe
  <2> DEFINE f == [k \in 1 .. n + 2 |-> IF k = n + 1 THEN <<q, d.req_id>>
                     ELSE IF k = n + 2 THEN <<h.q, h.req_id>>
                     ELSE <<Entry(s, k - 1).q, Entry(s, k - 1).req_id>>]
  <2>3. \A k \in 1 .. n + 2 : k # n + 1 /\ k # n + 2 => k - 1 \in 0 .. n - 1
    BY <1>2
  <2>4. f \in [1 .. n + 2 -> {o \in Wqs : SubCqOf[o] = s} \X Idx]
    BY <1>1, <1>3, <2>2, <2>3
  <2>5. \A j, k \in 1 .. n + 2 : f[j] = f[k] => j = k
    <3>1. \A j, k \in 1 .. n + 2 : j < k => f[j] # f[k]
      <4> SUFFICES ASSUME NEW j \in 1 .. n + 2, NEW k \in 1 .. n + 2, j < k
                   PROVE  f[j] # f[k]
        OBVIOUS
      <4>1. CASE k = n + 2 /\ j = n + 1
        BY <2>2, <4>1
      <4>2. CASE k = n + 2 /\ j # n + 1
        <5>1. j - 1 \in 0 .. n - 1 /\ Differ(Entry(s, j - 1), h)
          BY <2>2, <2>3, <4>2
        <5> QED
          BY <4>2, <5>1 DEF Differ
      <4>3. CASE k = n + 1
        BY <1>3, <2>3, <4>3
      <4>4. CASE k # n + 1 /\ k # n + 2
        <5>1. j # n + 1 /\ j # n + 2 /\ j - 1 # k - 1
          BY <4>4
        <5>2. Differ(Entry(s, j - 1), Entry(s, k - 1))
          BY <1>4, <2>3, <4>4, <5>1
        <5> QED
          BY <4>4, <5>1, <5>2 DEF Differ
      <4> QED
        BY <4>1, <4>2, <4>3, <4>4
    <3> HIDE DEF f
    <3> QED
      BY <3>1
  <2> HIDE DEF f
  <2>6. n + 2 \in Nat
    OBVIOUS
  <2>7. n + 2 <= CqeCnt
    BY <1>1, <2>4, <2>5, <2>6, RoomForAll
  <2> QED
    BY <2>7, CqSizes
<1> QED
  BY <1>2, <1>5, <1>6

(* Writing one more entry, of a ring of n from slot b on.                     *)
LEMMA WriteTurns ==
  ASSUME NEW C \in Nat \ {0}, NEW b \in 0 .. C - 1, NEW n \in 0 .. C - 1, NEW j0,
         j0 = IF b + n < C THEN b + n ELSE b + n - C
  PROVE  /\ WrapInc(j0, C) = 0 <=> b + n < C /\ ~(b + (n + 1) < C)
         /\ WrapSub(j0, b, C) < n + 1 /\ (j0 >= b <=> b + n < C)
         /\ \A j \in 0 .. C - 1 : j # j0 =>
              (WrapSub(j, b, C) < n + 1 <=> WrapSub(j, b, C) < n)
  BY DEF WrapInc, WrapSub

(* Taking the entry at slot b, of a ring of n.                                *)
LapsAgree(j, b, n, C) == (WrapSub(j, b, C) < n) <=> (j >= b)
LEMMA ReadTurns ==
  ASSUME NEW C \in Nat \ {0}, NEW b \in 0 .. C - 1, NEW n \in 1 .. C, NEW d, d = WrapInc(b, C)
  PROVE  \A j \in 0 .. C - 1 :
           /\ d = 0 => (LapsAgree(j, d, n - 1, C) <=> ~LapsAgree(j, b, n, C))
           /\ d # 0 => (LapsAgree(j, d, n - 1, C) <=> LapsAgree(j, b, n, C))
<1>1. ASSUME NEW j \in 0 .. C - 1, d = 0
      PROVE  LapsAgree(j, d, n - 1, C) <=> ~LapsAgree(j, b, n, C)
  BY <1>1 DEF WrapInc, WrapSub, LapsAgree
<1>2. ASSUME NEW j \in 0 .. C - 1, d # 0
      PROVE  LapsAgree(j, d, n - 1, C) <=> LapsAgree(j, b, n, C)
  BY <1>2 DEF WrapInc, WrapSub, LapsAgree
<1> QED
  BY <1>1, <1>2

(* What writing a completion does to the entries.                             *)
LEMMA Written ==
  ASSUME CqInv, NEW q \in Wqs, NEW d \in working[q], DevComplete(q, d),
         NEW s, s = SubCqOf[q], NEW n, n = Span(s), NEW c,
         c = [q |-> q, req_id |-> d.req_id, wr |-> d.wr, phase |-> prodPhase[s]]
  PROVE  /\ s \in SubCqs /\ n \in Nat /\ n < CqeCnt /\ c \in Cqe /\ d \in Request
         /\ Strip(c) = d
         /\ prod[s] = Ahead(consumed[s], n)
         /\ \A o \in SubCqs : Span(o)' = IF o = s THEN n + 1 ELSE Span(o)
         /\ \A k \in 0 .. n - 1 : Entry(s, k)' = Entry(s, k)
         /\ Entry(s, n)' = c
         /\ \A o \in SubCqs : o # s => \A k : Entry(o, k)' = Entry(o, k)
         /\ (InUse' <=> InUse) /\ (InUse => CurCqe' = CurCqe)
<1>1. /\ ring' = [ring EXCEPT ![s][CqeSlot(prod[s])] = c]
      /\ prod' = [prod EXCEPT ![s] = WrapInc(@, U16)]
      /\ UNCHANGED <<consumed, call, cur>>
  BY DEF DevComplete, qpVars, cqVars, callVars, curVars
<1>2. /\ s \in SubCqs /\ d \in Request /\ n \in 0 .. U16 - 1 /\ prodPhase[s] \in Phases
      /\ consumed[s] \in 0 .. U16 - 1 /\ prod[s] \in 0 .. U16 - 1
      /\ ring \in [SubCqs -> [CqeSlots -> Cqe \cup {NoCqe}]]
      /\ prod \in [SubCqs -> 0 .. U16 - 1]
  BY Typed DEF CqInv
<1>3. c \in Cqe /\ Strip(c) = d
  BY <1>2 DEF Cqe, Request, Strip
<1>4. n < CqeCnt /\ (InUse /\ cur[1] = s => n + 1 < CqeCnt)
  BY RoomForNext
<1>5. /\ prod[s] = Ahead(consumed[s], n)
      /\ n + 1 < U16 => WrapSub(WrapInc(prod[s], U16), consumed[s], U16) = n + 1
  <2>1. PICK x \in 0 .. U16 - 1, y \in 0 .. U16 - 1 :
           x = consumed[s] /\ y = prod[s] /\ n = WrapSub(y, x, U16)
    BY <1>2 DEF Span
  <2>2. /\ Ahead(x, WrapSub(y, x, U16)) = y
        /\ WrapSub(y, x, U16) + 1 < U16 =>
             WrapSub(WrapInc(y, U16), x, U16) = WrapSub(y, x, U16) + 1
    BY CountMoves
  <2> QED
    BY <2>1, <2>2
<1>6. n + 1 < U16
  BY <1>2, <1>4, CqSizes
<1>7. \A o \in SubCqs : Span(o)' = IF o = s THEN n + 1 ELSE Span(o)
  <2>1. \A o \in SubCqs : prod'[o] = IF o = s THEN WrapInc(prod[s], U16) ELSE prod[o]
    BY <1>1, <1>2
  <2> QED
    BY <1>1, <1>2, <1>5, <1>6, <2>1 DEF Span
<1>8. PICK z \in CqeSlots : z = CqeSlot(prod[s])
  <2>1. 0 \in 0 .. CqeCnt
    BY CqSizes
  <2> QED
    BY <1>2, <2>1, SlotOf DEF CqeSlots
<1>9. /\ \A o \in SubCqs, j \in CqeSlots :
           ring'[o][j] = IF o = s /\ j = z THEN c ELSE ring[o][j]
      /\ \A o \in SubCqs : o # s => ring'[o] = ring[o]
  BY <1>1, <1>2, <1>8
<1>10. \A k \in 0 .. CqeCnt - 1 : /\ CqeSlot(Ahead(consumed[s], k)) \in CqeSlots
                                  /\ k # n => CqeSlot(Ahead(consumed[s], k)) # z
  <2>1. n \in 0 .. CqeCnt - 1
    BY <1>2, <1>4, CqSizes
  <2> SUFFICES ASSUME NEW k \in 0 .. CqeCnt - 1
               PROVE  /\ CqeSlot(Ahead(consumed[s], k)) \in CqeSlots
                      /\ k # n => CqeSlot(Ahead(consumed[s], k)) # z
    OBVIOUS
  <2>2. k \in 0 .. U16
    BY CqSizes
  <2>3. Ahead(consumed[s], k) \in 0 .. U16 - 1
    BY <1>2, <2>2, AheadOf
  <2>4. CqeSlot(Ahead(consumed[s], k)) \in CqeSlots
    <3>1. 0 \in 0 .. CqeCnt
      BY CqSizes
    <3> QED
      BY <2>3, <3>1, SlotOf DEF CqeSlots
  <2>5. k # n => CqeSlot(Ahead(consumed[s], k)) # CqeSlot(Ahead(consumed[s], n))
    BY <1>2, <2>1, SlotsApart
  <2> QED
    BY <1>5, <1>8, <2>4, <2>5
<1>11. \A k \in 0 .. n - 1 : Entry(s, k)' = Entry(s, k)
  <2>1. \A k \in 0 .. n - 1 : k \in 0 .. CqeCnt - 1 /\ k # n
    BY <1>2, <1>4, CqSizes
  <2> QED
    BY <1>1, <1>2, <1>9, <1>10, <2>1 DEF Entry
<1>12. Entry(s, n)' = c
  BY <1>1, <1>2, <1>5, <1>8, <1>9 DEF Entry
<1>13. \A o \in SubCqs : o # s => \A k : Entry(o, k)' = Entry(o, k)
  BY <1>1, <1>9 DEF Entry
<1>14. InUse' <=> InUse
  BY <1>1 DEF InUse
<1>15. InUse => CurCqe' = CurCqe
  <2> SUFFICES ASSUME InUse PROVE CurCqe' = CurCqe
    OBVIOUS
  <2>1. cur[1] \in SubCqs /\ cur[2] \in CqeSlots
    BY Typed DEF CqInv, InUse
  <2>2. CASE cur[1] # s
    BY <1>1, <1>9, <2>1, <2>2 DEF CurCqe
  <2>3. CASE cur[1] = s
    <3>1. cur[2] = CqeSlot(Ahead(consumed[s], CqeCnt - 1))
      BY <2>3 DEF CqInv, HandOk, HandFacts
    <3>2. CqeCnt - 1 \in 0 .. CqeCnt - 1 /\ CqeCnt - 1 # n
      BY <1>2, <1>4, <2>3, CqSizes
    <3>3. cur[2] # z
      BY <1>10, <3>1, <3>2
    <3> QED
      BY <1>1, <1>9, <2>1, <3>3 DEF CurCqe
  <2> QED
    BY <2>2, <2>3
<1> QED
  BY <1>1, <1>2, <1>3, <1>4, <1>5, <1>7, <1>11, <1>12, <1>13, <1>14, <1>15

LEMMA DevCompleteKeeps ==
  ASSUME CqInv, NEW q \in Wqs, NEW d \in working[q], DevComplete(q, d), UNCHANGED app
  PROVE  CqInv'
<1>1. PICK s, n, c : /\ s = SubCqOf[q] /\ n = Span(s)
                     /\ c = [q |-> q, req_id |-> d.req_id, wr |-> d.wr,
                             phase |-> prodPhase[s]]
  OBVIOUS
<1>2. /\ s \in SubCqs /\ n \in Nat /\ n < CqeCnt /\ c \in Cqe /\ d \in Request
      /\ Strip(c) = d
      /\ prod[s] = Ahead(consumed[s], n)
      /\ (InUse' <=> InUse) /\ (InUse => CurCqe' = CurCqe)
      /\ UNCHANGED <<wq, table, refCnt, consumed, phase, nextPoll, call, scanned, got,
                     cur, curWq>>
      /\ ring' = [ring EXCEPT ![s][CqeSlot(prod[s])] = c]
      /\ prod' = [prod EXCEPT ![s] = WrapInc(@, U16)]
      /\ prodPhase' = [prodPhase EXCEPT ![s] =
                         IF CqeSlot(prod'[s]) = 0 THEN 1 - @ ELSE @]
      /\ working' = [working EXCEPT ![q] = @ \ {d}]
  <2>1. /\ s \in SubCqs /\ n \in Nat /\ n < CqeCnt /\ c \in Cqe /\ d \in Request
        /\ Strip(c) = d
        /\ prod[s] = Ahead(consumed[s], n)
        /\ (InUse' <=> InUse) /\ (InUse => CurCqe' = CurCqe)
    BY <1>1, Written
  <2>2. /\ UNCHANGED <<wq, table, refCnt, consumed, phase, nextPoll, call, scanned, got,
                       cur, curWq>>
        /\ ring' = [ring EXCEPT ![s][CqeSlot(prod[s])] = c]
        /\ prod' = [prod EXCEPT ![s] = WrapInc(@, U16)]
        /\ prodPhase' = [prodPhase EXCEPT ![s] =
                           IF CqeSlot(prod'[s]) = 0 THEN 1 - @ ELSE @]
        /\ working' = [working EXCEPT ![q] = @ \ {d}]
    BY <1>1 DEF DevComplete, qpVars, cqVars, callVars, curVars
  <2> QED
    BY <2>1, <2>2
<1>3. /\ \A o \in SubCqs : Span(o)' = IF o = s THEN n + 1 ELSE Span(o)
      /\ \A k \in 0 .. n - 1 : Entry(s, k)' = Entry(s, k)
      /\ Entry(s, n)' = c
      /\ \A o \in SubCqs : o # s => \A k : Entry(o, k)' = Entry(o, k)
  BY <1>1, Written
<1>4. /\ consumed[s] \in 0 .. U16 - 1 /\ prod[s] \in 0 .. U16 - 1
      /\ working \in [Wqs -> SUBSET Request] /\ SubCqOf \in [Wqs -> SubCqs]
      /\ ring \in [SubCqs -> [CqeSlots -> Cqe \cup {NoCqe}]]
      /\ prod \in [SubCqs -> 0 .. U16 - 1] /\ prodPhase \in [SubCqs -> Phases]
      /\ phase[s] \in Phases
  BY <1>2, Typed, CqSizes DEF CqInv, TypeOK
<1>5. \A o \in Wqs : working'[o] = IF o = q THEN working[q] \ {d} ELSE working[o]
  BY <1>2, <1>4
<1>6. PICK z \in CqeSlots : z = CqeSlot(prod[s]) /\
         z = IF Base(s) + n < CqeCnt THEN Base(s) + n ELSE Base(s) + n - CqeCnt
  <2>1. n \in 0 .. CqeCnt
    BY <1>2, CqSizes
  <2>2. CqeSlot(prod[s]) \in CqeSlots
    <3>1. 0 \in 0 .. CqeCnt
      BY CqSizes
    <3> QED
      BY <1>4, <3>1, SlotOf DEF CqeSlots
  <2> QED
    BY <1>2, <1>4, <2>1, <2>2, SlotOf DEF Base
<1>7. PICK b \in 0 .. CqeCnt - 1 : b = Base(s) /\ b = Base(s)'
  <2>1. 0 \in 0 .. CqeCnt
    BY CqSizes
  <2> QED
    BY <1>2, <1>4, <2>1, SlotOf DEF Base
<1>8. /\ \A o \in SubCqs, j \in CqeSlots :
           ring'[o][j] = IF o = s /\ j = z THEN c ELSE ring[o][j]
      /\ \A o \in SubCqs : o # s => prodPhase'[o] = prodPhase[o]
      /\ prodPhase'[s] = IF CqeSlot(prod'[s]) = 0 THEN 1 - prodPhase[s] ELSE prodPhase[s]
      /\ prod'[s] = WrapInc(prod[s], U16)
  BY <1>2, <1>4, <1>6
<1>9. TypeOK'
  <2>1. ring' \in [SubCqs -> [CqeSlots -> Cqe \cup {NoCqe}]]
    <3>1. [ring[s] EXCEPT ![z] = c] \in [CqeSlots -> Cqe \cup {NoCqe}]
      BY <1>2, <1>4
    <3>2. ring' = [ring EXCEPT ![s] = [ring[s] EXCEPT ![z] = c]]
      BY <1>2, <1>6
    <3> QED
      BY <1>2, <1>4, <3>1, <3>2
  <2>2. prod' \in [SubCqs -> 0 .. U16 - 1]
    <3>1. WrapInc(prod[s], U16) \in 0 .. U16 - 1
      BY <1>4, CountMoves
    <3> QED
      BY <1>2, <1>4, <3>1
  <2>3. prodPhase' \in [SubCqs -> Phases]
    <3>1. prodPhase[s] \in Phases /\ 1 - prodPhase[s] \in Phases
      BY <1>2, <1>4 DEF Phases
    <3> QED
      BY <1>2, <1>4, <3>1
  <2>4. working' \in [Wqs -> SUBSET Request]
    BY <1>2, <1>4
  <2> QED
    BY <1>2, <2>1, <2>2, <2>3, <2>4 DEF CqInv, TypeOK
<1>10. /\ Unread(s)' = 0 .. n /\ Unread(s) = 0 .. n - 1
       /\ \A o \in SubCqs : o # s => Unread(o)' = Unread(o)
       /\ \A k \in 0 .. n : k # n => k \in 0 .. n - 1
  BY <1>1, <1>2, <1>3 DEF Unread
<1>11. \A k \in 0 .. n - 1 : Entry(s, k).q = q => Entry(s, k).req_id # d.req_id
  BY <1>1, <1>10 DEF CqInv, WorkingOk
<1>12. EntriesOk'
  <2>1. \A o \in SubCqs : Span(o)' <= CqeCnt
    BY <1>2, <1>3, CqSizes DEF CqInv, EntriesOk
  <2>2. \A o \in SubCqs : \A k \in Unread(o)' :
          Entry(o, k)' \in Cqe /\ SubCqOf[Entry(o, k)'.q] = o
    BY <1>1, <1>2, <1>3, <1>10 DEF CqInv, EntriesOk
  <2>3. \A o \in SubCqs : \A j, k \in Unread(o)' : j # k => Differ(Entry(o, j)', Entry(o, k)')
    <3>1. \A o \in SubCqs : o # s => \A j, k \in Unread(o)' :
             j # k => Differ(Entry(o, j)', Entry(o, k)')
      BY <1>3, <1>10 DEF CqInv, EntriesOk
    <3>2. \A j, k \in 0 .. n - 1 : j # k => Differ(Entry(s, j)', Entry(s, k)')
      BY <1>2, <1>3, <1>10 DEF CqInv, EntriesOk
    <3>3. \A j \in 0 .. n - 1 : Differ(Entry(s, j)', Entry(s, n)') /\ Differ(Entry(s, n)', Entry(s, j)')
      BY <1>1, <1>3, <1>11 DEF Differ
    <3> QED
      BY <1>10, <3>1, <3>2, <3>3
  <2> QED
    BY <2>1, <2>2, <2>3 DEF EntriesOk, Differ

<1>13. \A o : Live(o)' <=> Live(o)
  BY <1>2 DEF Live
<1>14. Live(q)
  BY DEF CqInv, WorkingOk
<1>15. WorkingOk'
  <2>1. \A o \in Wqs : working'[o] \subseteq working[o]
    BY <1>5
  <2>2. \A o \in Wqs : working'[o] # {} => Live(o)'
    BY <1>13, <2>1 DEF CqInv, WorkingOk
  <2>3. \A o \in Wqs : \A e, f \in working'[o] : e # f => e.req_id # f.req_id
    BY <2>1 DEF CqInv, WorkingOk
  <2>4. \A o \in Wqs : \A e \in working'[o], k \in Unread(SubCqOf[o])' :
          Entry(SubCqOf[o], k)'.q = o => Entry(SubCqOf[o], k)'.req_id # e.req_id
    <3> SUFFICES ASSUME NEW o \in Wqs, NEW e \in working'[o], NEW k \in Unread(SubCqOf[o])',
                        Entry(SubCqOf[o], k)'.q = o
                 PROVE  Entry(SubCqOf[o], k)'.req_id # e.req_id
      OBVIOUS
    <3>1. e \in working[o] /\ SubCqOf[o] \in SubCqs
      BY <1>4, <2>1
    <3>2. CASE SubCqOf[o] # s
      BY <1>3, <1>10, <3>1, <3>2 DEF CqInv, WorkingOk
    <3>3. CASE SubCqOf[o] = s /\ k # n
      <4>1. k \in Unread(s) /\ Entry(s, k)' = Entry(s, k)
        BY <1>3, <1>10, <3>3
      <4>2. /\ k \in Unread(SubCqOf[o])
            /\ Entry(SubCqOf[o], k)' = Entry(SubCqOf[o], k)
        BY <3>3, <4>1
      <4> QED
        BY <3>1, <4>2 DEF CqInv, WorkingOk
    <3>4. CASE SubCqOf[o] = s /\ k = n
      <4>1. o = q /\ Entry(s, n)' = c /\ c.req_id = d.req_id
        BY <1>1, <1>3, <3>4
      <4>2. e # d
        BY <1>5, <4>1
      <4> QED
        BY <3>1, <3>4, <4>1, <4>2 DEF CqInv, WorkingOk
    <3> QED
      BY <3>2, <3>3, <3>4
  <2> QED
    BY <2>2, <2>3, <2>4 DEF WorkingOk
<1>16. HandOk'
  <2> SUFFICES ASSUME InUse' PROVE HandFacts'
    BY DEF HandOk
  <2>1. InUse /\ CurCqe' = CurCqe /\ HandFacts
    BY <1>2 DEF CqInv, HandOk
  <2>2. PICK t \in SubCqs : t = cur[1] /\ t = cur'[1]
    BY <1>2, <2>1, Typed DEF CqInv, InUse
  <2>3. /\ curWq \in Wqs /\ CurCqe.q = curWq /\ CurCqe \in Cqe /\ SubCqOf[curWq] = t
        /\ \A k \in Unread(t) : Differ(Entry(t, k), CurCqe)
        /\ Span(t) < CqeCnt /\ cur[2] = CqeSlot(Ahead(consumed[t], CqeCnt - 1))
        /\ Live(curWq) /\ refCnt[t] > 0 /\ \A e \in working[curWq] : e.req_id # CurCqe.req_id
    BY <2>1, <2>2 DEF HandFacts, Cqe
  <2>4. Span(t)' < CqeCnt
    <3>1. t = s => Span(s) + 1 < CqeCnt
      BY <1>1, <2>1, <2>2, RoomForNext
    <3> QED
      BY <1>1, <1>3, <2>2, <2>3, <3>1
  <2>5. \A k \in Unread(t)' : Differ(Entry(t, k)', CurCqe)
    <3>1. CASE t # s
      BY <1>3, <1>10, <2>2, <2>3, <3>1
    <3>2. CASE t = s
      <4>1. \A k \in 0 .. n - 1 : Differ(Entry(s, k)', CurCqe)
        BY <1>3, <1>10, <2>3, <3>2
      <4>2. Differ(Entry(s, n)', CurCqe)
        BY <1>1, <1>3, <2>3 DEF Differ
      <4> QED
        BY <1>10, <3>2, <4>1, <4>2
    <3> QED
      BY <3>1, <3>2
  <2>6. \A e \in working'[curWq] : e.req_id # CurCqe.req_id
    BY <1>5, <2>3
  <2> QED
    BY <1>2, <1>13, <2>1, <2>2, <2>3, <2>4, <2>5, <2>6 DEF HandFacts, Differ
<1>17. PhasesOk'
  <2>1. \A o \in SubCqs : o # s =>
          /\ Base(o)' = Base(o) /\ Span(o)' = Span(o)
          /\ prodPhase'[o] = prodPhase[o] /\ phase'[o] = phase[o] /\ ring'[o] = ring[o]
    BY <1>2, <1>3, <1>8 DEF Base
  <2>2. \A o \in SubCqs : o # s =>
          /\ prodPhase'[o] = IF Base(o)' + Span(o)' < CqeCnt THEN phase'[o] ELSE 1 - phase'[o]
          /\ \A j \in CqeSlots :
               ring'[o][j].phase = IF PhaseDue(o, j)' THEN phase'[o] ELSE 1 - phase'[o]
    BY <2>1 DEF CqInv, PhasesOk, PhaseDue
  <2>3. n \in 0 .. CqeCnt - 1 /\ n = Span(s)
    BY <1>1, <1>2, CqSizes
  <2>4. /\ WrapInc(z, CqeCnt) = 0 <=> b + n < CqeCnt /\ ~(b + (n + 1) < CqeCnt)
        /\ WrapSub(z, b, CqeCnt) < n + 1 /\ (z >= b <=> b + n < CqeCnt)
        /\ \A j \in 0 .. CqeCnt - 1 : j # z =>
             (WrapSub(j, b, CqeCnt) < n + 1 <=> WrapSub(j, b, CqeCnt) < n)
    BY <1>6, <1>7, <2>3, CqSizes, WriteTurns
  <2>5. CqeSlot(prod'[s]) = WrapInc(z, CqeCnt)
    <3>1. 0 \in 0 .. CqeCnt
      BY CqSizes
    <3> QED
      BY <1>4, <1>6, <1>8, <3>1, SlotOf
  <2>6. /\ prodPhase[s] = IF b + n < CqeCnt THEN phase[s] ELSE 1 - phase[s]
        /\ \A j \in CqeSlots :
             ring[s][j].phase = IF PhaseDue(s, j) THEN phase[s] ELSE 1 - phase[s]
    BY <1>2, <1>7, <2>3 DEF CqInv, PhasesOk
  <2>7. prodPhase'[s] = IF b + (n + 1) < CqeCnt THEN phase[s] ELSE 1 - phase[s]
    <3>1. CASE b + n < CqeCnt
      BY <1>8, <2>4, <2>5, <2>6, <3>1
    <3>2. CASE ~(b + n < CqeCnt)
      <4>1. ~(b + (n + 1) < CqeCnt)
        BY <1>7, <2>3, <3>2, CqSizes
      <4> QED
        BY <1>8, <2>4, <2>5, <2>6, <3>2, <4>1
    <3> QED
      BY <3>1, <3>2
  <2>8. \A j : /\ PhaseDue(s, j)' <=> ((WrapSub(j, b, CqeCnt) < n + 1) <=> (j >= b))
               /\ PhaseDue(s, j) <=> ((WrapSub(j, b, CqeCnt) < n) <=> (j >= b))
    BY <1>2, <1>3, <1>7, <2>3 DEF PhaseDue
  <2>9. \A j \in CqeSlots :
          ring'[s][j].phase = IF PhaseDue(s, j)' THEN phase[s] ELSE 1 - phase[s]
    <3>1. \A j \in CqeSlots : j # z => (PhaseDue(s, j)' <=> PhaseDue(s, j))
      BY <2>4, <2>8 DEF CqeSlots
    <3>2. \A j \in CqeSlots : j # z => ring'[s][j] = ring[s][j]
      BY <1>2, <1>8
    <3>3. PhaseDue(s, z)' <=> b + n < CqeCnt
      BY <2>4, <2>8
    <3>4. ring'[s][z].phase = prodPhase[s]
      BY <1>1, <1>2, <1>8
    <3> QED
      BY <2>6, <3>1, <3>2, <3>3, <3>4
  <2>10. Base(s)' = b /\ Span(s)' = n + 1 /\ phase' = phase
    BY <1>2, <1>3, <1>7
  <2> QED
    BY <1>2, <2>2, <2>7, <2>9, <2>10 DEF PhasesOk
<1>18. RefsOk' /\ CallOk'
  BY <1>2, <1>13 DEF CqInv, RefsOk, CallOk, StillToCome
<1>19. NoOrphans'
  <2> SUFFICES ASSUME app.drains, NEW o \in SubCqs, NEW k \in Unread(o)'
               PROVE  Live(Entry(o, k)'.q)
    BY <1>13 DEF NoOrphans
  <2>1. CASE o # s
    BY <1>3, <1>10, <2>1 DEF CqInv, NoOrphans
  <2>2. CASE o = s /\ k # n
    <3>1. k \in Unread(s) /\ Entry(s, k)' = Entry(s, k)
      BY <1>3, <1>10, <2>2
    <3> QED
      BY <1>2, <2>2, <3>1 DEF CqInv, NoOrphans
  <2>3. CASE o = s /\ k = n
    BY <1>1, <1>3, <1>14, <2>3
  <2> QED
    BY <2>1, <2>2, <2>3
<1>20. \A o \in Wqs : Outstanding(o)' = Outstanding(o)
  <2> SUFFICES ASSUME NEW o \in Wqs PROVE \A e : e \in Outstanding(o)' <=> e \in Outstanding(o)
    OBVIOUS
  <2>1. ThreeParts'
    BY OutstandingParts, PTL
  <2>2. \A e : IsHeld(o, e)' <=> IsHeld(o, e)
    BY <1>2 DEF IsHeld
  <2>3. \A e : InSubCq(o, e)' <=> (InSubCq(o, e) \/ (o = q /\ e = d))
    <3>1. SubCqOf[o] \in SubCqs
      BY <1>4
    <3>2. CASE SubCqOf[o] # s
      BY <1>1, <1>3, <1>10, <3>1, <3>2 DEF InSubCq
    <3>3. CASE SubCqOf[o] = s
      <4>1. \A e : InSubCq(o, e)'
              <=> \E k \in 0 .. n : Entry(s, k)'.q = o /\ e = Strip(Entry(s, k)')
        BY <1>10, <3>3 DEF InSubCq, Strip
      <4>2. \A e : InSubCq(o, e)
              <=> \E k \in 0 .. n - 1 : Entry(s, k)'.q = o /\ e = Strip(Entry(s, k)')
        BY <1>3, <1>10, <3>3 DEF InSubCq, Strip
      <4>3. \A e : (Entry(s, n)'.q = o /\ e = Strip(Entry(s, n)')) <=> (o = q /\ e = d)
        BY <1>1, <1>2, <1>3
      <4>4. n \in 0 .. n /\ \A k \in 0 .. n - 1 : k \in 0 .. n
        BY <1>2
      <4> QED
        BY <1>10, <4>1, <4>2, <4>3, <4>4
    <3> QED
      BY <3>2, <3>3
  <2> QED
    BY <1>5, <2>1, <2>2, <2>3, OutstandingParts DEF ThreeParts
<1>21. PoolsOk'
  BY <1>2, <1>13, <1>20 DEF CqInv, PoolsOk
<1> QED
  BY <1>9, <1>12, <1>15, <1>16, <1>17, <1>18, <1>19, <1>21 DEF CqInv

----------------------------------------------------------------------------
(* Looking at a sub CQ, and taking an entry out of it.                        *)
(* The phase of the entry at consumed_cnt tells whether there is one.         *)
LEMMA PendingMeans ==
  ASSUME TypeOK, EntriesOk, PhasesOk, NEW s \in SubCqs
  PROVE  Pending(s) <=> Span(s) > 0
<1>1. /\ consumed[s] \in 0 .. U16 - 1 /\ phase[s] \in Phases /\ Span(s) \in 0 .. U16 - 1
  BY Typed
<1>2. PICK b \in 0 .. CqeCnt - 1 : b = Base(s) /\ b = CqeSlot(consumed[s])
  <2>1. 0 \in 0 .. CqeCnt
    BY CqSizes
  <2> QED
    BY <1>1, <2>1, SlotOf DEF Base
<1>3. PhaseDue(s, b) <=> Span(s) > 0
  <2>1. WrapSub(b, b, CqeCnt) = 0 /\ b >= b
    BY DEF WrapSub
  <2> QED
    BY <1>1, <1>2, <2>1 DEF PhaseDue
<1>4. ring[s][b].phase = IF PhaseDue(s, b) THEN phase[s] ELSE 1 - phase[s]
  BY <1>2 DEF PhasesOk, CqeSlots
<1> QED
  BY <1>1, <1>2, <1>3, <1>4 DEF Pending, Phases

LEMMA Taken ==
  ASSUME CqInv, NEW s \in SubCqs, Pending(s), Consume(s), UNCHANGED <<ring, prod>>,
         NEW n, n = Span(s)
  PROVE  /\ n \in 1 .. CqeCnt
         /\ \A o \in SubCqs : Span(o)' = IF o = s THEN n - 1 ELSE Span(o)
         /\ \A k \in 0 .. n - 2 : Entry(s, k)' = Entry(s, k + 1)
         /\ \A o \in SubCqs : o # s => \A k : Entry(o, k)' = Entry(o, k)
         /\ Entry(s, 0) = ring[s][CqeSlot(consumed[s])]
         /\ CqeSlot(consumed[s]) \in CqeSlots
         /\ CqeSlot(consumed[s]) = CqeSlot(Ahead(consumed'[s], CqeCnt - 1))
         /\ consumed' \in [SubCqs -> 0 .. U16 - 1] /\ phase' \in [SubCqs -> Phases]
<1>1. /\ consumed' = [consumed EXCEPT ![s] = WrapInc(@, U16)]
      /\ phase' = [phase EXCEPT ![s] = IF CqeSlot(consumed'[s]) = 0 THEN 1 - @ ELSE @]
      /\ consumed \in [SubCqs -> 0 .. U16 - 1] /\ phase \in [SubCqs -> Phases]
  BY DEF Consume, CqInv, TypeOK
<1>2. PICK x \in 0 .. U16 - 1, y \in 0 .. U16 - 1 : x = consumed[s] /\ y = prod[s]
  BY Typed DEF CqInv
<1>3. n \in 1 .. CqeCnt
  BY PendingMeans, Typed DEF CqInv, EntriesOk
<1>4. PICK v \in 0 .. U16 - 1 : v = WrapInc(x, U16) /\ WrapSub(y, v, U16) = n - 1
  BY <1>2, <1>3, CountMoves DEF Span
<1>5. \A o \in SubCqs : consumed'[o] = IF o = s THEN v ELSE consumed[o]
  BY <1>1, <1>2, <1>4
<1>6. \A o \in SubCqs : Span(o)' = IF o = s THEN n - 1 ELSE Span(o)
  BY <1>2, <1>4, <1>5 DEF Span
<1>7. \A k \in 0 .. n - 2 : Entry(s, k)' = Entry(s, k + 1)
  <2>1. \A k \in 0 .. n - 2 : k \in 0 .. U16 - 1
    BY <1>3, CqSizes
  <2>2. \A k \in 0 .. n - 2 : Ahead(v, k) = Ahead(x, k + 1)
    BY <1>4, <2>1, AheadOfNext
  <2> QED
    BY <1>2, <1>5, <2>2 DEF Entry
<1>8. \A o \in SubCqs : o # s => \A k : Entry(o, k)' = Entry(o, k)
  BY <1>5 DEF Entry
<1>9. Ahead(x, 0) = x
  BY CountMoves
<1>10. CqeSlot(x) \in CqeSlots /\ CqeSlot(x) = CqeSlot(Ahead(v, CqeCnt - 1))
  <2>1. CqeCnt - 1 \in 0 .. CqeCnt
    BY CqSizes
  <2>2. /\ CqeSlot(x) \in 0 .. CqeCnt - 1 /\ CqeSlot(v) \in 0 .. CqeCnt - 1
        /\ CqeSlot(v) = WrapInc(CqeSlot(x), CqeCnt)
        /\ CqeSlot(Ahead(v, CqeCnt - 1)) = IF CqeSlot(v) + (CqeCnt - 1) < CqeCnt
                                           THEN CqeSlot(v) + (CqeCnt - 1)
                                           ELSE CqeSlot(v) + (CqeCnt - 1) - CqeCnt
    BY <1>4, <2>1, SlotOf
  <2> QED
    BY <2>2, CqSizes DEF WrapInc, CqeSlots
<1>11. consumed' \in [SubCqs -> 0 .. U16 - 1]
  BY <1>1, <1>2, <1>4
<1>12. phase' \in [SubCqs -> Phases]
  <2>1. phase[s] \in Phases /\ 1 - phase[s] \in Phases
    BY <1>1 DEF Phases
  <2> QED
    BY <1>1, <2>1
<1> QED
  BY <1>2, <1>3, <1>5, <1>6, <1>7, <1>8, <1>9, <1>10, <1>11, <1>12 DEF Entry

LEMMA ConsumeKeeps ==
  ASSUME CqInv, NEW s \in SubCqs, Pending(s), Consume(s),
         UNCHANGED <<app, qpVars, devVars>>, NEW c, c = Entry(s, 0)
  PROVE  /\ EntriesOk' /\ WorkingOk' /\ PhasesOk' /\ RefsOk' /\ NoOrphans'
         /\ c \in Cqe /\ SubCqOf[c.q] = s /\ (app.drains => Live(c.q))
         /\ Span(s)' < CqeCnt /\ \A k \in Unread(s)' : Differ(Entry(s, k)', c)
         /\ \A d \in working[c.q] : d.req_id # c.req_id
         /\ \A o \in Wqs : \A e :
              InSubCq(o, e) <=> (InSubCq(o, e)' \/ (o = c.q /\ e = Strip(c)))
<1>1. UNCHANGED <<app, table, refCnt, working, ring, prod, prodPhase>>
  BY DEF qpVars, devVars
<1>2. PICK n : n = Span(s)
  OBVIOUS
<1>3. /\ n \in 1 .. CqeCnt
      /\ \A o \in SubCqs : Span(o)' = IF o = s THEN n - 1 ELSE Span(o)
      /\ \A k \in 0 .. n - 2 : Entry(s, k)' = Entry(s, k + 1)
      /\ \A o \in SubCqs : o # s => \A k : Entry(o, k)' = Entry(o, k)
  BY <1>1, <1>2, Taken
<1>4. /\ Unread(s) = 0 .. n - 1 /\ Unread(s)' = 0 .. n - 2
      /\ \A o \in SubCqs : o # s => Unread(o)' = Unread(o)
      /\ 0 \in 0 .. n - 1 /\ \A k \in 0 .. n - 2 : k + 1 \in 0 .. n - 1 /\ k + 1 # 0
      /\ \A k \in 0 .. n - 1 : k # 0 => k - 1 \in 0 .. n - 2 /\ (k - 1) + 1 = k
  BY <1>2, <1>3 DEF Unread
<1>5. \A o : Live(o)' <=> Live(o)
  BY <1>1 DEF Live
<1>6. \A o \in SubCqs : \A k \in Unread(o)' :
        \E j \in Unread(o) : Entry(o, k)' = Entry(o, j) /\ (o = s => j = k + 1)
  BY <1>3, <1>4
<1>7. EntriesOk'
  <2>1. \A o \in SubCqs : Span(o)' <= CqeCnt
    BY <1>3, CqSizes DEF CqInv, EntriesOk
  <2>2. \A o \in SubCqs : \A k \in Unread(o)' :
          Entry(o, k)' \in Cqe /\ SubCqOf[Entry(o, k)'.q] = o
    BY <1>6 DEF CqInv, EntriesOk
  <2>3. \A o \in SubCqs : o # s => \A j, k \in Unread(o)' :
           j # k => Differ(Entry(o, j)', Entry(o, k)')
    BY <1>3, <1>4 DEF CqInv, EntriesOk
  <2>4. \A j, k \in 0 .. n - 2 : j # k => Differ(Entry(s, j)', Entry(s, k)')
    <3>1. \A j, k \in 0 .. n - 2 : j # k => Differ(Entry(s, j + 1), Entry(s, k + 1))
      <4> SUFFICES ASSUME NEW j \in 0 .. n - 2, NEW k \in 0 .. n - 2, j # k
                   PROVE  Differ(Entry(s, j + 1), Entry(s, k + 1))
        OBVIOUS
      <4>1. j + 1 \in Unread(s) /\ k + 1 \in Unread(s) /\ j + 1 # k + 1
        BY <1>3, <1>4
      <4> QED
        BY <4>1 DEF CqInv, EntriesOk
    <3> QED
      BY <1>3, <3>1
  <2> QED
    BY <1>4, <2>1, <2>2, <2>3, <2>4 DEF EntriesOk, Differ
<1>8. WorkingOk'
  <2>1. \A o \in Wqs : SubCqOf[o] \in SubCqs
    BY CqSizes
  <2>2. \A o \in Wqs : \A e \in working[o], k \in Unread(SubCqOf[o])' :
          Entry(SubCqOf[o], k)'.q = o => Entry(SubCqOf[o], k)'.req_id # e.req_id
    BY <1>6, <2>1 DEF CqInv, WorkingOk
  <2> QED
    BY <1>1, <1>5, <2>2 DEF CqInv, WorkingOk
<1>9. RefsOk' /\ NoOrphans'
  BY <1>1, <1>5, <1>6 DEF CqInv, RefsOk, NoOrphans
<1>10. /\ c \in Cqe /\ SubCqOf[c.q] = s /\ (app.drains => Live(c.q))
       /\ \A k \in 0 .. n - 1 : k # 0 => Differ(Entry(s, k), c)
       /\ \A d \in working[c.q] : d.req_id # c.req_id
  <2>1. 0 \in Unread(s) /\ Unread(s) = 0 .. n - 1
    BY <1>4
  <2>2. c \in Cqe /\ SubCqOf[c.q] = s
    BY <2>1 DEF CqInv, EntriesOk
  <2>3. \A k \in 0 .. n - 1 : k # 0 => Differ(Entry(s, k), c)
    BY <2>1 DEF CqInv, EntriesOk
  <2>4. app.drains => Live(c.q)
    BY <2>1 DEF CqInv, NoOrphans
  <2>5. c.q \in Wqs
    BY <2>2 DEF Cqe
  <2>6. \A d \in working[c.q] : d.req_id # c.req_id
    BY <2>1, <2>2, <2>5 DEF CqInv, WorkingOk
  <2> QED
    BY <2>2, <2>3, <2>4, <2>6
<1>11. Span(s)' < CqeCnt /\ \A k \in Unread(s)' : Differ(Entry(s, k)', c)
  BY <1>3, <1>4, <1>10, CqSizes
<1>12. \A o \in Wqs : \A e :
         InSubCq(o, e) <=> (InSubCq(o, e)' \/ (o = c.q /\ e = Strip(c)))
  <2> SUFFICES ASSUME NEW o \in Wqs, NEW e
               PROVE  InSubCq(o, e) <=> (InSubCq(o, e)' \/ (o = c.q /\ e = Strip(c)))
    OBVIOUS
  <2>1. CASE SubCqOf[o] # s
    <3>1. InSubCq(o, e)' <=> InSubCq(o, e)
      BY <1>3, <1>4, <2>1, CqSizes DEF InSubCq, Strip
    <3> QED
      BY <1>10, <2>1, <3>1
  <2>2. CASE SubCqOf[o] = s
    <3>1. InSubCq(o, e)'
            <=> \E k \in 0 .. n - 2 : Entry(s, k + 1).q = o /\ e = Strip(Entry(s, k + 1))
      BY <1>3, <1>4, <2>2 DEF InSubCq, Strip
    <3>2. InSubCq(o, e)
            <=> \E k \in 0 .. n - 1 : Entry(s, k).q = o /\ e = Strip(Entry(s, k))
      BY <1>4, <2>2 DEF InSubCq
    <3>3. (\E k \in 0 .. n - 1 : Entry(s, k).q = o /\ e = Strip(Entry(s, k)))
            <=> \/ \E k \in 0 .. n - 2 : Entry(s, k + 1).q = o /\ e = Strip(Entry(s, k + 1))
                \/ c.q = o /\ e = Strip(c)
      BY <1>4
    <3> QED
      BY <3>1, <3>2, <3>3
  <2> QED
    BY <2>1, <2>2
<1>13. PhasesOk'
  <2>1. /\ consumed' = [consumed EXCEPT ![s] = WrapInc(@, U16)]
        /\ phase' = [phase EXCEPT ![s] = IF CqeSlot(consumed'[s]) = 0 THEN 1 - @ ELSE @]
        /\ consumed \in [SubCqs -> 0 .. U16 - 1] /\ phase \in [SubCqs -> Phases]
    BY DEF Consume, CqInv, TypeOK
  <2>2. PICK b \in 0 .. CqeCnt - 1 : b = Base(s) /\ Base(s)' = WrapInc(b, CqeCnt)
    <3>1. 0 \in 0 .. CqeCnt
      BY CqSizes
    <3> QED
      BY <2>1, <3>1, SlotOf DEF Base
  <2>3. \A o \in SubCqs : o # s => Base(o)' = Base(o) /\ phase'[o] = phase[o]
    BY <2>1 DEF Base
  <2>4. \A o \in SubCqs : o # s =>
          /\ prodPhase'[o] = IF Base(o)' + Span(o)' < CqeCnt THEN phase'[o] ELSE 1 - phase'[o]
          /\ \A j \in CqeSlots :
               ring'[o][j].phase = IF PhaseDue(o, j)' THEN phase'[o] ELSE 1 - phase'[o]
    BY <1>1, <1>3, <2>3 DEF CqInv, PhasesOk, PhaseDue
  <2>5. PICK v : v = WrapInc(b, CqeCnt)
    OBVIOUS
  <2>6. /\ v = 0 => ~(b + n < CqeCnt) /\ v + (n - 1) < CqeCnt
        /\ v # 0 => v + (n - 1) = b + n
        /\ \A j \in CqeSlots :
             /\ v = 0 => (LapsAgree(j, v, n - 1, CqeCnt) <=> ~LapsAgree(j, b, n, CqeCnt))
             /\ v # 0 => (LapsAgree(j, v, n - 1, CqeCnt) <=> LapsAgree(j, b, n, CqeCnt))
    <3>1. CqeCnt \in Nat \ {0} /\ b \in 0 .. CqeCnt - 1 /\ n \in 1 .. CqeCnt
      BY <1>3, CqSizes
    <3>2. \A j \in 0 .. CqeCnt - 1 :
            /\ v = 0 => (LapsAgree(j, v, n - 1, CqeCnt) <=> ~LapsAgree(j, b, n, CqeCnt))
            /\ v # 0 => (LapsAgree(j, v, n - 1, CqeCnt) <=> LapsAgree(j, b, n, CqeCnt))
      BY <2>5, <3>1, ReadTurns
    <3>3. /\ v = 0 => ~(b + n < CqeCnt) /\ v + (n - 1) < CqeCnt
          /\ v # 0 => v + (n - 1) = b + n
      BY <2>5, <3>1 DEF WrapInc
    <3> QED
      BY <3>2, <3>3 DEF CqeSlots
  <2>7. phase[s] \in Phases /\ phase'[s] = IF v = 0 THEN 1 - phase[s] ELSE phase[s]
    BY <2>1, <2>2, <2>5 DEF Base
  <2>8. /\ prodPhase[s] = IF b + n < CqeCnt THEN phase[s] ELSE 1 - phase[s]
        /\ \A j \in CqeSlots :
             ring[s][j].phase = IF PhaseDue(s, j) THEN phase[s] ELSE 1 - phase[s]
    BY <1>2, <2>2 DEF CqInv, PhasesOk
  <2>9. prodPhase'[s] = IF v + (n - 1) < CqeCnt THEN phase'[s] ELSE 1 - phase'[s]
    BY <1>1, <2>6, <2>7, <2>8 DEF Phases
  <2>10. \A j : /\ PhaseDue(s, j)' <=> LapsAgree(j, v, n - 1, CqeCnt)
                /\ PhaseDue(s, j) <=> LapsAgree(j, b, n, CqeCnt)
    BY <1>2, <1>3, <2>2, <2>5 DEF PhaseDue, LapsAgree
  <2>11. \A j \in CqeSlots : /\ v = 0 => (PhaseDue(s, j)' <=> ~PhaseDue(s, j))
                             /\ v # 0 => (PhaseDue(s, j)' <=> PhaseDue(s, j))
    BY <2>6, <2>10
  <2>12. \A j \in CqeSlots :
           ring'[s][j].phase = IF PhaseDue(s, j)' THEN phase'[s] ELSE 1 - phase'[s]
    BY <1>1, <2>7, <2>8, <2>11 DEF Phases
  <2>13. Base(s)' = v /\ Span(s)' = n - 1
    BY <1>3, <2>2, <2>5
  <2> QED
    BY <2>4, <2>9, <2>12, <2>13 DEF PhasesOk
<1> QED
  BY <1>7, <1>8, <1>9, <1>10, <1>11, <1>12, <1>13

LEMMA ScanFoundKeeps == ASSUME CqInv, ScanFound, UNCHANGED app PROVE CqInv'
<1>1. PICK s, c : s = nextPoll /\ c = Entry(s, 0)
  OBVIOUS
<1>2. s \in SubCqs /\ Pending(s) /\ Consume(s) /\ UNCHANGED <<app, qpVars, devVars>>
  BY <1>1 DEF ScanFound, CqInv, TypeOK
<1>3. /\ Entry(s, 0) = ring[s][CqeSlot(consumed[s])]
      /\ CqeSlot(consumed[s]) \in CqeSlots
      /\ CqeSlot(consumed[s]) = CqeSlot(Ahead(consumed'[s], CqeCnt - 1))
      /\ consumed' \in [SubCqs -> 0 .. U16 - 1] /\ phase' \in [SubCqs -> Phases]
  <2>1. UNCHANGED <<ring, prod>>
    BY <1>2 DEF devVars
  <2> QED
    BY <1>2, <2>1, Taken
<1>4. /\ EntriesOk' /\ WorkingOk' /\ PhasesOk' /\ RefsOk' /\ NoOrphans'
      /\ c \in Cqe /\ SubCqOf[c.q] = s
      /\ Span(s)' < CqeCnt /\ \A k \in Unread(s)' : Differ(Entry(s, k)', c)
      /\ \A d \in working[c.q] : d.req_id # c.req_id
      /\ \A o \in Wqs : \A e :
           InSubCq(o, e) <=> (InSubCq(o, e)' \/ (o = c.q /\ e = Strip(c)))
  BY <1>1, <1>2, ConsumeKeeps
<1>5. /\ call \in Scanning /\ call' = IF call = "poll" THEN "polled" ELSE "session"
      /\ cur' = <<s, CqeSlot(consumed[s])>> /\ curWq' = c.q /\ refCnt[s] > 0 /\ Live(c.q)
      /\ nextPoll' = (nextPoll + 1) % NumSubCqs /\ UNCHANGED <<wq, scanned, got>>
      /\ UNCHANGED <<app, table, refCnt, working, ring, prod, prodPhase>>
  BY <1>1, <1>2, <1>3 DEF ScanFound, RoundRobin, qpVars, devVars
<1>6. ~InUse /\ InUse' /\ CurCqe' = c /\ cur' # None
  <2>1. cur' # None
    BY <1>2, <1>3, <1>5, CqSizes
  <2> QED
    BY <1>1, <1>3, <1>5, <2>1 DEF InUse, Scanning, CurCqe
<1>7. nextPoll' \in SubCqs
  <2>1. nextPoll \in 0 .. NumSubCqs - 1
    BY <1>1, <1>2 DEF SubCqs
  <2> QED
    BY <1>5, <2>1, CqSizes DEF SubCqs
<1>8. c.q \in Wqs
  BY <1>4 DEF Cqe
<1>9. TypeOK'
  <2>1. cur' \in SubCqs \X CqeSlots
    BY <1>2, <1>3, <1>5
  <2> QED
    BY <1>3, <1>5, <1>7, <1>8, <2>1 DEF CqInv, TypeOK, Calls
<1>10. HandOk'
  <2>1. cur'[1] = s /\ cur'[2] = CqeSlot(consumed[s])
    BY <1>5
  <2> QED
    BY <1>3, <1>4, <1>5, <1>6, <2>1 DEF HandOk, HandFacts, Live, Differ
<1>11. CallOk'
  BY <1>5, <1>6 DEF CqInv, CallOk, Scanning
<1>12. \A o \in Wqs : Outstanding(o)' = Outstanding(o)
  <2>1. ThreeParts'
    BY OutstandingParts, PTL
  <2>2. \A o \in Wqs : \A e : ~IsHeld(o, e) /\ (IsHeld(o, e)' <=> (o = c.q /\ e = Strip(c)))
    BY <1>5, <1>6 DEF IsHeld, Strip
  <2>3. \A o \in Wqs : \A e : e \in Outstanding(o)' <=> e \in Outstanding(o)
    BY <1>4, <1>5, <2>1, <2>2, OutstandingParts DEF ThreeParts
  <2> QED
    BY <2>3
<1>13. PoolsOk'
  BY <1>5, <1>12 DEF CqInv, PoolsOk, Live
<1> QED
  BY <1>4, <1>9, <1>10, <1>11, <1>13 DEF CqInv

LEMMA ScanOrphanKeeps ==
  ASSUME SessionsDrain, CqInv, ScanOrphan, UNCHANGED app PROVE CqInv'
<1>1. PICK s, c : s = nextPoll /\ c = Entry(s, 0)
  OBVIOUS
<1>2. s \in SubCqs /\ Pending(s) /\ Consume(s) /\ UNCHANGED <<app, qpVars, devVars>>
  BY <1>1 DEF ScanOrphan, CqInv, TypeOK
<1>3. /\ Entry(s, 0) = ring[s][CqeSlot(consumed[s])]
      /\ CqeSlot(consumed[s]) \in CqeSlots
      /\ consumed' \in [SubCqs -> 0 .. U16 - 1] /\ phase' \in [SubCqs -> Phases]
  <2>1. UNCHANGED <<ring, prod>>
    BY <1>2 DEF devVars
  <2> QED
    BY <1>2, <2>1, Taken
<1>4. /\ EntriesOk' /\ WorkingOk' /\ PhasesOk' /\ RefsOk' /\ NoOrphans'
      /\ app.drains => Live(c.q)
      /\ \A o \in Wqs : \A e :
           InSubCq(o, e) <=> (InSubCq(o, e)' \/ (o = c.q /\ e = Strip(c)))
  BY <1>1, <1>2, ConsumeKeeps
<1>5. /\ call \in Scanning /\ call' = IF call = "next" THEN "failed" ELSE "none"
      /\ cur' = <<s, CqeSlot(consumed[s])>> /\ ~Live(c.q)
      /\ nextPoll' = (nextPoll + 1) % NumSubCqs /\ UNCHANGED <<wq, scanned, got, curWq>>
      /\ UNCHANGED <<app, table, refCnt, working, ring, prod, prodPhase>>
  BY <1>1, <1>2, <1>3 DEF ScanOrphan, RoundRobin, qpVars, devVars
<1>6. call # "next"
  <2>1. app \in Apps
    BY DEF CqInv, TypeOK
  <2> QED
    BY <1>4, <1>5, <2>1 DEF CqInv, CallOk, SessionsDrain
<1>7. ~InUse /\ ~InUse' /\ call' = "none"
  BY <1>5, <1>6 DEF InUse, Scanning
<1>8. nextPoll' \in SubCqs
  <2>1. nextPoll \in 0 .. NumSubCqs - 1
    BY <1>1, <1>2 DEF SubCqs
  <2> QED
    BY <1>5, <2>1, CqSizes DEF SubCqs
<1>9. TypeOK'
  <2>1. cur' \in SubCqs \X CqeSlots
    BY <1>2, <1>3, <1>5
  <2> QED
    BY <1>3, <1>5, <1>7, <1>8, <2>1 DEF CqInv, TypeOK, Calls
<1>10. HandOk' /\ CallOk'
  BY <1>7 DEF HandOk, CallOk
<1>11. \A o \in Wqs : Live(o) => Outstanding(o)' = Outstanding(o)
  <2>1. ThreeParts'
    BY OutstandingParts, PTL
  <2>2. \A o \in Wqs : \A e : ~IsHeld(o, e) /\ ~IsHeld(o, e)'
    BY <1>7 DEF IsHeld
  <2>3. \A o \in Wqs : Live(o) => \A e : e \in Outstanding(o)' <=> e \in Outstanding(o)
    BY <1>4, <1>5, <2>1, <2>2, OutstandingParts DEF ThreeParts
  <2> QED
    BY <2>3
<1>12. PoolsOk'
  BY <1>5, <1>11 DEF CqInv, PoolsOk, Live
<1> QED
  BY <1>4, <1>9, <1>10, <1>12 DEF CqInv

----------------------------------------------------------------------------
(* A QP goes away.                                                            *)
LEMMA DestroyQpKeeps ==
  ASSUME CqInv, NEW p \in Qps, DestroyQp(p), UNCHANGED app
  PROVE  CqInv'
<1>1. PICK gone : gone = {q \in Wqs : QpOf[q] = p}
  OBVIOUS
<1>2. /\ call = "none" /\ table[p] /\ table' = [table EXCEPT ![p] = FALSE]
      /\ app.drains => \A q \in gone : Outstanding(q) = {}
      /\ refCnt' = [s \in SubCqs |-> refCnt[s] - Cardinality({q \in gone : SubCqOf[q] = s})]
      /\ working' = [q \in Wqs |-> IF q \in gone THEN {} ELSE working[q]]
      /\ UNCHANGED <<app, wq, ring, prod, prodPhase, consumed, phase, nextPoll, call,
                     scanned, got, cur, curWq>>
  BY <1>1 DEF DestroyQp, cqVars, callVars, curVars
<1>3. /\ table \in [Qps -> BOOLEAN] /\ QpOf \in [Wqs -> Qps] /\ IsFiniteSet(Wqs)
      /\ working \in [Wqs -> SUBSET Request] /\ table' \in [Qps -> BOOLEAN]
  BY <1>2, CqSizes DEF CqInv, TypeOK
<1>4. /\ \A q \in Wqs : Live(q)' <=> Live(q) /\ q \notin gone
      /\ \A q \in gone : q \in Wqs /\ Live(q)
  BY <1>1, <1>2, <1>3 DEF Live
<1>5. /\ \A q \in Wqs : working'[q] = IF q \in gone THEN {} ELSE working[q]
      /\ working' \in [Wqs -> SUBSET Request]
  BY <1>2, <1>3
<1>6. ~InUse /\ ~InUse'
  BY <1>2 DEF InUse
<1>7. RefsOk' /\ \A s \in SubCqs : refCnt'[s] \in 0 .. Cardinality(Wqs)
  <2> SUFFICES ASSUME NEW s \in SubCqs
               PROVE  /\ refCnt'[s] = Cardinality({q \in Wqs : SubCqOf[q] = s /\ Live(q)'})
                      /\ refCnt'[s] \in 0 .. Cardinality(Wqs)
    BY <1>2 DEF RefsOk
  <2>1. PICK A, B, C : /\ A = {q \in Wqs : SubCqOf[q] = s /\ Live(q)}
                       /\ B = {q \in gone : SubCqOf[q] = s}
                       /\ C = {q \in Wqs : SubCqOf[q] = s /\ Live(q)'}
    OBVIOUS
  <2>2. C = A \ B /\ A \cap B = B /\ A \subseteq Wqs /\ C \subseteq Wqs
    BY <1>4, <2>1
  <2>3. IsFiniteSet(A)
    BY <1>3, <2>2, FS_Subset
  <2>4. Cardinality(C) = Cardinality(A) - Cardinality(B)
    <3>1. Cardinality(A \ B) = Cardinality(A) - Cardinality(A \cap B)
      BY <2>3, FS_Difference
    <3> QED
      BY <2>2, <3>1
  <2>5. refCnt[s] = Cardinality(A) /\ refCnt'[s] = refCnt[s] - Cardinality(B)
    BY <1>2, <2>1 DEF CqInv, RefsOk
  <2>6. Cardinality(C) \in 0 .. Cardinality(Wqs)
    BY <1>3, <2>2, FS_Subset, FS_CardinalityType
  <2> QED
    BY <2>1, <2>4, <2>5, <2>6
<1>8. TypeOK'
  <2>1. refCnt' \in [SubCqs -> 0 .. Cardinality(Wqs)]
    BY <1>2, <1>7
  <2> QED
    BY <1>2, <1>3, <1>5, <2>1 DEF CqInv, TypeOK
<1>9. EntriesOk'
  BY <1>2, EntriesStay DEF CqInv, EntriesOk
<1>10. PhasesOk'
  BY <1>2, EntriesStay DEF CqInv, PhasesOk, PhaseDue
<1>11. WorkingOk'
  BY <1>2, <1>4, <1>5, EntriesStay DEF CqInv, WorkingOk
<1>12. NoOrphans'
  <2> SUFFICES ASSUME app.drains, NEW s \in SubCqs, NEW k \in Unread(s)
               PROVE  Live(Entry(s, k).q)'
    BY <1>2, EntriesStay DEF NoOrphans, Live
  <2>1. PICK q \in Wqs : q = Entry(s, k).q /\ SubCqOf[q] = s
    BY DEF CqInv, EntriesOk, Cqe
  <2>2. Live(q)
    BY <2>1 DEF CqInv, NoOrphans
  <2>3. InSubCq(q, Strip(Entry(s, k)))
    BY <2>1 DEF InSubCq
  <2>4. Outstanding(q) # {}
    BY <2>3, OutstandingParts DEF ThreeParts
  <2>5. Live(q)'
    BY <1>2, <1>4, <2>2, <2>4
  <2> QED
    BY <1>2, <2>1, <2>5, EntriesStay DEF Live
<1>13. HandOk' /\ CallOk'
  BY <1>2, <1>6 DEF CqInv, HandOk, CallOk
<1>14. \A q \in Wqs : Live(q)' => Outstanding(q)' = Outstanding(q)
  <2>1. \A q \in Wqs : Live(q)' => \A d : d \in Outstanding(q)' <=> d \in Outstanding(q)
    BY <1>2, <1>4, <1>5, <1>6, OutstandingThen, OutstandingParts DEF ThreeParts, IsHeld
  <2> QED
    BY <2>1
<1>15. PoolsOk'
  BY <1>2, <1>4, <1>14 DEF CqInv, PoolsOk
<1> QED
  BY <1>7, <1>8, <1>9, <1>10, <1>11, <1>12, <1>13, <1>15 DEF CqInv

----------------------------------------------------------------------------
LEMMA NextCqInv == ASSUME SessionsDrain, CqInv, [Next]_vars PROVE CqInv'
<1>1. CASE UNCHANGED vars
  <2>1. UNCHANGED <<app, wq, qpVars, devVars, consumed, phase>> /\ CurCqe' = CurCqe
    BY <1>1 DEF vars, qpVars, devVars, CurCqe
  <2>2. UNCHANGED <<app, wq, table, refCnt, working, ring, prod, prodPhase, consumed, phase,
                    nextPoll, call, scanned, got, cur, curWq>>
    BY <1>1 DEF vars
  <2>3. TypeOK'
    BY <2>2 DEF CqInv, TypeOK
  <2>4. EntriesOk' /\ WorkingOk' /\ NoOrphans' /\ PhasesOk' /\ RefsOk' /\ CallOk'
    BY <2>2, EntriesStay DEF CqInv, EntriesOk, WorkingOk, NoOrphans, PhasesOk, PhaseDue,
                             RefsOk, CallOk, StillToCome, Live
  <2>5. HandOk'
    BY <2>1, <2>2, EntriesStay DEF CqInv, HandOk, HandFacts, InUse, Live
  <2>6. PoolsOk'
    <3>1. \A q \in Wqs : \A d : d \in Outstanding(q)' <=> d \in Outstanding(q)
      BY <2>1, <2>2, OutstandingThen, OutstandingParts DEF ThreeParts, IsHeld, InUse
    <3>2. \A q \in Wqs : Outstanding(q)' = Outstanding(q)
      BY <3>1
    <3> QED
      BY <2>2, <3>2 DEF CqInv, PoolsOk, Live
  <2> QED
    BY <2>3, <2>4, <2>5, <2>6 DEF CqInv
<1>2. CASE Next
  <2>1. UNCHANGED app
    BY <1>2 DEF Next
  <2>2. ASSUME NEW q \in Wqs, NEW id \in WrIds, Post(q, id) PROVE CqInv'
    BY <2>1, <2>2, PostKeeps
  <2>3. ASSUME NEW q \in Wqs, NEW d \in working[q], DevComplete(q, d) PROVE CqInv'
    BY <2>1, <2>3, DevCompleteKeeps
  <2>4. CASE PollCq
    BY <2>1, <2>4, PollCqKeeps
  <2>5. CASE StartPoll
    BY <2>1, <2>5, StartPollKeeps
  <2>6. CASE ScanNothing
    BY <2>1, <2>6, ScanNothingKeeps
  <2>7. CASE ScanFound
    BY <2>1, <2>7, ScanFoundKeeps
  <2>8. CASE ScanOrphan
    BY <2>1, <2>8, ScanOrphanKeeps
  <2>9. CASE ScanEnd
    BY <2>1, <2>9, ScanEndKeeps
  <2>10. CASE PutPolled
    BY <2>1, <2>10, PutPolledKeeps
  <2>11. CASE NextPoll
    BY <2>1, <2>11, NextPollKeeps
  <2>12. CASE EndPoll
    BY <2>1, <2>12, EndPollKeeps
  <2>13. ASSUME NEW p \in Qps, DestroyQp(p) PROVE CqInv'
    BY <2>1, <2>13, DestroyQpKeeps
  <2> QED
    BY <1>2, <2>2, <2>3, <2>4, <2>5, <2>6, <2>7, <2>8, <2>9, <2>10, <2>11, <2>12, <2>13
       DEF Next, Step
<1> QED
  BY <1>1, <1>2

(* Where every application that polls in sessions drains a QP before it       *)
(* destroys it: entries, pools, phases and the completion in hand fit one     *)
(* another in every state.                                                    *)
THEOREM CompletionCorrect == ASSUME SessionsDrain PROVE Spec => []CqInv
<1>1. CqInv /\ [Next]_vars => CqInv'
  BY NextCqInv
<1> QED
  BY <1>1, InitCqInv, PTL DEF Spec

(* The types.                                                                 *)
THEOREM CompletionTyped == ASSUME SessionsDrain PROVE Spec => []TypeOK
<1>1. CqInv => TypeOK
  BY DEF CqInv
<1> QED
  BY <1>1, CompletionCorrect, PTL

(* The index of a request goes back once, and not before its completion has   *)
(* been read, whichever call of efa_poll_cq or of a session returns it.       *)
THEOREM IndexesReturned == ASSUME SessionsDrain PROVE Spec => []IndexReturnedOnce
<1>1. CqInv => IndexReturnedOnce
  <2> SUFFICES ASSUME CqInv, NEW q \in Wqs, Live(q)
               PROVE  /\ wq[q].next = Cardinality({d.req_id : d \in Outstanding(q)})
                      /\ \A i \in Idx : i >= wq[q].next =>
                           wq[q].pool[i] \notin {d.req_id : d \in Outstanding(q)}
    BY DEF IndexReturnedOnce
  <2>1. PoolServes(wq[q], Outstanding(q))
    BY DEF CqInv, PoolsOk
  <2>2. PICK w, reqs : w = wq[q] /\ reqs = Outstanding(q) /\ w.next \in Nat
    BY <2>1, WqFields DEF PoolServes
  <2>3. w.next = Cardinality({d.req_id : d \in reqs})
    BY <2>1, <2>2, ServesCounts
  <2>4. \A i \in Idx : i >= w.next => i \in FreeOf(w)
    BY <2>2, CqSizes DEF Idx, FreeOf
  <2>5. \A d \in reqs : d.req_id \in Idx
    BY <2>1, <2>2 DEF PoolServes, Request
  <2>6. \A i \in FreeOf(w), d \in reqs : w.pool[i] # d.req_id
    BY <2>1, <2>2, <2>5 DEF PoolServes
  <2> QED
    BY <2>2, <2>3, <2>4, <2>6
<1> QED
  BY <1>1, CompletionCorrect, PTL

(* A completion is reported with the wr_id its request was posted with.       *)
THEOREM WridsAwait == ASSUME SessionsDrain PROVE Spec => []WridAwaitsCompletion
<1>1. CqInv => WridAwaitsCompletion
  BY DEF CqInv, PoolsOk, PoolServes, WridAwaitsCompletion
<1> QED
  BY <1>1, CompletionCorrect, PTL

(* The phase of the entry at consumed_cnt tells new from old.                 *)
THEOREM PhasesShow == ASSUME SessionsDrain PROVE Spec => []PhaseShowsPending
<1>1. CqInv => PhaseShowsPending
  <2> SUFFICES ASSUME CqInv, NEW s \in SubCqs
               PROVE  Pending(s) <=> prod[s] # consumed[s]
    BY DEF PhaseShowsPending
  <2>1. Pending(s) <=> Span(s) > 0
    BY PendingMeans DEF CqInv
  <2>2. PICK x \in 0 .. U16 - 1, y \in 0 .. U16 - 1, n \in 0 .. U16 - 1 :
           x = consumed[s] /\ y = prod[s] /\ n = Span(s) /\ n = WrapSub(y, x, U16)
    BY Typed DEF CqInv, Span
  <2>3. n = 0 <=> x = y
    BY <2>2, CqSizes DEF WrapSub
  <2> QED
    BY <2>1, <2>2, <2>3
<1> QED
  BY <1>1, CompletionCorrect, PTL
=============================================================================
