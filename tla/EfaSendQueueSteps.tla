-------------------------- MODULE EfaSendQueueSteps --------------------------
(* What the steps of EfaSendQueue may do, for every value of the constants:   *)
(* one doorbell announces at most a batch, the phase bit of a slot turns over *)
(* each time the slot is written anew, a session is all or nothing, and the   *)
(* queue implements the index pool and the abstract work queue.               *)
EXTENDS EfaSendQueueProofs

----------------------------------------------------------------------------
(* A doorbell that leaves nothing owed announces what was owed and what this  *)
(* step has added.                                                            *)
LEMMA RungOfABatch ==
  ASSUME SqInv, SqInv', UNCHANGED devPc, curbatch' = 0,
         NEW n \in Nat, Waiting' = Waiting + n, curbatch + n <= MaxBatchWr
  PROVE  WrapSub(db', db, U16) <= MaxBatchWr
<1>1. /\ db \in 0 .. U16 - 1 /\ devPc \in 0 .. U16 - 1 /\ curbatch \in Nat
      /\ WrapSub(db, devPc, U16) + curbatch = Waiting
  BY Typed, SqSizes DEF SqInv, DoorbellFits
<1>2. /\ db' \in 0 .. U16 - 1 /\ WrapSub(db', devPc, U16) = Waiting + n
  <2>1. db' \in 0 .. U16 - 1
    BY DEF SqInv, TypeOK
  <2>2. WrapSub(db', devPc', U16) + curbatch' = Waiting'
    BY DEF SqInv, DoorbellFits
  <2>3. WrapSub(db', devPc, U16) \in Nat
    BY <1>1, <2>1, Distance
  <2> QED
    BY <2>1, <2>2, <2>3
<1>3. PICK a \in Nat, w \in Nat : a = WrapSub(db, devPc, U16) /\ w = Waiting
  BY <1>1, Distance, Window DEF SqInv
<1>4. a + curbatch = w /\ MaxBatchWr \in Nat
  BY <1>1, <1>3, SqSizes
<1>5. WrapSub(db', db, U16) = w + n - a
  BY <1>1, <1>2, <1>3, <1>4, Between
<1> QED
  BY <1>1, <1>3, <1>4, <1>5

(* One doorbell announces no more than the device takes in one batch, in      *)
(* either way of posting.                                                     *)
THEOREM DoorbellsBatched ==
  ASSUME DrainedReset
  PROVE  Spec => DoorbellBatch
<1>1. ASSUME SqInv, [Next]_vars, state' = state, db' # db
      PROVE  WrapSub(db', db, U16) <= MaxBatchWr
  <2>1. SqInv'
    BY <1>1, NextKeeps
  <2>2. ASSUME NEW t \in Threads, NEW id \in WrIds, PostSendWr(t, id)
        PROVE  WrapSub(db', db, U16) <= MaxBatchWr
    <3>1. RingWhenFull(1, pos'.pc) /\ Waiting' = Waiting + 1 /\ devPc' = devPc
      BY <1>1, <2>2, PostSendWrParts DEF PostSendWr, deviceVars
    <3>2. curbatch' = 0 /\ curbatch + 1 <= MaxBatchWr
      BY <1>1, <3>1, SqSizes DEF RingWhenFull
    <3> QED
      BY <1>1, <2>1, <3>1, <3>2, RungOfABatch
  <2>3. ASSUME NEW t \in SessionThreads, CopyChunk(t)
        PROVE  WrapSub(db', db, U16) <= MaxBatchWr
    <3>1. PICK c, n, m : c = Chunk /\ n = Waiting /\ m = Unpublished
      OBVIOUS
    <3>2. c \in Nat /\ Waiting' = Waiting + c
      BY <1>1, <2>3, <3>1, CopyChunkParts
    <3>3. /\ RingWhenFull(c, WrapSub(pos.pc, pending', U16)) /\ devPc' = devPc
      BY <2>3, <3>1 DEF CopyChunk, deviceVars
    <3>4. curbatch' = 0 /\ curbatch + c <= MaxBatchWr
      BY <1>1, <3>3, SqSizes DEF RingWhenFull
    <3> QED
      BY <1>1, <2>1, <3>2, <3>3, <3>4, RungOfABatch
  <2>4. ASSUME NEW t \in Callers,
               \/ t \in Threads /\ PostSendDone(t)
               \/ t \in SessionThreads /\ WrCompleteDone(t)
        PROVE  WrapSub(db', db, U16) <= MaxBatchWr
    <3>1. /\ RingRest /\ curbatch' = 0 /\ UNCHANGED <<wqVars, devPc>>
          /\ at[t] = "post_send" \/ (at[t] = "copying" /\ pending = 0)
          /\ lock' = NoThread
      BY <2>4 DEF PostSendDone, WrCompleteDone, UnlockTo, deviceVars
    <3>2. Unpublished = 0 /\ Unpublished' = 0
      BY <1>1, <3>1, WhoHolds DEF SqInv, Unpublished, InSession
    <3>3. Waiting' = Waiting /\ devPc' = devPc
      BY <1>1, <3>1, <3>2, RingsTheRest DEF Waiting
    <3>4. 0 \in Nat /\ curbatch + 0 <= MaxBatchWr /\ Waiting' = Waiting + 0
      BY <1>1, <3>3, Typed, Window, SqSizes DEF SqInv, DoorbellFits
    <3> QED
      BY <1>1, <2>1, <3>1, <3>3, <3>4, RungOfABatch
  <2>5. ASSUME NEW t \in Threads, PosterNext(t)
        PROVE  WrapSub(db', db, U16) <= MaxBatchWr
    BY <1>1, <2>2, <2>4, <2>5 DEF PosterNext, PostSend, ringVars, Callers
  <2>6. ASSUME NEW t \in SessionThreads, SessionNext(t)
        PROVE  WrapSub(db', db, U16) <= MaxBatchWr
    BY <1>1, <2>3, <2>4, <2>6
       DEF SessionNext, WrStart, SessionError, WrAbort, WrCompleteErr, WrComplete,
           WrReturn, SendWr, ringVars, Callers
  <2>7. ~ModifyReset
    BY <1>1 DEF ModifyReset
  <2>8. ~DevFetch /\ ~PollCqe /\ ~PutCur /\ ~ModifyRts
    BY <1>1 DEF DevFetch, PollCqe, PutCur, ModifyRts, ringVars
  <2>9. \A d \in working : ~DevComplete(d)
    BY <1>1 DEF DevComplete, ringVars
  <2>10. ~UNCHANGED vars
    BY <1>1 DEF vars
  <2> QED
    BY <1>1, <2>5, <2>6, <2>7, <2>8, <2>9, <2>10 DEF Next
<1>2. SqInv /\ [Next]_vars =>
        [state' = state /\ db' # db => WrapSub(db', db, U16) <= MaxBatchWr]_vars
  BY <1>1
<1> QED
  BY <1>2, SendQueueCorrect, PTL DEF Spec, DoorbellBatch

----------------------------------------------------------------------------
(* The phase a descriptor carries if it is written where the ring ends now.   *)
PubPhase ==
  IF Slot(Published) + Unpublished < DescCnt THEN pos.phase ELSE 1 - pos.phase

(* The slots behind that place were written in this lap, the others in the    *)
(* last one, if ever. The requests of a session carry the phase of the lap    *)
(* they will be written in; phase_rb is the phase the session began with.     *)
PhaseFits ==
  /\ \A s \in Slots :
       ring[s] # NoDesc =>
         ring[s].phase = IF s < Slot(Published) THEN PubPhase ELSE 1 - PubPhase
  /\ \A k \in 1 .. Unpublished :
       Left(k).phase = IF Slot(Published) + k - 1 < DescCnt THEN PubPhase
                                                           ELSE 1 - PubPhase
  /\ \A t \in Callers : at[t] = "session" => phaseRb = PubPhase

(* Where the ring ends, and where it will when the session is copied.         *)
LEMMA Ends ==
  ASSUME SqInv, NEW b, b = Slot(Published), NEW m, m = Unpublished
  PROVE  /\ b \in 0 .. DescCnt - 1 /\ m \in 0 .. DescCnt /\ DescCnt \in Nat \ {0}
         /\ Slot(pos.pc) = IF b + m < DescCnt THEN b + m ELSE b + m - DescCnt
         /\ pos.phase \in {0, 1} /\ PubPhase \in {0, 1}
         /\ PubPhase = IF b + m < DescCnt THEN pos.phase ELSE 1 - pos.phase
<1>1. /\ Published \in 0 .. U16 - 1 /\ m \in 0 .. DescCnt /\ pos.pc \in 0 .. U16 - 1
      /\ pos.phase \in {0, 1} /\ DescCnt \in Nat \ {0} /\ DescCnt < U16
      /\ U16 \in Nat
  BY Typed, Window, SqSizes DEF SqInv, Phases
<1>2. b \in 0 .. DescCnt - 1
  BY <1>1, SlotInRing DEF Slots
<1>3. Ahead(Published, m) = pos.pc
  <2>1. m \in 0 .. U16 - 1
    BY <1>1
  <2> QED
    BY <1>1, <2>1, ThereAgain DEF Published
<1>4. Slot(pos.pc) = IF b + m < DescCnt THEN b + m ELSE b + m - DescCnt
  BY <1>1, <1>3, SlotAfter
<1>5. PubPhase = IF b + m < DescCnt THEN pos.phase ELSE 1 - pos.phase
  BY DEF PubPhase
<1> QED
  BY <1>1, <1>2, <1>4, <1>5

(* The position one request on.                                               *)
LEMMA NextEnd ==
  ASSUME SqInv, pos' = AdvancePos(pos)
  PROVE  /\ Slot(pos'.pc) = IF Slot(pos.pc) + 1 = DescCnt THEN 0
                            ELSE Slot(pos.pc) + 1
         /\ pos'.phase = IF Slot(pos.pc) + 1 = DescCnt THEN 1 - pos.phase
                         ELSE pos.phase
<1>1. pos.pc \in 0 .. U16 - 1 /\ DescCnt \in Nat \ {0} /\ U16 \in Nat
  BY Typed, SqSizes DEF SqInv
<1>2. Slot(pos.pc) \in 0 .. DescCnt - 1
  BY <1>1, SlotInRing DEF Slots
<1>3. pos'.pc = WrapInc(pos.pc, U16)
  BY DEF AdvancePos
<1>4. Slot(pos'.pc) = WrapInc(Slot(pos.pc), DescCnt)
  BY <1>1, <1>3, SlotOfNext
<1>5. pos'.phase = IF Slot(pos'.pc) = 0 THEN 1 - pos.phase ELSE pos.phase
  BY DEF AdvancePos
<1> QED
  BY <1>1, <1>2, <1>4, <1>5 DEF WrapInc

(* One request of efa_post_send: it is written where the ring ends.           *)
LEMMA PostSendWrPhase ==
  ASSUME SqInv, SqInv', PhaseFits, NEW t \in Threads, NEW id \in WrIds,
         PostSendWr(t, id)
  PROVE  /\ PhaseFits'
         /\ \A s \in Slots : ring'[s] # ring[s] /\ ring[s] # NoDesc =>
                               ring'[s].phase # ring[s].phase
<1>1. /\ Unpublished = 0 /\ Unpublished' = 0 /\ ~InSession /\ ~InSession'
      /\ pos' = AdvancePos(pos) /\ SqInv
      /\ ring' = [ring EXCEPT ![Slot(pos.pc)] = NewDesc(id)]
  BY PostSendWrParts DEF PostSendWr
<1>2. /\ Published = pos.pc /\ Published' = pos'.pc
  BY <1>1, Window, SqSizes DEF SqInv, Published, TypeOK, PosType, WrapSub
<1>3. PICK b : b = Slot(pos.pc)
  OBVIOUS
<1>4. /\ b \in 0 .. DescCnt - 1 /\ DescCnt \in Nat \ {0} /\ pos.phase \in {0, 1}
      /\ PubPhase = pos.phase
  BY <1>1, <1>2, <1>3, Ends
<1>5. /\ Slot(pos'.pc) = IF b + 1 = DescCnt THEN 0 ELSE b + 1
      /\ pos'.phase = IF b + 1 = DescCnt THEN 1 - pos.phase ELSE pos.phase
  BY <1>1, <1>3, NextEnd
<1>6. PubPhase' = pos'.phase
  BY <1>1, <1>2, <1>4, <1>5 DEF PubPhase
<1>7. /\ ring'[b] = NewDesc(id) /\ NewDesc(id).phase = pos.phase
      /\ \A s \in Slots : s # b => ring'[s] = ring[s]
  BY <1>1, <1>3, <1>4 DEF SqInv, TypeOK, NewDesc, Slots
<1>8. \A s \in Slots :
         ring[s] # NoDesc =>
           ring[s].phase = IF s < b THEN pos.phase ELSE 1 - pos.phase
  BY <1>2, <1>3, <1>4 DEF PhaseFits
<1>9. ASSUME NEW s \in Slots, ring'[s] # NoDesc
      PROVE  ring'[s].phase = IF s < Slot(pos'.pc) THEN pos'.phase
                              ELSE 1 - pos'.phase
  <2>1. ring'[s].phase = IF s < b + 1 THEN pos.phase ELSE 1 - pos.phase
    BY <1>4, <1>7, <1>8, <1>9 DEF Slots
  <2> QED
    BY <1>4, <1>5, <2>1 DEF Slots
<1>10. \A u \in Callers : at'[u] # "session"
  BY <1>1, WhoHolds, SqSizes DEF PostSendWr, SqInv
<1>11. PhaseFits'
  BY <1>1, <1>2, <1>6, <1>9, <1>10 DEF PhaseFits
<1>12. \A s \in Slots : ring'[s] # ring[s] /\ ring[s] # NoDesc =>
                         ring'[s].phase # ring[s].phase
  BY <1>4, <1>7, <1>8 DEF Slots
<1> QED
  BY <1>11, <1>12

EndIsAhead == Ahead(devPc, Waiting) = Published
LEMMA EndAhead == TypeOK /\ WindowFits => EndIsAhead
  BY Window DEF EndIsAhead

(* One request of a session: it will be written where the session ends.       *)
LEMMA SendWrPhase ==
  ASSUME SqInv, SqInv', PhaseFits, NEW t \in SessionThreads, NEW id \in WrIds,
         SendWr(t, id)
  PROVE  PhaseFits'
<1>1. /\ InSession /\ InSession' /\ pos' = AdvancePos(pos) /\ ~Full(wq)
      /\ Unpublished' = Unpublished + 1 /\ Waiting' = Waiting
      /\ UNCHANGED <<ring, at, phaseRb, devPc>>
  BY SendWrParts DEF SendWr, Accepts, ringVars, deviceVars
<1>2. PICK b, m : b = Slot(Published) /\ m = Unpublished
  OBVIOUS
<1>3. /\ b \in 0 .. DescCnt - 1 /\ m \in 0 .. DescCnt /\ DescCnt \in Nat \ {0}
      /\ Slot(pos.pc) = IF b + m < DescCnt THEN b + m ELSE b + m - DescCnt
      /\ pos.phase \in {0, 1} /\ PubPhase \in {0, 1}
      /\ PubPhase = IF b + m < DescCnt THEN pos.phase ELSE 1 - pos.phase
  BY <1>2, Ends
<1>4. m < DescCnt
  BY <1>1, <1>2, <1>3, RoomLeft, Window DEF SqInv
<1>5. /\ pos'.phase = IF Slot(pos.pc) + 1 = DescCnt THEN 1 - pos.phase
                      ELSE pos.phase
  BY <1>1, NextEnd
<1>6. Published' = Published
  <2>1. Published \in 0 .. U16 - 1 /\ devPc \in 0 .. U16 - 1
        /\ Ahead(devPc, Waiting) = Published
    BY Window, Typed DEF SqInv
  <2>2. EndIsAhead'
    BY EndAhead, PTL DEF SqInv
  <2> QED
    BY <1>1, <2>1, <2>2 DEF EndIsAhead
<1>7. PubPhase' = PubPhase
  <2>1. PubPhase' = IF b + (m + 1) < DescCnt THEN pos'.phase ELSE 1 - pos'.phase
    BY <1>1, <1>2, <1>6 DEF PubPhase
  <2> QED
    BY <1>3, <1>4, <1>5, <2>1
<1>8. NewDesc(id).phase = pos.phase
  BY DEF NewDesc
<1>9. ASSUME NEW k \in 1 .. m + 1
      PROVE  Left(k)'.phase = IF b + k - 1 < DescCnt THEN PubPhase ELSE 1 - PubPhase
  <2>1. CASE k \in 1 .. m
    BY <1>2, <2>1, SendWrParts DEF PhaseFits
  <2>2. CASE k = m + 1
    <3>1. Left(m + 1)' = NewDesc(id)
      BY <1>2, SendWrParts
    <3>2. b + k - 1 = b + m
      BY <1>3, <2>2
    <3> QED
      BY <1>3, <1>8, <2>2, <3>1, <3>2
  <2> QED
    BY <1>3, <2>1, <2>2
<1> QED
  BY <1>1, <1>2, <1>6, <1>7, <1>9 DEF PhaseFits

(* One chunk: the ring's end moves over the slots it fills.                   *)
LEMMA CopyChunkPhase ==
  ASSUME SqInv, SqInv', PhaseFits, NEW t \in SessionThreads, CopyChunk(t)
  PROVE  /\ PhaseFits'
         /\ \A s \in Slots : ring'[s] # ring[s] /\ ring[s] # NoDesc =>
                               ring'[s].phase # ring[s].phase
<1>1. PICK c, n, m, b : /\ c = Chunk /\ n = Waiting /\ m = Unpublished
                        /\ b = Slot(Published)
  OBVIOUS
<1>2. /\ InSession /\ InSession' /\ c \in Nat /\ 1 <= c /\ c <= m
      /\ m \in 0 .. WqeCnt /\ Unpublished' = m - c
      /\ \A k \in 1 .. m - c : Left(k)' = Left(k + c)
  BY <1>1, CopyChunkParts
<1>3. /\ at[t] = "copying" /\ pending > 0 /\ pos' = pos /\ at' = at
      /\ lock' = lock /\ pending = m /\ t \in Callers /\ lock = t
      /\ ring' = [s \in Slots |->
                    IF s \in b .. b + c - 1
                    THEN localQueue[Len(localQueue) - m + (s - b) + 1]
                    ELSE ring[s]]
  <2>1. at[t] = "copying" /\ t \in Callers
    BY DEF CopyChunk, LocalIdx, Callers
  <2>2. lock = t /\ Unpublished = pending
    BY <2>1, WhoHolds DEF SqInv
  <2> QED
    BY <1>1, <2>1, <2>2 DEF CopyChunk, LocalIdx, Published, wqVars
<1>4. /\ b \in 0 .. DescCnt - 1 /\ m \in 0 .. DescCnt /\ DescCnt \in Nat \ {0}
      /\ pos.phase \in {0, 1} /\ PubPhase \in {0, 1}
      /\ PubPhase = IF b + m < DescCnt THEN pos.phase ELSE 1 - pos.phase
  BY <1>1, Ends
<1>5. b + c <= DescCnt
  BY <1>1, <1>2, <1>3, ChunkFits
<1>6. Slot(Published') = IF b + c < DescCnt THEN b + c ELSE b + c - DescCnt
  <2>1. /\ Published \in 0 .. U16 - 1 /\ pos.pc \in 0 .. U16 - 1
        /\ DescCnt < U16 /\ U16 \in Nat
    BY Window, Typed, SqSizes DEF SqInv
  <2>2. Published' = WrapSub(pos.pc, m - c, U16) /\ Published = WrapSub(pos.pc, m, U16)
    BY <1>1, <1>2, <1>3 DEF Published
  <2>3. Published' = Ahead(Published, c)
    <3>1. PICK r \in 0 .. U16 - 1 : r = m - c /\ m = r + c
      BY <1>2, <1>4, <2>1
    <3>2. c \in 0 .. U16
      BY <1>2, <1>4, <2>1
    <3>3. Ahead(Published, c) = IF Published + c < U16 THEN Published + c
                               ELSE Published + c - U16
      BY <2>1, <3>2, AheadValue
    <3>4. WrapSub(pos.pc, r, U16) = IF Published + c < U16 THEN Published + c
                                   ELSE Published + c - U16
      BY <1>2, <1>4, <2>1, <2>2, <3>1 DEF WrapSub
    <3> QED
      BY <2>2, <3>1, <3>3, <3>4
  <2>4. c \in 0 .. DescCnt
    BY <1>2, <1>4
  <2> QED
    BY <1>1, <2>1, <2>3, <2>4, SlotAfter
<1>7. PICK e : e = Slot(Published')
  OBVIOUS
<1>8. \/ b + c < DescCnt /\ e = b + c /\ PubPhase' = PubPhase
      \/ b + c = DescCnt /\ e = 0 /\ PubPhase' = 1 - PubPhase
  <2>1. PubPhase' = IF e + (m - c) < DescCnt THEN pos.phase ELSE 1 - pos.phase
    BY <1>2, <1>3, <1>7 DEF PubPhase
  <2>2. CASE b + c < DescCnt
    BY <1>2, <1>4, <1>6, <1>7, <2>1, <2>2
  <2>3. CASE b + c = DescCnt
    BY <1>2, <1>4, <1>6, <1>7, <2>1, <2>3
  <2> QED
    BY <1>2, <1>4, <1>5, <2>2, <2>3
<1>9. \A k \in 1 .. m :
         Left(k).phase = IF b + k - 1 < DescCnt THEN PubPhase ELSE 1 - PubPhase
  BY <1>1 DEF PhaseFits
<1>10. \A s \in Slots :
          ring[s] # NoDesc =>
            ring[s].phase = IF s < b THEN PubPhase ELSE 1 - PubPhase
  BY <1>1 DEF PhaseFits
<1>11. ASSUME NEW s \in Slots
       PROVE  /\ s \in b .. b + c - 1 => ring'[s].phase = PubPhase
              /\ s \notin b .. b + c - 1 => ring'[s] = ring[s]
  <2>1. CASE s \in b .. b + c - 1
    <3>1. PICK j \in 1 .. m : j = s - b + 1 /\ b + j - 1 < DescCnt
      BY <1>2, <1>4, <1>5, <2>1
    <3>2. PICK len \in Nat : len = Len(localQueue)
      BY Typed DEF SqInv
    <3>3. len - m + (s - b) + 1 = len - m + j
      BY <1>4, <2>1, <3>1, <3>2
    <3>4. ring'[s] = Left(j)
      BY <1>1, <1>3, <2>1, <3>2, <3>3 DEF Left
    <3> QED
      BY <1>9, <2>1, <3>1, <3>4
  <2>2. CASE s \notin b .. b + c - 1
    BY <1>3, <2>2
  <2> QED
    BY <2>1, <2>2
<1>12. ASSUME NEW s \in Slots, ring'[s] # NoDesc
       PROVE  ring'[s].phase = IF s < e THEN PubPhase' ELSE 1 - PubPhase'
  <2>1. ring'[s].phase = IF s < b + c THEN PubPhase ELSE 1 - PubPhase
    BY <1>2, <1>4, <1>10, <1>11, <1>12 DEF Slots
  <2> QED
    BY <1>4, <1>8, <2>1 DEF Slots
<1>13. ASSUME NEW k \in 1 .. m - c
       PROVE  Left(k)'.phase = IF e + k - 1 < DescCnt THEN PubPhase'
                                                     ELSE 1 - PubPhase'
  <2>1. PICK j \in 1 .. m : j = k + c
    BY <1>2, <1>4
  <2>2. Left(k)'.phase = IF b + j - 1 < DescCnt THEN PubPhase ELSE 1 - PubPhase
    BY <1>2, <1>9, <2>1
  <2> QED
    BY <1>2, <1>4, <1>8, <2>1, <2>2
<1>14. \A u \in Callers : at'[u] # "session"
  BY <1>3, SqSizes DEF SqInv, LockFits
<1>15. PhaseFits'
  BY <1>2, <1>7, <1>12, <1>13, <1>14 DEF PhaseFits
<1>16. \A s \in Slots : ring'[s] # ring[s] /\ ring[s] # NoDesc =>
                         ring'[s].phase # ring[s].phase
  BY <1>2, <1>4, <1>10, <1>11 DEF Slots
<1> QED
  BY <1>15, <1>16

(* Steps that leave the ring and the session alone.                           *)
LEMMA PhaseStays ==
  ASSUME PhaseFits, UNCHANGED <<ring, pos, pending, localQueue, phaseRb>>,
         InSession' <=> InSession,
         \A t \in Callers : at'[t] = "session" => at[t] = "session"
  PROVE  PhaseFits'
<1>1. Unpublished' = Unpublished
  BY DEF Unpublished
<1>2. Published' = Published
  BY <1>1 DEF Published
<1>3. PubPhase' = PubPhase
  BY <1>1, <1>2 DEF PubPhase
<1>4. \A k \in 1 .. Unpublished : Left(k)' = Left(k)
  BY <1>1 DEF Left
<1> QED
  BY <1>1, <1>2, <1>3, <1>4 DEF PhaseFits

(* Steps that begin or end a session with nothing to copy, or have none.      *)
LEMMA PhaseBetween ==
  ASSUME SqInv, PhaseFits, UNCHANGED <<ring, pos>>,
         Unpublished = 0, Unpublished' = 0,
         \A t \in Callers : at'[t] = "session" => phaseRb' = pos.phase
  PROVE  PhaseFits'
<1>1. Published' = Published
  BY DEF Published
<1>2. PubPhase' = PubPhase /\ PubPhase = pos.phase
  <2>1. PubPhase' = PubPhase
    BY <1>1 DEF PubPhase
  <2>2. PubPhase = pos.phase
    BY Ends
  <2> QED
    BY <2>1, <2>2
<1> QED
  BY <1>1, <1>2 DEF PhaseFits

(* A session that is taken back leaves the phase it began with.               *)
LEMMA PhaseBack ==
  ASSUME SqInv, PhaseFits, NEW t \in Callers, at[t] = "session", RollBack,
         NEW p, p # "session", UnlockTo(t, p), UNCHANGED ring
  PROVE  PhaseFits'
<1>1. /\ lock' = NoThread /\ at' = [at EXCEPT ![t] = p]
      /\ pos' = RollBackPos(pos, pending, phaseRb)
  BY DEF RollBack, UnlockTo
<1>2. Unpublished = pending /\ lock = t
  BY WhoHolds DEF SqInv
<1>3. pos' = [pc |-> Published, phase |-> PubPhase]
  BY <1>1, <1>2 DEF RollBackPos, Published, PhaseFits
<1>4. Unpublished' = 0
  BY <1>1 DEF Unpublished, InSession
<1>5. Published' = Published
  BY <1>3, <1>4, Window, SqSizes DEF SqInv, Published, WrapSub
<1>6. PubPhase' = PubPhase
  <2>1. Slot(Published) + 0 < DescCnt
    BY Ends
  <2> QED
    BY <1>3, <1>4, <1>5, <2>1 DEF PubPhase
<1>7. \A u \in Callers : at'[u] # "session"
  <2>1. at \in [Callers -> Places] /\ \A u \in Callers : u # t => at[u] # "session"
    BY <1>2 DEF SqInv, TypeOK, LockFits
  <2> QED
    BY <1>1, <2>1
<1> QED
  BY <1>4, <1>5, <1>6, <1>7 DEF PhaseFits

LEMMA PhaseEmptied ==
  ASSUME SqInv, ModifyReset
  PROVE  PhaseFits'
<1>1. /\ lock = NoThread /\ lock' = lock /\ at' = at
      /\ ring' = [s \in Slots |-> NoDesc]
  BY DEF ModifyReset
<1>2. Unpublished' = 0 /\ \A u \in Callers : at'[u] # "session"
  BY <1>1, SqSizes DEF SqInv, LockFits, Unpublished, InSession
<1> QED
  BY <1>1, <1>2 DEF PhaseFits

(* What a slot that is written anew shows.                                    *)
LapTold ==
  \A s \in Slots : (ring[s] # NoDesc /\ ring'[s] \notin {ring[s], NoDesc})
                     => ring'[s].phase # ring[s].phase

LEMMA NextPhase ==
  ASSUME SqInv, SqInv', PhaseFits, [Next]_vars
  PROVE  PhaseFits' /\ LapTold
<1>1. ASSUME UNCHANGED ring PROVE LapTold
  BY <1>1 DEF LapTold
<1>2. at \in [Callers -> Places]
  BY DEF SqInv, TypeOK
<1>3. ASSUME NEW t \in Threads, PosterNext(t) PROVE PhaseFits' /\ LapTold
  <2>1. t \in Callers
    BY DEF Callers
  <2>2. CASE PostSend(t)
    <3>1. /\ lock = NoThread /\ lock' = t /\ at' = [at EXCEPT ![t] = "post_send"]
          /\ UNCHANGED <<ring, pos>>
      BY <2>2 DEF PostSend, ringVars, wqVars
    <3>2. /\ Unpublished = 0 /\ Unpublished' = 0
          /\ \A u \in Callers : at'[u] # "session"
      BY <1>2, <2>1, <3>1, SqSizes DEF SqInv, LockFits, Unpublished, InSession
    <3> QED
      BY <1>1, <3>1, <3>2, PhaseBetween
  <2>3. CASE PostSendDone(t)
    <3>1. /\ at[t] = "post_send" /\ lock' = NoThread
          /\ at' = [at EXCEPT ![t] = "idle"] /\ UNCHANGED <<ring, pos>>
      BY <2>3 DEF PostSendDone, wqVars
    <3>2. /\ Unpublished = 0 /\ Unpublished' = 0
          /\ \A u \in Callers : at'[u] # "session"
      BY <1>2, <2>1, <3>1, SqSizes DEF SqInv, LockFits, Unpublished, InSession
    <3> QED
      BY <1>1, <3>1, <3>2, PhaseBetween
  <2>4. CASE \E id \in WrIds : PostSendWr(t, id)
    BY <2>4, PostSendWrPhase DEF LapTold
  <2> QED
    BY <1>3, <2>2, <2>3, <2>4 DEF PosterNext
<1>4. ASSUME NEW t \in SessionThreads, SessionNext(t) PROVE PhaseFits' /\ LapTold
  <2>1. t \in Callers
    BY DEF Callers
  <2>2. CASE WrStart(t)
    <3>1. /\ lock = NoThread /\ lock' = t /\ at' = [at EXCEPT ![t] = "session"]
          /\ UNCHANGED <<ring, pos>> /\ pending' = 0 /\ phaseRb' = pos.phase
      BY <2>2 DEF WrStart, ringVars, wqVars
    <3>2. Unpublished = 0 /\ Unpublished' = 0
      BY <3>1 DEF Unpublished, InSession
    <3> QED
      BY <1>1, <3>1, <3>2, PhaseBetween
  <2>3. CASE SessionError(t)
    <3>1. UNCHANGED <<ring, pos, pending, localQueue, phaseRb, lock, at>>
      BY <2>3 DEF SessionError, ringVars, wqVars
    <3> QED
      BY <1>1, <3>1, PhaseStays DEF InSession
  <2>4. CASE WrAbort(t)
    BY <1>1, <2>1, <2>4, PhaseBack DEF WrAbort, ringVars
  <2>5. CASE WrCompleteErr(t)
    BY <1>1, <2>1, <2>5, PhaseBack DEF WrCompleteErr, ringVars
  <2>6. CASE WrComplete(t)
    <3>1. /\ at[t] = "session" /\ at' = [at EXCEPT ![t] = "copying"]
          /\ UNCHANGED <<ring, pos, pending, localQueue, phaseRb, lock>>
      BY <2>6 DEF WrComplete, ringVars, wqVars, sessionVars
    <3>2. lock = t
      BY <2>1, <3>1, WhoHolds DEF SqInv
    <3>3. InSession' <=> InSession
      BY <1>2, <2>1, <3>1, <3>2 DEF InSession
    <3> QED
      BY <1>1, <1>2, <3>1, <3>3, PhaseStays
  <2>7. CASE CopyChunk(t)
    BY <2>7, CopyChunkPhase DEF LapTold
  <2>8. CASE WrCompleteDone(t)
    <3>1. /\ at[t] = "copying" /\ pending = 0 /\ lock' = NoThread
          /\ at' = [at EXCEPT ![t] = "returnSent"] /\ UNCHANGED <<ring, pos>>
      BY <2>8 DEF WrCompleteDone, UnlockTo, wqVars
    <3>2. /\ Unpublished = 0 /\ Unpublished' = 0
          /\ \A u \in Callers : at'[u] # "session"
      BY <1>2, <2>1, <3>1, SqSizes DEF SqInv, LockFits, Unpublished, InSession
    <3> QED
      BY <1>1, <3>1, <3>2, PhaseBetween
  <2>9. CASE WrReturn(t)
    <3>1. /\ at[t] \in {"returnSent", "returnErr"} /\ at' = [at EXCEPT ![t] = "idle"]
          /\ UNCHANGED <<ring, pos, pending, localQueue, phaseRb, lock>>
      BY <2>9 DEF WrReturn, ringVars, wqVars, sessionVars
    <3>2. lock # t /\ lock \in Callers \cup {NoThread}
      BY <2>1, <3>1 DEF SqInv, LockFits, TypeOK
    <3>3. InSession' <=> InSession
      BY <1>2, <2>1, <3>1, <3>2 DEF InSession
    <3> QED
      BY <1>1, <1>2, <3>1, <3>3, PhaseStays
  <2>10. CASE \E id \in WrIds : SendWr(t, id)
    BY <1>1, <2>10, SendWrPhase DEF SendWr, ringVars
  <2> QED
    BY <1>4, <2>2, <2>3, <2>4, <2>5, <2>6, <2>7, <2>8, <2>9, <2>10 DEF SessionNext
<1>5. ASSUME UNCHANGED <<ring, pos, pending, localQueue, phaseRb, lock, at>>
      PROVE  PhaseFits' /\ LapTold
  BY <1>1, <1>5, PhaseStays DEF InSession
<1>6. CASE DevFetch \/ PollCqe \/ PutCur \/ ModifyRts
  BY <1>5, <1>6 DEF DevFetch, PollCqe, PutCur, ModifyRts, ringVars, wqVars,
                    sessionVars
<1>7. CASE ModifyReset
  <2>1. \A s \in Slots : ring'[s] = NoDesc
    BY <1>7 DEF ModifyReset
  <2> QED
    BY <1>7, <2>1, PhaseEmptied DEF LapTold
<1>8. CASE \E d \in working : DevComplete(d)
  BY <1>5, <1>8 DEF DevComplete, ringVars, wqVars, sessionVars
<1>9. CASE UNCHANGED vars
  BY <1>5, <1>9 DEF vars
<1> QED
  BY <1>3, <1>4, <1>6, <1>7, <1>8, <1>9 DEF Next

(* A descriptor written over an older one carries the other phase, also after *)
(* sessions rolled back across the end of the ring, chunks that stop there,   *)
(* a producer count that wrapped and a QP that was reset.                     *)
THEOREM LapsTold ==
  ASSUME DrainedReset
  PROVE  Spec => PhaseTellsLaps
<1>1. Init => PhaseFits
  <2> SUFFICES ASSUME Init PROVE PhaseFits
    OBVIOUS
  <2>1. /\ \A s \in Slots : ring[s] = NoDesc
        /\ Unpublished = 0 /\ \A t \in Callers : at[t] = "idle"
    BY DEF Init, Unpublished, InSession
  <2> QED
    BY <2>1 DEF PhaseFits
<1>2. SqInv /\ SqInv' /\ PhaseFits /\ [Next]_vars => PhaseFits' /\ LapTold
  BY NextPhase
<1>3. LapTold =>
        [\A s \in Slots : (ring[s] # NoDesc /\ ring'[s] \notin {ring[s], NoDesc})
                           => ring'[s].phase # ring[s].phase]_vars
  BY DEF LapTold
<1> QED
  BY <1>1, <1>2, <1>3, SendQueueCorrect, PTL DEF Spec, PhaseTellsLaps
----------------------------------------------------------------------------
(* The wr_id pool the queue is used as is the one EfaWridPoolProofs speaks of.*)
LEMMA SamePoolWq ==
  /\ Pool!Idx = PP!Idx /\ Pool!Ids = PP!Ids
  /\ Pool!NoneBuilding = PP!NoneBuilding /\ Pool!WqInitial = PP!WqInitial
  /\ Pool!Held = PP!Held /\ Pool!Base = PP!Base
  /\ \A w : Pool!NextIdx(w) = PP!NextIdx(w)
  /\ \A w : Pool!Full(w) <=> PP!Full(w)
  /\ \A w, id : Pool!CountPosted(Pool!GetNextWridIdx(w, id)) =
                   PP!CountPosted(PP!GetNextWridIdx(w, id))
  /\ \A w, i : Pool!PutWridIdx(w, i) = PP!PutWridIdx(w, i)
  /\ \A w, n : Pool!RollBackWq(w, n) = PP!RollBackWq(w, n)
  /\ \A w : Pool!InitIndices(w) = PP!InitIndices(w)
<1>1. Pool!Idx = PP!Idx /\ Pool!Ids = PP!Ids
  BY DEF Pool!Idx, PP!Idx, Pool!Ids, PP!Ids
<1>2. \A x, m : Pool!WrapInc(x, m) = PP!WrapInc(x, m)
  BY DEF Pool!WrapInc, PP!WrapInc
<1>3. \A x, m : Pool!WrapDec(x, m) = PP!WrapDec(x, m)
  BY DEF Pool!WrapDec, PP!WrapDec
<1>4. \A x, y, m : Pool!WrapSub(x, y, m) = PP!WrapSub(x, y, m)
  BY DEF Pool!WrapSub, PP!WrapSub
<1>5. Pool!NoneBuilding = PP!NoneBuilding /\ Pool!WqInitial = PP!WqInitial
  BY <1>1 DEF Pool!NoneBuilding, PP!NoneBuilding, Pool!WqInitial, PP!WqInitial
<1>6. Pool!Held = PP!Held /\ Pool!Base = PP!Base
  BY <1>1 DEF Pool!Held, PP!Held, Pool!Base, PP!Base
<1>7. \A w : Pool!NextIdx(w) = PP!NextIdx(w)
  BY DEF Pool!NextIdx, PP!NextIdx
<1>8. \A w : Pool!Full(w) <=> PP!Full(w)
  BY <1>4 DEF Pool!Full, PP!Full
<1>9. \A w, id : Pool!GetNextWridIdx(w, id) = PP!GetNextWridIdx(w, id)
  BY <1>2, <1>7 DEF Pool!GetNextWridIdx, PP!GetNextWridIdx
<1>10. \A w : Pool!CountPosted(w) = PP!CountPosted(w)
  BY <1>2 DEF Pool!CountPosted, PP!CountPosted
<1>11. \A w, i : Pool!PutWridIdx(w, i) = PP!PutWridIdx(w, i)
  BY <1>2, <1>3 DEF Pool!PutWridIdx, PP!PutWridIdx
<1>12. \A w, n : Pool!RollBackWq(w, n) = PP!RollBackWq(w, n)
  BY <1>4 DEF Pool!RollBackWq, PP!RollBackWq
<1>13. \A w : Pool!InitIndices(w) = PP!InitIndices(w)
  BY DEF Pool!InitIndices, PP!InitIndices
<1> QED
  BY <1>1, <1>5, <1>6, <1>7, <1>8, <1>9, <1>10, <1>11, <1>12, <1>13

LEMMA SamePoolStep == PP!Next => Pool!Next
<1> SUFFICES ASSUME PP!Next PROVE Pool!Next
  OBVIOUS
<1>1. ASSUME NEW id \in WrIds, PP!Post(id) PROVE Pool!Post(id)
  BY <1>1, SamePoolWq DEF PP!Post, Pool!Post
<1>2. ASSUME NEW id \in WrIds, PP!Build(id) PROVE Pool!Build(id)
  BY <1>2, SamePoolWq DEF PP!Build, Pool!Build
<1>3. PP!Start => Pool!Start
  BY SamePoolWq DEF PP!Start, Pool!Start
<1>4. PP!Finish => Pool!Finish
  BY DEF PP!Finish, Pool!Finish
<1>5. PP!RollBack => Pool!RollBack
  BY SamePoolWq DEF PP!RollBack, Pool!RollBack
<1>6. PP!Reset => Pool!Reset
  BY SamePoolWq DEF PP!Reset, Pool!Reset
<1>7. ASSUME NEW n \in 1 .. WqeCnt, PP!Commit(n) PROVE Pool!Commit(n)
  BY <1>7, SamePoolWq DEF PP!Commit, Pool!Commit
<1>8. ASSUME NEW i \in PP!Idx, PP!Put(i) PROVE i \in Pool!Idx /\ Pool!Put(i)
  BY <1>8, SamePoolWq DEF PP!Put, Pool!Put
<1> QED
  BY <1>1, <1>2, <1>3, <1>4, <1>5, <1>6, <1>7, <1>8 DEF PP!Next, Pool!Next

LEMMA PoolStarts == Init => Pool!Init
<1> SUFFICES ASSUME Init PROVE Pool!Init
  OBVIOUS
<1>1. /\ wq = WqInitial /\ lock = NoThread /\ cur = NoDesc
      /\ working = {} /\ cqes = <<>> /\ devPc = 0 /\ pos.pc = 0
  BY DEF Init, PosInitial
<1>2. ~InSession /\ Unpublished = 0 /\ InSession = FALSE
  BY <1>1, SessionIsBoolean DEF InSession, Unpublished
<1>3. Outstanding = {} /\ SeqSet(Uncopied) = {}
  <2>1. Waiting = 0 /\ Len(cqes) = 0
    BY <1>1, <1>2 DEF Waiting, Published, WrapSub
  <2>2. InRing = {} /\ LeftOver = {} /\ InCq = {} /\ InHand = {} /\ Taken = {}
    BY <1>1, <1>2, <2>1 DEF InRing, LeftOver, InCq, InHand, Taken
  <2> QED
    BY <2>2, InitSqInv, Parts DEF SqInv
<1> QED
  BY <1>1, <1>2, <1>3, NoHolders, SameWq, SamePoolWq DEF Pool!Init, PP!NoneBuilding

(* Through every post, session, roll back, copied chunk, completion and       *)
(* RESET, the send queue uses the wr_id pool the way EfaWridPool says it is   *)
(* used: what is proved there of a work queue holds of struct efa_sq.         *)
THEOREM PoolImplemented ==
  ASSUME DrainedReset
  PROVE  Spec => ImplementsPool
<1>1. ASSUME SqInv, [Next]_vars PROVE [Pool!Next]_(Pool!vars)
  <2>1. PoolMove
    BY <1>1, NextKeeps
  <2> QED
    BY <2>1, SamePoolStep DEF PoolMove, PP!vars, Pool!vars
<1> QED
  BY <1>1, PoolStarts, SendQueueCorrect, PTL DEF Spec, ImplementsPool, Pool!Spec

----------------------------------------------------------------------------
(* Members of a sequence that grows at its end, or loses its head.            *)
LEMMA SeqSets ==
  ASSUME NEW S, NEW s \in Seq(S)
  PROVE  /\ \A d \in S : SeqSet(Append(s, d)) = SeqSet(s) \cup {d}
         /\ s # <<>> => SeqSet(s) = SeqSet(Tail(s)) \cup {Head(s)}
<1>1. PICK n \in Nat : n = Len(s) /\ DOMAIN s = 1 .. n
  OBVIOUS
<1>2. ASSUME NEW d \in S PROVE SeqSet(Append(s, d)) = SeqSet(s) \cup {d}
  <2>1. /\ DOMAIN Append(s, d) = 1 .. n + 1 /\ Append(s, d)[n + 1] = d
        /\ \A k \in 1 .. n : Append(s, d)[k] = s[k]
    BY <1>1
  <2>2. /\ \A k \in 1 .. n + 1 : k \in 1 .. n \/ k = n + 1
        /\ \A k \in 1 .. n : k \in 1 .. n + 1
        /\ n + 1 \in 1 .. n + 1
    BY <1>1
  <2>3. SeqSet(Append(s, d)) \subseteq SeqSet(s) \cup {d}
    BY <1>1, <2>1, <2>2 DEF SeqSet
  <2>4. SeqSet(s) \cup {d} \subseteq SeqSet(Append(s, d))
    BY <1>1, <2>1, <2>2 DEF SeqSet
  <2> QED
    BY <2>3, <2>4
<1>3. ASSUME s # <<>> PROVE SeqSet(s) = SeqSet(Tail(s)) \cup {Head(s)}
  <2>1. n # 0 /\ Head(s) = s[1]
    BY <1>1, <1>3
  <2>2. /\ DOMAIN Tail(s) = 1 .. n - 1
        /\ \A k \in 1 .. n - 1 : Tail(s)[k] = s[k + 1]
    BY <1>1, <1>3, <2>1
  <2>3. /\ \A k \in 1 .. n : k = 1 \/ (k - 1 \in 1 .. n - 1 /\ k - 1 + 1 = k)
        /\ \A k \in 1 .. n - 1 : k + 1 \in 1 .. n
        /\ 1 \in 1 .. n
    BY <1>1, <2>1
  <2>4. SeqSet(s) \subseteq SeqSet(Tail(s)) \cup {Head(s)}
    <3> SUFFICES ASSUME NEW k \in 1 .. n
                 PROVE  s[k] \in SeqSet(Tail(s)) \cup {Head(s)}
      BY <1>1 DEF SeqSet
    <3>1. CASE k = 1
      BY <2>1, <3>1
    <3>2. CASE k # 1
      BY <2>2, <2>3, <3>2 DEF SeqSet
    <3> QED
      BY <3>1, <3>2
  <2>5. SeqSet(Tail(s)) \cup {Head(s)} \subseteq SeqSet(s)
    BY <1>1, <2>1, <2>2, <2>3 DEF SeqSet
  <2> QED
    BY <2>4, <2>5
<1> QED
  BY <1>2, <1>3

(* A waiting request needs a position of its own beside those the device has  *)
(* taken: both are indexes of the table.                                      *)
LEMMA Occupancy ==
  ASSUME SqInv
  PROVE  /\ IsFiniteSet(Names(Taken)) /\ Cardinality(Names(Taken)) \in Nat
         /\ Waiting + Cardinality(Names(Taken)) <= WqeCnt
<1>1. PICK n \in Nat : n = Waiting
  BY Window DEF SqInv
<1>2. /\ InRing = {Front(k) : k \in 1 .. n}
      /\ InRing \subseteq Desc /\ Taken \subseteq Desc
      /\ \A d \in Desc : d.req_id \in Idx
  BY <1>1, OfDesc DEF SqInv, InRing
<1> DEFINE A == {Front(k).req_id : k \in 1 .. n}
           B == {d.req_id : d \in Taken}
           f == [k \in 1 .. n |-> Front(k).req_id]
           g == [d \in Taken |-> d.req_id]
           h == [d \in Taken |-> d.wr]
<1>3. IsFiniteSet(Idx) /\ Cardinality(Idx) = WqeCnt
  BY FS_Interval, SqSizes DEF Idx
<1>4. A \subseteq Idx /\ B \subseteq Idx
  BY <1>2
<1>5. A \cap B = {}
  <2>1. \A d \in InRing, e \in Taken : d.req_id # e.req_id
    BY DEF SqInv, PostersApart, ApartSets, Apart
  <2> QED
    BY <1>2, <2>1
<1>6. IsFiniteSet(A) /\ IsFiniteSet(B)
  BY <1>3, <1>4, FS_Subset
<1>7. Cardinality(A) = n
  <2>1. f \in Bijection(1 .. n, A)
    <3>1. \A j, k \in 1 .. n : j # k => Front(j).req_id # Front(k).req_id
      BY <1>1 DEF SqInv, PostersApart, Apart
    <3>2. f \in [1 .. n -> A] /\ \A a \in A : \E k \in 1 .. n : f[k] = a
      OBVIOUS
    <3> QED
      BY <3>1, <3>2 DEF Bijection, Injection, IsInjective, Surjection
  <2>2. ExistsBijection(1 .. n, A)
    BY <2>1 DEF ExistsBijection
  <2> QED
    BY <2>2, FS_CountingElements
<1>8. IsFiniteSet(Taken) /\ Cardinality(Taken) <= Cardinality(B)
  <2>1. \A d, e \in Taken : d.req_id = e.req_id => d = e
    BY OneHolderEach DEF SqInv, OneEach
  <2>2. g \in [Taken -> B] /\ \A d \in Taken : g[d] = d.req_id
    OBVIOUS
  <2>3. g \in Injection(Taken, B)
    BY <2>1, <2>2 DEF Injection, IsInjective
  <2> QED
    BY <1>6, <2>3, FS_Injection
<1>9. /\ IsFiniteSet(Names(Taken))
      /\ Cardinality(Names(Taken)) <= Cardinality(Taken)
  <2>1. h \in [Taken -> Names(Taken)] /\ \A r \in Names(Taken) :
                                           \E d \in Taken : h[d] = r
    BY DEF Names
  <2>2. h \in Surjection(Taken, Names(Taken))
    BY <2>1 DEF Surjection
  <2> QED
    BY <1>8, <2>2, FS_Surjection
<1>10. Cardinality(A \cup B) = Cardinality(A) + Cardinality(B)
  <2>1. Cardinality(A \cap B) = 0
    BY <1>5, FS_EmptySet
  <2>2. Cardinality(A) \in Nat /\ Cardinality(B) \in Nat
    BY <1>6, FS_CardinalityType
  <2>3. Cardinality(A \cup B) =
          Cardinality(A) + Cardinality(B) - Cardinality(A \cap B)
    BY <1>6, FS_Union
  <2> QED
    BY <2>1, <2>2, <2>3
<1>11. Cardinality(A \cup B) <= WqeCnt
  <2>1. A \cup B \subseteq Idx
    BY <1>4
  <2> QED
    BY <1>3, <2>1, FS_Subset
<1>12. /\ Cardinality(B) \in Nat /\ Cardinality(Taken) \in Nat
       /\ Cardinality(Names(Taken)) \in Nat
  BY <1>6, <1>8, <1>9, FS_CardinalityType
<1> HIDE DEF A, B
<1> QED
  BY <1>1, <1>7, <1>8, <1>9, <1>10, <1>11, <1>12, SqSizes

(* The abstract queue through the parts of this one.                          *)
QueueIsSeen ==
  /\ Waiting \in Nat
  /\ Queued = [k \in 1 .. Waiting |-> Front(k).wr]
  /\ \A k \in 1 .. Waiting : Front(k) \in InRing /\ Front(k).wr \in WrIds
  /\ SeqSet(cqes) = InCq
  /\ ReportedWrId = IF cur = NoDesc THEN NoWr ELSE cur.wr
  /\ \A d \in InRing \cup Taken : d.wr \in WrIds /\ d.wr # NoWr
  /\ WQ!Queued = Names(InRing)
  /\ WQ!Outstanding = Names(InRing) \cup Names(Taken)
  /\ WQ!Outstanding \ WQ!Queued = Names(Taken)
  /\ Cardinality(Names(Taken)) \in Nat
  /\ Waiting + Cardinality(Names(Taken)) <= WqeCnt

LEMMA Seen == SqInv => QueueIsSeen
<1> SUFFICES ASSUME SqInv PROVE QueueIsSeen
  OBVIOUS
<1>1. Waiting \in Nat
  BY Window DEF SqInv
<1>2. /\ Unfetched = [k \in 1 .. Waiting |-> Front(k)]
      /\ SeqSet(cqes) = InCq
  BY Parts DEF SqInv
<1>3. Queued = [k \in 1 .. Waiting |-> Front(k).wr]
  BY <1>2 DEF Queued
<1>4. \A d \in InRing \cup Taken : d.wr \in WrIds /\ d.wr # NoWr
  BY OfDesc DEF SqInv
<1>5. \A k \in 1 .. Waiting : Front(k) \in InRing /\ Front(k).wr \in WrIds
  BY <1>4 DEF InRing
<1>6. ReportedWrId = IF cur = NoDesc THEN NoWr ELSE cur.wr
  <2>1. cur # NoDesc => cur \in Taken
    BY DEF Taken, InHand
  <2> QED
    BY <2>1, InFlightHolds DEF ReportedWrId
<1>7. WQ!Queued = Names(InRing)
  <2>1. Len(Queued) = Waiting
    BY <1>1, <1>3
  <2>2. WQ!Queued = {Front(k).wr : k \in 1 .. Waiting}
    BY <1>1, <1>3, <2>1 DEF WQ!Queued
  <2> QED
    BY <2>2 DEF Names, InRing
<1>8. {ReportedWrId} \ {NoWr} = Names(InHand)
  <2>1. CASE cur = NoDesc
    BY <1>6, <2>1 DEF Names, InHand
  <2>2. CASE cur # NoDesc
    <3>1. InHand = {cur} /\ cur.wr # NoWr
      BY <1>4, <2>2 DEF InHand, Taken
    <3> QED
      BY <1>6, <2>2, <3>1 DEF Names
  <2> QED
    BY <2>1, <2>2
<1>9. Names(Taken) = Names(working) \cup Names(InCq) \cup Names(InHand)
  BY DEF Names, Taken
<1>10. WQ!Outstanding = Names(InRing) \cup Names(Taken)
  BY <1>2, <1>7, <1>8, <1>9 DEF WQ!Outstanding
<1>11. \A d \in InRing, e \in Taken : d.wr # e.wr
  BY DEF SqInv, PostersApart, ApartSets, Apart
<1>12. WQ!Outstanding \ WQ!Queued = Names(Taken)
  BY <1>7, <1>10, <1>11 DEF Names
<1> QED
  BY <1>1, <1>2, <1>3, <1>4, <1>5, <1>6, <1>7, <1>10, <1>12, Occupancy
     DEF QueueIsSeen

LEMMA SameCardinality == \A S : WQ!Cardinality(S) = Cardinality(S)
  BY DEF WQ!Cardinality, Cardinality

(* Steps that neither publish nor move a request are not seen.                *)
LEMMA UnseenStep ==
  ASSUME SqInv, SqInv', UNCHANGED <<ring, devPc, working, cqes, cur>>,
         Published' = Published
  PROVE  UNCHANGED WQ!vars
<1>1. QueueIsSeen /\ QueueIsSeen'
  BY Seen, PTL
<1>2. Waiting' = Waiting
  BY DEF Waiting
<1>3. \A k \in 1 .. Waiting : Front(k)' = Front(k)
  BY DEF Front
<1>4. Queued' = Queued
  BY <1>1, <1>2, <1>3 DEF QueueIsSeen
<1>5. ReportedWrId' = ReportedWrId
  BY <1>1 DEF QueueIsSeen
<1>6. Names(working)' = Names(working) /\ Names(SeqSet(cqes))' = Names(SeqSet(cqes))
  BY DEF Names, SeqSet
<1> QED
  BY <1>4, <1>5, <1>6 DEF WQ!vars

(* Requests that come to the ring, one by one or a chunk at a time, arrive at *)
(* the end of the queue, and there is room for them.                          *)
LEMMA ArrivalIsSeen ==
  ASSUME SqInv, SqInv', UNCHANGED <<working, cqes, cur>>,
         NEW n, n = Waiting, NEW c \in Nat \ {0}, Waiting' = n + c,
         NEW batch \in [1 .. c -> WrIds],
         \A k \in 1 .. n : Front(k)' = Front(k),
         \A j \in 1 .. c : Front(n + j)'.wr = batch[j]
  PROVE  WQ!Next
<1>1. QueueIsSeen /\ QueueIsSeen'
  BY Seen, PTL
<1>2. n \in Nat /\ Taken' = Taken
  BY <1>1 DEF QueueIsSeen, Taken, InCq, InHand
<1>3. PICK t \in Nat : t = Cardinality(Names(Taken))
  BY <1>1 DEF QueueIsSeen
<1>4. n + c + t <= WqeCnt
  <2>1. Waiting' + Cardinality(Names(Taken')) <= WqeCnt
    BY <1>1 DEF QueueIsSeen, Names
  <2> QED
    BY <1>2, <1>3, <2>1
<1>5. Len(batch) = c /\ batch \in Seq(WrIds)
  BY DEF Seq
<1>6. /\ Queued = [k \in 1 .. n |-> Front(k).wr] /\ Queued \in Seq(WrIds)
      /\ Len(Queued) = n
  <2>1. /\ Queued = [k \in 1 .. n |-> Front(k).wr]
        /\ \A k \in 1 .. n : Front(k).wr \in WrIds
    BY <1>1 DEF QueueIsSeen
  <2> QED
    BY <1>2, <2>1
<1>7. Queued' = [k \in 1 .. n + c |-> Front(k)'.wr]
  BY <1>1 DEF QueueIsSeen
<1>8. Queued' = Queued \o batch
  <2>1. Queued \o batch = [k \in 1 .. n + c |-> IF k <= n THEN Queued[k]
                                                 ELSE batch[k - n]]
    BY <1>2, <1>5, <1>6
  <2>2. ASSUME NEW k \in 1 .. n + c
        PROVE  Front(k)'.wr = IF k <= n THEN Queued[k] ELSE batch[k - n]
    <3>1. CASE k <= n
      BY <1>2, <1>6, <3>1
    <3>2. CASE ~(k <= n)
      <4>1. k - n \in 1 .. c /\ n + (k - n) = k
        BY <1>2, <3>2
      <4> QED
        BY <3>2, <4>1
    <3> QED
      BY <3>1, <3>2
  <2> QED
    BY <1>7, <2>1, <2>2
<1>9. \A k \in 1 .. c : batch[k] \notin WQ!Outstanding
  <2> SUFFICES ASSUME NEW j \in 1 .. c, NEW d \in InRing \cup Taken
               PROVE  d.wr # batch[j]
    BY <1>1 DEF QueueIsSeen, Names
  <2>1. n + j \in 1 .. Waiting'
    BY <1>2
  <2>2. Front(n + j)' \in InRing'
    BY <2>1 DEF InRing
  <2>3. CASE d \in Taken
    BY <1>2, <2>2, <2>3 DEF SqInv, PostersApart, ApartSets, Apart
  <2>4. CASE d \in InRing
    <3>1. PICK k \in 1 .. n : d = Front(k)
      BY <2>4 DEF InRing
    <3>2. k \in 1 .. Waiting' /\ k # n + j
      BY <1>2
    <3>3. Apart(Front(k)', Front(n + j)')
      BY <2>1, <3>2 DEF SqInv, PostersApart
    <3> QED
      BY <3>1, <3>3 DEF Apart
  <2> QED
    BY <2>3, <2>4
<1>10. ReportedWrId' = ReportedWrId
  BY <1>1 DEF QueueIsSeen
<1>11. WQ!Post(batch)
  <2>1. Len(Queued) + Cardinality(WQ!Outstanding \ WQ!Queued) + Len(batch) <= WqeCnt
    <3>1. Cardinality(WQ!Outstanding \ WQ!Queued) = t
      BY <1>1, <1>3 DEF QueueIsSeen
    <3> QED
      BY <1>2, <1>3, <1>4, <1>5, <1>6, <3>1, SqSizes
  <2>2. Names(working)' = Names(working) /\ Names(SeqSet(cqes))' = Names(SeqSet(cqes))
    BY DEF Names, SeqSet
  <2>3. \A k \in 1 .. Len(batch) : batch[k] \notin WQ!Outstanding
    BY <1>5, <1>9
  <2> QED
    BY <1>8, <1>10, <2>1, <2>2, <2>3, SameCardinality DEF WQ!Post
<1>12. c \in 1 .. WqeCnt
  BY <1>2, <1>3, <1>4, SqSizes
<1> QED
  BY <1>11, <1>12 DEF WQ!Next

LEMMA TakeUpIsSeen ==
  ASSUME SqInv, SqInv', DevFetch
  PROVE  WQ!Next
<1>1. QueueIsSeen /\ QueueIsSeen'
  BY Seen, PTL
<1>2. PICK n : n = Waiting
  OBVIOUS
<1>3. /\ n \in 1 .. DescCnt /\ Waiting' = n - 1
      /\ working' = working \cup {Front(1)}
      /\ \A k \in 1 .. n - 1 : Front(k)' = Front(k + 1) /\ k + 1 \in 1 .. n
  BY <1>2, DevFetchParts
<1>4. UNCHANGED <<cqes, cur>>
  BY DEF DevFetch
<1>5. /\ Queued = [k \in 1 .. n |-> Front(k).wr] /\ Queued \in Seq(WrIds)
      /\ Len(Queued) = n /\ n \in Nat \ {0} /\ Queued # <<>>
  BY <1>1, <1>2, <1>3 DEF QueueIsSeen
<1>6. Queued' = [k \in 1 .. n - 1 |-> Front(k)'.wr]
  BY <1>1, <1>3 DEF QueueIsSeen
<1>7. Head(Queued) = Front(1).wr
  BY <1>5
<1>8. Tail(Queued) = [k \in 1 .. n - 1 |-> Queued[k + 1]]
  BY <1>5
<1>9. Queued' = Tail(Queued)
  BY <1>3, <1>5, <1>6, <1>8
<1>10. Names(working)' = Names(working) \cup {Front(1).wr}
  BY <1>3 DEF Names
<1>11. ReportedWrId' = ReportedWrId /\ Names(SeqSet(cqes))' = Names(SeqSet(cqes))
  BY <1>1, <1>4 DEF QueueIsSeen, Names, SeqSet
<1> QED
  BY <1>5, <1>7, <1>9, <1>10, <1>11 DEF WQ!Next, WQ!TakeUp

LEMMA CompletionIsSeen ==
  ASSUME SqInv, SqInv', NEW d \in working, DevComplete(d)
  PROVE  WQ!Next
<1>1. QueueIsSeen /\ QueueIsSeen'
  BY Seen, PTL
<1>2. /\ working' = working \ {d} /\ cqes' = Append(cqes, d)
      /\ UNCHANGED <<pos, ring, devPc, pending, lock, at, cur>>
  BY DEF DevComplete, wqVars, ringVars, sessionVars
<1>3. /\ \A e \in working : e # d => e.wr # d.wr
      /\ d \in Desc /\ cqes \in Seq(Desc) /\ d.wr \in WrIds
  <2>1. d \in Desc /\ cqes \in Seq(Desc)
    BY Typed DEF SqInv
  <2> QED
    BY <1>1, <2>1 DEF QueueIsSeen, SqInv, TakenApart, Apart, Taken
<1>4. Names(working)' = Names(working) \ {d.wr} /\ d.wr \in Names(working)
  BY <1>2, <1>3 DEF Names
<1>5. Names(SeqSet(cqes))' = Names(SeqSet(cqes)) \cup {d.wr}
  <2>1. SeqSet(cqes') = SeqSet(cqes) \cup {d}
    BY <1>2, <1>3, SeqSets
  <2> QED
    BY <2>1 DEF Names
<1>6. ReportedWrId' = ReportedWrId
  BY <1>1, <1>2 DEF QueueIsSeen
<1>7. Queued' = Queued
  <2>1. Published' = Published
    BY <1>2 DEF Published, Unpublished, InSession
  <2>2. Waiting' = Waiting /\ \A k \in 1 .. Waiting : Front(k)' = Front(k)
    BY <1>2, <2>1 DEF Waiting, Front
  <2> QED
    BY <1>1, <2>2 DEF QueueIsSeen
<1> QED
  BY <1>3, <1>4, <1>5, <1>6, <1>7 DEF WQ!Next, WQ!Complete

LEMMA ReportIsSeen ==
  ASSUME SqInv, SqInv', PollCqe
  PROVE  WQ!Next
<1>1. QueueIsSeen /\ QueueIsSeen'
  BY Seen, PTL
<1>2. /\ cur = NoDesc /\ cqes # <<>> /\ cur' = Head(cqes) /\ cqes' = Tail(cqes)
      /\ UNCHANGED <<pos, ring, devPc, pending, lock, at, working>>
  BY DEF PollCqe, wqVars, ringVars, sessionVars
<1>3. cqes \in Seq(Desc) /\ cur' \in Desc /\ cur' # NoDesc
  <2>1. cqes \in Seq(Desc)
    BY Typed DEF SqInv
  <2> QED
    BY <1>2, <2>1, SqSizes
<1>4. SeqSet(cqes) = SeqSet(cqes') \cup {cur'}
  BY <1>2, <1>3, SeqSets
<1>5. \A e \in SeqSet(cqes') : e.wr # cur'.wr
  <2>1. SeqSet(cqes)' = InCq' /\ InHand' = {cur'}
    BY <1>1, <1>3 DEF QueueIsSeen, InHand
  <2>2. ApartSets(InCq', InHand')
    BY DEF SqInv, TakenApart
  <2>3. \A e \in InCq' : e.wr # cur'.wr
    BY <2>1, <2>2 DEF ApartSets, Apart
  <2> QED
    BY <2>1, <2>3
<1>6. /\ cur'.wr \in Names(SeqSet(cqes)) /\ cur'.wr \in WrIds
      /\ Names(SeqSet(cqes))' = Names(SeqSet(cqes)) \ {cur'.wr}
  BY <1>3, <1>4, <1>5 DEF Names, Desc
<1>7. ReportedWrId = NoWr /\ ReportedWrId' = cur'.wr
  BY <1>1, <1>2, <1>3 DEF QueueIsSeen
<1>8. Names(working)' = Names(working)
  BY <1>2 DEF Names
<1>9. Queued' = Queued
  <2>1. Published' = Published
    BY <1>2 DEF Published, Unpublished, InSession
  <2>2. Waiting' = Waiting /\ \A k \in 1 .. Waiting : Front(k)' = Front(k)
    BY <1>2, <2>1 DEF Waiting, Front
  <2> QED
    BY <1>1, <2>2 DEF QueueIsSeen
<1> QED
  BY <1>6, <1>7, <1>8, <1>9 DEF WQ!Next, WQ!Report

LEMMA ReleaseIsSeen ==
  ASSUME SqInv, SqInv', PutCur
  PROVE  WQ!Next
<1>1. QueueIsSeen /\ QueueIsSeen'
  BY Seen, PTL
<1>2. /\ cur # NoDesc /\ cur' = NoDesc
      /\ UNCHANGED <<pos, ring, devPc, pending, lock, at, working, cqes>>
  BY DEF PutCur, ringVars, sessionVars, deviceVars
<1>3. ReportedWrId # NoWr /\ ReportedWrId' = NoWr
  BY <1>1, <1>2 DEF QueueIsSeen, Taken, InHand
<1>4. Queued' = Queued
  <2>1. Published' = Published
    BY <1>2 DEF Published, Unpublished, InSession
  <2>2. Waiting' = Waiting /\ \A k \in 1 .. Waiting : Front(k)' = Front(k)
    BY <1>2, <2>1 DEF Waiting, Front
  <2> QED
    BY <1>1, <2>2 DEF QueueIsSeen
<1>5. Names(working)' = Names(working) /\ Names(SeqSet(cqes))' = Names(SeqSet(cqes))
  BY <1>2 DEF Names, SeqSet
<1> QED
  BY <1>3, <1>4, <1>5 DEF WQ!Next, WQ!Release

LEMMA RollBackIsUnseen ==
  ASSUME SqInv, SqInv', NEW t \in Callers, at[t] = "session", RollBack,
         NEW p, UnlockTo(t, p), UNCHANGED <<ring, devPc, working, cqes, cur>>
  PROVE  UNCHANGED WQ!vars
<1>1. Unpublished = pending /\ Published \in 0 .. U16 - 1 /\ U16 \in Nat \ {0}
  BY WhoHolds, Window, SqSizes DEF SqInv
<1>2. lock' = NoThread /\ pos' = RollBackPos(pos, pending, phaseRb)
  BY DEF RollBack, UnlockTo
<1>3. Unpublished' = 0 /\ pos'.pc = Published
  BY <1>1, <1>2 DEF Unpublished, InSession, RollBackPos, Published
<1>4. Published' = Published
  BY <1>1, <1>3 DEF Published, WrapSub
<1> QED
  BY <1>4, UnseenStep

(* Lock steps of a call with nothing, or nothing more, in a session.          *)
LEMMA LockIsUnseen ==
  ASSUME SqInv, SqInv', UNCHANGED <<pos, ring, devPc, working, cqes, cur>>,
         Unpublished' = Unpublished
  PROVE  UNCHANGED WQ!vars
<1>1. Published' = Published
  BY DEF Published
<1> QED
  BY <1>1, UnseenStep

LEMMA PosterIsSeen ==
  ASSUME SqInv, SqInv', NEW t \in Threads, PosterNext(t)
  PROVE  WQ!Next \/ UNCHANGED WQ!vars
<1>1. t \in Callers /\ at \in [Callers -> Places]
  BY DEF Callers, SqInv, TypeOK
<1>2. CASE PostSend(t)
  <2>1. /\ lock = NoThread /\ lock' = t /\ at' = [at EXCEPT ![t] = "post_send"]
        /\ UNCHANGED <<pos, ring, devPc, working, cqes, cur>>
    BY <1>2 DEF PostSend, ringVars, wqVars, deviceVars
  <2>2. Unpublished = 0 /\ Unpublished' = 0
    BY <1>1, <2>1 DEF Unpublished, InSession
  <2> QED
    BY <2>1, <2>2, LockIsUnseen
<1>3. CASE PostSendDone(t)
  <2>1. /\ at[t] = "post_send" /\ lock' = NoThread
        /\ UNCHANGED <<pos, ring, devPc, working, cqes, cur>>
    BY <1>3 DEF PostSendDone, wqVars, deviceVars
  <2>2. Unpublished = 0 /\ Unpublished' = 0
    BY <1>1, <2>1, WhoHolds DEF SqInv, Unpublished, InSession
  <2> QED
    BY <2>1, <2>2, LockIsUnseen
<1>4. ASSUME NEW id \in WrIds, PostSendWr(t, id) PROVE WQ!Next
  <2>1. PICK n : n = Waiting
    OBVIOUS
  <2>2. /\ n \in Nat /\ Waiting' = n + 1
        /\ \A k \in 1 .. n : Front(k)' = Front(k)
        /\ Front(n + 1)' = NewDesc(id)
        /\ UNCHANGED <<working, cqes, cur>>
    BY <1>4, <2>1, PostSendWrParts DEF PostSendWr, deviceVars
  <2> DEFINE batch == [k \in 1 .. 1 |-> id]
  <2>3. batch \in [1 .. 1 -> WrIds] /\ 1 \in Nat \ {0}
    OBVIOUS
  <2>4. \A j \in 1 .. 1 : Front(n + j)'.wr = batch[j]
    BY <2>2 DEF NewDesc
  <2> HIDE DEF batch
  <2> QED
    BY <2>1, <2>2, <2>3, <2>4, ArrivalIsSeen
<1> QED
  BY <1>2, <1>3, <1>4 DEF PosterNext

(* A drained queue is empty before it is set back, and after.                 *)
LEMMA ResetIsUnseen ==
  ASSUME DrainedReset, SqInv, SqInv', ModifyReset
  PROVE  UNCHANGED WQ!vars
<1>1. /\ lock = NoThread /\ lock' = lock /\ cqes = <<>> /\ cqes' = cqes
      /\ cur = NoDesc /\ cur' = cur /\ Outstanding = {}
      /\ pos' = InitPos(pos) /\ devPc' = 0 /\ working' = {}
  BY DEF ModifyReset, DrainedReset
<1>2. QueueIsSeen /\ QueueIsSeen'
  BY Seen, PTL
<1>3. InRing = {} /\ Taken = {} /\ working = {}
  BY <1>1, Parts DEF SqInv, Taken
<1>4. Waiting = 0
  <2>1. Waiting # 0 => 1 \in 1 .. Waiting
    BY <1>2 DEF QueueIsSeen
  <2> QED
    BY <1>2, <1>3, <2>1 DEF QueueIsSeen
<1>5. Waiting' = 0
  BY <1>1 DEF Waiting, Published, Unpublished, InSession, InitPos, WrapSub, SqInv,
              TypeOK, PosType
<1>6. Queued = <<>> /\ Queued' = <<>>
  BY <1>2, <1>4, <1>5 DEF QueueIsSeen
<1>7. ReportedWrId' = ReportedWrId
  BY <1>1, <1>2 DEF QueueIsSeen
<1>8. Names(working)' = Names(working) /\ Names(SeqSet(cqes))' = Names(SeqSet(cqes))
  BY <1>1, <1>3 DEF Names, SeqSet
<1> QED
  BY <1>6, <1>7, <1>8 DEF WQ!vars

LEMMA ChunkIsSeen ==
  ASSUME SqInv, SqInv', NEW t \in SessionThreads, CopyChunk(t)
  PROVE  WQ!Next
<1>1. PICK c, n, m : c = Chunk /\ n = Waiting /\ m = Unpublished
  OBVIOUS
<1>2. /\ UNCHANGED <<working, cqes, cur>>
      /\ c \in Nat /\ 1 <= c /\ c <= m /\ n \in Nat /\ m \in 0 .. WqeCnt
      /\ Waiting' = n + c
      /\ \A k \in 1 .. n : Front(k)' = Front(k)
      /\ \A j \in 1 .. c : Front(n + j)' = Left(j)
  BY <1>1, CopyChunkParts
<1>3. \A j \in 1 .. c : Left(j) \in LeftOver /\ Left(j).wr \in WrIds
  <2>1. \A j \in 1 .. c : j \in 1 .. m
    BY <1>2, SqSizes
  <2>2. \A d \in LeftOver : d.wr \in WrIds
    BY OfDesc DEF SqInv
  <2> QED
    BY <1>1, <2>1, <2>2 DEF LeftOver
<1> DEFINE batch == [j \in 1 .. c |-> Left(j).wr]
<1>4. batch \in [1 .. c -> WrIds] /\ c \in Nat \ {0}
  BY <1>2, <1>3
<1>5. \A j \in 1 .. c : Front(n + j)'.wr = batch[j]
  BY <1>2
<1> HIDE DEF batch
<1> QED
  BY <1>1, <1>2, <1>4, <1>5, ArrivalIsSeen

LEMMA SessionIsSeen ==
  ASSUME SqInv, SqInv', NEW t \in SessionThreads, SessionNext(t)
  PROVE  WQ!Next \/ UNCHANGED WQ!vars
<1>1. t \in Callers /\ at \in [Callers -> Places]
  BY DEF Callers, SqInv, TypeOK
<1>2. CASE WrStart(t)
  <2>1. /\ lock = NoThread /\ lock' = t /\ pending' = 0
        /\ UNCHANGED <<pos, ring, devPc, working, cqes, cur>>
    BY <1>2 DEF WrStart, ringVars, wqVars, deviceVars
  <2>2. Unpublished = 0 /\ Unpublished' = 0
    BY <2>1 DEF Unpublished, InSession
  <2> QED
    BY <2>1, <2>2, LockIsUnseen
<1>3. CASE SessionError(t)
  <2>1. UNCHANGED <<pos, ring, devPc, working, cqes, cur, pending, lock, at>>
    BY <1>3 DEF SessionError, ringVars, wqVars, deviceVars
  <2>2. Unpublished' = Unpublished
    BY <2>1 DEF Unpublished, InSession
  <2> QED
    BY <2>1, <2>2, LockIsUnseen
<1>4. CASE WrAbort(t)
  BY <1>1, <1>4, RollBackIsUnseen DEF WrAbort, ringVars, deviceVars
<1>5. CASE WrCompleteErr(t)
  BY <1>1, <1>5, RollBackIsUnseen DEF WrCompleteErr, ringVars, deviceVars
<1>6. CASE WrComplete(t)
  <2>1. /\ at[t] = "session" /\ at' = [at EXCEPT ![t] = "copying"]
        /\ UNCHANGED <<pos, ring, devPc, working, cqes, cur, pending, lock>>
    BY <1>6 DEF WrComplete, ringVars, wqVars, deviceVars, sessionVars
  <2>2. at'[t] = "copying" /\ lock = t
    BY <1>1, <2>1, WhoHolds DEF SqInv
  <2>3. Unpublished = pending /\ Unpublished' = pending
    BY <2>1, <2>2, SqSizes, <1>1 DEF Unpublished, InSession
  <2> QED
    BY <2>1, <2>3, LockIsUnseen
<1>7. CASE CopyChunk(t)
  BY <1>7, ChunkIsSeen
<1>8. CASE WrCompleteDone(t)
  <2>1. /\ at[t] = "copying" /\ pending = 0 /\ lock' = NoThread
        /\ UNCHANGED <<pos, ring, devPc, working, cqes, cur>>
    BY <1>8 DEF WrCompleteDone, UnlockTo, wqVars, deviceVars
  <2>2. Unpublished = 0 /\ Unpublished' = 0
    BY <2>1 DEF Unpublished, InSession
  <2> QED
    BY <2>1, <2>2, LockIsUnseen
<1>9. CASE WrReturn(t)
  <2>1. /\ at[t] \in {"returnSent", "returnErr"}
        /\ at' = [at EXCEPT ![t] = "idle"]
        /\ UNCHANGED <<pos, ring, devPc, working, cqes, cur, pending, lock>>
    BY <1>9 DEF WrReturn, ringVars, wqVars, deviceVars, sessionVars
  <2>2. lock # t /\ lock \in Callers \cup {NoThread}
    BY <1>1, <2>1 DEF SqInv, LockFits, TypeOK
  <2>3. InSession' <=> InSession
    BY <1>1, <2>1, <2>2 DEF InSession
  <2>4. Unpublished' = Unpublished
    BY <2>1, <2>3 DEF Unpublished
  <2> QED
    BY <2>1, <2>4, LockIsUnseen
<1>10. ASSUME NEW id \in WrIds, SendWr(t, id) PROVE UNCHANGED WQ!vars
  <2>1. /\ UNCHANGED <<ring, devPc, working, cqes, cur>>
        /\ pos'.pc = WrapInc(pos.pc, U16) /\ at[t] = "session"
        /\ at' = at /\ lock' = lock
    BY <1>10 DEF SendWr, AdvancePos, ringVars, deviceVars
  <2>2. PICK m \in Nat, q \in 0 .. U16 - 1 : m = Unpublished /\ q = Published
    BY Window DEF SqInv
  <2>3. /\ Unpublished' = m + 1 /\ m < U16 /\ pos.pc \in 0 .. U16 - 1
        /\ U16 \in Nat \ {0} /\ m + 1 < U16
    <3>1. Unpublished' = m + 1
      BY <1>10, <2>2, SendWrParts
    <3>2. Unpublished' \in 0 .. DescCnt
      <4>1. Unpublished' \in 0 .. WqeCnt
        BY <3>1, WhoHolds, <1>1, <2>1, <2>2, <1>10 DEF SqInv, TypeOK, SendWr
      <4> QED
        BY <4>1, SqSizes
    <3> QED
      BY <2>2, <3>1, <3>2, Typed, SqSizes DEF SqInv
  <2>4. Published' = Published
    BY <2>1, <2>2, <2>3 DEF Published, WrapSub, WrapInc
  <2> QED
    BY <2>1, <2>4, UnseenStep
<1> QED
  BY <1>2, <1>3, <1>4, <1>5, <1>6, <1>7, <1>8, <1>9, <1>10 DEF SessionNext

(* The ring, the doorbell, the locks and the index pool together are a work   *)
(* queue as an application knows it: requests taken up in the order posted,   *)
(* none lost, none twice, nothing of a rolled back session, each reported     *)
(* once under its own name, and never more than WqeCnt of them.               *)
THEOREM WorkQueueImplemented ==
  ASSUME DrainedReset
  PROVE  Spec => ImplementsWorkQueue
<1>1. Init => WQ!Init
  <2> SUFFICES ASSUME Init PROVE WQ!Init
    OBVIOUS
  <2>1. QueueIsSeen
    BY InitSqInv, Seen
  <2>2. working = {} /\ cqes = <<>> /\ cur = NoDesc
    BY DEF Init
  <2>3. Waiting = 0
    BY DEF Init, PosInitial, Waiting, Published, Unpublished, InSession, WrapSub
  <2>4. Queued = <<>>
    BY <2>1, <2>3 DEF QueueIsSeen
  <2> QED
    BY <2>1, <2>2, <2>4 DEF WQ!Init, QueueIsSeen, Names, SeqSet
<1>2. ASSUME SqInv, SqInv', [Next]_vars PROVE WQ!Next \/ UNCHANGED WQ!vars
  <2>1. CASE \E t \in Threads : PosterNext(t)
    BY <1>2, <2>1, PosterIsSeen
  <2>2. CASE \E t \in SessionThreads : SessionNext(t)
    BY <1>2, <2>2, SessionIsSeen
  <2>3. CASE DevFetch
    BY <1>2, <2>3, TakeUpIsSeen
  <2>4. CASE PollCqe
    BY <1>2, <2>4, ReportIsSeen
  <2>5. CASE PutCur
    BY <1>2, <2>5, ReleaseIsSeen
  <2>6. CASE \E d \in working : DevComplete(d)
    BY <1>2, <2>6, CompletionIsSeen
  <2>7. CASE ModifyReset
    BY <1>2, <2>7, ResetIsUnseen
  <2>8. CASE ModifyRts \/ UNCHANGED vars
    <3>1. UNCHANGED <<pos, ring, devPc, working, cqes, cur, pending, lock, at>>
      BY <2>8 DEF ModifyRts, ringVars, wqVars, deviceVars, sessionVars, vars
    <3>2. Unpublished' = Unpublished
      BY <3>1 DEF Unpublished, InSession
    <3> QED
      BY <1>2, <3>1, <3>2, LockIsUnseen
  <2> QED
    BY <1>2, <2>1, <2>2, <2>3, <2>4, <2>5, <2>6, <2>7, <2>8 DEF Next
<1>3. SqInv /\ SqInv' /\ [Next]_vars => [WQ!Next]_(WQ!vars)
  BY <1>2
<1> QED
  BY <1>1, <1>3, SendQueueCorrect, PTL DEF Spec, ImplementsWorkQueue, WQ!Spec

----------------------------------------------------------------------------
(* The thread that copies its session has met no error, and each request of   *)
(* it, copied or not, is still somewhere: nothing leaves the queue for good   *)
(* while the thread holds wqlock.                                             *)
InFlight == InRing \cup Taken \cup LeftOver
SessionKept ==
  \A t \in SessionThreads :
    at[t] = "copying" => sessionErr = "OK" /\ SeqSet(localQueue) \subseteq InFlight

(* Before its thread begins to copy, a session is in local_queue only.        *)
LEMMA BuiltIsLeft ==
  ASSUME SqInv, NEW t \in SessionThreads, at[t] = "session"
  PROVE  /\ lock = t /\ SeqSet(localQueue) = LeftOver
         /\ SeqSet(localQueue) \cap (InRing \cup Taken) = {}
<1>1. t \in Callers
  BY DEF Callers
<1>2. lock = t /\ Unpublished = pending /\ pending = Len(localQueue)
  BY <1>1, WhoHolds DEF SqInv, SessionFits
<1>3. PICK n \in Nat : n = Len(localQueue) /\ DOMAIN localQueue = 1 .. n
  BY Typed DEF SqInv
<1>4. LeftOver = {localQueue[n - n + k] : k \in 1 .. n}
  BY <1>2, <1>3 DEF LeftOver, Left
<1>5. \A k \in 1 .. n : n - n + k = k
  BY <1>3
<1>6. SeqSet(localQueue) = LeftOver
  BY <1>3, <1>4, <1>5 DEF SeqSet
<1>7. \A d \in LeftOver : d \notin InRing /\ d \notin Taken
  BY DEF SqInv, PostersApart, ApartSets, Apart
<1> QED
  BY <1>2, <1>6, <1>7

(* Steps that leave the ring and the session as they are.                     *)
LEMMA FlightStays ==
  ASSUME UNCHANGED <<ring, devPc, pos, pending, localQueue, lock>>,
         InSession' <=> InSession, Taken' = Taken
  PROVE  InFlight' = InFlight
<1>1. Unpublished' = Unpublished
  BY DEF Unpublished
<1>2. Waiting' = Waiting
  BY <1>1 DEF Waiting, Published
<1>3. InRing' = InRing
  BY <1>2 DEF InRing, Front
<1>4. LeftOver' = LeftOver
  BY <1>1 DEF LeftOver, Left
<1> QED
  BY <1>3, <1>4 DEF InFlight

(* The device takes a descriptor out of the ring and has it then.             *)
LEMMA FlightFetched ==
  ASSUME SqInv, DevFetch
  PROVE  InFlight \subseteq InFlight'
<1>1. PICK n : n = Waiting
  OBVIOUS
<1>2. /\ n \in 1 .. DescCnt /\ Waiting' = n - 1 /\ Unpublished' = Unpublished
      /\ working' = working \cup {Front(1)}
      /\ \A k \in 1 .. n - 1 : Front(k)' = Front(k + 1)
  BY <1>1, DevFetchParts
<1>3. UNCHANGED <<localQueue, cqes, cur>>
  BY DEF DevFetch, sessionVars
<1>4. LeftOver' = LeftOver
  BY <1>2, <1>3 DEF LeftOver, Left
<1>5. Taken' = Taken \cup {Front(1)}
  BY <1>2, <1>3 DEF Taken, InCq, InHand
<1>6. ASSUME NEW k \in 1 .. n PROVE Front(k) \in InRing' \cup {Front(1)}
  <2>1. CASE k = 1
    BY <2>1
  <2>2. CASE k # 1
    <3>1. k - 1 \in 1 .. n - 1 /\ k - 1 + 1 = k
      BY <1>2, <2>2, SqSizes
    <3> QED
      BY <1>2, <3>1 DEF InRing
  <2> QED
    BY <2>1, <2>2
<1>7. InRing \subseteq InRing' \cup {Front(1)}
  BY <1>1, <1>6 DEF InRing
<1> QED
  BY <1>4, <1>5, <1>7 DEF InFlight

(* A completion is written, or taken up by the poller.                        *)
LEMMA FlightCompleted ==
  ASSUME SqInv, PollCqe \/ \E d \in working : DevComplete(d)
  PROVE  InFlight' = InFlight
<1>1. /\ UNCHANGED <<ring, devPc, pos, pending, localQueue, lock, at>>
      /\ cqes \in Seq(Desc) /\ working \subseteq Desc
  BY Typed DEF SqInv, PollCqe, DevComplete, wqVars, ringVars, sessionVars
<1>2. InSession' <=> InSession
  BY <1>1 DEF InSession
<1>3. SeqSet(cqes) = InCq /\ (cqes' \in Seq(Desc) => SeqSet(cqes') = InCq')
  BY <1>1 DEF SeqSet, InCq
<1>4. CASE PollCqe
  <2>1. /\ cur = NoDesc /\ cqes # <<>> /\ cur' = Head(cqes)
        /\ cqes' = Tail(cqes) /\ working' = working
    BY <1>4 DEF PollCqe
  <2>2. SeqSet(cqes) = SeqSet(cqes') \cup {cur'}
    BY <1>1, <2>1, SeqSets
  <2>3. cqes' \in Seq(Desc) /\ cur' \in Desc
    BY <1>1, <2>1
  <2>4. InHand = {} /\ InHand' = {cur'} /\ InCq = InCq' \cup {cur'}
    BY <1>3, <2>1, <2>2, <2>3, SqSizes DEF InHand
  <2>5. Taken' = Taken
    BY <2>1, <2>4 DEF Taken
  <2> QED
    BY <1>1, <1>2, <2>5, FlightStays
<1>5. ASSUME NEW d \in working, DevComplete(d) PROVE InFlight' = InFlight
  <2>1. working' = working \ {d} /\ cqes' = Append(cqes, d) /\ cur' = cur
    BY <1>5 DEF DevComplete
  <2>2. SeqSet(cqes') = SeqSet(cqes) \cup {d} /\ cqes' \in Seq(Desc)
    BY <1>1, <2>1, SeqSets
  <2>3. InCq' = InCq \cup {d} /\ InHand' = InHand
    BY <1>3, <2>1, <2>2 DEF InHand
  <2>4. Taken' = Taken
    BY <2>1, <2>3 DEF Taken
  <2> QED
    BY <1>1, <1>2, <2>4, FlightStays
<1> QED
  BY <1>4, <1>5

(* A chunk moves from the session to the ring.                                *)
LEMMA FlightPublished ==
  ASSUME SqInv, NEW t \in SessionThreads, CopyChunk(t)
  PROVE  InFlight \subseteq InFlight'
<1>1. PICK c, n, m : c = Chunk /\ n = Waiting /\ m = Unpublished
  OBVIOUS
<1>2. /\ UNCHANGED <<wq, working, cqes, cur>>
      /\ c \in Nat /\ 1 <= c /\ c <= m /\ n \in Nat /\ m \in 0 .. WqeCnt
      /\ Unpublished' = m - c /\ Waiting' = n + c
      /\ \A k \in 1 .. n : Front(k)' = Front(k)
      /\ \A j \in 1 .. c : Front(n + j)' = Left(j)
      /\ \A k \in 1 .. m - c : Left(k)' = Left(k + c)
  BY <1>1, CopyChunkParts
<1>3. m \in Nat
  BY <1>2, SqSizes
<1>4. /\ InRing' = InRing \cup {Left(j) : j \in 1 .. c} /\ Taken' = Taken
      /\ LeftOver' = {Left(k) : k \in c + 1 .. m}
      /\ LeftOver = {Left(k) : k \in 1 .. m}
  BY <1>1, <1>2, <1>3, PublishKeeps
<1>5. \A k \in 1 .. m : k \in 1 .. c \/ k \in c + 1 .. m
  BY <1>2, <1>3
<1>6. LeftOver \subseteq {Left(j) : j \in 1 .. c} \cup LeftOver'
  BY <1>4, <1>5
<1> QED
  BY <1>4, <1>6 DEF InFlight

(* A session that is being copied is kept whole by every step of anyone: who  *)
(* would take a request away for good needs wqlock for it.                    *)
LEMMA KeptAlong ==
  ASSUME SqInv, SessionKept, [Next]_vars
  PROVE  SessionKept'
<1> SUFFICES ASSUME NEW t \in SessionThreads, at'[t] = "copying"
             PROVE  sessionErr' = "OK" /\ SeqSet(localQueue') \subseteq InFlight'
  BY DEF SessionKept, SeqSet
<1>1. /\ t \in Callers /\ t # NoThread /\ at \in [Callers -> Places]
      /\ \A u \in SessionThreads : u \in Callers
      /\ \A u \in Threads : u \in Callers
      /\ \A u \in Callers : at[u] \in LockedPlaces <=> lock = u
  BY SqSizes DEF SqInv, TypeOK, LockFits, LockedPlaces, Callers
<1>2. at[t] = "copying" =>
        /\ lock = t /\ sessionErr = "OK" /\ SeqSet(localQueue) \subseteq InFlight
  BY <1>1 DEF SessionKept, LockedPlaces
<1>3. ASSUME at[t] = "copying", UNCHANGED <<localQueue, sessionErr>>,
             InFlight \subseteq InFlight'
      PROVE  sessionErr' = "OK" /\ SeqSet(localQueue') \subseteq InFlight'
  BY <1>2, <1>3 DEF SeqSet
<1>4. ASSUME NEW u \in Threads, PosterNext(u) PROVE FALSE
  <2>1. PICK p \in {"post_send", "idle"} : at' = [at EXCEPT ![u] = p] \/ at' = at
    BY <1>4 DEF PosterNext, PostSend, PostSendDone, PostSendWr
  <2>2. at[t] = "copying"
    BY <1>1, <2>1
  <2>3. lock = NoThread \/ at[u] = "post_send"
    BY <1>4 DEF PosterNext, PostSend, PostSendDone, PostSendWr
  <2> QED
    BY <1>1, <1>2, <2>2, <2>3 DEF LockedPlaces
<1>5. ASSUME NEW u \in SessionThreads, SessionNext(u), u # t
      PROVE  sessionErr' = "OK" /\ SeqSet(localQueue') \subseteq InFlight'
  <2>1. CASE WrReturn(u)
    <3>1. /\ at[u] \in {"returnSent", "returnErr"}
          /\ at' = [at EXCEPT ![u] = "idle"]
          /\ UNCHANGED <<wqVars, ringVars, lock, sessionVars, deviceVars, cur>>
      BY <2>1 DEF WrReturn
    <3>2. at[t] = "copying" /\ lock = t
      BY <1>1, <1>2, <1>5, <3>1
    <3>3. InSession' <=> InSession
      BY <1>1, <1>5, <3>1, <3>2 DEF InSession
    <3>4. Taken' = Taken
      BY <3>1 DEF deviceVars, Taken, InCq, InHand
    <3>5. InFlight' = InFlight
      BY <3>1, <3>3, <3>4, FlightStays DEF wqVars, ringVars, sessionVars, deviceVars
    <3> QED
      BY <1>3, <3>1, <3>2, <3>5 DEF sessionVars
  <2>2. CASE ~WrReturn(u)
    <3>1. \/ lock = NoThread
          \/ at[u] \in {"session", "copying"}
      BY <1>5, <2>2
         DEF SessionNext, WrStart, SessionError, WrAbort, WrCompleteErr, WrComplete,
             CopyChunk, WrCompleteDone, SendWr
    <3>2. at'[t] = at[t]
      BY <1>1, <1>5, <2>2
         DEF SessionNext, WrStart, SessionError, WrAbort, WrCompleteErr, WrComplete,
             CopyChunk, WrCompleteDone, SendWr, UnlockTo
    <3> QED
      BY <1>1, <1>2, <1>5, <3>1, <3>2 DEF LockedPlaces
  <2> QED
    BY <2>1, <2>2
<1>6. ASSUME SessionNext(t)
      PROVE  sessionErr' = "OK" /\ SeqSet(localQueue') \subseteq InFlight'
  <2>1. CASE WrComplete(t)
    <3>1. /\ at[t] = "session" /\ sessionErr = "OK"
          /\ UNCHANGED <<wqVars, ringVars, lock, sessionVars, deviceVars, cur>>
      BY <2>1 DEF WrComplete
    <3>2. lock = t /\ SeqSet(localQueue) = LeftOver
      BY <3>1, BuiltIsLeft
    <3>3. InSession' <=> InSession
      BY <1>1, <3>1, <3>2 DEF InSession
    <3>4. Taken' = Taken
      BY <3>1 DEF deviceVars, Taken, InCq, InHand
    <3>5. InFlight' = InFlight
      BY <3>1, <3>3, <3>4, FlightStays DEF wqVars, ringVars, sessionVars, deviceVars
    <3> QED
      BY <3>1, <3>2, <3>5 DEF sessionVars, InFlight, SeqSet
  <2>2. CASE CopyChunk(t)
    BY <1>3, <2>2, FlightPublished DEF CopyChunk
  <2>3. CASE SessionError(t) \/ \E id \in WrIds : SendWr(t, id)
    BY <2>3 DEF SessionError, SendWr
  <2>4. CASE WrStart(t) \/ WrAbort(t) \/ WrCompleteErr(t) \/ WrCompleteDone(t)
                        \/ WrReturn(t)
    BY <1>1, <2>4
       DEF WrStart, WrAbort, WrCompleteErr, WrCompleteDone, WrReturn, UnlockTo
  <2> QED
    BY <1>6, <2>1, <2>2, <2>3, <2>4 DEF SessionNext
<1>7. CASE DevFetch \/ PollCqe \/ \E d \in working : DevComplete(d)
  <2>1. UNCHANGED <<at, localQueue, sessionErr>>
    BY <1>7 DEF DevFetch, PollCqe, DevComplete, sessionVars
  <2>2. InFlight \subseteq InFlight'
    BY <1>7, FlightFetched, FlightCompleted
  <2> QED
    BY <1>3, <2>1, <2>2
<1>8. CASE PutCur \/ ModifyReset
  <2>1. lock = NoThread /\ at' = at
    BY <1>8 DEF PutCur, ModifyReset
  <2> QED
    BY <1>1, <1>2, <2>1
<1>9. CASE ModifyRts \/ UNCHANGED vars
  <2>1. /\ UNCHANGED <<ring, devPc, pos, pending, localQueue, lock, at, sessionErr>>
        /\ UNCHANGED <<working, cqes, cur>>
    BY <1>9 DEF ModifyRts, wqVars, ringVars, sessionVars, deviceVars, vars
  <2>2. Taken' = Taken /\ (InSession' <=> InSession)
    BY <2>1 DEF Taken, InCq, InHand, InSession
  <2> QED
    BY <1>3, <2>1, <2>2, FlightStays
<1> QED
  BY <1>4, <1>5, <1>6, <1>7, <1>8, <1>9 DEF Next

(* What the thread of a session leaves behind when it lets go of wqlock.      *)
LEMMA UnlockTells ==
  ASSUME SqInv, SqInv', SessionKept, Next,
         NEW t \in SessionThreads, lock = t, lock' = NoThread
  PROVE  IF at'[t] = "returnSent"
         THEN sessionErr = "OK" /\ SeqSet(localQueue) \subseteq Outstanding'
         ELSE SeqSet(localQueue) \cap Outstanding' = {}
<1>1. /\ t \in Callers /\ t # NoThread /\ at \in [Callers -> Places]
      /\ at[t] \in LockedPlaces
      /\ \A u \in Callers : at[u] \in LockedPlaces => u = t
      /\ \A u \in SessionThreads : u \in Callers
      /\ \A u \in Threads : u \in Callers
  BY SqSizes DEF SqInv, TypeOK, LockFits, LockedPlaces, Callers
<1>2. /\ Outstanding = InRing \cup Taken
      /\ Outstanding' = InRing' \cup Taken' /\ PartsAreNamed'
  <2>1. PartsAreNamed /\ PartsAreNamed'
    BY PartsNamed, PTL DEF SqInv
  <2> QED
    BY <2>1 DEF PartsAreNamed
<1>3. ASSUME UNCHANGED <<ring, devPc, working, cqes, cur>>, Published' = Published
      PROVE  Outstanding' = Outstanding
  <2>1. Waiting' = Waiting
    BY <1>3 DEF Waiting
  <2>2. InRing' = InRing
    BY <1>3, <2>1 DEF InRing, Front
  <2>3. Taken' = Taken
    BY <1>3 DEF Taken, InCq, InHand
  <2> QED
    BY <1>2, <2>2, <2>3
<1>4. Unpublished' = 0
  BY DEF Unpublished, InSession
<1>5. ASSUME NEW u \in Threads, PosterNext(u)
      PROVE  at'[t] # "returnSent" /\ SeqSet(localQueue) = {}
  <2>1. PostSendDone(u)
    BY <1>1, <1>5 DEF PosterNext, PostSend, PostSendWr
  <2>2. at[u] = "post_send" /\ at' = [at EXCEPT ![u] = "idle"] /\ u = t
    BY <1>1, <2>1 DEF PostSendDone, LockedPlaces
  <2>3. ~InSession
    BY <1>1, <2>2, WhoHolds DEF SqInv
  <2>4. localQueue = <<>>
    BY <2>3 DEF SqInv, SessionFits
  <2> QED
    BY <1>1, <2>2, <2>4 DEF SeqSet
<1>6. ASSUME NEW u \in SessionThreads, SessionNext(u)
      PROVE  \/ u = t /\ WrCompleteDone(t)
             \/ u = t /\ at[t] = "session" /\ (WrAbort(t) \/ WrCompleteErr(t))
  <2>1. ~WrStart(u) /\ ~SessionError(u) /\ ~WrComplete(u) /\ ~CopyChunk(u)
        /\ ~WrReturn(u) /\ \A id \in WrIds : ~SendWr(u, id)
    BY <1>1 DEF WrStart, SessionError, WrComplete, CopyChunk, WrReturn, SendWr
  <2>2. at[u] \in {"session", "copying"}
    BY <1>6, <2>1
       DEF SessionNext, WrAbort, WrCompleteErr, WrCompleteDone
  <2>3. u = t
    BY <1>1, <1>6, <2>2 DEF LockedPlaces
  <2> QED
    BY <1>6, <2>1, <2>3 DEF SessionNext, WrAbort, WrCompleteErr
<1>7. CASE WrCompleteDone(t)
  <2>1. /\ at[t] = "copying" /\ pending = 0 /\ at' = [at EXCEPT ![t] = "returnSent"]
        /\ UNCHANGED <<pos, ring, devPc, working, cqes, cur>>
    BY <1>7 DEF WrCompleteDone, UnlockTo, wqVars, deviceVars
  <2>2. Unpublished = 0 /\ LeftOver = {}
    BY <2>1 DEF Unpublished, LeftOver
  <2>3. Outstanding' = Outstanding
    BY <1>3, <1>4, <2>1, <2>2 DEF Published
  <2>4. sessionErr = "OK" /\ SeqSet(localQueue) \subseteq InRing \cup Taken
    BY <2>1, <2>2 DEF SessionKept, InFlight
  <2> QED
    BY <1>1, <1>2, <2>1, <2>3, <2>4
<1>8. ASSUME at[t] = "session", WrAbort(t) \/ WrCompleteErr(t)
      PROVE  at'[t] # "returnSent" /\ Outstanding' = Outstanding
             /\ SeqSet(localQueue) \cap Outstanding = {}
  <2>1. /\ RollBack /\ UNCHANGED <<ring, devPc, working, cqes, cur>>
        /\ \E p \in {"idle", "returnErr"} : at' = [at EXCEPT ![t] = p]
    BY <1>8 DEF WrAbort, WrCompleteErr, UnlockTo, ringVars, deviceVars
  <2>2. Unpublished = pending /\ Published \in 0 .. U16 - 1 /\ U16 \in Nat \ {0}
    BY <1>1, <1>8, WhoHolds, Window, SqSizes DEF SqInv
  <2>3. pos'.pc = Published
    BY <2>1, <2>2 DEF RollBack, RollBackPos, Published
  <2>4. Published' = Published
    BY <1>4, <2>2, <2>3 DEF Published, WrapSub
  <2>5. Outstanding' = Outstanding
    BY <1>3, <2>1, <2>4
  <2>6. SeqSet(localQueue) \cap Outstanding = {}
    BY <1>2, <1>8, BuiltIsLeft
  <2> QED
    BY <1>1, <2>1, <2>5, <2>6
<1>9. ~DevFetch /\ ~PollCqe /\ ~PutCur /\ ~ModifyReset /\ ~ModifyRts
      /\ \A d \in working : ~DevComplete(d)
  BY <1>1 DEF DevFetch, PollCqe, PutCur, ModifyReset, ModifyRts, DevComplete
<1> QED
  BY <1>5, <1>6, <1>7, <1>8, <1>9 DEF Next

(* A session is all or nothing: its requests are all outstanding or done when *)
(* efa_send_wr_complete unlocks, and none is after an error or an abort,      *)
(* whatever other threads, device and poller do meanwhile.                    *)
THEOREM SessionsAreAtomic ==
  ASSUME DrainedReset
  PROVE  Spec => SessionsAtomic
<1>1. Init => SessionKept
  BY DEF Init, SessionKept, Callers
<1>2. SqInv /\ SessionKept /\ [Next]_vars => SessionKept'
  BY KeptAlong
<1>3. SqInv /\ SqInv' /\ SessionKept /\ [Next]_vars =>
        [\A t \in SessionThreads :
           lock = t /\ lock' = NoThread =>
             IF at'[t] = "returnSent"
             THEN sessionErr = "OK" /\ SeqSet(localQueue) \subseteq Outstanding'
             ELSE SeqSet(localQueue) \cap Outstanding' = {}]_vars
  BY UnlockTells
<1> QED
  BY <1>1, <1>2, <1>3, SendQueueCorrect, PTL DEF Spec, SessionsAtomic
=============================================================================
