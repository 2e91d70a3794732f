---------------------------- MODULE EfaSendQueue -----------------------------
(* The send queue of a QP (struct efa_sq, efawin/verbs.c): threads that post  *)
(* with efa_post_send or with a wr_start ... wr_complete session, the wqlock  *)
(* they share with the poller that gives indexes back, the descriptor ring    *)
(* and doorbell the device reads, and efa_modify_qp.                          *)
(*                                                                            *)
(* A request is named by its wr_id. Its descriptor carries the index the code *)
(* chose (req_id), the phase, and, as field wr, the request whose payload it  *)
(* is: what the device works for, whatever wrid[] says when it is done. The   *)
(* ring of a send queue has one slot per entry of wrid[] (desc_mask is        *)
(* wqe_cnt - 1).                                                              *)
EXTENDS EfaWq, Sequences

CONSTANTS
  Threads,           \* threads that post with efa_post_send
  SessionThreads,    \* threads that post through sessions
  NoThread,
  NoDesc,            \* an empty ring slot, no completion in hand
  MaxBatchWr,        \* max_batch_wr: requests the device takes per doorbell
  DevDepth,          \* device: descriptors it works for at once
  MayReset,          \* the application moves the QP to RESET
  DrainBeforeReset   \* ... and only when no request is outstanding

Callers == Threads \cup SessionThreads
Desc == [req_id : Idx, wr : WrIds, phase : Phases]

ASSUME SqAssumption ==
  /\ NoThread \notin Callers /\ NoDesc \notin Desc
  /\ DescCnt = WqeCnt
  /\ MaxBatchWr \in Nat \ {0} /\ DevDepth \in Nat \ {0}
  /\ MayReset \in BOOLEAN /\ DrainBeforeReset \in BOOLEAN

VARIABLES
  wq, pos,       \* sq->wq: the index pool and the ring position
  ring,          \* sq->desc: the descriptors in device memory
  db,            \* the doorbell register, the last producer count written
  state,         \* verbs_qp.qp.state
  lock,          \* the thread that holds wqlock
  at,            \* at[t]: where thread t is
  curbatch,      \* requests copied since the last doorbell of this call
  localQueue,    \* sq->local_queue
  pending,       \* sq->num_wqe_pending
  phaseRb,       \* sq->phase_rb
  sessionErr,    \* qp->wr_session_err
  devPc,         \* device: the next descriptor it fetches
  working,       \* device: descriptors fetched, not yet completed
  cqes,          \* completions in the queue's sub CQ, oldest first
  cur            \* the completion a poller has in hand (cq->cur_cqe)

wqVars == <<wq, pos>>
ringVars == <<ring, db>>
sessionVars == <<localQueue, pending, phaseRb, sessionErr>>
deviceVars == <<devPc, working, cqes>>
vars == <<wq, pos, ring, db, state, lock, at, curbatch, localQueue, pending,
          phaseRb, sessionErr, devPc, working, cqes, cur>>

Places == {"idle", "post_send", "session", "copying", "returnSent", "returnErr"}

TypeOK ==
  /\ wq \in WqType /\ pos \in PosType
  /\ ring \in [Slots -> Desc \cup {NoDesc}] /\ db \in 0 .. U16 - 1
  /\ state \in {"RESET", "RTS"}
  /\ lock \in Callers \cup {NoThread} /\ at \in [Callers -> Places]
  /\ curbatch \in 0 .. MaxBatchWr
  /\ localQueue \in Seq(Desc) /\ pending \in 0 .. WqeCnt
  /\ phaseRb \in Phases /\ sessionErr \in {"OK", "EINVAL", "ENOMEM"}
  /\ devPc \in 0 .. U16 - 1
  /\ working \subseteq Desc /\ cqes \in Seq(Desc) /\ cur \in Desc \cup {NoDesc}

Init ==
  /\ wq = WqInitial /\ pos = PosInitial
  /\ ring = [s \in Slots |-> NoDesc] /\ db = 0
  /\ state = "RTS"
  /\ lock = NoThread /\ at = [t \in Callers |-> "idle"]
  /\ curbatch = 0
  /\ localQueue = <<>> /\ pending = 0 /\ phaseRb = 0 /\ sessionErr = "OK"
  /\ devPc = 0 /\ working = {} /\ cqes = <<>> /\ cur = NoDesc

----------------------------------------------------------------------------
(* Requests of an open session are counted in pos.pc but are not in the ring. *)
InSession == lock # NoThread /\ at[lock] \in {"session", "copying"}
Unpublished == IF InSession THEN pending ELSE 0
Published == WrapSub(pos.pc, Unpublished, U16)

(* Descriptors in the ring the device has not fetched, oldest first.          *)
Unfetched ==
  [k \in 1 .. WrapSub(Published, devPc, U16) |->
     ring[Slot((devPc + k - 1) % U16)]]
(* Descriptors of the open session still to be copied.                        *)
Uncopied == SubSeq(localQueue, Len(localQueue) - Unpublished + 1, Len(localQueue))

SeqSet(s) == {s[k] : k \in DOMAIN s}
Outstanding ==
  SeqSet(Unfetched) \cup working \cup SeqSet(cqes) \cup ({cur} \ {NoDesc})

(* The application names a request apart from those it waits for.             *)
Unused(id) == \A d \in Outstanding \cup SeqSet(localQueue) : d.wr # id

----------------------------------------------------------------------------
(* efa_post_send: takes the lock; one iteration per request; rings the        *)
(* doorbell each MaxBatchWr requests and at the end.                          *)
NewDesc(id) == [req_id |-> NextIdx(wq), wr |-> id, phase |-> pos.phase]

PostSend(t) ==
  /\ at[t] = "idle" /\ lock = NoThread
  /\ lock' = t /\ at' = [at EXCEPT ![t] = "post_send"] /\ curbatch' = 0
  /\ UNCHANGED <<wqVars, ringVars, state, sessionVars, deviceVars, cur>>

(* efa_post_send_validate for a request with legal flags.                     *)
Accepts(w) == state = "RTS" /\ ~Full(w)

(* curbatch after n more requests; the doorbell when that fills a batch.      *)
RingWhenFull(n, c) ==
  IF curbatch + n = MaxBatchWr THEN db' = c /\ curbatch' = 0
                               ELSE db' = db /\ curbatch' = curbatch + n

PostSendWr(t, id) ==
  /\ at[t] = "post_send" /\ Accepts(wq) /\ Unused(id)
  /\ ring' = [ring EXCEPT ![Slot(pos.pc)] = NewDesc(id)]
  /\ wq' = CountPosted(GetNextWridIdx(wq, id))
  /\ pos' = AdvancePos(pos)
  /\ RingWhenFull(1, pos'.pc)
  /\ UNCHANGED <<state, lock, at, sessionVars, deviceVars, cur>>

(* The rest of a batch is announced before the unlock.                        *)
\* mutant: a partial batch is not announced
RingNothing == db' = db
RingRest == db' = IF curbatch # 0 THEN pos.pc ELSE db

(* The list ends, or its next request is refused: label ring_db either way.   *)
PostSendDone(t) ==
  /\ at[t] = "post_send"
  /\ RingRest
  /\ lock' = NoThread /\ at' = [at EXCEPT ![t] = "idle"] /\ curbatch' = 0
  /\ UNCHANGED <<wqVars, ring, state, sessionVars, deviceVars, cur>>

----------------------------------------------------------------------------
(* A session: efa_send_wr_start, requests built in local_queue, and           *)
(* efa_send_wr_complete or efa_send_wr_abort.                                 *)
WrStart(t) ==
  /\ at[t] = "idle" /\ lock = NoThread
  /\ lock' = t /\ at' = [at EXCEPT ![t] = "session"]
  /\ sessionErr' = "OK" /\ pending' = 0 /\ phaseRb' = pos.phase
  /\ localQueue' = <<>>
  /\ UNCHANGED <<wqVars, ringVars, state, curbatch, deviceVars, cur>>

(* efa_send_wr_common, the request accepted. A request after an error of the  *)
(* session returns that error and changes nothing.                            *)
SendWr(t, id) ==
  /\ at[t] = "session" /\ sessionErr = "OK" /\ Accepts(wq) /\ Unused(id)
  /\ localQueue' = Append(localQueue, NewDesc(id))
  /\ wq' = CountPosted(GetNextWridIdx(wq, id))
  /\ pos' = AdvancePos(pos)
  /\ pending' = pending + 1
  /\ UNCHANGED <<ringVars, state, lock, at, curbatch, phaseRb, sessionErr,
                 deviceVars, cur>>

(* efa_send_wr_common refuses a request (full queue, wrong state or flags),   *)
(* or one of the efa_send_wr_set_... calls refuses its argument: the session  *)
(* remembers the first error.                                                 *)
SessionError(t) ==
  /\ at[t] = "session" /\ sessionErr = "OK"
  /\ sessionErr' \in {"EINVAL"} \cup (IF Full(wq) THEN {"ENOMEM"} ELSE {})
  /\ UNCHANGED <<wqVars, ringVars, state, lock, at, curbatch, localQueue,
                 pending, phaseRb, deviceVars, cur>>

(* The unlock. What is left in local_queue is never read again.               *)
UnlockTo(t, place) ==
  /\ lock' = NoThread /\ at' = [at EXCEPT ![t] = place] /\ localQueue' = <<>>

(* efa_sq_roll_back. num_wqe_pending keeps its value until the next session.  *)
\* mutant: the pool position is not restored
RollBackAllButNext ==
  /\ wq' = RollBackKeepsNext(wq, pending)
  /\ pos' = RollBackPos(pos, pending, phaseRb)
RollBack ==
  /\ wq' = RollBackWq(wq, pending)
  /\ pos' = RollBackPos(pos, pending, phaseRb)

WrAbort(t) ==
  /\ at[t] = "session"
  /\ RollBack /\ UnlockTo(t, "idle")
  /\ UNCHANGED <<ringVars, state, curbatch, pending, phaseRb, sessionErr,
                 deviceVars, cur>>

(* efa_send_wr_complete of a session with an error.                           *)
WrCompleteErr(t) ==
  /\ at[t] = "session" /\ sessionErr # "OK"
  /\ RollBack /\ UnlockTo(t, "returnErr")
  /\ UNCHANGED <<ringVars, state, curbatch, pending, phaseRb, sessionErr,
                 deviceVars, cur>>

(* efa_send_wr_complete otherwise, up to its loop.                            *)
WrComplete(t) ==
  /\ at[t] = "session" /\ sessionErr = "OK"
  /\ at' = [at EXCEPT ![t] = "copying"] /\ curbatch' = 0
  /\ UNCHANGED <<wqVars, ringVars, state, lock, sessionVars, deviceVars, cur>>

Least(a, b) == IF a <= b THEN a ELSE b

(* num_wqe_to_copy: neither past the session, nor past the end of the ring,   *)
(* nor past the doorbell batch. The local pc of the loop is wq->pc minus      *)
(* num_wqe_pending all along.                                                 *)
\* mutants: a chunk may pass the doorbell batch; or the end of the ring
ChunkIgnoresBatch == Least(pending, WqeCnt - Slot(WrapSub(pos.pc, pending, U16)))
ChunkIgnoresWrap == Least(pending, MaxBatchWr - curbatch)
Chunk ==
  Least(Least(pending, WqeCnt - Slot(WrapSub(pos.pc, pending, U16))),
        MaxBatchWr - curbatch)

(* local_idx: the part of local_queue already copied.                         *)
\* mutant: it is not advanced
LocalIdxStays == 0
LocalIdx == Len(localQueue) - pending

(* One iteration of its loop.                                                 *)
CopyChunk(t) ==
  LET first == Slot(WrapSub(pos.pc, pending, U16))
  IN  /\ at[t] = "copying" /\ pending > 0
      /\ ring' = [s \in Slots |->
                    IF s \in first .. first + Chunk - 1
                    THEN localQueue[LocalIdx + (s - first) + 1] ELSE ring[s]]
      /\ pending' = pending - Chunk
      /\ RingWhenFull(Chunk, WrapSub(pos.pc, pending', U16))
      /\ UNCHANGED <<wqVars, state, lock, at, localQueue, phaseRb, sessionErr,
                     deviceVars, cur>>

(* The last doorbell and the unlock.                                          *)
WrCompleteDone(t) ==
  /\ at[t] = "copying" /\ pending = 0
  /\ RingRest
  /\ UnlockTo(t, "returnSent") /\ curbatch' = 0
  /\ UNCHANGED <<wqVars, ring, state, pending, phaseRb, sessionErr, deviceVars,
                 cur>>

(* "return qp->wr_session_err", after the unlock.                             *)
WrReturn(t) ==
  /\ at[t] \in {"returnSent", "returnErr"}
  /\ at' = [at EXCEPT ![t] = "idle"]
  /\ UNCHANGED <<wqVars, ringVars, state, lock, curbatch, sessionVars,
                 deviceVars, cur>>

----------------------------------------------------------------------------
(* The device, as the code uses it: told how far by the doorbell, it fetches  *)
(* descriptors in ring order and completes them in any order.                 *)
DevFetch ==
  /\ devPc # db /\ Cardinality(working) < DevDepth
  /\ devPc' = WrapInc(devPc, U16)
  /\ working' = working \cup {ring[Slot(devPc)]}
  /\ UNCHANGED <<wqVars, ringVars, state, lock, at, curbatch, sessionVars, cqes,
                 cur>>

DevComplete(d) ==
  /\ d \in working
  /\ working' = working \ {d} /\ cqes' = Append(cqes, d)
  /\ UNCHANGED <<wqVars, ringVars, state, lock, at, curbatch, sessionVars, devPc,
                 cur>>

(* A poller, holding the CQ's lock, takes a completion and reads              *)
(* wrid[req_id] without wqlock; later it gives the index back under wqlock    *)
(* (at once in efa_poll_cq, in the next efa_next_poll or efa_end_poll         *)
(* otherwise).                                                                *)
PollCqe ==
  /\ cur = NoDesc /\ cqes # <<>>
  /\ cur' = Head(cqes) /\ cqes' = Tail(cqes)
  /\ UNCHANGED <<wqVars, ringVars, state, lock, at, curbatch, sessionVars, devPc,
                 working>>

ReportedWrId == IF cur = NoDesc THEN NoWr ELSE wq.wrid[cur.req_id]

PutCur ==
  /\ cur # NoDesc /\ lock = NoThread
  /\ wq' = PutWridIdx(wq, cur.req_id)
  /\ cur' = NoDesc
  /\ UNCHANGED <<pos, ringVars, state, lock, at, curbatch, sessionVars,
                 deviceVars>>

(* efa_modify_qp to RESET: takes no lock; the application sees to it that     *)
(* nobody is posting and that the CQ has been polled empty. The device        *)
(* forgets its part of the queue.                                             *)
ModifyReset ==
  /\ MayReset /\ state = "RTS"
  /\ lock = NoThread /\ cqes = <<>> /\ cur = NoDesc
  /\ DrainBeforeReset => Outstanding = {}
  /\ state' = "RESET"
  /\ wq' = InitIndices(wq) /\ pos' = InitPos(pos)
  /\ ring' = [s \in Slots |-> NoDesc] /\ db' = 0 /\ devPc' = 0 /\ working' = {}
  /\ UNCHANGED <<lock, at, curbatch, sessionVars, cqes, cur>>

(* ... and back, through INIT and RTR, to RTS.                                *)
ModifyRts ==
  /\ state = "RESET"
  /\ state' = "RTS"
  /\ UNCHANGED <<wqVars, ringVars, lock, at, curbatch, sessionVars, deviceVars,
                 cur>>

----------------------------------------------------------------------------
PosterNext(t) ==
  \/ PostSend(t) \/ PostSendDone(t)
  \/ \E id \in WrIds : PostSendWr(t, id)

SessionNext(t) ==
  \/ WrStart(t) \/ SessionError(t) \/ WrAbort(t) \/ WrCompleteErr(t)
  \/ WrComplete(t) \/ CopyChunk(t) \/ WrCompleteDone(t) \/ WrReturn(t)
  \/ \E id \in WrIds : SendWr(t, id)

Next ==
  \/ \E t \in Threads : PosterNext(t)
  \/ \E t \in SessionThreads : SessionNext(t)
  \/ DevFetch \/ PollCqe \/ PutCur \/ ModifyReset \/ ModifyRts
  \/ \E d \in working : DevComplete(d)

Spec == Init /\ [][Next]_vars
----------------------------------------------------------------------------
(* The wr_id the poller is about to report, and any it will report later, is  *)
(* the one the request was posted with, however late and out of order the     *)
(* device completes and whatever sessions were rolled back in between.        *)
CompletionNamesItsRequest ==
  \A d \in Outstanding \cup SeqSet(Uncopied) : wq.wrid[d.req_id] = d.wr

(* "Will never overlap, as validate function succeeded" (the comment in       *)
(* efa_wq_get_next_wrid_idx_locked): two requests that are outstanding at     *)
(* once never have the same index.                                            *)
NeverOverlap == \A d, e \in Outstanding : d.req_id = e.req_id => d = e

(* The same with the requests of an open session, and no index of any of them *)
(* in the free part of the pool, so no later request can be given one of them *)
(* either.                                                                    *)
NoSharedIndex ==
  LET ds == Outstanding \cup SeqSet(Uncopied)
  IN  /\ \A d, e \in ds : d.req_id = e.req_id => d = e
      /\ wq.next <= WqeCnt
      /\ \A d \in ds : \A k \in wq.next .. WqeCnt - 1 : wq.pool[k] # d.req_id

(* The doorbell never announces a descriptor that is not in the ring, and     *)
(* whenever nobody holds wqlock it has announced every one that is: no return *)
(* path of efa_post_send or efa_send_wr_complete strands a request ("the      *)
(* doorbell write should be done inside the lock").                           *)
DoorbellExact ==
  LET announced == WrapSub(db, devPc, U16)
  IN  /\ announced <= Len(Unfetched)
      /\ lock = NoThread => announced = Len(Unfetched)

(* max_batch_wr: one doorbell never announces more requests than the device   *)
(* takes at once, in either way of posting.                                   *)
DoorbellBatch ==
  [][state' = state /\ db' # db => WrapSub(db', db, U16) <= MaxBatchWr]_vars

(* The phase bit tells laps of the ring apart: a descriptor written over an   *)
(* older one carries the other phase, also after sessions rolled back across  *)
(* the end of the ring.                                                       *)
PhaseTellsLaps ==
  [][\A s \in Slots : (ring[s] # NoDesc /\ ring'[s] \notin {ring[s], NoDesc})
                        => ring'[s].phase # ring[s].phase]_vars

(* A session is all or nothing. When its thread lets go of wqlock, either     *)
(* every request it built is on its way to the device or through it, however  *)
(* many chunks and doorbells that took and however far the device has got     *)
(* meanwhile; or, after an error or an abort, none is.                        *)
SessionsAtomic ==
  [][\A t \in SessionThreads :
       lock = t /\ lock' = NoThread =>
         IF at'[t] = "returnSent"
         THEN sessionErr = "OK" /\ SeqSet(localQueue) \subseteq Outstanding'
         ELSE SeqSet(localQueue) \cap Outstanding' = {}]_vars

----------------------------------------------------------------------------
(* The ring, the doorbell and the index pool together implement the abstract  *)
(* work queue: in order, no loss, no duplicate, nothing of a rolled back      *)
(* session, at most WqeCnt outstanding.                                       *)
Queued == [k \in DOMAIN Unfetched |-> Unfetched[k].wr]
Names(ds) == {d.wr : d \in ds}
WQ == INSTANCE WorkQueue WITH
        Capacity <- WqeCnt, Requests <- WrIds, None <- NoWr,
        queue <- Queued, working <- Names(working),
        finished <- Names(SeqSet(cqes)), reported <- ReportedWrId
ImplementsWorkQueue == WQ!Spec

(* ... and use the wr_id pool as EfaWridPool says it is to be used, so what   *)
(* is proved of that module holds here.                                       *)
HolderIn(ds, i) ==
  IF \E d \in ds : d.req_id = i THEN (CHOOSE d \in ds : d.req_id = i).wr ELSE NoWr
Holders(ds) == [i \in Idx |-> HolderIn(ds, i)]
Pool == INSTANCE EfaWridPool WITH
          owner <- Holders(Outstanding), session <- InSession,
          building <- Holders(SeqSet(Uncopied)), pending <- Unpublished
ImplementsPool == Pool!Spec

----------------------------------------------------------------------------
(* Fairness. The device works on. A poller polls on and gets wqlock in the    *)
(* end (a CRITICAL_SECTION is not fair, but does not starve a waiter for      *)
(* ever: strong fairness). A thread inside a call returns from it, and an     *)
(* application ends the sessions it starts.                                   *)
Fairness ==
  /\ WF_vars(DevFetch)
  /\ \A id \in WrIds : WF_vars(\E d \in working : d.wr = id /\ DevComplete(d))
  /\ WF_vars(PollCqe) /\ SF_vars(PutCur)
  /\ \A t \in Threads : WF_vars(PostSendDone(t))
  /\ \A t \in SessionThreads :
       WF_vars(\/ WrAbort(t) \/ WrCompleteErr(t) \/ WrComplete(t)
               \/ CopyChunk(t) \/ WrCompleteDone(t))
FairSpec == Spec /\ Fairness

(* Every request that was accepted is reported and its index given back.      *)
EveryRequestFinishes ==
  \A id \in WrIds :
    (\E d \in Outstanding : d.wr = id) ~> (\A d \in Outstanding : d.wr # id)
=============================================================================
