---------------------------- MODULE EfaCompletion ----------------------------
(* The completion queue (struct efa_cq, efawin/verbs.c): its sub CQs with     *)
(* their phase bits, the device that fills them, efa_poll_cq and the          *)
(* efa_start_poll / efa_next_poll / efa_end_poll session, the work queues     *)
(* they give indexes back to, and QPs that go away while completions of       *)
(* theirs are still in a sub CQ.                                              *)
(*                                                                            *)
(* The CQ's lock is held from the start of a poll to its end, across the      *)
(* calls of a session, so one caller polls at a time and callers need no      *)
(* names. Posting a request and giving an index back are single steps here:   *)
(* both run under wqlock (EfaSendQueue has their parts).                      *)
EXTENDS EfaWq, Sequences

CONSTANTS
  NumSubCqs,           \* num_sub_cqs
  CqeCnt,              \* qmask + 1: entries of a sub CQ
  Wqs,                 \* the work queues that complete here
  Qps,                 \* the QPs they belong to
  QpOf, SubCqOf,       \* QpOf[q], and the sub CQ of queue q (sub_cq_idx)
  Nwc,                 \* completions asked for by one efa_poll_cq
  Apps,                \* the applications considered, [sessions, drains]: it
                       \*   polls through start/next/end_poll as well; it destroys
                       \*   a QP only when nothing of it is left
  None

SubCqs == 0 .. NumSubCqs - 1
CqeSlots == 0 .. CqeCnt - 1

ASSUME CqAssumption ==
  /\ NumSubCqs \in Nat \ {0} /\ CqeCnt \in Nat \ {0} /\ Nwc \in Nat \ {0}
  /\ Apps \subseteq [sessions : BOOLEAN, drains : BOOLEAN]
  /\ IsFiniteSet(Wqs) /\ QpOf \in [Wqs -> Qps] /\ SubCqOf \in [Wqs -> SubCqs]
  /\ None \notin (SubCqs \X CqeSlots) \cup Wqs
  /\ U16 % CqeCnt = 0
  /\ CqeCnt < U16       \* consumed_cnt and the driver's cq_depth are 16 bits wide
  \* the application asks for a CQ that its queues cannot overrun
  /\ \A s \in SubCqs : WqeCnt * Cardinality({q \in Wqs : SubCqOf[q] = s}) <= CqeCnt

VARIABLES
  app,       \* the application, the same for ever
  wq,        \* wq[q]: the index pool of queue q
  table,     \* table[p]: qp_table still leads to QP p
  refCnt,    \* refCnt[s]: ref_cnt of sub CQ s
  working,   \* working[q]: requests of q the device works for
  ring,      \* ring[s]: the entries of sub CQ s, [q, req_id, wr, phase]
  prod,      \* prod[s], prodPhase[s]: where the device writes next in s
  prodPhase,
  consumed,  \* consumed_cnt, phase of sub CQ s
  phase,
  nextPoll,  \* next_poll_idx
  call,      \* what the holder of the CQ's lock is doing
  scanned,   \* sub_cq_idx: sub CQs looked at by this efa_poll_sub_cqs
  got,       \* completions this efa_poll_cq has reported
  cur,       \* cur_cqe: <<sub CQ, slot>> or None (NULL)
  curWq      \* cur_wq

cqVars == <<consumed, phase, nextPoll>>
devVars == <<working, ring, prod, prodPhase>>
qpVars == <<table, refCnt>>
callVars == <<call, scanned, got>>
curVars == <<cur, curWq>>
vars == <<app, wq, table, refCnt, working, ring, prod, prodPhase, consumed, phase,
          nextPoll, call, scanned, got, cur, curWq>>

Request == [req_id : Idx, wr : WrIds]
Cqe == [q : Wqs, req_id : Idx, wr : WrIds, phase : Phases]
NoCqe == [phase |-> 0]      \* the device clears the entries first
Calls == {"none", "poll", "polled", "start", "session", "next", "failed"}
Scanning == {"poll", "start", "next"}

TypeOK ==
  /\ app \in Apps
  /\ wq \in [Wqs -> WqType] /\ table \in [Qps -> BOOLEAN]
  /\ refCnt \in [SubCqs -> 0 .. Cardinality(Wqs)]
  /\ working \in [Wqs -> SUBSET Request]
  /\ ring \in [SubCqs -> [CqeSlots -> Cqe \cup {NoCqe}]]
  /\ prod \in [SubCqs -> 0 .. U16 - 1] /\ prodPhase \in [SubCqs -> Phases]
  /\ consumed \in [SubCqs -> 0 .. U16 - 1] /\ phase \in [SubCqs -> Phases]
  /\ nextPoll \in SubCqs
  /\ call \in Calls /\ scanned \in 0 .. NumSubCqs /\ got \in 0 .. Nwc
  /\ cur \in (SubCqs \X CqeSlots) \cup {None} /\ curWq \in Wqs \cup {None}

(* create_cq: efa_sub_cq_initialize starts every sub CQ at phase 1; the QPs   *)
(* have been created on it.                                                   *)
Init ==
  /\ app \in Apps
  /\ wq = [q \in Wqs |-> WqInitial]
  /\ table = [p \in Qps |-> TRUE]
  /\ refCnt = [s \in SubCqs |-> Cardinality({q \in Wqs : SubCqOf[q] = s})]
  /\ working = [q \in Wqs |-> {}]
  /\ ring = [s \in SubCqs |-> [k \in CqeSlots |-> NoCqe]]
  /\ prod = [s \in SubCqs |-> 0] /\ prodPhase = [s \in SubCqs |-> 1]
  /\ consumed = [s \in SubCqs |-> 0] /\ phase = [s \in SubCqs |-> 1]
  /\ nextPoll = 0
  /\ call = "none" /\ scanned = 0 /\ got = 0
  /\ cur = None /\ curWq = None

----------------------------------------------------------------------------
CqeSlot(c) == c % CqeCnt
CurCqe == ring[cur[1]][cur[2]]

(* Completions of queue q in its sub CQ that have not been consumed.          *)
Unconsumed(q) ==
  LET s == SubCqOf[q]
      n == WrapSub(prod[s], consumed[s], U16)
  IN  {c \in {ring[s][CqeSlot((consumed[s] + k) % U16)] : k \in 0 .. n - 1} :
         c.q = q}

(* The completion in hand, its index not yet given back: cur is one from      *)
(* efa_poll_sub_cq to the put that ends its use.                              *)
InHand(q) ==
  IF call \in {"polled", "session"} /\ cur # None /\ curWq = q THEN {CurCqe} ELSE {}

Strip(c) == [req_id |-> c.req_id, wr |-> c.wr]
Outstanding(q) ==
  working[q] \cup {Strip(c) : c \in Unconsumed(q)} \cup {Strip(c) : c \in InHand(q)}

Live(q) == table[QpOf[q]]

(* Posting to queue q, and the device taking the request up.                  *)
Post(q, id) ==
  /\ Live(q) /\ ~Full(wq[q])
  /\ \A o \in Wqs : \A d \in Outstanding(o) : d.wr # id
  /\ wq' = [wq EXCEPT ![q] = CountPosted(GetNextWridIdx(wq[q], id))]
  /\ working' = [working EXCEPT ![q] =
                   @ \cup {[req_id |-> NextIdx(wq[q]), wr |-> id]}]
  /\ UNCHANGED <<qpVars, ring, prod, prodPhase, cqVars, callVars, curVars>>

(* The device writes a completion into the queue's sub CQ, in any order, and  *)
(* turns its phase over at the end of the ring. It does not look at how far   *)
(* the library has read.                                                      *)
DevComplete(q, d) ==
  LET s == SubCqOf[q]
  IN  /\ d \in working[q]
      /\ working' = [working EXCEPT ![q] = @ \ {d}]
      /\ ring' = [ring EXCEPT ![s][CqeSlot(prod[s])] =
                    [q |-> q, req_id |-> d.req_id, wr |-> d.wr,
                     phase |-> prodPhase[s]]]
      /\ prod' = [prod EXCEPT ![s] = WrapInc(@, U16)]
      /\ prodPhase' = [prodPhase EXCEPT ![s] =
                         IF CqeSlot(prod'[s]) = 0 THEN 1 - @ ELSE @]
      /\ UNCHANGED <<wq, qpVars, cqVars, callVars, curVars>>

----------------------------------------------------------------------------
(* efa_poll_cq and efa_start_poll take the CQ's lock and start to look.       *)
\* mutant: every call starts with the first sub CQ
PollCqFromFirst ==
  /\ call = "none"
  /\ call' = "poll" /\ scanned' = 0 /\ got' = 0 /\ nextPoll' = 0
  /\ UNCHANGED <<wq, qpVars, devVars, consumed, phase, curVars>>
PollCq ==
  /\ call = "none"
  /\ call' = "poll" /\ scanned' = 0 /\ got' = 0
  /\ UNCHANGED <<wq, qpVars, devVars, cqVars, curVars>>

StartPoll ==
  /\ app.sessions /\ call = "none"
  /\ call' = "start" /\ scanned' = 0
  /\ UNCHANGED <<wq, qpVars, devVars, cqVars, got, curVars>>

(* efa_cqe_is_pending for the entry at consumed_cnt.                          *)
\* mutant: an entry counts by having been written
PendingIfWritten(s) == ring[s][CqeSlot(consumed[s])] # NoCqe
Pending(s) == ring[s][CqeSlot(consumed[s])].phase = phase[s]

(* next_poll_idx++, modulo num_sub_cqs.                                       *)
RoundRobin == nextPoll' = (nextPoll + 1) % NumSubCqs

(* One turn of the loop of efa_poll_sub_cqs that finds nothing: a sub CQ no   *)
(* QP uses is passed over, one without an entry sets cur_cqe to NULL.         *)
ScanNothing ==
  /\ call \in Scanning /\ scanned < NumSubCqs
  /\ \/ refCnt[nextPoll] = 0 /\ cur' = cur
     \/ refCnt[nextPoll] > 0 /\ ~Pending(nextPoll) /\ cur' = None
  /\ RoundRobin
  /\ scanned' = scanned + 1
  /\ UNCHANGED <<wq, qpVars, devVars, consumed, phase, call, got, curWq>>

(* cq_next_sub_cqe_get takes the entry.                                       *)
Consume(s) ==
  /\ consumed' = [consumed EXCEPT ![s] = WrapInc(@, U16)]
  /\ phase' = [phase EXCEPT ![s] =
                 IF CqeSlot(consumed'[s]) = 0 THEN 1 - @ ELSE @]

(* A turn that finds an entry of a QP in the table: efa_process_cqe or        *)
(* efa_process_ex_cqe reads wrid[req_id] of the queue it sets cur_wq to.      *)
ScanFound ==
  LET s == nextPoll
      k == CqeSlot(consumed[s])
  IN  /\ call \in Scanning /\ scanned < NumSubCqs
      /\ refCnt[s] > 0 /\ Pending(s) /\ Live(ring[s][k].q)
      /\ Consume(s) /\ RoundRobin
      /\ cur' = <<s, k>> /\ curWq' = ring[s][k].q
      /\ call' = IF call = "poll" THEN "polled" ELSE "session"
      /\ UNCHANGED <<wq, qpVars, devVars, scanned, got>>

(* A turn that finds an entry of a QP that is gone: EINVAL. The entry is      *)
(* consumed, cur_cqe points to it, cur_wq is still the queue of the last      *)
(* completion. efa_poll_cq and efa_start_poll unlock, efa_next_poll does not. *)
ScanOrphan ==
  LET s == nextPoll
      k == CqeSlot(consumed[s])
  IN  /\ call \in Scanning /\ scanned < NumSubCqs
      /\ refCnt[s] > 0 /\ Pending(s) /\ ~Live(ring[s][k].q)
      /\ Consume(s) /\ RoundRobin
      /\ cur' = <<s, k>>
      /\ call' = IF call = "next" THEN "failed" ELSE "none"
      /\ UNCHANGED <<wq, qpVars, devVars, scanned, got, curWq>>

(* The loop ends with ENOENT: an efa_next_poll keeps the lock.                *)
ScanEnd ==
  /\ call \in Scanning /\ scanned = NumSubCqs
  /\ call' = IF call = "next" THEN "session" ELSE "none"
  /\ UNCHANGED <<wq, qpVars, devVars, cqVars, scanned, got, curVars>>

(* efa_wq_put_wrid_idx_unlocked(cq->cur_wq, cq->cur_cqe->req_id).             *)
\* mutant: the slot of the ring for the index in the entry
PutCurSlot == wq' = [wq EXCEPT ![curWq] = PutWridIdx(@, cur[2])]
PutCur == wq' = [wq EXCEPT ![curWq] = PutWridIdx(@, CurCqe.req_id)]

(* efa_poll_cq gives the index of the completion it reported back at once,    *)
(* and goes on until it has nwc of them.                                      *)
PutPolled ==
  /\ call = "polled"
  /\ PutCur
  /\ got' = got + 1
  /\ call' = IF got + 1 < Nwc THEN "poll" ELSE "none"
  /\ scanned' = 0
  /\ UNCHANGED <<qpVars, devVars, cqVars, curVars>>

(* efa_next_poll, only ever called on a completion.                           *)
NextPoll ==
  /\ call = "session" /\ cur # None
  /\ PutCur
  /\ call' = "next" /\ scanned' = 0
  /\ UNCHANGED <<qpVars, devVars, cqVars, got, curVars>>

(* efa_end_poll, also after an efa_next_poll that failed.                     *)
\* mutant: an efa_next_poll that found nothing is forgotten
EndPollAlwaysPuts ==
  /\ call \in {"session", "failed"}
  /\ IF cur # None THEN PutCur
     ELSE wq' = [q \in Wqs |-> IF q = curWq THEN PutWridIdx(wq[q], 0) ELSE wq[q]]
  /\ call' = "none"
  /\ UNCHANGED <<qpVars, devVars, cqVars, scanned, got, curVars>>
EndPoll ==
  /\ call \in {"session", "failed"}
  /\ IF cur # None THEN PutCur ELSE UNCHANGED wq
  /\ call' = "none"
  /\ UNCHANGED <<qpVars, devVars, cqVars, scanned, got, curVars>>

(* efa_destroy_qp, with the lock of the CQ; the device stops working for the  *)
(* queues of the QP. What it has completed stays in the sub CQs. cur_wq of an *)
(* idle CQ is not read again before it is set.                                *)
DestroyQp(p) ==
  LET gone == {q \in Wqs : QpOf[q] = p}
  IN  /\ call = "none" /\ table[p]
      /\ app.drains => \A q \in gone : Outstanding(q) = {}
      /\ table' = [table EXCEPT ![p] = FALSE]
      /\ refCnt' = [s \in SubCqs |->
                      refCnt[s] - Cardinality({q \in gone : SubCqOf[q] = s})]
      /\ working' = [q \in Wqs |-> IF q \in gone THEN {} ELSE working[q]]
      /\ UNCHANGED <<wq, ring, prod, prodPhase, cqVars, callVars, curVars>>

Step ==
  \/ \E q \in Wqs : \/ \E id \in WrIds : Post(q, id)
                    \/ \E d \in working[q] : DevComplete(q, d)
  \/ PollCq \/ StartPoll \/ ScanNothing \/ ScanFound \/ ScanOrphan \/ ScanEnd
  \/ PutPolled \/ NextPoll \/ EndPoll
  \/ \E p \in Qps : DestroyQp(p)
Next == Step /\ UNCHANGED app

Spec == Init /\ [][Next]_vars

(* The application polls again and again, and what holds the CQ's lock goes   *)
(* on: one thread, whose steps are the disjuncts of Polling.                  *)
Polling ==
  /\ \/ PollCq \/ ScanNothing \/ ScanFound \/ ScanOrphan \/ ScanEnd \/ PutPolled
     \/ NextPoll \/ EndPoll
  /\ UNCHANGED app
FairSpec == Spec /\ WF_vars(Polling)

----------------------------------------------------------------------------
(* The index of a request is out of the pool of its queue from the post to    *)
(* the put that ends the use of its completion, and goes back once: the pool  *)
(* of a live queue has as many indexes out as there are requests of it at the *)
(* device, in the sub CQs or in hand, and none of theirs among the free ones. *)
(* efa_poll_cq, efa_next_poll and efa_end_poll share cur_wq and cur_cqe for   *)
(* this, and read the entry in place: were the device to write over it while  *)
(* it is in hand, the index of another request would go back.                 *)
IndexReturnedOnce ==
  \A q \in Wqs : Live(q) =>
    LET out == {d.req_id : d \in Outstanding(q)}
    IN  /\ wq[q].next = Cardinality(out)
        /\ \A i \in Idx : i >= wq[q].next => wq[q].pool[i] \notin out

(* Wherever a completion of a live queue is, wrid[req_id] is still the wr_id  *)
(* its request was posted with, which is what efa_process_cqe, without the    *)
(* queue's lock, is going to read.                                            *)
WridAwaitsCompletion ==
  \A q \in Wqs : Live(q) =>
    \A d \in Outstanding(q) : wq[q].wrid[d.req_id] = d.wr

(* One bit is enough to tell a new entry from an old one: the entry at        *)
(* consumed_cnt has the sub CQ's phase exactly when the device is ahead of    *)
(* the library, at every wrap of the ring and of the 16-bit counter, and with *)
(* entries of destroyed QPs among the others.                                 *)
PhaseShowsPending ==
  \A s \in SubCqs : Pending(s) <=> prod[s] # consumed[s]

(* next_poll_idx "is used to guarantee fairness for sub cqs" (efa.h): the     *)
(* completion of a live queue does not wait for ever for others.              *)
Waiting(id) == \E q \in Wqs : Live(q) /\ \E c \in Unconsumed(q) : c.wr = id
EveryCompletionSeen == \A id \in WrIds : Waiting(id) ~> ~Waiting(id)
=============================================================================
