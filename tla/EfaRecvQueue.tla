---------------------------- MODULE EfaRecvQueue -----------------------------
(* The receive queue of a QP (struct efa_rq, efawin/verbs.c): threads in      *)
(* efa_post_recv, the ring with one descriptor per scatter entry, the         *)
(* doorbell, the device that fetches whole requests, the poller that gives    *)
(* indexes back, and efa_modify_qp to RESET.                                  *)
(*                                                                            *)
(* A request takes one index, whatever the number of its scatter entries, and *)
(* as many slots as it has entries: what keeps the ring from being overrun is *)
(* wqe_cnt = rq_desc_cnt / max_sge (efa_setup_qp) and the test of num_sge.    *)
EXTENDS EfaWq, Sequences

CONSTANTS
  Threads,    \* threads that post
  NoThread,
  NoDesc,     \* an empty slot, no completion in hand
  MaxSge,     \* max_sge
  NumSges,    \* the values of num_sge an application uses
  DevDepth    \* device: requests it works for at once

(* first, last and req_id are the descriptor's; wr, sge and of say what it    *)
(* was written for: entry number sge of the of entries of request wr.         *)
Desc == [first : BOOLEAN, last : BOOLEAN, req_id : Idx, wr : WrIds,
         sge : 1 .. MaxSge, of : 1 .. MaxSge]
Request == [req_id : Idx, wr : WrIds]

ASSUME RqAssumption ==
  /\ NoThread \notin Threads /\ NoDesc \notin Desc \cup Request
  /\ MaxSge \in Nat \ {0} /\ DevDepth \in Nat \ {0}
  /\ WqeCnt = DescCnt \div MaxSge
  /\ DescCnt < U16       \* rq_desc_cnt is a uint16_t
  /\ NumSges \subseteq Nat \ {0}

VARIABLES
  wq, pos,   \* rq->wq: the index pool and the ring position
  ring,      \* rq->buf
  db,        \* the doorbell register
  state,     \* verbs_qp.qp.state: RESET, ERR, or one that takes receives (INIT)
  lock,      \* the thread that holds wqlock
  devPc,     \* device: the next descriptor it fetches
  working,   \* device: requests fetched, not yet completed
  cqes,      \* completions in the queue's sub CQ, oldest first
  cur        \* the completion a poller has in hand

vars == <<wq, pos, ring, db, state, lock, devPc, working, cqes, cur>>

TypeOK ==
  /\ wq \in WqType /\ pos \in PosType
  /\ ring \in [Slots -> Desc \cup {NoDesc}]
  /\ db \in 0 .. U16 - 1 /\ devPc \in 0 .. U16 - 1
  /\ state \in {"RESET", "INIT", "ERR"} /\ lock \in Threads \cup {NoThread}
  /\ working \subseteq Request /\ cqes \in Seq(Request)
  /\ cur \in Request \cup {NoDesc}

Init ==
  /\ wq = WqInitial /\ pos = PosInitial
  /\ ring = [s \in Slots |-> NoDesc] /\ db = 0
  /\ state = "INIT" /\ lock = NoThread
  /\ devPc = 0 /\ working = {} /\ cqes = <<>> /\ cur = NoDesc

----------------------------------------------------------------------------
(* Descriptors in the ring the device has not fetched, oldest first, the      *)
(* places of their first ones among them, and the requests they are of.       *)
Unfetched ==
  [k \in 1 .. WrapSub(pos.pc, devPc, U16) |-> ring[Slot((devPc + k - 1) % U16)]]
Firsts == {k \in DOMAIN Unfetched : Unfetched[k].first}
RequestAt(k) == [req_id |-> Unfetched[k].req_id, wr |-> Unfetched[k].wr]
NthFirst(n) ==
  CHOOSE k \in Firsts : Cardinality({j \in Firsts : j < k}) = n - 1
Waiting == [n \in 1 .. Cardinality(Firsts) |-> RequestAt(NthFirst(n))]

SeqSet(s) == {s[k] : k \in DOMAIN s}
Outstanding ==
  {RequestAt(k) : k \in Firsts} \cup working \cup SeqSet(cqes) \cup ({cur} \ {NoDesc})
Unused(id) == \A d \in Outstanding : d.wr # id

----------------------------------------------------------------------------
PostRecv(t) ==
  /\ lock = NoThread
  /\ lock' = t
  /\ UNCHANGED <<wq, pos, ring, db, state, devPc, working, cqes, cur>>

(* efa_post_recv_validate for a request of n scatter entries.                 *)
\* mutant: num_sge is not tested
AcceptsAny(n) == state = "INIT" /\ ~Full(wq)
Accepts(n) == state = "INIT" /\ n <= MaxSge /\ ~Full(wq)

(* efa_wq_get_next_wrid_idx_locked and wqe_posted++.                          *)
\* mutant: the request is not counted
TakeUncounted(id) == GetNextWridIdx(wq, id)
Take(id) == CountPosted(GetNextWridIdx(wq, id))

(* The descriptor for scatter entry k of n: rx_buf is cleared after each, so  *)
(* only the first carries the index.                                          *)
RxDesc(id, k, n) ==
  [first |-> k = 1, last |-> k = n, req_id |-> IF k = 1 THEN NextIdx(wq) ELSE 0,
   wr |-> id, sge |-> k, of |-> n]

(* pc and phase after n descriptors, not more than the ring has slots.        *)
AdvanceBy(n) ==
  [pc |-> (pos.pc + n) % U16,
   phase |-> IF Slot(pos.pc) + n < DescCnt THEN pos.phase ELSE 1 - pos.phase]

PostRecvWr(t, id, n) ==
  LET entry(s) == WrapSub(s, Slot(pos.pc), DescCnt) + 1   \* that goes to slot s
  IN  /\ lock = t /\ Accepts(n) /\ Unused(id)
      /\ ring' = [s \in Slots |-> IF entry(s) <= n THEN RxDesc(id, entry(s), n)
                                                  ELSE ring[s]]
      /\ wq' = Take(id)
      /\ pos' = AdvanceBy(n)
      /\ UNCHANGED <<db, state, lock, devPc, working, cqes, cur>>

(* The list ends: the doorbell and the unlock.                                *)
PostRecvDone(t) ==
  /\ lock = t
  /\ db' = pos.pc /\ lock' = NoThread
  /\ UNCHANGED <<wq, pos, ring, state, devPc, working, cqes, cur>>

(* The next request of the list is refused: label ring_db.                    *)
\* mutant: an error returns without the doorbell
RefuseQuietly(t, n) ==
  /\ lock = t /\ ~Accepts(n)
  /\ lock' = NoThread
  /\ UNCHANGED <<wq, pos, ring, db, state, devPc, working, cqes, cur>>
PostRecvRefuse(t, n) ==
  /\ lock = t /\ ~Accepts(n)
  /\ db' = pos.pc /\ lock' = NoThread
  /\ UNCHANGED <<wq, pos, ring, state, devPc, working, cqes, cur>>

----------------------------------------------------------------------------
(* The device, as the code uses it: told how far by the doorbell, it fetches  *)
(* requests in ring order, each up to the descriptor marked last, and fills   *)
(* and completes them in any order.                                           *)
DevFetch ==
  \E n \in 1 .. WrapSub(db, devPc, U16) :
    /\ Cardinality(working) < DevDepth
    /\ ring[Slot((devPc + n - 1) % U16)].last
    /\ \A k \in 1 .. n - 1 : ~ring[Slot((devPc + k - 1) % U16)].last
    /\ working' = working \cup
                    {[req_id |-> ring[Slot(devPc)].req_id, wr |-> ring[Slot(devPc)].wr]}
    /\ devPc' = (devPc + n) % U16
    /\ UNCHANGED <<wq, pos, ring, db, state, lock, cqes, cur>>

DevComplete(d) ==
  /\ working' = working \ {d} /\ cqes' = Append(cqes, d)
  /\ UNCHANGED <<wq, pos, ring, db, state, lock, devPc, cur>>

(* A poller reads wrid[req_id] without wqlock and later puts it under wqlock. *)
PollCqe ==
  /\ cur = NoDesc /\ cqes # <<>>
  /\ cur' = Head(cqes) /\ cqes' = Tail(cqes)
  /\ UNCHANGED <<wq, pos, ring, db, state, lock, devPc, working>>

ReportedWrId == IF cur = NoDesc THEN NoWr ELSE wq.wrid[cur.req_id]

PutCur ==
  /\ cur # NoDesc /\ lock = NoThread
  /\ wq' = PutWridIdx(wq, cur.req_id)
  /\ cur' = NoDesc
  /\ UNCHANGED <<pos, ring, db, state, lock, devPc, working, cqes>>

(* efa_modify_qp takes no lock: the move to ERR may come in the middle of a   *)
(* list. The application resets a queue only when nobody posts and nothing is *)
(* outstanding; the code leaves the buffer, the device forgets its position.  *)
ModifyErr ==
  /\ state = "INIT"
  /\ state' = "ERR"
  /\ UNCHANGED <<wq, pos, ring, db, lock, devPc, working, cqes, cur>>

ModifyReset ==
  /\ state # "RESET" /\ lock = NoThread /\ Outstanding = {}
  /\ state' = "RESET"
  /\ wq' = InitIndices(wq) /\ pos' = InitPos(pos)
  /\ db' = 0 /\ devPc' = 0
  /\ UNCHANGED <<ring, lock, working, cqes, cur>>

ModifyInit ==
  /\ state = "RESET"
  /\ state' = "INIT"
  /\ UNCHANGED <<wq, pos, ring, db, lock, devPc, working, cqes, cur>>

Next ==
  \/ \E t \in Threads :
       \/ PostRecv(t) \/ PostRecvDone(t)
       \/ \E n \in NumSges : PostRecvRefuse(t, n) \/ \E id \in WrIds : PostRecvWr(t, id, n)
  \/ DevFetch \/ PollCqe \/ PutCur \/ ModifyErr \/ ModifyReset \/ ModifyInit
  \/ \E d \in working : DevComplete(d)

Spec == Init /\ [][Next]_vars
----------------------------------------------------------------------------
(* What the device has not fetched is whole requests, none of them written    *)
(* over by a later one: the first descriptor of each is marked first and      *)
(* carries the index, the last is marked last, and the entries in between     *)
(* are the ones the application gave, at every position of a wrapping ring.   *)
(* This needs wqe_cnt * max_sge <= rq_desc_cnt, though requests are counted   *)
(* and not descriptors.                                                       *)
ScatterListsWhole ==
  LET u == Unfetched
      Follows(d, e) == e.wr = d.wr /\ e.sge = d.sge + 1 /\ e.of = d.of
  IN  /\ Len(u) <= DescCnt
      /\ \A k \in 1 .. Len(u) :
           /\ u[k].first <=> u[k].sge = 1
           /\ u[k].last <=> u[k].sge = u[k].of
           /\ IF k = 1 \/ u[k - 1].last THEN u[k].first ELSE Follows(u[k - 1], u[k])
           /\ k = Len(u) => u[k].last

(* The doorbell announces whole requests only, never more than are in the     *)
(* ring, and all of them when nobody is posting: also after a list of which   *)
(* a later request was refused.                                               *)
DoorbellExact ==
  LET announced == WrapSub(db, devPc, U16)
  IN  /\ announced <= Len(Unfetched)
      /\ announced > 0 => Unfetched[announced].last
      /\ lock = NoThread => announced = Len(Unfetched)

(* A completion reports the wr_id of the request whose buffers were filled.   *)
CompletionNamesItsRequest ==
  \A d \in Outstanding : wq.wrid[d.req_id] = d.wr

(* The receive queue implements the abstract work queue ...                   *)
Queued == [n \in DOMAIN Waiting |-> Waiting[n].wr]
Names(ds) == {d.wr : d \in ds}
WQ == INSTANCE WorkQueue WITH
        Capacity <- WqeCnt, Requests <- WrIds, None <- NoWr,
        queue <- Queued, working <- Names(working),
        finished <- Names(SeqSet(cqes)), reported <- ReportedWrId
ImplementsWorkQueue == WQ!Spec

(* ... and uses the wr_id pool as EfaWridPool says, with no sessions.         *)
HolderIn(ds, i) ==
  IF \E d \in ds : d.req_id = i THEN (CHOOSE d \in ds : d.req_id = i).wr ELSE NoWr
Holders(ds) == [i \in Idx |-> HolderIn(ds, i)]
Pool == INSTANCE EfaWridPool WITH
          owner <- Holders(Outstanding), session <- FALSE,
          building <- [i \in Idx |-> NoWr], pending <- 0
ImplementsPool == Pool!Spec
=============================================================================
