------------------------------- MODULE EfaWq -------------------------------
(* struct efa_wq of include/efa.h and the functions of efawin/verbs.c that    *)
(* read and write it, as operators over two records:                          *)
(*   - a work queue, [wrid, pool, next, posted, completed]: the wr_id table,  *)
(*     the pool of free indexes into it, and the two counters;                *)
(*   - a ring position, [pc, phase]: where the next descriptor goes and the   *)
(*     phase bit it carries (wq->phase is an int of which only the lowest bit *)
(*     reaches a descriptor).                                                 *)
(* A send queue has both, and so has a receive queue.                         *)
EXTENDS Integers, FiniteSets

CONSTANTS
  WqeCnt,   \* wqe_cnt: entries of the wr_id table
  DescCnt,  \* desc_mask + 1: slots of the descriptor ring
  U32,      \* 2^32: the width of wqe_posted and wqe_completed
  U16,      \* 2^16: the width of pc and wrid_idx_pool_next
  WrIds,    \* the wr_ids an application names its requests with
  NoWr      \* no request

ASSUME WqAssumption ==
  /\ WqeCnt \in Nat \ {0}
  /\ DescCnt \in Nat \ {0}
  /\ U32 \in Nat /\ WqeCnt < U32
  /\ U16 \in Nat /\ WqeCnt < U16 /\ DescCnt <= U16
  /\ U16 % DescCnt = 0
  /\ NoWr \notin WrIds

Idx == 0 .. WqeCnt - 1      \* positions of wrid[] and of wrid_idx_pool[]
Slots == 0 .. DescCnt - 1   \* positions of the descriptor ring
Ids == WrIds \cup {NoWr}
Phases == {0, 1}

----------------------------------------------------------------------------
(* Unsigned arithmetic of a width m, for arguments already below m.           *)
WrapInc(x, m) == IF x + 1 = m THEN 0 ELSE x + 1
WrapDec(x, m) == IF x = 0 THEN m - 1 ELSE x - 1
WrapSub(x, y, m) == IF x >= y THEN x - y ELSE x - y + m

(* pc & desc_mask: the ring's size is a power of two.                         *)
Slot(c) == c % DescCnt

WqType == [wrid : [Idx -> Ids], pool : [Idx -> Idx], next : 0 .. U16 - 1,
           posted : 0 .. U32 - 1, completed : 0 .. U32 - 1]
PosType == [pc : 0 .. U16 - 1, phase : Phases]

----------------------------------------------------------------------------
(* calloc in create_qp, efa_qp_init_indices and efa_wq_initialize: entry N of *)
(* the pool holds N, every counter is zero. wrid[] is allocated, not cleared; *)
(* NoWr stands for whatever it holds.                                         *)
WqInitial == [wrid |-> [i \in Idx |-> NoWr], pool |-> [i \in Idx |-> i],
              next |-> 0, posted |-> 0, completed |-> 0]
PosInitial == [pc |-> 0, phase |-> 0]

(* The queue-full test of efa_post_send_validate and efa_post_recv_validate.  *)
\* mutant: one entry is kept back
FullOffByOne(w) == WrapSub(w.posted, w.completed, U32) = WqeCnt - 1
Full(w) == WrapSub(w.posted, w.completed, U32) = WqeCnt

(* The index efa_wq_get_next_wrid_idx_locked returns, and the queue it leaves.*)
NextIdx(w) == w.pool[w.next]
\* mutant: the table is indexed by pool position
GetAtNext(w, id) == [w EXCEPT !.wrid[w.next] = id,
                              !.next = WrapInc(w.next, U16)]
GetNextWridIdx(w, id) == [w EXCEPT !.wrid[NextIdx(w)] = id,
                                   !.next = WrapInc(w.next, U16)]

\* mutant: wider than wqe_completed
CountPostedWide(w) == [w EXCEPT !.posted = w.posted + 1]
CountPosted(w) == [w EXCEPT !.posted = WrapInc(w.posted, U32)]

(* efa_wq_put_wrid_idx_unlocked, between its lock and its unlock.             *)
\* mutant: stores before it steps back
PutAtNext(w, i) == [w EXCEPT !.next = WrapDec(w.next, U16), !.pool[w.next] = i,
                             !.completed = WrapInc(w.completed, U32)]
PutWridIdx(w, i) ==
  LET n == WrapDec(w.next, U16)
  IN  [w EXCEPT !.next = n, !.pool[n] = i,
                !.completed = WrapInc(w.completed, U32)]

(* wq->pc++, and the phase turns over with the ring.                          *)
AdvancePos(p) ==
  LET c == WrapInc(p.pc, U16)
  IN  [pc |-> c, phase |-> IF Slot(c) = 0 THEN 1 - p.phase ELSE p.phase]

(* efa_sq_roll_back: forget the n requests of a session that was not sent.    *)
\* mutant: the pool position is not restored
RollBackKeepsNext(w, n) == [w EXCEPT !.posted = WrapSub(w.posted, n, U32)]
\* mutant: the posted counter is not restored
RollBackKeepsPosted(w, n) == [w EXCEPT !.next = WrapSub(w.next, n, U16)]
RollBackWq(w, n) == [w EXCEPT !.posted = WrapSub(w.posted, n, U32),
                              !.next = WrapSub(w.next, n, U16)]
\* mutant: the phase is not restored
RollBackKeepsPhase(p, n, rb) == [pc |-> WrapSub(p.pc, n, U16), phase |-> p.phase]
RollBackPos(p, n, rb) == [pc |-> WrapSub(p.pc, n, U16), phase |-> rb]

(* efa_qp_init_indices, as a move to RESET runs it: the counters restart, the *)
(* contents of the pool and the phase stay.                                   *)
InitIndices(w) == [w EXCEPT !.next = 0, !.posted = 0, !.completed = 0]
InitPos(p) == [p EXCEPT !.pc = 0]
=============================================================================
