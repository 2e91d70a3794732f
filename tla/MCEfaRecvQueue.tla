---------------------------- MODULE MCEfaRecvQueue ---------------------------
(* TLC instance of EfaRecvQueue.                                              *)
EXTENDS EfaRecvQueue, TLC

Symmetry == Permutations(WrIds)

(* What a later step can read: it forgets the descriptors the device has      *)
(* fetched, the taken part of the pool and the wr_ids of finished requests.   *)
UnreadPool ==
  [next |-> wq.next, posted |-> wq.posted, completed |-> wq.completed,
   free |-> [i \in {j \in Idx : j >= wq.next} |-> wq.pool[i]],
   wrid |-> [i \in {d.req_id : d \in Outstanding} |-> wq.wrid[i]]]
Unread == <<UnreadPool, pos, Unfetched, db, state, lock, devPc, working, cqes, cur>>
=============================================================================
