----------------------------- MODULE EfaWridPool -----------------------------
(* The wr_id indexes of one work queue, as every user of struct efa_wq needs  *)
(* them to behave: an index is taken for each accepted request, is held while *)
(* the device, the completion queue or a poller works for that request, and   *)
(* comes back in any order. What holds an index, the descriptor ring, the     *)
(* doorbell and the threads are left to the modules that implement this one.  *)
EXTENDS EfaWq

VARIABLES
  wq,       \* the work queue
  owner,    \* owner[i]: the request that holds index i, or NoWr
  session,  \* a wr_start session is open (its thread holds wqlock)
  building, \* building[i]: the request of the open session that took index i
  pending   \* num_wqe_pending: requests of the session not yet in the ring

vars == <<wq, owner, session, building, pending>>

Held == {i \in Idx : owner[i] # NoWr}
Building == {i \in Idx : building[i] # NoWr}
Base == wq.next - pending                       \* first index not yet committed
NoneBuilding == [i \in Idx |-> NoWr]

TypeOK ==
  /\ wq \in WqType
  /\ owner \in [Idx -> Ids]
  /\ session \in BOOLEAN
  /\ building \in [Idx -> Ids]
  /\ pending \in 0 .. WqeCnt

Init ==
  /\ wq = WqInitial
  /\ owner = [i \in Idx |-> NoWr]
  /\ session = FALSE
  /\ building = NoneBuilding
  /\ pending = 0

----------------------------------------------------------------------------
(* One request of efa_post_send or efa_post_recv.                             *)
Post(id) ==
  /\ ~session /\ ~Full(wq)
  /\ wq' = CountPosted(GetNextWridIdx(wq, id))
  /\ owner' = [owner EXCEPT ![NextIdx(wq)] = id]
  /\ UNCHANGED <<session, building, pending>>

(* efa_send_wr_start.                                                         *)
Start ==
  /\ ~session
  /\ session' = TRUE /\ pending' = 0 /\ building' = NoneBuilding
  /\ UNCHANGED <<wq, owner>>

(* efa_send_wr_common, the request accepted.                                  *)
Build(id) ==
  /\ session /\ ~Full(wq)
  /\ wq' = CountPosted(GetNextWridIdx(wq, id))
  /\ building' = [building EXCEPT ![NextIdx(wq)] = id]
  /\ pending' = pending + 1
  /\ UNCHANGED <<owner, session>>

(* One chunk of efa_send_wr_complete: the oldest n requests reach the ring.   *)
Commit(n) ==
  LET moved == {wq.pool[k] : k \in Base .. Base + n - 1}
  IN  /\ session /\ n <= pending
      /\ owner' = [i \in Idx |-> IF i \in moved THEN building[i] ELSE owner[i]]
      /\ building' = [i \in Idx |-> IF i \in moved THEN NoWr ELSE building[i]]
      /\ pending' = pending - n
      /\ UNCHANGED <<wq, session>>

(* The unlock that ends a completed session.                                  *)
Finish ==
  /\ session /\ pending = 0
  /\ session' = FALSE
  /\ UNCHANGED <<wq, owner, building, pending>>

(* efa_sq_roll_back and the unlock after it.                                  *)
RollBack ==
  /\ session
  /\ wq' = RollBackWq(wq, pending)
  /\ session' = FALSE /\ building' = NoneBuilding /\ pending' = 0
  /\ UNCHANGED owner

(* efa_wq_put_wrid_idx_unlocked: a completion gives back the index it names.  *)
Put(i) ==
  /\ ~session /\ owner[i] # NoWr
  /\ wq' = PutWridIdx(wq, i)
  /\ owner' = [owner EXCEPT ![i] = NoWr]
  /\ UNCHANGED <<session, building, pending>>

(* efa_modify_qp to RESET of a queue that has been drained.                   *)
Reset ==
  /\ ~session /\ Held = {}
  /\ wq' = InitIndices(wq)
  /\ UNCHANGED <<owner, session, building, pending>>

Next ==
  \/ \E id \in WrIds : Post(id) \/ Build(id)
  \/ Start \/ Finish \/ RollBack \/ Reset
  \/ \E n \in 1 .. WqeCnt : Commit(n)
  \/ \E i \in Idx : Put(i)

Spec == Init /\ [][Next]_vars
----------------------------------------------------------------------------
(* The positions of the pool from Base on hold the indexes no committed       *)
(* request holds: those of the open session first, the free ones from next.   *)
Uncommitted == Base .. WqeCnt - 1

(* The counters agree: the full test, which reads wqe_posted and              *)
(* wqe_completed, counts what the pool has handed out, wrap or no wrap.       *)
CountersAgree ==
  /\ WrapSub(wq.posted, wq.completed, U32) = wq.next
  /\ wq.next <= WqeCnt
  /\ pending <= wq.next
  /\ ~session => pending = 0

(* No index is twice in the live part of the pool.                            *)
PoolInjective ==
  \A j, k \in Uncommitted : wq.pool[j] = wq.pool[k] => j = k

(* An index is either held by a committed request or in the live part of the  *)
(* pool, never both and never neither.                                        *)
Partitioned ==
  \A i \in Idx : owner[i] # NoWr <=> (\A k \in Uncommitted : wq.pool[k] # i)

(* The requests of the session hold the indexes between Base and next.        *)
SessionHolds ==
  \A i \in Idx :
    building[i] # NoWr <=> (\E k \in Base .. wq.next - 1 : wq.pool[k] = i)

(* "a completion reports the wr_id its request was posted with": the entry of *)
(* wrid[] an outstanding request points at still holds that request's wr_id.  *)
WridIntact ==
  \A i \in Idx : /\ owner[i] # NoWr => wq.wrid[i] = owner[i]
                 /\ building[i] # NoWr => wq.wrid[i] = building[i]

(* The strengthening of the properties below that every action preserves.     *)
PoolInv ==
  /\ TypeOK /\ CountersAgree /\ PoolInjective /\ Partitioned
  /\ SessionHolds /\ WridIntact

(* "Will never overlap, as validate function succeeded" (the comment in       *)
(* efa_wq_get_next_wrid_idx_locked): once the full test has passed, the pool  *)
(* position read is inside the pool and the index found there is nobody's.    *)
NextIsFree ==
  ~Full(wq) => /\ wq.next < WqeCnt
               /\ NextIdx(wq) \notin Held \cup Building

(* The full test refuses a request exactly when every index is taken: out of  *)
(* order completions and rolled back sessions lose no capacity.               *)
NoIndexLost == Full(wq) <=> Held \cup Building = Idx

(* "this wrid index has not been freed yet, so there is no contention on this *)
(* index" (the comment in efa_process_cqe, which reads wrid[] without the     *)
(* lock): no step of a poster rewrites the entry of an index that is held.    *)
HeldWridStable ==
  [][\A i \in Idx : owner[i] # NoWr => wq'.wrid[i] = wq.wrid[i]]_vars
=============================================================================
