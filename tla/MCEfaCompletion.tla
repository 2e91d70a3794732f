--------------------------- MODULE MCEfaCompletion ---------------------------
(* TLC instances of EfaCompletion: a queue of one QP and a queue of another,  *)
(* completing in one sub CQ or in two.                                        *)
EXTENDS EfaCompletion, TLC

CONSTANTS a, b, p1, p2

MCWqs == {a, b}
MCQps == {p1, p2}
MCQpOf == (a :> p1) @@ (b :> p2)
OneSubCq == (a :> 0) @@ (b :> 0)
TwoSubCqs == (a :> 0) @@ (b :> 1)

(* An application that polls both ways and drains a QP before it destroys it; *)
(* one that only calls efa_poll_cq and does not; one that polls both ways and *)
(* does not.                                                                  *)
Drains == [sessions |-> TRUE, drains |-> TRUE]
PollsOnly == [sessions |-> FALSE, drains |-> FALSE]
Hasty == [sessions |-> TRUE, drains |-> FALSE]
SafeApps == {Drains, PollsOnly}
HastyApps == {Hasty}

Symmetry == Permutations(WrIds)

(* What a later step can read. It forgets the indexes and wr_ids of a pool    *)
(* that are out of date, the entries of a ring the library is through with    *)
(* (all but their phase), and the variables of a call that is over.           *)
UnreadPool(q) ==
  [next |-> wq[q].next, posted |-> wq[q].posted, completed |-> wq[q].completed,
   free |-> [i \in {j \in Idx : j >= wq[q].next} |-> wq[q].pool[i]],
   wrid |-> [i \in {d.req_id : d \in Outstanding(q)} |-> wq[q].wrid[i]]]

UnreadRing(s) ==
  LET n == WrapSub(prod[s], consumed[s], U16)
      unread == {CqeSlot((consumed[s] + k) % U16) : k \in 0 .. n - 1}
  IN  [k \in CqeSlots |-> IF k \in unread \/ (call # "none" /\ cur = <<s, k>>)
                          THEN ring[s][k] ELSE ring[s][k].phase]

Unread ==
  <<app, [q \in {q \in Wqs : Live(q)} |-> UnreadPool(q)], table, working,
    [s \in SubCqs |-> UnreadRing(s)], prod, prodPhase, consumed, phase, nextPoll,
    call, IF call = "none" THEN <<>> ELSE <<scanned, got, cur, curWq>> >>
=============================================================================
