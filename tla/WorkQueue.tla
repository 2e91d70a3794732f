------------------------------ MODULE WorkQueue ------------------------------
(* What a work queue promises its application: requests are taken up by the   *)
(* device in the order they were posted, may finish in any order, and every   *)
(* one is reported exactly once, under its own name; never more than Capacity *)
(* of them are outstanding. Rings, indexes, locks and doorbells are not seen. *)
EXTENDS Naturals, Sequences, FiniteSets

CONSTANTS Capacity, Requests, None

VARIABLES
  queue,     \* posted, not yet taken up by the device, oldest first
  working,   \* taken up, not yet finished
  finished,  \* finished, not yet reported
  reported   \* the name being reported, or None

vars == <<queue, working, finished, reported>>

Queued == {queue[k] : k \in 1 .. Len(queue)}
Outstanding == Queued \cup working \cup finished \cup ({reported} \ {None})

Init ==
  /\ queue = <<>> /\ working = {} /\ finished = {} /\ reported = None

(* Requests arrive together when one memcpy copies them to the ring.          *)
Post(batch) ==
  /\ Len(queue) + Cardinality(Outstanding \ Queued) + Len(batch) <= Capacity
  /\ \A k \in 1 .. Len(batch) : batch[k] \notin Outstanding
  /\ queue' = queue \o batch
  /\ UNCHANGED <<working, finished, reported>>

TakeUp ==
  /\ queue # <<>>
  /\ queue' = Tail(queue) /\ working' = working \cup {Head(queue)}
  /\ UNCHANGED <<finished, reported>>

Complete(r) ==
  /\ r \in working
  /\ working' = working \ {r} /\ finished' = finished \cup {r}
  /\ UNCHANGED <<queue, reported>>

Report(r) ==
  /\ r \in finished /\ reported = None
  /\ finished' = finished \ {r} /\ reported' = r
  /\ UNCHANGED <<queue, working>>

Release ==
  /\ reported # None
  /\ reported' = None
  /\ UNCHANGED <<queue, working, finished>>

Next ==
  \/ \E n \in 1 .. Capacity : \E batch \in [1 .. n -> Requests] : Post(batch)
  \/ TakeUp \/ Release
  \/ \E r \in Requests : Complete(r) \/ Report(r)

Spec == Init /\ [][Next]_vars
=============================================================================
