----------------------------- MODULE QpDirectory -----------------------------
(* What the table of queue pairs promises, without numbers, locks or counts.  *)
(* A poller finds a queue pair there and uses it for a while; a queue pair is *)
(* taken out while nobody uses it, and its memory goes after that.            *)
CONSTANTS
  Qps, Threads,
  NoQp      \* none of the Qps

VARIABLES
  listed,   \* the queue pairs that can be found
  using,    \* using[t]: the queue pair thread t works with, or NoQp
  usable    \* the queue pairs whose queues are in memory

dirVars == <<listed, using, usable>>

Init == listed = {} /\ using = [t \in Threads |-> NoQp] /\ usable = {}

Used(p) == \E t \in Threads : using[t] = p

(* A queue pair is listed with its queues in place, and at once.              *)
List(p) ==
  /\ p \notin listed \cup usable
  /\ listed' = listed \cup {p} /\ usable' = usable \cup {p}
  /\ UNCHANGED using

Find(t, p) ==
  /\ using[t] = NoQp /\ p \in listed
  /\ using' = [using EXCEPT ![t] = p]
  /\ UNCHANGED <<listed, usable>>

LetGo(t) ==
  /\ using[t] # NoQp
  /\ using' = [using EXCEPT ![t] = NoQp]
  /\ UNCHANGED <<listed, usable>>

Unlist(p) ==
  /\ p \in listed /\ ~Used(p)
  /\ listed' = listed \ {p}
  /\ UNCHANGED <<using, usable>>

Free(p) ==
  /\ p \in usable \ listed /\ ~Used(p)
  /\ usable' = usable \ {p}
  /\ UNCHANGED <<listed, using>>

Next ==
  \/ \E p \in Qps : List(p) \/ Unlist(p) \/ Free(p)
  \/ \E t \in Threads : LetGo(t) \/ \E p \in Qps : Find(t, p)

Spec == Init /\ [][Next]_dirVars
=============================================================================
