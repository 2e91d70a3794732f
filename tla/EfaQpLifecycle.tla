---------------------------- MODULE EfaQpLifecycle ----------------------------
(* Queue pairs that come and go while their completion queues are polled      *)
(* (efawin/verbs.c): create_qp, efa_destroy_qp, the device's qp_table, the    *)
(* reference counts of the sub CQs, and the locks all of them take.           *)
(*                                                                            *)
(* A call is cut where another thread can see a difference: where it takes a  *)
(* lock, where it leaves the last one, and at the driver calls, which give a  *)
(* queue pair its number and take it away. A lock that is held over several   *)
(* of its owner's steps is in `owner`; one taken and left within a step is    *)
(* only waited for. A CQ has one sub CQ here, and a queue's contents are left *)
(* out (EfaCompletion, EfaSendQueue and EfaRecvQueue have them).              *)
EXTENDS Naturals, Sequences, FiniteSets

CONSTANTS
  Threads, Qps, Cqs,
  SendCq, RecvCq,    \* send_cq and recv_cq of each QP
  Nums,              \* QP numbers of the driver: slots of qp_table
  NumsDrained,       \* a slot comes back only once its completions are read
  CqeCnt,            \* bound: completions in a CQ
  TableLock,         \* qp_table_lock; a CQ's lock is named by the CQ
  None

Locks == Cqs \cup {TableLock}
Roles == {"sq", "rq"}
CqOf(p, r) == IF r = "sq" THEN SendCq[p] ELSE RecvCq[p]

ASSUME LifecycleAssumption ==
  /\ IsFiniteSet(Qps)
  /\ SendCq \in [Qps -> Cqs] /\ RecvCq \in [Qps -> Cqs]
  /\ CqeCnt \in Nat \ {0} /\ NumsDrained \in BOOLEAN
  /\ TableLock \notin Cqs
  /\ None \notin Threads \cup Qps \cup Cqs \cup Nums \cup [qp : Qps, role : Roles]

VARIABLES
  mem,     \* mem[p]: what of QP p is allocated: "qp", its queues "rq", "sq"
  driver,  \* driver[p]: "none", "idle" (made), "busy" (has work)
  num,     \* num[p]: its QP number
  held,    \* held[p]: the application has the QP and may use it
  table,   \* qp_table
  refCnt,  \* ref_cnt of the sub CQ of each CQ
  cqes,    \* cqes[c]: completions in c, [num, role]
  owner,   \* owner[l]: the thread that has lock l
  pc,      \* pc[t], arg[t]: where thread t is, in a call on which QP or CQ
  arg,
  cur      \* cur[t]: the queue a poller has found, [qp, role]

qpVars == <<mem, driver, num, held>>
vars == <<qpVars, table, refCnt, cqes, owner, pc, arg, cur>>

Cqe == [num : Nums, role : Roles]
Found == [qp : Qps, role : Roles]
Calls == {"idle", "insert", "undo", "ref_send", "ref_recv", "locking", "unlink",
          "free", "driver", "lock_cq", "poll", "use"}

TypeOK ==
  /\ mem \in [Qps -> SUBSET {"qp", "rq", "sq"}]
  /\ driver \in [Qps -> {"none", "idle", "busy"}]
  /\ num \in [Qps -> Nums \cup {None}]
  /\ held \in [Qps -> BOOLEAN]
  /\ table \in [Nums -> Qps \cup {None}]
  /\ refCnt \in [Cqs -> 0 .. 2 * Cardinality(Qps)]
  /\ cqes \in [Cqs -> Seq(Cqe)] /\ \A c \in Cqs : Len(cqes[c]) <= CqeCnt
  /\ owner \in [Locks -> Threads \cup {None}]
  /\ pc \in [Threads -> Calls]
  /\ arg \in [Threads -> Qps \cup Cqs \cup {None}]
  /\ cur \in [Threads -> Found \cup {None}]

Init ==
  /\ mem = [p \in Qps |-> {}] /\ driver = [p \in Qps |-> "none"]
  /\ num = [p \in Qps |-> None] /\ held = [p \in Qps |-> FALSE]
  /\ table = [n \in Nums |-> None]
  /\ refCnt = [c \in Cqs |-> 0] /\ cqes = [c \in Cqs |-> <<>>]
  /\ owner = [l \in Locks |-> None]
  /\ pc = [t \in Threads |-> "idle"] /\ arg = [t \in Threads |-> None]
  /\ cur = [t \in Threads |-> None]

----------------------------------------------------------------------------
Goto(t, where) == pc' = [pc EXCEPT ![t] = where]
Return(t) == Goto(t, "idle") /\ arg' = [arg EXCEPT ![t] = None]
Enter(t, where, x) ==
  /\ pc[t] = "idle"
  /\ Goto(t, where) /\ arg' = [arg EXCEPT ![t] = x]
Releasing(ls) == owner' = [l \in Locks |-> IF l \in ls THEN None ELSE owner[l]]
IsFree(l) == owner[l] = None

(* What efa_destroy_qp locks, in this order: qp_table_lock, then efa_lock_cqs *)
(* locks the receive CQ and, if it is another one, the send CQ.               *)
\* mutant: the CQ of the receives is thought to be enough
LocksOfOneCq(p) == <<TableLock, RecvCq[p]>>
\* mutant: no lock of the table around those of the CQs
LocksOfCqs(p) ==
  IF SendCq[p] = RecvCq[p] THEN <<RecvCq[p]>> ELSE <<RecvCq[p], SendCq[p]>>
DestroyLocks(p) ==
  IF SendCq[p] = RecvCq[p] THEN <<TableLock, RecvCq[p]>>
  ELSE <<TableLock, RecvCq[p], SendCq[p]>>

Owned(t) == {l \in Locks : owner[l] = t}

(* The lock thread t is waiting for in its call, None if it needs none.       *)
Wants(t) ==
  CASE pc[t] = "insert"   -> TableLock
    [] pc[t] = "ref_send" -> SendCq[arg[t]]
    [] pc[t] = "ref_recv" -> RecvCq[arg[t]]
    [] pc[t] = "locking"  -> DestroyLocks(arg[t])[Cardinality(Owned(t)) + 1]
    [] pc[t] = "lock_cq"  -> arg[t]
    [] OTHER              -> None

----------------------------------------------------------------------------
(* The driver gives the number of no QP it still has. When NumsDrained, the   *)
(* completions of the QP that had it before have been read by then.           *)
FreshNum(n) ==
  /\ \A p \in Qps : driver[p] # "none" => num[p] # n
  /\ NumsDrained =>
       \A c \in Cqs : \A k \in DOMAIN cqes[c] : cqes[c][k].num # n

(* create_qp up to efa_sq_initialize: the driver has made the QP, and the     *)
(* queues are in memory or one of them could not be had (err_terminate_rq).   *)
(* A create_qp that ends before that changes nothing (see EfaControl).        *)
CreateQp(t, p, n) ==
  /\ mem[p] = {} /\ driver[p] = "none" /\ FreshNum(n)
  /\ \/ Enter(t, "insert", p) /\ mem' = [mem EXCEPT ![p] = {"qp", "rq", "sq"}]
     \/ Enter(t, "undo", p) /\ mem' = [mem EXCEPT ![p] = {"qp"}]
  /\ driver' = [driver EXCEPT ![p] = "idle"]
  /\ num' = [num EXCEPT ![p] = n]
  /\ UNCHANGED <<held, table, refCnt, cqes, owner, cur>>

(* err_destroy_qp: whether the driver destroys the QP is not looked at.       *)
CreateQpUndo(t) ==
  LET p == arg[t]
  IN  /\ pc[t] = "undo"
      /\ \/ /\ driver' = [driver EXCEPT ![p] = "none"]
            /\ num' = [num EXCEPT ![p] = None]
         \/ UNCHANGED <<driver, num>>
      /\ mem' = [mem EXCEPT ![p] = {}]
      /\ Return(t)
      /\ UNCHANGED <<held, table, refCnt, cqes, owner, cur>>

(* qp_table[qp_num & mask] = qp, under qp_table_lock.                         *)
CreateQpInsert(t) ==
  /\ pc[t] = "insert" /\ IsFree(TableLock)
  /\ table' = [table EXCEPT ![num[arg[t]]] = arg[t]]
  /\ Goto(t, "ref_send")
  /\ UNCHANGED <<qpVars, refCnt, cqes, owner, arg, cur>>

(* efa_cq_inc_ref_cnt, under the lock of the send CQ.                         *)
CreateQpRefSend(t) ==
  LET c == SendCq[arg[t]]
  IN  /\ pc[t] = "ref_send" /\ IsFree(c)
      /\ refCnt' = [refCnt EXCEPT ![c] = @ + 1]
      /\ Goto(t, "ref_recv")
      /\ UNCHANGED <<qpVars, table, cqes, owner, arg, cur>>

(* The same for the receive CQ; the application gets its QP, and has the      *)
(* device work for it.                                                        *)
\* mutant: a CQ used for both is counted once, as it is locked once
RefRecvOnce(t) ==
  LET c == RecvCq[arg[t]]
  IN  /\ pc[t] = "ref_recv" /\ IsFree(c)
      /\ refCnt' = [refCnt EXCEPT ![c] = IF c = SendCq[arg[t]] THEN @ ELSE @ + 1]
      /\ held' = [held EXCEPT ![arg[t]] = TRUE]
      /\ driver' = [driver EXCEPT ![arg[t]] = "busy"]
      /\ Return(t)
      /\ UNCHANGED <<mem, num, table, cqes, owner, cur>>
CreateQpRefRecv(t) ==
  LET c == RecvCq[arg[t]]
  IN  /\ pc[t] = "ref_recv" /\ IsFree(c)
      /\ refCnt' = [refCnt EXCEPT ![c] = @ + 1]
      /\ held' = [held EXCEPT ![arg[t]] = TRUE]
      /\ driver' = [driver EXCEPT ![arg[t]] = "busy"]
      /\ Return(t)
      /\ UNCHANGED <<mem, num, table, cqes, owner, cur>>

----------------------------------------------------------------------------
(* efa_destroy_qp. The application lets the QP go with the call, whatever     *)
(* comes of it.                                                               *)
DestroyQp(t, p) ==
  /\ held[p]
  /\ Enter(t, "locking", p)
  /\ held' = [held EXCEPT ![p] = FALSE]
  /\ UNCHANGED <<mem, driver, num, table, refCnt, cqes, owner, cur>>

DestroyQpLock(t) ==
  LET l == Wants(t)
  IN  /\ pc[t] = "locking" /\ IsFree(l)
      /\ owner' = [owner EXCEPT ![l] = t]
      /\ IF Cardinality(Owned(t)) + 1 = Len(DestroyLocks(arg[t]))
         THEN Goto(t, "unlink") ELSE UNCHANGED pc
      /\ UNCHANGED <<qpVars, table, refCnt, cqes, arg, cur>>

(* With all locks: efa_cq_dec_ref_cnt twice, the table entry cleared.         *)
UnlinkQp(t) ==
  LET p == arg[t]
  IN  /\ pc[t] = "unlink"
      /\ refCnt' = [c \in Cqs |->
                      refCnt[c] - Cardinality({r \in Roles : CqOf(p, r) = c})]
      /\ table' = [table EXCEPT ![num[p]] = None]
      /\ Releasing(Owned(t))
      /\ Goto(t, "free")
      /\ UNCHANGED <<qpVars, cqes, arg, cur>>

(* efa_sq_terminate and efa_rq_terminate.                                     *)
FreeQueues(t) ==
  /\ pc[t] = "free"
  /\ mem' = [mem EXCEPT ![arg[t]] = @ \ {"rq", "sq"}]
  /\ Goto(t, "driver")
  /\ UNCHANGED <<driver, num, held, table, refCnt, cqes, owner, arg, cur>>

(* ibv_cmd_destroy_qp. When the driver refuses, the QP stays as it is, with   *)
(* its queues and its table entry gone.                                       *)
DriverDestroyQp(t) ==
  LET p == arg[t]
  IN  /\ pc[t] = "driver"
      /\ \/ /\ driver' = [driver EXCEPT ![p] = "none"]
            /\ num' = [num EXCEPT ![p] = None]
            /\ mem' = [mem EXCEPT ![p] = {}]
         \/ UNCHANGED <<driver, num, mem>>
      /\ Return(t)
      /\ UNCHANGED <<held, table, refCnt, cqes, owner, cur>>

----------------------------------------------------------------------------
(* The device completes work of a QP the driver has, also while that is being *)
(* destroyed.                                                                 *)
DevComplete(p, r) ==
  LET c == CqOf(p, r)
  IN  /\ driver[p] = "busy" /\ Len(cqes[c]) < CqeCnt
      /\ cqes' = [cqes EXCEPT ![c] =
                    Append(@, [num |-> num[p], role |-> r])]
      /\ UNCHANGED <<qpVars, table, refCnt, owner, pc, arg, cur>>

(* efa_poll_cq, or a session from efa_start_poll to efa_end_poll, which holds *)
(* the lock in between as well: the application ends its sessions.            *)
PollCq(t, c) ==
  /\ Enter(t, "lock_cq", c)
  /\ UNCHANGED <<qpVars, table, refCnt, cqes, owner, cur>>

PollCqLock(t) ==
  /\ pc[t] = "lock_cq" /\ IsFree(arg[t])
  /\ owner' = [owner EXCEPT ![arg[t]] = t]
  /\ Goto(t, "poll")
  /\ UNCHANGED <<qpVars, table, refCnt, cqes, arg, cur>>

(* A sub CQ that no QP uses is not looked into.                               *)
PollNothing(t) ==
  /\ pc[t] = "poll"
  /\ refCnt[arg[t]] = 0 \/ cqes[arg[t]] = <<>>
  /\ Releasing({arg[t]}) /\ Return(t)
  /\ UNCHANGED <<qpVars, table, refCnt, cqes, cur>>

(* efa_poll_sub_cq takes a completion and looks its QP up, without the lock   *)
(* of the table.                                                              *)
PollCqe(t) ==
  LET c == arg[t]
      e == Head(cqes[c])
  IN  /\ pc[t] = "poll" /\ refCnt[c] > 0 /\ cqes[c] # <<>>
      /\ cqes' = [cqes EXCEPT ![c] = Tail(@)]
      /\ \/ /\ table[e.num] = None         \* EINVAL
            /\ Releasing({c}) /\ Return(t)
            /\ UNCHANGED cur
         \/ /\ table[e.num] # None
            /\ cur' = [cur EXCEPT ![t] = [qp |-> table[e.num], role |-> e.role]]
            /\ Goto(t, "use")
            /\ UNCHANGED <<owner, arg>>
      /\ UNCHANGED <<qpVars, table, refCnt>>

(* The completion is read from the queue and its index given back; the call   *)
(* or session goes on, or ends.                                               *)
PollUse(t) ==
  /\ pc[t] = "use"
  /\ cur' = [cur EXCEPT ![t] = None]
  /\ \/ Goto(t, "poll") /\ UNCHANGED <<owner, arg>>
     \/ Releasing({arg[t]}) /\ Return(t)
  /\ UNCHANGED <<qpVars, table, refCnt, cqes>>

----------------------------------------------------------------------------
(* What a call does once it is begun.                                         *)
Continue(t) ==
  \/ CreateQpUndo(t) \/ CreateQpInsert(t) \/ CreateQpRefSend(t) \/ CreateQpRefRecv(t)
  \/ DestroyQpLock(t) \/ UnlinkQp(t) \/ FreeQueues(t) \/ DriverDestroyQp(t)
  \/ PollCqLock(t) \/ PollNothing(t) \/ PollCqe(t) \/ PollUse(t)

Begin(t) ==
  \/ \E p \in Qps : DestroyQp(t, p) \/ \E n \in Nums : CreateQp(t, p, n)
  \/ \E c \in Cqs : PollCq(t, c)

Next ==
  \/ \E t \in Threads : Begin(t) \/ Continue(t)
  \/ \E p \in Qps, r \in Roles : DevComplete(p, r)

Spec == Init /\ [][Next]_vars

(* A thread in a call goes on; one that waits for a lock which is released    *)
(* again and again gets it in the end; and efa_poll_cq stops at nwc           *)
(* completions, as the application ends a session some time.                  *)
FairSpec ==
  /\ Spec
  /\ \A t \in Threads : /\ SF_vars(Continue(t))
                         /\ SF_vars(PollUse(t) /\ pc'[t] = "idle")

----------------------------------------------------------------------------
(* "We do not have to take the QP table lock here, because CQs will be locked *)
(* while QPs are removed from the table" (efa_poll_sub_cq): what a poller has *)
(* found stays in memory while it uses it, and what the table leads to is     *)
(* whole.                                                                     *)
NoUseAfterFree ==
  /\ \A t \in Threads : cur[t] # None => {"qp", cur[t].role} \subseteq mem[cur[t].qp]
  /\ \A n \in Nums : table[n] # None => mem[table[n]] = {"qp", "rq", "sq"}

(* A QP the application holds can be found by its number, and both its CQs    *)
(* are looked into; ref_cnt counts just the queues of QPs, in creation,       *)
(* held or in destruction, so that a CQ without any is passed over again.     *)
Counted(p, r) ==
  \/ held[p]
  \/ \E t \in Threads : arg[t] = p /\ \/ pc[t] \in {"locking", "unlink"}
                                      \/ pc[t] = "ref_recv" /\ r = "sq"
HeldQpIsPolled ==
  /\ \A p \in Qps : held[p] => table[num[p]] = p
  /\ \A c \in Cqs :
       refCnt[c] = Cardinality({x \in Qps \X Roles :
                                  CqOf(x[1], x[2]) = c /\ Counted(x[1], x[2])})

(* Every call returns: create_qp, efa_destroy_qp and polling, with CQs in     *)
(* crossed roles, never wait for each other in a circle.                      *)
EveryCallReturns ==
  \A t \in Threads : pc[t] # "idle" ~> pc[t] = "idle"

(* The table, with its locks and counts, is a directory of queue pairs.       *)
Directory == INSTANCE QpDirectory WITH
  NoQp <- None,
  listed <- {p \in Qps : \E n \in Nums : table[n] = p},
  using <- [t \in Threads |-> IF cur[t] = None THEN None ELSE cur[t].qp],
  usable <- {p \in Qps : "sq" \in mem[p] /\
                           ~\E t \in Threads : pc[t] = "insert" /\ arg[t] = p}
ImplementsDirectory == Directory!Spec
=============================================================================
