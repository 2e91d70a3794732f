------------------------- MODULE EfaQpLifecycleProofs -------------------------
(* The safety of EfaQpLifecycle for any number of threads, queue pairs and    *)
(* completion queues, whatever the roles the queues of a pair have. Two facts *)
(* carry it: a poller that uses a QP holds the lock of one of that QP's CQs,  *)
(* which is what the removal of the QP has to take; and that is so because a  *)
(* completion in a CQ only ever leads to a QP which has that CQ. The second   *)
(* needs NumsDrained; what does not need it is proved without.                *)
EXTENDS EfaQpLifecycle, FiniteSetTheorems, TLAPS

Whole == {"qp", "rq", "sq"}

(* Calls that are about a QP, and those that are about a CQ.                  *)
QpCalls == {"insert", "undo", "ref_send", "ref_recv", "locking", "unlink",
            "free", "driver"}
CqCalls == {"lock_cq", "poll", "use"}
Doing(t, p) == pc[t] \in QpCalls /\ arg[t] = p

(* The table shows a QP in these stages of its calls, and while it is held.   *)
ShownCalls == {"ref_send", "ref_recv", "locking", "unlink"}
Listed(p) == num[p] \in Nums /\ table[num[p]] = p

----------------------------------------------------------------------------
(* What a thread works on, by the place it is at, and the locks it has.       *)
ArgsFit ==
  \A t \in Threads :
    /\ pc[t] \in QpCalls => arg[t] \in Qps
    /\ pc[t] \in CqCalls => arg[t] \in Cqs

LocksFit ==
  \A t \in Threads :
    /\ pc[t] \notin {"locking", "unlink", "poll", "use"} => Owned(t) = {}
    /\ pc[t] \in {"poll", "use"} => Owned(t) = {arg[t]}
    /\ pc[t] = "unlink" => Owned(t) = {TableLock, RecvCq[arg[t]], SendCq[arg[t]]}
    /\ pc[t] = "locking" =>
         \/ Owned(t) = {}
         \/ Owned(t) = {TableLock}
         \/ /\ Owned(t) = {TableLock, RecvCq[arg[t]]}
            /\ SendCq[arg[t]] # RecvCq[arg[t]]

(* A QP is in one call at a time, and nobody holds it meanwhile.              *)
OneCallEach ==
  \A t \in Threads, p \in Qps :
    Doing(t, p) => ~held[p] /\ \A u \in Threads : Doing(u, p) => u = t

(* How far the calls have come, in memory, driver and table.                  *)
StagesFit ==
  \A t \in Threads :
    LET p == arg[t]
    IN  /\ pc[t] = "insert" => mem[p] = Whole /\ driver[p] = "idle"
        /\ pc[t] = "undo" => mem[p] = {"qp"} /\ driver[p] = "idle"
        /\ pc[t] \in ShownCalls => Listed(p)
        /\ pc[t] = "free" => mem[p] = Whole /\ driver[p] # "none"
        /\ pc[t] = "driver" => mem[p] = {"qp"} /\ driver[p] # "none"

(* A QP that is held is in the table; one in the table is whole; and it is    *)
(* there for somebody, who will take it out.                                  *)
TableFits ==
  /\ \A p \in Qps : held[p] => Listed(p)
  /\ \A n \in Nums : table[n] # None =>
       /\ num[table[n]] = n
       /\ mem[table[n]] = Whole /\ driver[table[n]] # "none"
       /\ \/ held[table[n]]
          \/ \E t \in Threads : pc[t] \in ShownCalls /\ arg[t] = table[n]

(* The driver's numbers lead to one QP each.                                  *)
NumsApart ==
  \A p, q \in Qps :
    driver[p] # "none" => /\ num[p] \in Nums
                          /\ driver[q] # "none" /\ num[q] = num[p] => q = p

(* When a number is not given again before its completions are read, a        *)
(* completion is in a CQ of the QP its number leads to, if to any.            *)
CompletionsLead ==
  NumsDrained =>
    \A c \in Cqs : \A k \in DOMAIN cqes[c] : \A p \in Qps :
      driver[p] # "none" /\ num[p] = cqes[c][k].num => CqOf(p, cqes[c][k].role) = c

(* Then the QP a poller has found is in the table, and completes in the CQ    *)
(* whose lock the poller has.                                                 *)
PollersHold ==
  \A t \in Threads :
    /\ pc[t] = "use" <=> cur[t] # None
    /\ NumsDrained /\ cur[t] # None =>
         Listed(cur[t].qp) /\ CqOf(cur[t].qp, cur[t].role) = arg[t]

(* The types the lookups depend on: refCnt is bounded by what it counts.      *)
LookupTypes ==
  /\ mem \in [Qps -> SUBSET Whole]
  /\ driver \in [Qps -> {"none", "idle", "busy"}]
  /\ num \in [Qps -> Nums \cup {None}]
  /\ held \in [Qps -> BOOLEAN]
  /\ table \in [Nums -> Qps \cup {None}]
  /\ refCnt \in [Cqs -> Int]
  /\ cqes \in [Cqs -> Seq(Cqe)] /\ \A c \in Cqs : Len(cqes[c]) <= CqeCnt
  /\ owner \in [Locks -> Threads \cup {None}]
  /\ pc \in [Threads -> Calls]
  /\ arg \in [Threads -> Qps \cup Cqs \cup {None}]
  /\ cur \in [Threads -> Found \cup {None}]

LookupInv ==
  /\ LookupTypes /\ ArgsFit /\ LocksFit /\ OneCallEach /\ StagesFit /\ TableFits
  /\ NumsApart /\ CompletionsLead /\ PollersHold

(* The counts of the sub CQs.                                                 *)
CountedIn(c) == {x \in Qps \X Roles : CqOf(x[1], x[2]) = c /\ Counted(x[1], x[2])}
CountsFit == \A c \in Cqs : refCnt[c] = Cardinality(CountedIn(c))
LifecycleInv == LookupInv /\ CountsFit

----------------------------------------------------------------------------
(* The part of LifecycleAssumption the proofs use.                            *)
LEMMA Constants ==
  /\ SendCq \in [Qps -> Cqs] /\ RecvCq \in [Qps -> Cqs] /\ IsFiniteSet(Qps)
  /\ CqeCnt \in Nat /\ TableLock \notin Cqs
  /\ None \notin Threads /\ None \notin Qps /\ None \notin Cqs /\ None \notin Nums
  /\ None \notin Found
  BY LifecycleAssumption DEF Found

LEMMA InitLookup == Init => LookupInv
<1> SUFFICES ASSUME Init PROVE LookupInv
  OBVIOUS
<1>1. LookupTypes
  BY Constants DEF Init, LookupTypes, Calls, Locks
<1>2. ArgsFit /\ LocksFit /\ OneCallEach /\ StagesFit
  BY Constants DEF Init, ArgsFit, LocksFit, OneCallEach, StagesFit, QpCalls, CqCalls,
                   Doing, ShownCalls, Owned, Locks
<1>3. TableFits /\ NumsApart /\ CompletionsLead /\ PollersHold
  BY Constants DEF Init, TableFits, NumsApart, CompletionsLead, PollersHold
<1> QED
  BY <1>1, <1>2, <1>3 DEF LookupInv

----------------------------------------------------------------------------
(* Thread t moves to place w of a call on x, the others stay where they are.  *)
Moves(t, w, x) ==
  /\ pc'[t] = w /\ arg'[t] = x
  /\ \A u \in Threads \ {t} : pc'[u] = pc[u] /\ arg'[u] = arg[u]

LEMMA MovesLemma ==
  ASSUME LookupTypes, NEW t \in Threads, NEW w, NEW x
  PROVE  /\ Goto(t, w) /\ UNCHANGED arg => Moves(t, w, arg[t])
         /\ Return(t) => Moves(t, "idle", None)
         /\ Enter(t, w, x) => Moves(t, w, x) /\ pc[t] = "idle"
         /\ UNCHANGED <<pc, arg>> => Moves(t, pc[t], arg[t])
  BY DEF LookupTypes, Goto, Return, Enter, Moves

LEMMA MovesTyped ==
  ASSUME LookupTypes, NEW t \in Threads, NEW w \in Calls,
         NEW x \in Qps \cup Cqs \cup {None}
  PROVE  /\ Goto(t, w) /\ UNCHANGED arg =>
              /\ pc' \in [Threads -> Calls]
              /\ arg' \in [Threads -> Qps \cup Cqs \cup {None}]
         /\ Return(t) =>
              /\ pc' \in [Threads -> Calls]
              /\ arg' \in [Threads -> Qps \cup Cqs \cup {None}]
         /\ Enter(t, w, x) =>
              /\ pc' \in [Threads -> Calls]
              /\ arg' \in [Threads -> Qps \cup Cqs \cup {None}]
  BY DEF LookupTypes, Goto, Return, Enter, Calls

(* Taking and leaving locks.                                                  *)
LEMMA LocksStay ==
  ASSUME UNCHANGED owner
  PROVE  \A u \in Threads : Owned(u)' = Owned(u)
  BY DEF Owned

LEMMA LocksTaken ==
  ASSUME LookupTypes, NEW t \in Threads, NEW l \in Locks, IsFree(l),
         owner' = [owner EXCEPT ![l] = t]
  PROVE  /\ owner' \in [Locks -> Threads \cup {None}]
         /\ Owned(t)' = Owned(t) \cup {l}
         /\ \A u \in Threads \ {t} : Owned(u)' = Owned(u)
  BY Constants DEF LookupTypes, Owned, IsFree

LEMMA LocksLeft ==
  ASSUME LookupTypes, NEW t \in Threads, Releasing(Owned(t))
  PROVE  /\ owner' \in [Locks -> Threads \cup {None}]
         /\ Owned(t)' = {}
         /\ \A u \in Threads \ {t} : Owned(u)' = Owned(u)
  BY Constants DEF LookupTypes, Owned, Releasing

(* No two threads own a lock.                                                 *)
LEMMA LocksExclude ==
  ASSUME NEW t \in Threads, NEW u \in Threads, NEW l \in Owned(t), l \in Owned(u)
  PROVE  t = u
  BY DEF Owned

(* What efa_destroy_qp waits for.                                             *)
LEMMA LocksInOrder ==
  ASSUME LookupInv, NEW t \in Threads, pc[t] = "locking"
  PROVE  LET p == arg[t]
             done == Cardinality(Owned(t)) + 1 = Len(DestroyLocks(p))
         IN  /\ Wants(t) \in Locks
             /\ \/ Owned(t) = {} /\ Wants(t) = TableLock /\ ~done
                \/ /\ Owned(t) = {TableLock} /\ Wants(t) = RecvCq[p]
                   /\ done <=> SendCq[p] = RecvCq[p]
                \/ /\ Owned(t) = {TableLock, RecvCq[p]} /\ Wants(t) = SendCq[p]
                   /\ SendCq[p] # RecvCq[p] /\ done
<1> DEFINE p == arg[t]
<1>1. p \in Qps /\ SendCq[p] \in Cqs /\ RecvCq[p] \in Cqs
  BY Constants DEF LookupInv, ArgsFit, QpCalls
<1>2. Wants(t) = DestroyLocks(p)[Cardinality(Owned(t)) + 1]
  BY DEF Wants
<1>3. CASE Owned(t) = {}
  BY <1>1, <1>2, <1>3, FS_EmptySet DEF DestroyLocks, Locks
<1>4. CASE Owned(t) = {TableLock}
  <2>1. Cardinality(Owned(t)) = 1
    BY <1>4, FS_Singleton
  <2> QED
    BY <1>1, <1>2, <1>4, <2>1 DEF DestroyLocks, Locks
<1>5. CASE Owned(t) = {TableLock, RecvCq[p]} /\ SendCq[p] # RecvCq[p]
  <2>1. IsFiniteSet({TableLock}) /\ Cardinality({TableLock}) = 1
    BY FS_Singleton
  <2>2. Cardinality({TableLock} \cup {RecvCq[p]}) = 2
    <3>1. RecvCq[p] \notin {TableLock}
      BY <1>1, Constants
    <3>2. Cardinality({TableLock} \cup {RecvCq[p]}) = Cardinality({TableLock}) + 1
      BY <2>1, <3>1, FS_AddElement
    <3> QED
      BY <2>1, <3>2
  <2>3. Owned(t) = {TableLock} \cup {RecvCq[p]}
    BY <1>5
  <2> QED
    BY <1>1, <1>2, <1>5, <2>2, <2>3 DEF DestroyLocks, Locks
<1> QED
  BY <1>3, <1>4, <1>5 DEF LookupInv, LocksFit

----------------------------------------------------------------------------
(* A QP whose queues are not all in memory is not held and not in the table;  *)
(* one with nothing in memory is in no call either.                           *)
LEMMA PartialIsHidden ==
  ASSUME LookupInv, NEW p \in Qps, mem[p] # Whole
  PROVE  ~held[p] /\ \A n \in Nums : table[n] # p
<1>1. \A n \in Nums : table[n] # p
  BY Constants DEF LookupInv, TableFits
<1> QED
  BY <1>1 DEF LookupInv, TableFits, Listed

LEMMA NowhereIsIdle ==
  ASSUME LookupInv, NEW p \in Qps, mem[p] = {}, NEW u \in Threads
  PROVE  ~Doing(u, p)
<1>1. \A n \in Nums : table[n] # p
  BY PartialIsHidden DEF Whole
<1> QED
  BY <1>1 DEF LookupInv, StagesFit, Doing, QpCalls, ShownCalls, Listed, Whole

LEMMA CreateQpLookup ==
  ASSUME LookupInv, NEW t \in Threads, NEW p \in Qps, NEW n \in Nums,
         CreateQp(t, p, n)
  PROVE  LookupInv'
<1>1. PICK where \in {"insert", "undo"} :
        /\ Enter(t, where, p)
        /\ mem' = [mem EXCEPT ![p] = IF where = "insert" THEN Whole ELSE {"qp"}]
  BY DEF CreateQp, Whole
<1>2. /\ mem[p] = {} /\ driver[p] = "none" /\ FreshNum(n)
      /\ driver' = [driver EXCEPT ![p] = "idle"]
      /\ num' = [num EXCEPT ![p] = n]
      /\ UNCHANGED <<held, table, refCnt, cqes, owner, cur>>
  BY DEF CreateQp
<1>3. ~held[p] /\ (\A u \in Threads : ~Doing(u, p)) /\ \A k \in Nums : table[k] # p
  BY <1>2, PartialIsHidden, NowhereIsIdle DEF Whole
<1>4. LookupTypes /\ LookupTypes'
  BY <1>1, <1>2, MovesTyped DEF LookupInv, LookupTypes, Calls, Whole
<1>5. Moves(t, where, p) /\ pc[t] = "idle"
  BY <1>1, <1>4, MovesLemma
<1>6. ArgsFit'
  BY <1>5 DEF Moves, LookupInv, ArgsFit, QpCalls, CqCalls
<1>7. LocksFit'
  BY <1>2, <1>5, LocksStay DEF Moves, LookupInv, LocksFit
<1>8. OneCallEach'
  BY <1>2, <1>3, <1>5 DEF Moves, LookupInv, OneCallEach, Doing, QpCalls
<1>9. StagesFit'
  BY <1>1, <1>2, <1>3, <1>4, <1>5
     DEF Moves, LookupInv, StagesFit, LookupTypes, Doing, QpCalls, ShownCalls, Listed, Whole
<1>10. TableFits'
  <2>1. ASSUME NEW q \in Qps, held'[q] PROVE Listed(q)'
    BY <1>2, <1>3, <1>4, <2>1 DEF LookupInv, TableFits, LookupTypes, Listed
  <2>2. ASSUME NEW m \in Nums, table'[m] # None
        PROVE  /\ num'[table'[m]] = m /\ mem'[table'[m]] = Whole
               /\ driver'[table'[m]] # "none"
               /\ \/ held'[table'[m]]
                  \/ \E u \in Threads : pc'[u] \in ShownCalls /\ arg'[u] = table'[m]
    <3>1. table'[m] = table[m] /\ table[m] \in Qps /\ table[m] # p
      BY <1>2, <1>3, <1>4, <2>2 DEF LookupTypes
    <3>2. /\ num[table[m]] = m /\ mem[table[m]] = Whole /\ driver[table[m]] # "none"
          /\ \/ held[table[m]]
             \/ \E u \in Threads : pc[u] \in ShownCalls /\ arg[u] = table[m]
      BY <3>1, <2>2 DEF LookupInv, TableFits
    <3> QED
      BY <1>1, <1>2, <1>4, <1>5, <3>1, <3>2 DEF Moves, LookupTypes, ShownCalls
  <2> QED
    BY <2>1, <2>2 DEF TableFits
<1>11. NumsApart'
  BY <1>2, <1>4 DEF LookupInv, LookupTypes, NumsApart, FreshNum
<1>12. CompletionsLead'
  BY <1>2, <1>4 DEF LookupInv, LookupTypes, CompletionsLead, FreshNum
<1>13. PollersHold'
  BY <1>2, <1>3, <1>4, <1>5 DEF Moves, LookupInv, LookupTypes, PollersHold, Listed, Found
<1> QED
  BY <1>4, <1>6, <1>7, <1>8, <1>9, <1>10, <1>11, <1>12, <1>13 DEF LookupInv

(* A call before the table shows its QP, and one after that, work on a QP     *)
(* that nobody finds.                                                         *)
LEMMA UnshownIsHidden ==
  ASSUME LookupInv, NEW t \in Threads, NEW p \in Qps, Doing(t, p), pc[t] \notin ShownCalls
  PROVE  ~held[p] /\ \A m \in Nums : table[m] # p
<1>1. /\ ~held[p] /\ \A u \in Threads : Doing(u, p) => u = t
      /\ \A u \in Threads : ~(pc[u] \in ShownCalls /\ arg[u] = p)
  BY DEF LookupInv, OneCallEach, Doing, ShownCalls, QpCalls
<1> QED
  BY <1>1, Constants DEF LookupInv, TableFits

LEMMA HiddenLookup ==
  ASSUME LookupInv, LookupTypes', LocksFit',
         NEW t \in Threads, NEW p \in Qps, NEW w, NEW x,
         Doing(t, p), pc[t] \notin ShownCalls, Moves(t, w, x),
         \/ w = "idle"
         \/ w = "driver" /\ x = p /\ mem'[p] = {"qp"} /\ driver'[p] # "none",
         driver'[p] # "none" => num'[p] = num[p] /\ driver[p] # "none",
         \A q \in Qps \ {p} :
           mem'[q] = mem[q] /\ driver'[q] = driver[q] /\ num'[q] = num[q],
         UNCHANGED <<held, table, cqes, cur>>
  PROVE  LookupInv'
<1>1. ~held[p] /\ \A k \in Nums : table[k] # p
  BY UnshownIsHidden
<1>2. \A u \in Threads \ {t} : ~Doing(u, p)
  BY DEF LookupInv, OneCallEach
<1>3. LookupTypes
  BY DEF LookupInv
<1>4. ArgsFit'
  BY DEF Moves, LookupInv, ArgsFit, QpCalls, CqCalls
<1>5. OneCallEach'
  BY DEF Moves, LookupInv, OneCallEach, Doing, QpCalls
<1>6. StagesFit'
  BY <1>2 DEF Moves, LookupInv, ArgsFit, StagesFit, Doing, QpCalls, ShownCalls, Listed
<1>7. TableFits'
  <2>1. ASSUME NEW q \in Qps, held'[q] PROVE Listed(q)'
    BY <1>1, <2>1 DEF LookupInv, TableFits, Listed
  <2>2. ASSUME NEW m \in Nums, table'[m] # None
        PROVE  /\ num'[table'[m]] = m /\ mem'[table'[m]] = Whole
               /\ driver'[table'[m]] # "none"
               /\ \/ held'[table'[m]]
                  \/ \E u \in Threads : pc'[u] \in ShownCalls /\ arg'[u] = table'[m]
    <3>1. table'[m] = table[m] /\ table[m] \in Qps /\ table[m] # p
      BY <1>1, <1>3, <2>2 DEF LookupTypes
    <3>2. /\ num[table[m]] = m /\ mem[table[m]] = Whole /\ driver[table[m]] # "none"
          /\ \/ held[table[m]]
             \/ \E u \in Threads : pc[u] \in ShownCalls /\ arg[u] = table[m]
      BY <3>1, <2>2 DEF LookupInv, TableFits
    <3> QED
      BY <3>1, <3>2 DEF Moves, ShownCalls
  <2> QED
    BY <2>1, <2>2 DEF TableFits
<1>8. NumsApart'
  BY DEF LookupInv, NumsApart
<1>9. CompletionsLead'
  BY DEF LookupInv, CompletionsLead
<1>10. PollersHold'
  BY <1>1, <1>3
  DEF Moves, LookupInv, LookupTypes, PollersHold, Listed, Found, Doing, QpCalls
<1> QED
  BY <1>4, <1>5, <1>6, <1>7, <1>8, <1>9, <1>10 DEF LookupInv

LEMMA CreateQpUndoLookup ==
  ASSUME LookupInv, NEW t \in Threads, CreateQpUndo(t)
  PROVE  LookupInv'
<1>1. PICK p \in Qps : arg[t] = p /\ pc[t] = "undo"
  BY DEF CreateQpUndo, LookupInv, ArgsFit, QpCalls
<1>2. /\ mem' = [mem EXCEPT ![p] = {}] \/ UNCHANGED mem
      /\ \/ /\ driver' = [driver EXCEPT ![p] = "none"]
            /\ num' = [num EXCEPT ![p] = None]
         \/ UNCHANGED <<driver, num>>
      /\ Return(t) /\ UNCHANGED <<held, table, refCnt, cqes, owner, cur>>
  BY <1>1 DEF CreateQpUndo
<1>3. LookupTypes /\ driver[p] # "none"
  BY <1>1 DEF LookupInv, StagesFit
<1>4. Moves(t, "idle", None)
  BY <1>2, <1>3, MovesLemma
<1>5. LookupTypes'
  <2>1. /\ mem' \in [Qps -> SUBSET Whole] /\ num' \in [Qps -> Nums \cup {None}]
        /\ driver' \in [Qps -> {"none", "idle", "busy"}]
    BY <1>2, <1>3 DEF LookupTypes
  <2> QED
    BY <1>2, <1>3, <2>1, MovesTyped DEF LookupTypes, Calls
<1>6. LocksFit'
  BY <1>1, <1>2, <1>4, LocksStay DEF Moves, LookupInv, LocksFit
<1>7. /\ driver'[p] # "none" => num'[p] = num[p] /\ driver[p] # "none"
      /\ \A q \in Qps \ {p} :
           mem'[q] = mem[q] /\ driver'[q] = driver[q] /\ num'[q] = num[q]
  BY <1>2, <1>3 DEF LookupTypes
<1>8. Doing(t, p) /\ pc[t] \notin ShownCalls
  BY <1>1 DEF Doing, QpCalls, ShownCalls
<1> QED
  BY <1>2, <1>4, <1>5, <1>6, <1>7, <1>8, HiddenLookup

LEMMA CreateQpInsertLookup ==
  ASSUME LookupInv, NEW t \in Threads, CreateQpInsert(t)
  PROVE  LookupInv'
<1> DEFINE p == arg[t]
<1>1. /\ pc[t] = "insert" /\ table' = [table EXCEPT ![num[p]] = p]
      /\ Goto(t, "ref_send") /\ UNCHANGED arg
      /\ UNCHANGED <<mem, driver, num, held, refCnt, cqes, owner, cur>>
  BY DEF CreateQpInsert, qpVars
<1>2. /\ p \in Qps /\ mem[p] = Whole /\ driver[p] = "idle" /\ num[p] \in Nums
      /\ ~held[p] /\ \A u \in Threads \ {t} : ~Doing(u, p)
  BY <1>1 DEF LookupInv, ArgsFit, StagesFit, OneCallEach, NumsApart, Doing, QpCalls
<1>3. LookupTypes /\ LookupTypes'
  BY <1>1, <1>2, MovesTyped DEF LookupInv, LookupTypes, Calls
<1>4. Moves(t, "ref_send", p)
  BY <1>1, <1>3, MovesLemma
<1>5. table[num[p]] \in {p, None}
  BY <1>2, <1>3 DEF LookupInv, LookupTypes, TableFits, NumsApart
<1>6. /\ Listed(p)' /\ \A q \in Qps : Listed(q) => Listed(q)'
      /\ \A m \in Nums : table'[m] = IF m = num[p] THEN p ELSE table[m]
  <2>1. \A m \in Nums : table'[m] = IF m = num[p] THEN p ELSE table[m]
    BY <1>1, <1>3 DEF LookupTypes
  <2>2. \A q \in Qps : Listed(q) => table'[num[q]] = q
    BY <1>2, <1>5, <2>1, Constants DEF Listed
  <2> QED
    BY <1>1, <1>2, <2>1, <2>2 DEF Listed
<1>7. ArgsFit'
  BY <1>2, <1>4 DEF Moves, LookupInv, ArgsFit, QpCalls, CqCalls
<1>8. LocksFit'
  BY <1>1, <1>4, LocksStay DEF Moves, LookupInv, LocksFit
<1>9. OneCallEach'
  BY <1>1, <1>2, <1>4 DEF Moves, LookupInv, OneCallEach, Doing, QpCalls
<1>10. StagesFit'
  BY <1>1, <1>4, <1>6 DEF Moves, LookupInv, ArgsFit, StagesFit, QpCalls, ShownCalls
<1>11. TableFits'
  BY <1>1, <1>2, <1>4, <1>6 DEF Moves, LookupInv, TableFits, ShownCalls
<1>12. NumsApart' /\ CompletionsLead'
  BY <1>1 DEF LookupInv, NumsApart, CompletionsLead
<1>13. PollersHold'
  BY <1>1, <1>3, <1>4, <1>6 DEF Moves, LookupInv, LookupTypes, PollersHold, Found
<1> QED
  BY <1>3, <1>7, <1>8, <1>9, <1>10, <1>11, <1>12, <1>13 DEF LookupInv

(* The steps between that and efa_destroy_qp's locks leave the table as it is *)
(* and go on with a QP that is in it.                                         *)
LEMMA ShownLookup ==
  ASSUME LookupInv, LookupTypes', LocksFit',
         NEW t \in Threads, NEW p \in Qps, NEW w, NEW x,
         Listed(p), Moves(t, w, x),
         \/ pc[t] \in ShownCalls /\ arg[t] = p
         \/ pc[t] = "idle" /\ held[p],
         \/ w \in ShownCalls /\ x = p /\ ~held'[p]
         \/ w = "idle" /\ held'[p],
         \A q \in Qps \ {p} : held'[q] = held[q],
         driver' = driver \/ driver' = [driver EXCEPT ![p] = "busy"],
         UNCHANGED <<mem, num, table, cqes, cur>>
  PROVE  LookupInv'
<1>1. /\ pc[t] \in {"idle"} \cup ShownCalls
      /\ \A u \in Threads \ {t} : ~Doing(u, p)
      /\ driver[p] # "none"
  BY Constants DEF LookupInv, OneCallEach, TableFits, Listed, Doing, QpCalls, ShownCalls
<1>2. \A q \in Qps : /\ q # p => driver'[q] = driver[q] /\ held'[q] = held[q]
                     /\ driver'[q] # "none" <=> driver[q] # "none"
                     /\ Listed(q)' <=> Listed(q)
  BY <1>1 DEF LookupInv, LookupTypes, Listed
<1>3. held'[p] <=> w = "idle"
  BY DEF ShownCalls
<1>4. ArgsFit'
  BY DEF Moves, LookupInv, ArgsFit, QpCalls, CqCalls, ShownCalls
<1>5. OneCallEach'
  BY <1>1, <1>2, <1>3, Constants
  DEF Moves, LookupInv, OneCallEach, Doing, QpCalls, ShownCalls
<1>6. StagesFit'
  BY <1>1, <1>2 DEF Moves, LookupInv, ArgsFit, StagesFit, Doing, QpCalls, ShownCalls
<1>7. TableFits'
  <2>1. ASSUME NEW q \in Qps, held'[q] PROVE Listed(q)'
    BY <1>2, <2>1 DEF LookupInv, TableFits
  <2>2. ASSUME NEW m \in Nums, table'[m] # None
        PROVE  /\ num'[table'[m]] = m /\ mem'[table'[m]] = Whole
               /\ driver'[table'[m]] # "none"
               /\ \/ held'[table'[m]]
                  \/ \E u \in Threads : pc'[u] \in ShownCalls /\ arg'[u] = table'[m]
    <3>1. table'[m] = table[m] /\ table[m] \in Qps
      BY <2>2 DEF LookupInv, LookupTypes
    <3>2. /\ num[table[m]] = m /\ mem[table[m]] = Whole /\ driver[table[m]] # "none"
          /\ \/ held[table[m]]
             \/ \E u \in Threads : pc[u] \in ShownCalls /\ arg[u] = table[m]
      BY <3>1, <2>2 DEF LookupInv, TableFits
    <3>3. CASE table[m] = p
      BY <1>2, <1>3, <3>1, <3>2, <3>3 DEF Moves
    <3>4. CASE table[m] # p
      BY <1>1, <1>2, <3>1, <3>2, <3>4 DEF Moves, ShownCalls
    <3> QED
      BY <3>3, <3>4
  <2> QED
    BY <2>1, <2>2 DEF TableFits
<1>8. NumsApart' /\ CompletionsLead'
  BY <1>2 DEF LookupInv, NumsApart, CompletionsLead
<1>9. PollersHold'
  BY <1>1, <1>2 DEF Moves, LookupInv, LookupTypes, PollersHold, Found, ShownCalls
<1> QED
  BY <1>4, <1>5, <1>6, <1>7, <1>8, <1>9 DEF LookupInv

LEMMA CreateQpRefLookup ==
  ASSUME LookupInv, NEW t \in Threads, CreateQpRefSend(t) \/ CreateQpRefRecv(t)
  PROVE  LookupInv'
<1>0. PICK p \in Qps : arg[t] = p
  BY DEF LookupInv, ArgsFit, QpCalls, CreateQpRefSend, CreateQpRefRecv
<1>1. CASE CreateQpRefSend(t)
  <2>1. /\ pc[t] = "ref_send" /\ refCnt' = [refCnt EXCEPT ![SendCq[p]] = @ + 1]
        /\ Goto(t, "ref_recv") /\ UNCHANGED arg
        /\ UNCHANGED <<mem, driver, num, held, table, cqes, owner, cur>>
    BY <1>0, <1>1 DEF CreateQpRefSend, qpVars
  <2>2. p \in Qps /\ Listed(p) /\ ~held[p]
    BY <1>0, <2>1 DEF LookupInv, ArgsFit, StagesFit, OneCallEach, Doing, QpCalls, ShownCalls
  <2>3. LookupTypes /\ LookupTypes'
    <3>1. LookupTypes
      BY DEF LookupInv
    <3>2. refCnt' \in [Cqs -> Int]
      BY <2>1, <2>2, <3>1, Constants DEF LookupTypes
    <3> QED
      BY <2>1, <3>1, <3>2, MovesTyped DEF LookupTypes, Calls
  <2>4. Moves(t, "ref_recv", p)
    BY <1>0, <2>1, <2>3, MovesLemma
  <2>5. LocksFit'
    BY <2>1, <2>4, LocksStay DEF Moves, LookupInv, LocksFit
  <2>6. pc[t] \in ShownCalls /\ "ref_recv" \in ShownCalls
    BY <2>1 DEF ShownCalls
  <2> QED
    BY <1>0, <2>1, <2>2, <2>3, <2>4, <2>5, <2>6, ShownLookup
<1>2. CASE CreateQpRefRecv(t)
  <2>1. /\ pc[t] = "ref_recv" /\ refCnt' = [refCnt EXCEPT ![RecvCq[p]] = @ + 1]
        /\ held' = [held EXCEPT ![p] = TRUE] /\ driver' = [driver EXCEPT ![p] = "busy"]
        /\ Return(t)
        /\ UNCHANGED <<mem, num, table, cqes, owner, cur>>
    BY <1>0, <1>2 DEF CreateQpRefRecv
  <2>2. p \in Qps /\ Listed(p)
    BY <1>0, <2>1 DEF LookupInv, ArgsFit, StagesFit, QpCalls, ShownCalls
  <2>3. LookupTypes /\ LookupTypes'
    <3>1. LookupTypes
      BY DEF LookupInv
    <3>2. refCnt' \in [Cqs -> Int] /\ pc' \in [Threads -> Calls]
          /\ arg' \in [Threads -> Qps \cup Cqs \cup {None}]
      BY <2>1, <2>2, <3>1, Constants, MovesTyped DEF LookupTypes, Calls
    <3> QED
      BY <2>1, <3>1, <3>2 DEF LookupTypes
  <2>4. Moves(t, "idle", None)
    BY <1>0, <2>1, <2>3, MovesLemma
  <2>5. LocksFit'
    BY <2>1, <2>4, LocksStay DEF Moves, LookupInv, LocksFit
  <2>6. held'[p] /\ \A q \in Qps \ {p} : held'[q] = held[q]
    BY <2>1, <2>3 DEF LookupTypes
  <2>7. pc[t] \in ShownCalls
    BY <2>1 DEF ShownCalls
  <2> QED
    BY <1>0, <2>1, <2>2, <2>3, <2>4, <2>5, <2>6, <2>7, ShownLookup
<1> QED
  BY <1>1, <1>2

LEMMA DestroyQpLookup ==
  ASSUME LookupInv, NEW t \in Threads, NEW p \in Qps, DestroyQp(t, p)
  PROVE  LookupInv'
<1>1. /\ held[p] /\ Enter(t, "locking", p) /\ held' = [held EXCEPT ![p] = FALSE]
      /\ UNCHANGED <<mem, driver, num, table, refCnt, cqes, owner, cur>>
  BY DEF DestroyQp
<1>2. Listed(p)
  BY <1>1 DEF LookupInv, TableFits
<1>3. LookupTypes /\ LookupTypes'
  BY <1>1, MovesTyped DEF LookupInv, LookupTypes, Calls
<1>4. Moves(t, "locking", p) /\ pc[t] = "idle"
  BY <1>1, <1>3, MovesLemma
<1>5. LocksFit'
  BY <1>1, <1>4, LocksStay DEF Moves, LookupInv, LocksFit
<1>6. ~held'[p] /\ \A q \in Qps \ {p} : held'[q] = held[q]
  BY <1>1, <1>3 DEF LookupTypes
<1>7. "locking" \in ShownCalls
  BY DEF ShownCalls
<1> QED
  BY <1>1, <1>2, <1>3, <1>4, <1>5, <1>6, <1>7, ShownLookup

LEMMA DestroyQpLockLookup ==
  ASSUME LookupInv, NEW t \in Threads, DestroyQpLock(t)
  PROVE  LookupInv'
<1>1. PICK p \in Qps : arg[t] = p /\ pc[t] = "locking"
  BY DEF DestroyQpLock, LookupInv, ArgsFit, QpCalls
<1>2. PICK l, w :
        /\ IsFree(l) /\ owner' = [owner EXCEPT ![l] = t] /\ l \in Locks
        /\ \/ Owned(t) = {} /\ l = TableLock /\ w = "locking"
           \/ Owned(t) = {TableLock} /\ l = RecvCq[p] /\ SendCq[p] = l /\ w = "unlink"
           \/ Owned(t) = {TableLock} /\ l = RecvCq[p] /\ SendCq[p] # l /\ w = "locking"
           \/ /\ Owned(t) = {TableLock, RecvCq[p]} /\ l = SendCq[p]
              /\ SendCq[p] # RecvCq[p] /\ w = "unlink"
        /\ Goto(t, w) \/ (w = pc[t] /\ UNCHANGED pc)
  <2> DEFINE done == Cardinality(Owned(t)) + 1 = Len(DestroyLocks(p))
  <2>1. /\ IsFree(Wants(t)) /\ owner' = [owner EXCEPT ![Wants(t)] = t]
        /\ IF done THEN Goto(t, "unlink") ELSE UNCHANGED pc
    BY <1>1 DEF DestroyQpLock
  <2>2. /\ Wants(t) \in Locks
        /\ \/ Owned(t) = {} /\ Wants(t) = TableLock /\ ~done
           \/ /\ Owned(t) = {TableLock} /\ Wants(t) = RecvCq[p]
              /\ done <=> SendCq[p] = RecvCq[p]
           \/ /\ Owned(t) = {TableLock, RecvCq[p]} /\ Wants(t) = SendCq[p]
              /\ SendCq[p] # RecvCq[p] /\ done
    BY <1>1, LocksInOrder
  <2> HIDE DEF done
  <2>3. CASE done
    <3> WITNESS Wants(t), "unlink"
    <3> QED
      BY <2>1, <2>2, <2>3
  <2>4. CASE ~done
    <3> WITNESS Wants(t), "locking"
    <3> QED
      BY <1>1, <2>1, <2>2, <2>4
  <2> QED
    BY <2>3, <2>4
<1>3. UNCHANGED <<mem, driver, num, held, table, refCnt, cqes, arg, cur>>
  BY DEF DestroyQpLock, qpVars
<1>4. Listed(p) /\ ~held[p] /\ ~held'[p] /\ pc[t] \in ShownCalls /\ w \in ShownCalls
  BY <1>1, <1>2, <1>3
     DEF LookupInv, ArgsFit, StagesFit, OneCallEach, Doing, QpCalls, ShownCalls
<1>5. LookupTypes
  BY DEF LookupInv
<1>6. /\ owner' \in [Locks -> Threads \cup {None}]
      /\ Owned(t)' = Owned(t) \cup {l}
      /\ \A u \in Threads \ {t} : Owned(u)' = Owned(u)
  BY <1>2, <1>5, LocksTaken
<1>7. Moves(t, w, p)
  BY <1>1, <1>2, <1>3, <1>5, MovesLemma
<1>8. LookupTypes'
  <2>1. pc' \in [Threads -> Calls]
    BY <1>2, <1>5 DEF Goto, LookupTypes, Calls
  <2> QED
    BY <1>3, <1>5, <1>6, <2>1 DEF LookupTypes
<1>9. LocksFit'
  <2>1. w = "unlink" => Owned(t)' = {TableLock, RecvCq[p], SendCq[p]}
    BY <1>2, <1>6
  <2>2. w = "locking" => \/ Owned(t)' = {TableLock}
                         \/ Owned(t)' = {TableLock, RecvCq[p]} /\ SendCq[p] # RecvCq[p]
    BY <1>2, <1>6
  <2> QED
    BY <1>2, <1>6, <1>7, <2>1, <2>2 DEF Moves, LookupInv, LocksFit
<1> QED
  BY <1>1, <1>3, <1>4, <1>7, <1>8, <1>9, ShownLookup

LEMMA RolesFinite == IsFiniteSet(Roles) /\ Cardinality(Roles) = 2
<1>1. IsFiniteSet({"sq"}) /\ Cardinality({"sq"}) = 1
  BY FS_Singleton
<1>2. Roles = {"sq"} \cup {"rq"} /\ "rq" \notin {"sq"}
  BY DEF Roles
<1> QED
  BY <1>1, <1>2, FS_AddElement

(* The locks efa_destroy_qp has are those of every CQ the QP completes in.    *)
LEMMA UnlinkedIsUnused ==
  ASSUME LookupInv, NEW t \in Threads, pc[t] = "unlink", NEW u \in Threads,
         NumsDrained, cur[u] # None
  PROVE  cur[u].qp # arg[t]
<1> SUFFICES ASSUME cur[u].qp = arg[t] PROVE FALSE
  OBVIOUS
<1>1. pc[u] = "use" /\ CqOf(arg[t], cur[u].role) = arg[u]
  BY DEF LookupInv, PollersHold
<1>2. arg[u] \in Owned(u) /\ Owned(t) = {TableLock, RecvCq[arg[t]], SendCq[arg[t]]}
  BY <1>1 DEF LookupInv, LocksFit
<1>3. arg[u] \in Owned(t)
  BY <1>1, <1>2 DEF CqOf
<1>4. t = u
  BY <1>2, <1>3, LocksExclude
<1> QED
  BY <1>1, <1>4

LEMMA UnlinkQpLookup ==
  ASSUME LookupInv, NEW t \in Threads, UnlinkQp(t)
  PROVE  LookupInv'
<1>1. PICK p \in Qps : arg[t] = p /\ pc[t] = "unlink"
  BY DEF UnlinkQp, LookupInv, ArgsFit, QpCalls
<1>2. /\ table' = [table EXCEPT ![num[p]] = None]
      /\ Releasing(Owned(t)) /\ Goto(t, "free")
      /\ UNCHANGED <<mem, driver, num, held, cqes, arg, cur>>
  BY <1>1 DEF UnlinkQp, qpVars
<1>3. LookupTypes
  BY DEF LookupInv
<1>4. /\ Listed(p) /\ ~held[p] /\ \A u \in Threads \ {t} : ~Doing(u, p)
  BY <1>1 DEF LookupInv, StagesFit, OneCallEach, Doing, QpCalls, ShownCalls
<1>5. mem[p] = Whole /\ driver[p] # "none"
  BY <1>4, Constants DEF LookupInv, TableFits, Listed
<1>6. /\ owner' \in [Locks -> Threads \cup {None}] /\ Owned(t)' = {}
      /\ \A u \in Threads \ {t} : Owned(u)' = Owned(u)
  BY <1>2, <1>3, LocksLeft
<1>7. Moves(t, "free", p)
  BY <1>1, <1>2, <1>3, MovesLemma
<1>8. \A m \in Nums : table'[m] = IF m = num[p] THEN None ELSE table[m]
  BY <1>2, <1>3 DEF LookupTypes
<1>9. \A q \in Qps \ {p} : Listed(q) => Listed(q)'
  BY <1>2, <1>4, <1>8 DEF Listed
<1>10. LookupTypes'
  <2>1. refCnt' \in [Cqs -> Int]
    <3> DEFINE Lost(c) == Cardinality({r \in Roles : CqOf(p, r) = c})
    <3>1. refCnt' = [c \in Cqs |-> refCnt[c] - Lost(c)]
      BY <1>1 DEF UnlinkQp
    <3>2. ASSUME NEW c \in Cqs PROVE Lost(c) \in Nat
      BY RolesFinite, FS_Subset, FS_CardinalityType
    <3> HIDE DEF Lost
    <3> QED
      BY <1>3, <3>1, <3>2 DEF LookupTypes
  <2> QED
    BY <1>2, <1>3, <1>6, <2>1, MovesTyped DEF LookupTypes, Calls
<1>11. ArgsFit'
  BY <1>7 DEF Moves, LookupInv, ArgsFit, QpCalls, CqCalls
<1>12. LocksFit'
  BY <1>6, <1>7 DEF Moves, LookupInv, LocksFit
<1>13. OneCallEach'
  BY <1>1, <1>2, <1>4, <1>7 DEF Moves, LookupInv, OneCallEach, Doing, QpCalls
<1>14. StagesFit'
  BY <1>2, <1>4, <1>5, <1>7, <1>9
     DEF Moves, LookupInv, ArgsFit, StagesFit, Doing, QpCalls, ShownCalls
<1>15. TableFits'
  <2>1. ASSUME NEW q \in Qps, held'[q] PROVE Listed(q)'
    BY <1>2, <1>4, <1>9, <2>1 DEF LookupInv, TableFits
  <2>2. ASSUME NEW m \in Nums, table'[m] # None
        PROVE  /\ num'[table'[m]] = m /\ mem'[table'[m]] = Whole
               /\ driver'[table'[m]] # "none"
               /\ \/ held'[table'[m]]
                  \/ \E u \in Threads : pc'[u] \in ShownCalls /\ arg'[u] = table'[m]
    <3>1. table'[m] = table[m] /\ table[m] # None /\ m # num[p]
      BY <1>8, <2>2
    <3>2. /\ num[table[m]] = m /\ mem[table[m]] = Whole /\ driver[table[m]] # "none"
          /\ \/ held[table[m]]
             \/ \E u \in Threads : pc[u] \in ShownCalls /\ arg[u] = table[m]
      BY <3>1 DEF LookupInv, TableFits
    <3>3. table[m] # p
      BY <3>1, <3>2
    <3> QED
      BY <1>1, <1>2, <1>7, <3>1, <3>2, <3>3 DEF Moves
  <2> QED
    BY <2>1, <2>2 DEF TableFits
<1>16. NumsApart' /\ CompletionsLead'
  BY <1>2 DEF LookupInv, NumsApart, CompletionsLead
<1>17. PollersHold'
  <2>1. ASSUME NEW u \in Threads
        PROVE  /\ pc'[u] = "use" <=> cur'[u] # None
               /\ NumsDrained /\ cur'[u] # None =>
                    Listed(cur[u].qp)' /\ CqOf(cur[u].qp, cur[u].role)' = arg'[u]
    <3>1. cur'[u] = cur[u] /\ (cur[u] # None => u # t)
      BY <1>1, <1>2 DEF LookupInv, PollersHold
    <3>2. CASE u = t
      BY <1>7, <3>1, <3>2 DEF Moves
    <3>3. CASE u # t
      <4>1. pc'[u] = pc[u] /\ arg'[u] = arg[u]
        BY <1>7, <3>3 DEF Moves
      <4>2. ASSUME NumsDrained, cur[u] # None
            PROVE  Listed(cur[u].qp)' /\ CqOf(cur[u].qp, cur[u].role)' = arg'[u]
        <5>1. PICK q \in Qps : q = cur[u].qp /\ q = cur'[u].qp /\ q # p
          BY <1>1, <1>3, <3>1, <4>2, UnlinkedIsUnused DEF LookupTypes, Found
        <5>2. /\ pc[u] = "use" /\ Listed(q)
              /\ CqOf(q, cur[u].role) = arg[u]
          BY <4>2, <5>1 DEF LookupInv, PollersHold
        <5> QED
          BY <1>9, <3>1, <4>1, <5>1, <5>2 DEF CqOf, Listed
      <4> QED
        BY <3>1, <4>1, <4>2 DEF LookupInv, PollersHold
    <3> QED
      BY <3>2, <3>3
  <2> QED
    BY <2>1 DEF PollersHold
<1> QED
  BY <1>10, <1>11, <1>12, <1>13, <1>14, <1>15, <1>16, <1>17 DEF LookupInv

LEMMA FreeQueuesLookup ==
  ASSUME LookupInv, NEW t \in Threads, FreeQueues(t)
  PROVE  LookupInv'
<1>1. PICK p \in Qps : arg[t] = p /\ pc[t] = "free"
  BY DEF FreeQueues, LookupInv, ArgsFit, QpCalls
<1>2. /\ mem' = [mem EXCEPT ![p] = @ \ {"rq", "sq"}] /\ Goto(t, "driver")
      /\ UNCHANGED <<driver, num, held, table, refCnt, cqes, owner, arg, cur>>
  BY <1>1 DEF FreeQueues
<1>3. LookupTypes /\ mem[p] = Whole /\ driver[p] # "none"
  BY <1>1 DEF LookupInv, StagesFit
<1>4. Moves(t, "driver", p)
  BY <1>1, <1>2, <1>3, MovesLemma
<1>5. LookupTypes'
  BY <1>2, <1>3, MovesTyped DEF LookupTypes, Calls, Whole
<1>6. LocksFit'
  BY <1>1, <1>2, <1>4, LocksStay DEF Moves, LookupInv, LocksFit
<1>7. mem'[p] = {"qp"} /\ driver'[p] # "none" /\ \A q \in Qps \ {p} : mem'[q] = mem[q]
  BY <1>2, <1>3 DEF LookupTypes, Whole
<1>8. Doing(t, p) /\ pc[t] \notin ShownCalls
  BY <1>1 DEF Doing, QpCalls, ShownCalls
<1> QED
  BY <1>2, <1>4, <1>5, <1>6, <1>7, <1>8, HiddenLookup

LEMMA DriverDestroyQpLookup ==
  ASSUME LookupInv, NEW t \in Threads, DriverDestroyQp(t)
  PROVE  LookupInv'
<1>1. PICK p \in Qps : arg[t] = p /\ pc[t] = "driver"
  BY DEF DriverDestroyQp, LookupInv, ArgsFit, QpCalls
<1>2. /\ mem' = [mem EXCEPT ![p] = {}] \/ UNCHANGED mem
      /\ \/ /\ driver' = [driver EXCEPT ![p] = "none"]
            /\ num' = [num EXCEPT ![p] = None]
         \/ UNCHANGED <<driver, num>>
      /\ Return(t) /\ UNCHANGED <<held, table, refCnt, cqes, owner, cur>>
  BY <1>1 DEF DriverDestroyQp
<1>3. LookupTypes /\ driver[p] # "none"
  BY <1>1 DEF LookupInv, StagesFit
<1>4. Moves(t, "idle", None)
  BY <1>2, <1>3, MovesLemma
<1>5. LookupTypes'
  <2>1. /\ mem' \in [Qps -> SUBSET Whole] /\ num' \in [Qps -> Nums \cup {None}]
        /\ driver' \in [Qps -> {"none", "idle", "busy"}]
    BY <1>2, <1>3 DEF LookupTypes
  <2> QED
    BY <1>2, <1>3, <2>1, MovesTyped DEF LookupTypes, Calls
<1>6. LocksFit'
  BY <1>1, <1>2, <1>4, LocksStay DEF Moves, LookupInv, LocksFit
<1>7. /\ driver'[p] # "none" => num'[p] = num[p] /\ driver[p] # "none"
      /\ \A q \in Qps \ {p} :
           mem'[q] = mem[q] /\ driver'[q] = driver[q] /\ num'[q] = num[q]
  BY <1>2, <1>3 DEF LookupTypes
<1>8. Doing(t, p) /\ pc[t] \notin ShownCalls
  BY <1>1 DEF Doing, QpCalls, ShownCalls
<1> QED
  BY <1>2, <1>4, <1>5, <1>6, <1>7, <1>8, HiddenLookup


----------------------------------------------------------------------------
(* A completion is put into the CQ of the queue it is of.                     *)
LEMMA DevCompleteLookup ==
  ASSUME LookupInv, NEW p \in Qps, NEW r \in Roles, DevComplete(p, r)
  PROVE  LookupInv'
<1> DEFINE c == CqOf(p, r)
           e == [num |-> num[p], role |-> r]
<1>1. /\ driver[p] = "busy" /\ Len(cqes[c]) < CqeCnt
      /\ cqes' = [cqes EXCEPT ![c] = Append(@, e)]
      /\ UNCHANGED <<mem, driver, num, held, table, refCnt, owner, pc, arg, cur>>
  BY DEF DevComplete, qpVars
<1>2. LookupTypes /\ c \in Cqs /\ num[p] \in Nums /\ e \in Cqe
  BY <1>1, Constants DEF LookupInv, NumsApart, CqOf, Cqe
<1>3. cqes[c] \in Seq(Cqe) /\ cqes'[c] = Append(cqes[c], e)
  BY <1>1, <1>2 DEF LookupTypes
<1>4. \A d \in Cqs \ {c} : cqes'[d] = cqes[d]
  BY <1>1, <1>2 DEF LookupTypes
<1>5. LookupTypes'
  <2>1. cqes'[c] \in Seq(Cqe) /\ Len(cqes'[c]) <= CqeCnt
    BY <1>1, <1>2, <1>3, Constants
  <2>2. cqes' \in [Cqs -> Seq(Cqe)] /\ \A d \in Cqs : Len(cqes'[d]) <= CqeCnt
    <3> HIDE DEF c, e
    <3> QED
      BY <1>1, <1>2, <1>4, <2>1 DEF LookupTypes
  <2> QED
    BY <1>1, <1>2, <2>2 DEF LookupTypes
<1>6. ArgsFit' /\ OneCallEach' /\ StagesFit' /\ TableFits' /\ NumsApart' /\ PollersHold'
  BY <1>1 DEF LookupInv, ArgsFit, OneCallEach, Doing, StagesFit, Listed, TableFits,
              NumsApart, PollersHold
<1>7. LocksFit'
  BY <1>1, LocksStay DEF LookupInv, LocksFit
<1>8. CompletionsLead'
  <2> SUFFICES ASSUME NumsDrained, NEW d \in Cqs, NEW k \in DOMAIN cqes'[d], NEW q \in Qps,
                      driver[q] # "none", num[q] = cqes'[d][k].num
               PROVE  CqOf(q, cqes'[d][k].role) = d
    BY <1>1 DEF CompletionsLead, CqOf
  <2>1. CASE d = c /\ k = Len(cqes[c]) + 1
    <3>1. cqes'[d][k] = e
      BY <1>3, <2>1
    <3>2. q = p
      BY <1>1, <3>1 DEF LookupInv, NumsApart
    <3> QED
      BY <2>1, <3>1, <3>2
  <2>2. CASE ~(d = c /\ k = Len(cqes[c]) + 1)
    <3>1. k \in DOMAIN cqes[d] /\ cqes'[d][k] = cqes[d][k]
      BY <1>3, <1>4, <2>2, SMTT(20)
    <3> QED
      BY <3>1 DEF LookupInv, CompletionsLead
  <2> QED
    BY <2>1, <2>2
<1> QED
  BY <1>5, <1>6, <1>7, <1>8 DEF LookupInv

(* Polling does nothing to the QPs and the table.                             *)
LEMMA PollsKeepQps ==
  ASSUME LookupInv, NEW t \in Threads, NEW w, NEW x,
         pc[t] \notin QpCalls, Moves(t, w, x),
         w = "idle" \/ (w \in CqCalls /\ x \in Cqs),
         UNCHANGED <<mem, driver, num, held, table>>
  PROVE  ArgsFit' /\ OneCallEach' /\ StagesFit' /\ TableFits' /\ NumsApart'
<1>1. w \notin QpCalls
  BY DEF QpCalls, CqCalls
<1>2. ArgsFit'
  BY <1>1 DEF Moves, LookupInv, ArgsFit, QpCalls, CqCalls
<1>3. OneCallEach'
  BY <1>1 DEF Moves, LookupInv, OneCallEach, Doing
<1>4. StagesFit'
  BY <1>1 DEF Moves, LookupInv, StagesFit, QpCalls, ShownCalls, Listed
<1>5. TableFits'
  <2>1. \A u \in Threads : pc[u] \in ShownCalls => pc'[u] = pc[u] /\ arg'[u] = arg[u]
    BY DEF Moves, QpCalls, ShownCalls
  <2> QED
    BY <2>1 DEF LookupInv, TableFits, Listed
<1>6. NumsApart'
  BY DEF LookupInv, NumsApart
<1> QED
  BY <1>2, <1>3, <1>4, <1>5, <1>6

(* A completion read leaves the others where they are.                        *)
LEMMA TailKeepsLead ==
  ASSUME LookupInv, NEW c \in Cqs, cqes[c] # <<>>,
         cqes' = [cqes EXCEPT ![c] = Tail(@)], UNCHANGED <<driver, num>>
  PROVE  /\ cqes' \in [Cqs -> Seq(Cqe)] /\ \A d \in Cqs : Len(cqes'[d]) <= CqeCnt
         /\ Head(cqes[c]) \in Cqe
         /\ CompletionsLead'
<1>1. LookupTypes /\ cqes[c] \in Seq(Cqe) /\ Len(cqes[c]) <= CqeCnt /\ Len(cqes[c]) \in Nat
  BY DEF LookupInv, LookupTypes
<1>2. cqes'[c] = Tail(cqes[c]) /\ \A d \in Cqs \ {c} : cqes'[d] = cqes[d]
  BY <1>1 DEF LookupTypes
<1>3. /\ Tail(cqes[c]) \in Seq(Cqe) /\ Len(Tail(cqes[c])) = Len(cqes[c]) - 1
      /\ Head(cqes[c]) \in Cqe
      /\ \A k \in DOMAIN Tail(cqes[c]) :
           k + 1 \in DOMAIN cqes[c] /\ Tail(cqes[c])[k] = cqes[c][k + 1]
  BY <1>1
<1>4. cqes' \in [Cqs -> Seq(Cqe)] /\ \A d \in Cqs : Len(cqes'[d]) <= CqeCnt
  <2>1. Len(Tail(cqes[c])) <= CqeCnt
    BY <1>1, <1>3, Constants
  <2> QED
    BY <1>1, <1>2, <1>3, <2>1 DEF LookupTypes
<1>5. CompletionsLead'
  <2> SUFFICES ASSUME NumsDrained, NEW d \in Cqs, NEW k \in DOMAIN cqes'[d], NEW q \in Qps,
                      driver[q] # "none", num[q] = cqes'[d][k].num
               PROVE  CqOf(q, cqes'[d][k].role) = d
    BY DEF CompletionsLead, CqOf
  <2>1. PICK j \in DOMAIN cqes[d] : cqes'[d][k] = cqes[d][j]
    BY <1>2, <1>3
  <2> QED
    BY <2>1 DEF LookupInv, CompletionsLead
<1> QED
  BY <1>3, <1>4, <1>5

(* A call that polls while it has nothing in use: whoever polls elsewhere     *)
(* keeps what it has found.                                                   *)
LEMMA OthersHold ==
  ASSUME LookupInv, NEW t \in Threads, NEW w, NEW x, Moves(t, w, x), w # "use",
         cur'[t] = None, \A u \in Threads \ {t} : cur'[u] = cur[u],
         UNCHANGED <<num, table>>
  PROVE  PollersHold'
  BY DEF Moves, LookupInv, PollersHold, Listed, CqOf

LEMMA PollCqLookup ==
  ASSUME LookupInv, NEW t \in Threads, NEW c \in Cqs, PollCq(t, c)
  PROVE  LookupInv'
<1>1. /\ Enter(t, "lock_cq", c)
      /\ UNCHANGED <<mem, driver, num, held, table, refCnt, cqes, owner, cur>>
  BY DEF PollCq, qpVars
<1>2. LookupTypes /\ LookupTypes'
  BY <1>1, MovesTyped DEF LookupInv, LookupTypes, Calls
<1>3. Moves(t, "lock_cq", c) /\ pc[t] = "idle"
  BY <1>1, <1>2, MovesLemma
<1>4. pc[t] \notin QpCalls /\ "lock_cq" \in CqCalls /\ cur[t] = None
  BY <1>3 DEF QpCalls, CqCalls, LookupInv, PollersHold
<1>5. ArgsFit' /\ OneCallEach' /\ StagesFit' /\ TableFits' /\ NumsApart'
  BY <1>1, <1>3, <1>4, PollsKeepQps
<1>6. LocksFit'
  BY <1>1, <1>3, LocksStay DEF Moves, LookupInv, LocksFit
<1>7. PollersHold'
  BY <1>1, <1>3, <1>4, OthersHold
<1>8. CompletionsLead'
  BY <1>1 DEF LookupInv, CompletionsLead
<1> QED
  BY <1>2, <1>5, <1>6, <1>7, <1>8 DEF LookupInv

LEMMA PollCqLockLookup ==
  ASSUME LookupInv, NEW t \in Threads, PollCqLock(t)
  PROVE  LookupInv'
<1>1. PICK c \in Cqs : arg[t] = c /\ pc[t] = "lock_cq"
  BY DEF PollCqLock, LookupInv, ArgsFit, CqCalls
<1>2. /\ IsFree(c) /\ owner' = [owner EXCEPT ![c] = t] /\ Goto(t, "poll")
      /\ UNCHANGED <<mem, driver, num, held, table, refCnt, cqes, arg, cur>>
  BY <1>1 DEF PollCqLock, qpVars
<1>3. LookupTypes /\ c \in Locks
  BY DEF LookupInv, Locks
<1>4. /\ owner' \in [Locks -> Threads \cup {None}] /\ Owned(t)' = Owned(t) \cup {c}
      /\ \A u \in Threads \ {t} : Owned(u)' = Owned(u)
  BY <1>2, <1>3, LocksTaken
<1>5. LookupTypes'
  BY <1>2, <1>3, <1>4, MovesTyped DEF LookupTypes, Calls
<1>6. Moves(t, "poll", c)
  BY <1>1, <1>2, <1>3, MovesLemma
<1>7. pc[t] \notin QpCalls /\ "poll" \in CqCalls /\ cur[t] = None
  BY <1>1 DEF QpCalls, CqCalls, LookupInv, PollersHold
<1>8. ArgsFit' /\ OneCallEach' /\ StagesFit' /\ TableFits' /\ NumsApart'
  BY <1>2, <1>6, <1>7, PollsKeepQps
<1>9. LocksFit'
  <2>1. Owned(t)' = {c}
    BY <1>1, <1>4 DEF LookupInv, LocksFit
  <2> QED
    BY <1>4, <1>6, <2>1 DEF Moves, LookupInv, LocksFit
<1>10. PollersHold'
  BY <1>2, <1>6, <1>7, OthersHold
<1>11. CompletionsLead'
  BY <1>2 DEF LookupInv, CompletionsLead
<1> QED
  BY <1>5, <1>8, <1>9, <1>10, <1>11 DEF LookupInv

(* The three ways on for a thread that has the lock of a CQ: it leaves the    *)
(* call, it has found a QP, or it looks for the next completion.              *)
LEMMA PollLeaves ==
  ASSUME LookupInv, NEW t \in Threads, pc[t] \in {"poll", "use"},
         Releasing({arg[t]}), Return(t)
  PROVE  /\ Moves(t, "idle", None) /\ LocksFit'
         /\ pc' \in [Threads -> Calls] /\ arg' \in [Threads -> Qps \cup Cqs \cup {None}]
         /\ owner' \in [Locks -> Threads \cup {None}]
<1>1. LookupTypes /\ Owned(t) = {arg[t]}
  BY DEF LookupInv, LocksFit
<1>2. Releasing(Owned(t))
  BY <1>1
<1>3. /\ owner' \in [Locks -> Threads \cup {None}] /\ Owned(t)' = {}
      /\ \A u \in Threads \ {t} : Owned(u)' = Owned(u)
  BY <1>1, <1>2, LocksLeft
<1>4. Moves(t, "idle", None)
  BY <1>1, MovesLemma
<1>5. pc' \in [Threads -> Calls] /\ arg' \in [Threads -> Qps \cup Cqs \cup {None}]
  BY <1>1, MovesTyped DEF Calls
<1>6. LocksFit'
  BY <1>3, <1>4 DEF Moves, LookupInv, LocksFit
<1> QED
  BY <1>3, <1>4, <1>5, <1>6

LEMMA PollGoesOn ==
  ASSUME LookupInv, NEW t \in Threads, pc[t] \in {"poll", "use"},
         NEW w \in {"poll", "use"}, Goto(t, w), UNCHANGED <<owner, arg>>
  PROVE  /\ Moves(t, w, arg[t]) /\ LocksFit'
         /\ pc' \in [Threads -> Calls] /\ arg' \in [Threads -> Qps \cup Cqs \cup {None}]
         /\ owner' \in [Locks -> Threads \cup {None}]
<1>1. LookupTypes /\ w \in Calls
  BY DEF LookupInv, Calls
<1>2. Moves(t, w, arg[t])
  BY <1>1, MovesLemma
<1>3. pc' \in [Threads -> Calls] /\ arg' \in [Threads -> Qps \cup Cqs \cup {None}]
  BY <1>1 DEF LookupTypes, Goto
<1>4. LocksFit'
  BY <1>2, LocksStay DEF Moves, LookupInv, LocksFit
<1> QED
  BY <1>1, <1>2, <1>3, <1>4 DEF LookupTypes

LEMMA PollNothingLookup ==
  ASSUME LookupInv, NEW t \in Threads, PollNothing(t)
  PROVE  LookupInv'
<1>1. /\ pc[t] = "poll" /\ Releasing({arg[t]}) /\ Return(t)
      /\ UNCHANGED <<mem, driver, num, held, table, refCnt, cqes, cur>>
  BY DEF PollNothing, qpVars
<1>2. /\ Moves(t, "idle", None) /\ LocksFit'
      /\ pc' \in [Threads -> Calls] /\ arg' \in [Threads -> Qps \cup Cqs \cup {None}]
      /\ owner' \in [Locks -> Threads \cup {None}]
  BY <1>1, PollLeaves
<1>3. LookupTypes'
  BY <1>1, <1>2 DEF LookupInv, LookupTypes
<1>4. pc[t] \notin QpCalls /\ cur[t] = None
  BY <1>1 DEF QpCalls, LookupInv, PollersHold
<1>5. ArgsFit' /\ OneCallEach' /\ StagesFit' /\ TableFits' /\ NumsApart'
  BY <1>1, <1>2, <1>4, PollsKeepQps
<1>6. PollersHold'
  BY <1>1, <1>2, <1>4, OthersHold
<1>7. CompletionsLead'
  BY <1>1 DEF LookupInv, CompletionsLead
<1> QED
  BY <1>2, <1>3, <1>5, <1>6, <1>7 DEF LookupInv

LEMMA PollCqeLookup ==
  ASSUME LookupInv, NEW t \in Threads, PollCqe(t)
  PROVE  LookupInv'
<1>1. PICK c \in Cqs : arg[t] = c /\ pc[t] = "poll"
  BY DEF PollCqe, LookupInv, ArgsFit, CqCalls
<1>2. PICK e : e = Head(cqes[c])
  OBVIOUS
<1>3. /\ cqes[c] # <<>> /\ cqes' = [cqes EXCEPT ![c] = Tail(@)]
      /\ UNCHANGED <<mem, driver, num, held, table, refCnt>>
      /\ \/ Releasing({c}) /\ Return(t) /\ UNCHANGED cur
         \/ /\ table[e.num] # None
            /\ cur' = [cur EXCEPT ![t] = [qp |-> table[e.num], role |-> e.role]]
            /\ Goto(t, "use")
            /\ UNCHANGED <<owner, arg>>
  BY <1>1, <1>2 DEF PollCqe, qpVars
<1>4. LookupTypes /\ pc[t] \notin QpCalls /\ cur[t] = None
  BY <1>1 DEF QpCalls, LookupInv, PollersHold
<1>5. /\ cqes' \in [Cqs -> Seq(Cqe)] /\ \A d \in Cqs : Len(cqes'[d]) <= CqeCnt
      /\ e \in Cqe
      /\ CompletionsLead'
  BY <1>2, <1>3, TailKeepsLead
<1>6. CASE Releasing({c}) /\ Return(t) /\ UNCHANGED cur
  <2>1. /\ Moves(t, "idle", None) /\ LocksFit'
        /\ pc' \in [Threads -> Calls] /\ arg' \in [Threads -> Qps \cup Cqs \cup {None}]
        /\ owner' \in [Locks -> Threads \cup {None}]
    BY <1>1, <1>6, PollLeaves
  <2>2. LookupTypes'
    BY <1>3, <1>4, <1>5, <1>6, <2>1 DEF LookupTypes
  <2>3. ArgsFit' /\ OneCallEach' /\ StagesFit' /\ TableFits' /\ NumsApart'
    BY <1>3, <1>4, <2>1, PollsKeepQps
  <2>4. PollersHold'
    BY <1>3, <1>4, <1>6, <2>1, OthersHold
  <2> QED
    BY <1>5, <2>1, <2>2, <2>3, <2>4 DEF LookupInv
<1>7. CASE /\ table[e.num] # None
           /\ cur' = [cur EXCEPT ![t] = [qp |-> table[e.num], role |-> e.role]]
           /\ Goto(t, "use")
           /\ UNCHANGED <<owner, arg>>
  <2>1. /\ Moves(t, "use", c) /\ LocksFit'
        /\ pc' \in [Threads -> Calls] /\ arg' \in [Threads -> Qps \cup Cqs \cup {None}]
        /\ owner' \in [Locks -> Threads \cup {None}]
    BY <1>1, <1>7, PollGoesOn
  <2>2. PICK q \in Qps : q = table[e.num]
    BY <1>4, <1>5, <1>7 DEF LookupTypes, Cqe
  <2>3. e.num \in Nums /\ e.role \in Roles
    BY <1>5 DEF Cqe
  <2>4. num[q] = e.num /\ driver[q] # "none" /\ Listed(q)
    BY <1>7, <2>2, <2>3 DEF LookupInv, TableFits, Listed
  <2>5. NumsDrained => CqOf(q, e.role) = c
    <3>1. 1 \in DOMAIN cqes[c] /\ cqes[c][1] = e
      BY <1>2, <1>3, <1>4 DEF LookupTypes
    <3> QED
      BY <2>4, <3>1 DEF LookupInv, CompletionsLead
  <2>6. cur' \in [Threads -> Found \cup {None}]
    BY <1>4, <1>7, <2>2, <2>3 DEF LookupTypes, Found
  <2>7. LookupTypes'
    BY <1>3, <1>4, <1>5, <1>7, <2>1, <2>6 DEF LookupTypes
  <2>8. ArgsFit' /\ OneCallEach' /\ StagesFit' /\ TableFits' /\ NumsApart'
    <3>1. "use" \in CqCalls
      BY DEF CqCalls
    <3> QED
      BY <1>3, <1>4, <2>1, <3>1, PollsKeepQps
  <2>9. PollersHold'
    <3>1. cur'[t].qp = q /\ cur'[t].role = e.role /\ cur'[t] # None
      <4>1. cur'[t] = [qp |-> q, role |-> e.role] /\ cur'[t] \in Found
        BY <1>4, <1>7, <2>2, <2>3 DEF LookupTypes, Found
      <4> QED
        BY <4>1, Constants
    <3>2. \A u \in Threads \ {t} : cur'[u] = cur[u]
      BY <1>4, <1>7 DEF LookupTypes
    <3> QED
      BY <1>3, <2>1, <2>4, <2>5, <3>1, <3>2
         DEF Moves, LookupInv, PollersHold, Listed, CqOf
  <2> QED
    BY <1>5, <2>1, <2>7, <2>8, <2>9 DEF LookupInv
<1> QED
  BY <1>3, <1>6, <1>7

LEMMA PollUseLookup ==
  ASSUME LookupInv, NEW t \in Threads, PollUse(t)
  PROVE  LookupInv'
<1>1. /\ pc[t] = "use" /\ cur' = [cur EXCEPT ![t] = None]
      /\ \/ Goto(t, "poll") /\ UNCHANGED <<owner, arg>>
         \/ Releasing({arg[t]}) /\ Return(t)
      /\ UNCHANGED <<mem, driver, num, held, table, refCnt, cqes>>
  BY DEF PollUse, qpVars
<1>2. LookupTypes /\ arg[t] \in Cqs /\ pc[t] \notin QpCalls
  BY <1>1 DEF LookupInv, ArgsFit, CqCalls, QpCalls
<1>3. PICK w, x : /\ Moves(t, w, x) /\ LocksFit' /\ w # "use"
                  /\ w = "idle" \/ (w \in CqCalls /\ x \in Cqs)
                  /\ pc' \in [Threads -> Calls]
                  /\ arg' \in [Threads -> Qps \cup Cqs \cup {None}]
                  /\ owner' \in [Locks -> Threads \cup {None}]
  <2>1. CASE Goto(t, "poll") /\ UNCHANGED <<owner, arg>>
    <3> WITNESS "poll", arg[t]
    <3> QED
      BY <1>1, <1>2, <2>1, PollGoesOn DEF CqCalls
  <2>2. CASE Releasing({arg[t]}) /\ Return(t)
    <3> WITNESS "idle", None
    <3> QED
      BY <1>1, <2>2, PollLeaves
  <2> QED
    BY <1>1, <2>1, <2>2
<1>4. cur'[t] = None /\ \A u \in Threads \ {t} : cur'[u] = cur[u]
  BY <1>1, <1>2 DEF LookupTypes
<1>5. LookupTypes'
  BY <1>1, <1>2, <1>3 DEF LookupTypes
<1>6. ArgsFit' /\ OneCallEach' /\ StagesFit' /\ TableFits' /\ NumsApart'
  BY <1>1, <1>2, <1>3, PollsKeepQps
<1>7. PollersHold'
  BY <1>1, <1>3, <1>4, OthersHold
<1>8. CompletionsLead'
  BY <1>1 DEF LookupInv, CompletionsLead
<1> QED
  BY <1>3, <1>5, <1>6, <1>7, <1>8 DEF LookupInv

----------------------------------------------------------------------------
(* What a place in a call on a QP counts for: the queue of role r.            *)
CountsAt(w, r) == w \in {"locking", "unlink"} \/ (w = "ref_recv" /\ r = "sq")

LEMMA CountedInBounded ==
  ASSUME NEW c
  PROVE  /\ IsFiniteSet(CountedIn(c))
         /\ Cardinality(CountedIn(c)) \in 0 .. 2 * Cardinality(Qps)
<1>1. IsFiniteSet(Qps) /\ Cardinality(Qps) \in Nat
  BY Constants, FS_CardinalityType
<1>2. IsFiniteSet(Qps \X Roles) /\ Cardinality(Qps \X Roles) = Cardinality(Qps) * 2
  BY <1>1, RolesFinite, FS_Product
<1>3. CountedIn(c) \in SUBSET (Qps \X Roles)
  BY DEF CountedIn
<1>4. /\ IsFiniteSet(CountedIn(c)) /\ Cardinality(CountedIn(c)) <= Cardinality(Qps \X Roles)
      /\ Cardinality(CountedIn(c)) \in Nat
  BY <1>2, <1>3, FS_Subset, FS_CardinalityType
<1> QED
  BY <1>1, <1>2, <1>4

LEMMA CountedByPlace ==
  ASSUME NEW p \in Qps, NEW r \in Roles
  PROVE  Counted(p, r) <=> held[p] \/ \E u \in Threads : arg[u] = p /\ CountsAt(pc[u], r)
  BY DEF Counted, CountsAt

(* A step that changes no queue's count, and no count of a sub CQ.            *)
LEMMA SameCounts ==
  ASSUME CountsFit, UNCHANGED refCnt,
         \A p \in Qps, r \in Roles : Counted(p, r)' <=> Counted(p, r)
  PROVE  CountsFit'
<1> SUFFICES ASSUME NEW c \in Cqs PROVE CountedIn(c)' = CountedIn(c)
  BY DEF CountsFit
<1>1. \A x \in Qps \X Roles : Counted(x[1], x[2])' <=> Counted(x[1], x[2])
  OBVIOUS
<1> QED
  BY <1>1 DEF CountedIn, CqOf

(* Steps that begin, end or go on with a call where it does not count.        *)
LEMMA QuietCounts ==
  ASSUME LifecycleInv, NEW t \in Threads, NEW w, NEW x, Moves(t, w, x),
         pc[t] \notin {"locking", "unlink", "ref_recv"},
         w \notin {"locking", "unlink", "ref_recv"},
         UNCHANGED <<held, refCnt>>
  PROVE  CountsFit'
<1>1. ASSUME NEW p \in Qps, NEW r \in Roles PROVE Counted(p, r)' <=> Counted(p, r)
  BY DEF Counted, Moves
<1> QED
  BY <1>1, SameCounts DEF LifecycleInv

LEMMA DestroyQpCounts ==
  ASSUME LifecycleInv, NEW t \in Threads, NEW p \in Qps, DestroyQp(t, p)
  PROVE  CountsFit'
<1>1. /\ held[p] /\ Enter(t, "locking", p) /\ held' = [held EXCEPT ![p] = FALSE]
      /\ UNCHANGED refCnt
  BY DEF DestroyQp
<1>2. LookupTypes
  BY DEF LifecycleInv, LookupInv
<1>3. Moves(t, "locking", p) /\ pc[t] = "idle"
  BY <1>1, <1>2, MovesLemma
<1>4. ASSUME NEW q \in Qps, NEW r \in Roles PROVE Counted(q, r)' <=> Counted(q, r)
  BY <1>1, <1>2, <1>3, ZenonT(40) DEF Counted, Moves, LookupTypes
<1> QED
  BY <1>1, <1>4, SameCounts DEF LifecycleInv

LEMMA DestroyQpLockCounts ==
  ASSUME LifecycleInv, NEW t \in Threads, DestroyQpLock(t)
  PROVE  CountsFit'
<1>1. /\ pc[t] = "locking" /\ UNCHANGED <<held, refCnt, arg>>
      /\ Goto(t, "unlink") \/ UNCHANGED pc
  BY DEF DestroyQpLock, qpVars
<1>2. LookupTypes
  BY DEF LifecycleInv, LookupInv
<1>3. pc'[t] \in {"locking", "unlink"} /\ \A u \in Threads \ {t} : pc'[u] = pc[u]
  BY <1>1, <1>2 DEF Goto, LookupTypes
<1>4. ASSUME NEW q \in Qps, NEW r \in Roles PROVE Counted(q, r)' <=> Counted(q, r)
  BY <1>1, <1>3 DEF Counted
<1> QED
  BY <1>1, <1>4, SameCounts DEF LifecycleInv

(* A queue that comes to count is counted in its CQ.                          *)
LEMMA OneMoreCounts ==
  ASSUME LifecycleInv, NEW p \in Qps, NEW r \in Roles,
         ~Counted(p, r), Counted(p, r)',
         \A q \in Qps, s \in Roles :
           <<q, s>> # <<p, r>> => (Counted(q, s)' <=> Counted(q, s)),
         refCnt' = [refCnt EXCEPT ![CqOf(p, r)] = @ + 1]
  PROVE  CountsFit'
<1> SUFFICES ASSUME NEW c \in Cqs PROVE refCnt'[c] = Cardinality(CountedIn(c)')
  BY DEF CountsFit
<1>1. refCnt[c] = Cardinality(CountedIn(c)) /\ IsFiniteSet(CountedIn(c))
  BY CountedInBounded DEF LifecycleInv, CountsFit
<1>2. refCnt'[c] = IF c = CqOf(p, r) THEN refCnt[c] + 1 ELSE refCnt[c]
  BY DEF LifecycleInv, LookupInv, LookupTypes
<1>3. \A x \in Qps \X Roles : x # <<p, r>> => (Counted(x[1], x[2])' <=> Counted(x[1], x[2]))
  OBVIOUS
<1>4. CASE c = CqOf(p, r)
  <2>1. CountedIn(c)' = CountedIn(c) \cup {<<p, r>>} /\ <<p, r>> \notin CountedIn(c)
    BY <1>3, <1>4 DEF CountedIn, CqOf
  <2> QED
    BY <1>1, <1>2, <1>4, <2>1, FS_AddElement, ZenonT(60)
<1>5. CASE c # CqOf(p, r)
  <2>1. CountedIn(c)' = CountedIn(c)
    BY <1>3, <1>5 DEF CountedIn, CqOf
  <2> QED
    BY <1>1, <1>2, <1>5, <2>1
<1> QED
  BY <1>4, <1>5

LEMMA CreateQpRefSendCounts ==
  ASSUME LifecycleInv, NEW t \in Threads, CreateQpRefSend(t)
  PROVE  CountsFit'
<1>1. PICK p \in Qps : arg[t] = p /\ pc[t] = "ref_send"
  BY DEF CreateQpRefSend, LifecycleInv, LookupInv, ArgsFit, QpCalls
<1>2. /\ refCnt' = [refCnt EXCEPT ![CqOf(p, "sq")] = @ + 1]
      /\ Goto(t, "ref_recv") /\ UNCHANGED arg /\ UNCHANGED held
  BY <1>1 DEF CreateQpRefSend, qpVars, CqOf
<1>3. Moves(t, "ref_recv", p)
  BY <1>1, <1>2, MovesLemma DEF LifecycleInv, LookupInv
<1>4. ~held[p] /\ \A u \in Threads \ {t} : ~Doing(u, p)
  BY <1>1 DEF LifecycleInv, LookupInv, OneCallEach, Doing, QpCalls
<1>5. ~Counted(p, "sq") /\ Counted(p, "sq")' /\ ~Counted(p, "rq") /\ ~Counted(p, "rq")'
  BY <1>1, <1>2, <1>3, <1>4 DEF Counted, Moves, Doing, QpCalls
<1>6. ASSUME NEW q \in Qps, NEW s \in Roles, q # p PROVE Counted(q, s)' <=> Counted(q, s)
  BY <1>1, <1>2, <1>3, <1>6 DEF Counted, Moves
<1>7. ASSUME NEW q \in Qps, NEW s \in Roles, <<q, s>> # <<p, "sq">>
      PROVE  Counted(q, s)' <=> Counted(q, s)
  BY <1>5, <1>6, <1>7 DEF Roles
<1>8. "sq" \in Roles
  BY DEF Roles
<1> QED
  BY <1>2, <1>5, <1>7, <1>8, OneMoreCounts

LEMMA CreateQpRefRecvCounts ==
  ASSUME LifecycleInv, NEW t \in Threads, CreateQpRefRecv(t)
  PROVE  CountsFit'
<1>1. PICK p \in Qps : arg[t] = p /\ pc[t] = "ref_recv"
  BY DEF CreateQpRefRecv, LifecycleInv, LookupInv, ArgsFit, QpCalls
<1>2. /\ refCnt' = [refCnt EXCEPT ![CqOf(p, "rq")] = @ + 1]
      /\ held' = [held EXCEPT ![p] = TRUE] /\ Return(t)
  BY <1>1 DEF CreateQpRefRecv, CqOf
<1>3. Moves(t, "idle", None) /\ held'[p] /\ \A q \in Qps \ {p} : held'[q] = held[q]
  BY <1>1, <1>2, MovesLemma DEF LifecycleInv, LookupInv, LookupTypes
<1>4. ~held[p] /\ \A u \in Threads \ {t} : ~Doing(u, p)
  BY <1>1 DEF LifecycleInv, LookupInv, OneCallEach, Doing, QpCalls
<1>5. Counted(p, "sq") /\ Counted(p, "sq")' /\ ~Counted(p, "rq") /\ Counted(p, "rq")'
  BY <1>1, <1>3, <1>4 DEF Counted, Doing, QpCalls
<1>6. ASSUME NEW q \in Qps, NEW s \in Roles, q # p PROVE Counted(q, s)' <=> Counted(q, s)
  BY <1>1, <1>3, <1>6 DEF Counted, Moves
<1>7. ASSUME NEW q \in Qps, NEW s \in Roles, <<q, s>> # <<p, "rq">>
      PROVE  Counted(q, s)' <=> Counted(q, s)
  BY <1>5, <1>6, <1>7 DEF Roles
<1>8. "rq" \in Roles
  BY DEF Roles
<1> QED
  BY <1>2, <1>5, <1>7, <1>8, OneMoreCounts

(* What efa_destroy_qp takes off the count of a sub CQ, twice from one that   *)
(* has both queues.                                                           *)
LEMMA QueuesOfQp ==
  ASSUME NEW p \in Qps, NEW c \in Cqs
  PROVE  Cardinality({r \in Roles : CqOf(p, r) = c}) =
           (IF CqOf(p, "sq") = c THEN 1 ELSE 0) + (IF CqOf(p, "rq") = c THEN 1 ELSE 0)
<1> DEFINE Lost == {r \in Roles : CqOf(p, r) = c}
<1>1. CASE CqOf(p, "sq") = c /\ CqOf(p, "rq") = c
  <2>1. Lost = Roles
    BY <1>1 DEF Roles
  <2> QED
    BY <1>1, <2>1, RolesFinite
<1>2. CASE CqOf(p, "sq") = c /\ CqOf(p, "rq") # c
  <2>1. Lost = {"sq"}
    BY <1>2 DEF Roles
  <2> QED
    BY <1>2, <2>1, FS_Singleton
<1>3. CASE CqOf(p, "sq") # c /\ CqOf(p, "rq") = c
  <2>1. Lost = {"rq"}
    BY <1>3 DEF Roles
  <2> QED
    BY <1>3, <2>1, FS_Singleton
<1>4. CASE CqOf(p, "sq") # c /\ CqOf(p, "rq") # c
  <2>1. Lost = {}
    BY <1>4 DEF Roles
  <2> QED
    BY <1>4, <2>1, FS_EmptySet
<1> QED
  BY <1>1, <1>2, <1>3, <1>4

LEMMA UnlinkQpCounts ==
  ASSUME LifecycleInv, NEW t \in Threads, UnlinkQp(t)
  PROVE  CountsFit'
<1>1. PICK p \in Qps : arg[t] = p /\ pc[t] = "unlink"
  BY DEF UnlinkQp, LifecycleInv, LookupInv, ArgsFit, QpCalls
<1>2. Goto(t, "free") /\ UNCHANGED <<arg, held>>
  BY DEF UnlinkQp, qpVars
<1>3. Moves(t, "free", p)
  BY <1>1, <1>2, MovesLemma DEF LifecycleInv, LookupInv
<1>4. ~held[p] /\ \A u \in Threads \ {t} : ~Doing(u, p)
  BY <1>1 DEF LifecycleInv, LookupInv, OneCallEach, Doing, QpCalls
<1>5. ASSUME NEW r \in Roles PROVE Counted(p, r) /\ ~Counted(p, r)'
  BY <1>1, <1>2, <1>3, <1>4 DEF Counted, Moves, Doing, QpCalls
<1>6. ASSUME NEW q \in Qps, NEW s \in Roles, q # p PROVE Counted(q, s)' <=> Counted(q, s)
  BY <1>1, <1>2, <1>3, <1>6 DEF Counted, Moves
<1> SUFFICES ASSUME NEW c \in Cqs PROVE refCnt'[c] = Cardinality(CountedIn(c)')
  BY DEF CountsFit
<1> DEFINE Lost == {r \in Roles : CqOf(p, r) = c}
           hasSq == CqOf(p, "sq") = c
           hasRq == CqOf(p, "rq") = c
<1>7. /\ refCnt[c] = Cardinality(CountedIn(c)) /\ IsFiniteSet(CountedIn(c))
      /\ refCnt[c] \in Int
  BY CountedInBounded DEF LifecycleInv, CountsFit, LookupInv, LookupTypes
<1>8. refCnt'[c] = refCnt[c] - ((IF hasSq THEN 1 ELSE 0) + (IF hasRq THEN 1 ELSE 0))
  <2>1. refCnt'[c] = refCnt[c] - Cardinality(Lost)
    BY <1>1 DEF UnlinkQp
  <2> QED
    BY <2>1, QueuesOfQp
<1>9. CountedIn(c)' = (CountedIn(c) \ {<<p, "sq">>}) \ {<<p, "rq">>}
  <2>1. ASSUME NEW x \in Qps \X Roles
        PROVE  Counted(x[1], x[2])' <=>
                 Counted(x[1], x[2]) /\ x # <<p, "sq">> /\ x # <<p, "rq">>
    <3>1. PICK q \in Qps, s \in Roles : x = <<q, s>>
      OBVIOUS
    <3>2. CASE q = p
      BY <1>5, <3>1, <3>2 DEF Roles
    <3>3. CASE q # p
      BY <1>6, <3>1, <3>3
    <3> QED
      BY <3>2, <3>3
  <2> QED
    BY <2>1 DEF CountedIn, CqOf
<1>10. /\ <<p, "sq">> \in CountedIn(c) <=> hasSq
       /\ <<p, "rq">> \in CountedIn(c) \ {<<p, "sq">>} <=> hasRq
  BY <1>5 DEF CountedIn, Roles
<1>11. /\ IsFiniteSet(CountedIn(c) \ {<<p, "sq">>})
       /\ Cardinality(CountedIn(c) \ {<<p, "sq">>}) =
            Cardinality(CountedIn(c)) - (IF hasSq THEN 1 ELSE 0)
  BY <1>7, <1>10, FS_RemoveElement
<1>12. Cardinality(CountedIn(c)') =
         Cardinality(CountedIn(c) \ {<<p, "sq">>}) - (IF hasRq THEN 1 ELSE 0)
  <2>1. Cardinality(CountedIn(c) \ {<<p, "sq">>}) \in Nat
    BY <1>11, FS_CardinalityType
  <2>2. Cardinality((CountedIn(c) \ {<<p, "sq">>}) \ {<<p, "rq">>}) =
          IF hasRq THEN Cardinality(CountedIn(c) \ {<<p, "sq">>}) - 1
          ELSE Cardinality(CountedIn(c) \ {<<p, "sq">>})
    BY <1>10, <1>11, FS_RemoveElement
  <2> QED
    BY <1>9, <2>1, <2>2
<1> HIDE DEF hasSq, hasRq
<1> QED
  BY <1>7, <1>8, <1>11, <1>12

----------------------------------------------------------------------------
LEMMA InitInv == Init => LifecycleInv
<1> SUFFICES ASSUME Init PROVE CountsFit
  BY InitLookup DEF LifecycleInv
<1> SUFFICES ASSUME NEW c \in Cqs PROVE refCnt[c] = Cardinality(CountedIn(c))
  BY DEF CountsFit
<1>1. CountedIn(c) = {}
  BY Constants DEF Init, CountedIn, Counted
<1> QED
  BY <1>1, FS_EmptySet DEF Init

(* One step of a thread: where it counts differently is what its lemma above  *)
(* is about, the others are quiet.                                            *)
LEMMA BeginInv ==
  ASSUME LifecycleInv, NEW t \in Threads, Begin(t)
  PROVE  LifecycleInv'
<1>1. LookupInv /\ LookupTypes
  BY DEF LifecycleInv, LookupInv
<1>2. ASSUME NEW p \in Qps, DestroyQp(t, p) PROVE LifecycleInv'
  BY <1>1, <1>2, DestroyQpLookup, DestroyQpCounts DEF LifecycleInv
<1>3. ASSUME NEW p \in Qps, NEW n \in Nums, CreateQp(t, p, n) PROVE LifecycleInv'
  <2>1. PICK w \in {"insert", "undo"} : Enter(t, w, p)
    BY <1>3 DEF CreateQp
  <2>2. Moves(t, w, p) /\ pc[t] = "idle" /\ UNCHANGED <<held, refCnt>>
    BY <1>1, <1>3, <2>1, MovesLemma DEF CreateQp
  <2>3. CountsFit'
    BY <2>2, QuietCounts
  <2> QED
    BY <1>1, <1>3, <2>3, CreateQpLookup DEF LifecycleInv
<1>4. ASSUME NEW c \in Cqs, PollCq(t, c) PROVE LifecycleInv'
  <2>1. Moves(t, "lock_cq", c) /\ pc[t] = "idle" /\ UNCHANGED <<held, refCnt>>
    BY <1>1, <1>4, MovesLemma DEF PollCq, qpVars
  <2>2. CountsFit'
    BY <2>1, QuietCounts
  <2> QED
    BY <1>1, <1>4, <2>2, PollCqLookup DEF LifecycleInv
<1> QED
  BY <1>2, <1>3, <1>4 DEF Begin

LEMMA ContinueInv ==
  ASSUME LifecycleInv, NEW t \in Threads, Continue(t)
  PROVE  LifecycleInv'
<1>1. LookupInv /\ LookupTypes
  BY DEF LifecycleInv, LookupInv
<1>2. ASSUME CreateQpUndo(t) PROVE LifecycleInv'
  <2>1. Moves(t, "idle", None) /\ pc[t] = "undo" /\ UNCHANGED <<held, refCnt>>
    BY <1>1, <1>2, MovesLemma DEF CreateQpUndo
  <2> QED
    BY <1>1, <1>2, <2>1, QuietCounts, CreateQpUndoLookup DEF LifecycleInv
<1>3. ASSUME CreateQpInsert(t) PROVE LifecycleInv'
  <2>1. Moves(t, "ref_send", arg[t]) /\ pc[t] = "insert" /\ UNCHANGED <<held, refCnt>>
    BY <1>1, <1>3, MovesLemma DEF CreateQpInsert, qpVars
  <2> QED
    BY <1>1, <1>3, <2>1, QuietCounts, CreateQpInsertLookup DEF LifecycleInv
<1>4. ASSUME CreateQpRefSend(t) PROVE LifecycleInv'
  BY <1>1, <1>4, CreateQpRefLookup, CreateQpRefSendCounts DEF LifecycleInv
<1>5. ASSUME CreateQpRefRecv(t) PROVE LifecycleInv'
  BY <1>1, <1>5, CreateQpRefLookup, CreateQpRefRecvCounts DEF LifecycleInv
<1>6. ASSUME DestroyQpLock(t) PROVE LifecycleInv'
  BY <1>1, <1>6, DestroyQpLockLookup, DestroyQpLockCounts DEF LifecycleInv
<1>7. ASSUME UnlinkQp(t) PROVE LifecycleInv'
  BY <1>1, <1>7, UnlinkQpLookup, UnlinkQpCounts DEF LifecycleInv
<1>8. ASSUME FreeQueues(t) PROVE LifecycleInv'
  <2>1. Moves(t, "driver", arg[t]) /\ pc[t] = "free" /\ UNCHANGED <<held, refCnt>>
    BY <1>1, <1>8, MovesLemma DEF FreeQueues
  <2> QED
    BY <1>1, <1>8, <2>1, QuietCounts, FreeQueuesLookup DEF LifecycleInv
<1>9. ASSUME DriverDestroyQp(t) PROVE LifecycleInv'
  <2>1. Moves(t, "idle", None) /\ pc[t] = "driver" /\ UNCHANGED <<held, refCnt>>
    BY <1>1, <1>9, MovesLemma DEF DriverDestroyQp
  <2> QED
    BY <1>1, <1>9, <2>1, QuietCounts, DriverDestroyQpLookup DEF LifecycleInv
<1>10. ASSUME PollCqLock(t) PROVE LifecycleInv'
  <2>1. Moves(t, "poll", arg[t]) /\ pc[t] = "lock_cq" /\ UNCHANGED <<held, refCnt>>
    BY <1>1, <1>10, MovesLemma DEF PollCqLock, qpVars
  <2> QED
    BY <1>1, <1>10, <2>1, QuietCounts, PollCqLockLookup DEF LifecycleInv
<1>11. ASSUME PollNothing(t) PROVE LifecycleInv'
  <2>1. Moves(t, "idle", None) /\ pc[t] = "poll" /\ UNCHANGED <<held, refCnt>>
    BY <1>1, <1>11, MovesLemma DEF PollNothing, qpVars
  <2> QED
    BY <1>1, <1>11, <2>1, QuietCounts, PollNothingLookup DEF LifecycleInv
<1>12. ASSUME PollCqe(t) PROVE LifecycleInv'
  <2>1. /\ Moves(t, "idle", None) \/ Moves(t, "use", arg[t])
        /\ pc[t] = "poll" /\ UNCHANGED <<held, refCnt>>
    BY <1>1, <1>12, MovesLemma DEF PollCqe, qpVars
  <2> QED
    BY <1>1, <1>12, <2>1, QuietCounts, PollCqeLookup DEF LifecycleInv
<1>13. ASSUME PollUse(t) PROVE LifecycleInv'
  <2>1. /\ Moves(t, "idle", None) \/ Moves(t, "poll", arg[t])
        /\ pc[t] = "use" /\ UNCHANGED <<held, refCnt>>
    BY <1>1, <1>13, MovesLemma DEF PollUse, qpVars
  <2> QED
    BY <1>1, <1>13, <2>1, QuietCounts, PollUseLookup DEF LifecycleInv
<1> QED
  BY <1>2, <1>3, <1>4, <1>5, <1>6, <1>7, <1>8, <1>9, <1>10, <1>11, <1>12, <1>13
     DEF Continue

LEMMA NextInv == LifecycleInv /\ [Next]_vars => LifecycleInv'
<1> SUFFICES ASSUME LifecycleInv, [Next]_vars PROVE LifecycleInv'
  OBVIOUS
<1>1. LookupInv /\ CountsFit
  BY DEF LifecycleInv
<1>2. ASSUME NEW t \in Threads, Begin(t) \/ Continue(t) PROVE LifecycleInv'
  BY <1>2, BeginInv, ContinueInv
<1>3. ASSUME NEW p \in Qps, NEW r \in Roles, DevComplete(p, r) PROVE LifecycleInv'
  <2>1. UNCHANGED <<held, pc, arg, refCnt>>
    BY <1>3 DEF DevComplete, qpVars
  <2>2. CountsFit'
    BY <1>1, <2>1, SameCounts DEF Counted
  <2> QED
    BY <1>1, <1>3, <2>2, DevCompleteLookup DEF LifecycleInv
<1>4. CASE UNCHANGED vars
  <2>1. UNCHANGED <<mem, driver, num, held, table, refCnt, cqes, owner, pc, arg, cur>>
    BY <1>4 DEF vars, qpVars
  <2>2. CountsFit'
    BY <1>1, <2>1, SameCounts DEF Counted
  <2>3. LookupTypes' /\ ArgsFit' /\ OneCallEach' /\ StagesFit' /\ TableFits'
    BY <1>1, <2>1 DEF LookupInv, LookupTypes, ArgsFit, OneCallEach, Doing, StagesFit,
                      Listed, TableFits
  <2>4. NumsApart' /\ CompletionsLead' /\ PollersHold'
    BY <1>1, <2>1 DEF LookupInv, NumsApart, CompletionsLead, PollersHold, Listed, CqOf
  <2>5. LocksFit'
    BY <1>1, <2>1, LocksStay DEF LookupInv, LocksFit
  <2> QED
    BY <2>2, <2>3, <2>4, <2>5 DEF LifecycleInv, LookupInv
<1> QED
  BY <1>2, <1>3, <1>4 DEF Next

(* The inductive invariant of queue pairs, their table and the sub CQs'       *)
(* counts, in every state that is reached.                                    *)
THEOREM LifecycleCorrect == Spec => []LifecycleInv
<1>1. Init => LifecycleInv
  BY InitInv
<1>2. LifecycleInv /\ [Next]_vars => LifecycleInv'
  BY NextInv
<1> QED
  BY <1>1, <1>2, PTL DEF Spec

(* Type correctness, with the bound of each sub CQ's count: no count goes     *)
(* below zero, or above the number of queues there are.                       *)
THEOREM LifecycleTyped == Spec => []TypeOK
<1>1. LifecycleInv => TypeOK
  <2> SUFFICES ASSUME LifecycleInv PROVE TypeOK
    OBVIOUS
  <2>1. refCnt \in [Cqs -> 0 .. 2 * Cardinality(Qps)]
    <3>1. \A c \in Cqs : refCnt[c] \in 0 .. 2 * Cardinality(Qps)
      BY CountedInBounded DEF LifecycleInv, CountsFit
    <3> QED
      BY <3>1 DEF LifecycleInv, LookupInv, LookupTypes
  <2> QED
    BY <2>1 DEF LifecycleInv, LookupInv, LookupTypes, TypeOK, Whole
<1> QED
  BY <1>1, LifecycleCorrect, PTL

(* A QP the application holds is found by its number, and both of its CQs     *)
(* are looked into: ref_cnt is the number of queues in use, whatever calls    *)
(* are in progress.                                                           *)
THEOREM HeldQpsArePolled == Spec => []HeldQpIsPolled
<1>1. LifecycleInv => HeldQpIsPolled
  <2> SUFFICES ASSUME LifecycleInv PROVE HeldQpIsPolled
    OBVIOUS
  <2>1. \A p \in Qps : held[p] => table[num[p]] = p
    BY DEF LifecycleInv, LookupInv, TableFits, Listed
  <2> QED
    BY <2>1 DEF LifecycleInv, CountsFit, CountedIn, HeldQpIsPolled
<1> QED
  BY <1>1, LifecycleCorrect, PTL

(* efa_poll_sub_cq does not need qp_table_lock: while numbers are given again *)
(* only after their completions are read, the QP a poller has found stays in  *)
(* memory as long as the poller uses it.                                      *)
THEOREM FoundQpsStay ==
  ASSUME NumsDrained
  PROVE  Spec => []NoUseAfterFree
<1>1. LifecycleInv => NoUseAfterFree
  <2> SUFFICES ASSUME LifecycleInv PROVE NoUseAfterFree
    OBVIOUS
  <2>1. ASSUME NEW n \in Nums, table[n] # None PROVE mem[table[n]] = Whole
    BY <2>1 DEF LifecycleInv, LookupInv, TableFits
  <2>2. ASSUME NEW t \in Threads, cur[t] # None
        PROVE  {"qp", cur[t].role} \subseteq mem[cur[t].qp]
    <3>1. Listed(cur[t].qp) /\ cur[t] \in Found
      BY <2>2 DEF LifecycleInv, LookupInv, LookupTypes, PollersHold
    <3>2. mem[cur[t].qp] = Whole /\ cur[t].role \in Roles
      BY <2>1, <3>1, Constants DEF Listed, Found
    <3> QED
      BY <3>2 DEF Roles, Whole
  <2> QED
    BY <2>1, <2>2 DEF NoUseAfterFree, Whole
<1> QED
  BY <1>1, LifecycleCorrect, PTL

----------------------------------------------------------------------------
(* The directory as the code keeps it: what QpDirectory's variables stand for *)
(* in ImplementsDirectory.                                                    *)
InTable(p) == \E n \in Nums : table[n] = p
QueuesUp(p) == "sq" \in mem[p] /\ ~\E t \in Threads : pc[t] = "insert" /\ arg[t] = p
ListedQps == {p \in Qps : InTable(p)}
UsableQps == {p \in Qps : QueuesUp(p)}
UsingQp == [t \in Threads |-> IF cur[t] = None THEN None ELSE cur[t].qp]

(* The steps of the directory in those terms.                                 *)
LEMMA DirectorySteps ==
  ASSUME NEW p \in Qps, NEW t \in Threads
  PROVE
    /\ /\ p \notin ListedQps \cup UsableQps /\ UNCHANGED UsingQp
       /\ ListedQps' = ListedQps \cup {p} /\ UsableQps' = UsableQps \cup {p}
       => Directory!Next
    /\ /\ p \in ListedQps /\ (\A u \in Threads : UsingQp[u] # p)
       /\ ListedQps' = ListedQps \ {p} /\ UNCHANGED UsableQps /\ UNCHANGED UsingQp
       => Directory!Next
    /\ /\ p \in UsableQps \ ListedQps /\ (\A u \in Threads : UsingQp[u] # p)
       /\ UsableQps' = UsableQps \ {p} /\ UNCHANGED ListedQps /\ UNCHANGED UsingQp
       => Directory!Next
    /\ /\ UsingQp[t] = None /\ p \in ListedQps
       /\ UsingQp' = [UsingQp EXCEPT ![t] = p]
       /\ UNCHANGED ListedQps /\ UNCHANGED UsableQps
       => Directory!Next
    /\ /\ UsingQp[t] # None
       /\ UsingQp' = [UsingQp EXCEPT ![t] = None]
       /\ UNCHANGED ListedQps /\ UNCHANGED UsableQps
       => Directory!Next
<1>1. Directory!List(p) <=> /\ p \notin ListedQps \cup UsableQps /\ UNCHANGED UsingQp
                            /\ ListedQps' = ListedQps \cup {p}
                            /\ UsableQps' = UsableQps \cup {p}
  BY DEF Directory!List, ListedQps, UsableQps, UsingQp, InTable, QueuesUp
<1>2. Directory!Unlist(p) <=> /\ p \in ListedQps /\ (\A u \in Threads : UsingQp[u] # p)
                              /\ ListedQps' = ListedQps \ {p}
                              /\ UNCHANGED UsableQps /\ UNCHANGED UsingQp
  BY DEF Directory!Unlist, Directory!Used, ListedQps, UsableQps, UsingQp, InTable, QueuesUp
<1>3. Directory!Free(p) <=> /\ p \in UsableQps \ ListedQps
                            /\ (\A u \in Threads : UsingQp[u] # p)
                            /\ UsableQps' = UsableQps \ {p}
                            /\ UNCHANGED ListedQps /\ UNCHANGED UsingQp
  BY DEF Directory!Free, Directory!Used, ListedQps, UsableQps, UsingQp, InTable, QueuesUp
<1>4. Directory!Find(t, p) <=> /\ UsingQp[t] = None /\ p \in ListedQps
                               /\ UsingQp' = [UsingQp EXCEPT ![t] = p]
                               /\ UNCHANGED ListedQps /\ UNCHANGED UsableQps
  BY DEF Directory!Find, ListedQps, UsableQps, UsingQp, InTable, QueuesUp
<1>5. Directory!LetGo(t) <=> /\ UsingQp[t] # None
                             /\ UsingQp' = [UsingQp EXCEPT ![t] = None]
                             /\ UNCHANGED ListedQps /\ UNCHANGED UsableQps
  BY DEF Directory!LetGo, ListedQps, UsableQps, UsingQp, InTable, QueuesUp
<1> QED
  BY <1>1, <1>2, <1>3, <1>4, <1>5 DEF Directory!Next

(* A step the directory does not see.                                         *)
Unseen == UNCHANGED ListedQps /\ UNCHANGED UsableQps /\ UNCHANGED UsingQp

LEMMA UnseenStep ==
  ASSUME UNCHANGED <<table, cur>>, \A p \in Qps : QueuesUp(p)' <=> QueuesUp(p)
  PROVE  Unseen
  BY DEF Unseen, ListedQps, UsableQps, UsingQp, InTable

LEMMA UnseenCalls ==
  ASSUME UNCHANGED <<mem, table, cur>>, NEW t \in Threads, NEW w, NEW x, Moves(t, w, x),
         pc[t] # "insert", w # "insert"
  PROVE  Unseen
<1>1. \A p \in Qps : QueuesUp(p)' <=> QueuesUp(p)
  BY DEF QueuesUp, Moves
<1> QED
  BY <1>1, UnseenStep

(* A QP is made with its queues, and nobody finds it yet; one that is unmade  *)
(* had no queues any more.                                                    *)
LEMMA UnseenMaking ==
  ASSUME LifecycleInv, NEW t \in Threads,
         \/ \E p \in Qps, n \in Nums : CreateQp(t, p, n)
         \/ CreateQpUndo(t)
         \/ DriverDestroyQp(t)
  PROVE  Unseen
<1>1. LookupInv /\ LookupTypes
  BY DEF LifecycleInv, LookupInv
<1>2. ASSUME NEW p \in Qps, NEW n \in Nums, CreateQp(t, p, n) PROVE Unseen
  <2>1. PICK w \in {"insert", "undo"} :
          /\ Enter(t, w, p)
          /\ mem' = [mem EXCEPT ![p] = IF w = "insert" THEN Whole ELSE {"qp"}]
    BY <1>2 DEF CreateQp, Whole
  <2>2. Moves(t, w, p) /\ pc[t] = "idle" /\ mem[p] = {} /\ UNCHANGED <<table, cur>>
    BY <1>1, <1>2, <2>1, MovesLemma DEF CreateQp
  <2>3. ~QueuesUp(p) /\ ~QueuesUp(p)'
    BY <1>1, <2>1, <2>2 DEF QueuesUp, Moves, LookupTypes
  <2>4. ASSUME NEW q \in Qps, q # p PROVE QueuesUp(q)' <=> QueuesUp(q)
    BY <1>1, <2>1, <2>2, <2>4 DEF QueuesUp, Moves, LookupTypes
  <2> QED
    BY <2>2, <2>3, <2>4, UnseenStep
<1>3. ASSUME CreateQpUndo(t) \/ DriverDestroyQp(t) PROVE Unseen
  <2>1. PICK p \in Qps : arg[t] = p /\ pc[t] \in {"undo", "driver"} /\ mem[p] = {"qp"}
    BY <1>1, <1>3
       DEF CreateQpUndo, DriverDestroyQp, LookupInv, ArgsFit, StagesFit, QpCalls
  <2>2. /\ mem' = [mem EXCEPT ![p] = {}] \/ UNCHANGED mem
        /\ Return(t) /\ UNCHANGED <<table, cur>>
    BY <1>3, <2>1 DEF CreateQpUndo, DriverDestroyQp
  <2>3. Moves(t, "idle", None)
    BY <1>1, <2>2, MovesLemma
  <2>4. ~QueuesUp(p) /\ ~QueuesUp(p)'
    BY <1>1, <2>1, <2>2 DEF QueuesUp, LookupTypes
  <2>5. ASSUME NEW q \in Qps, q # p PROVE QueuesUp(q)' <=> QueuesUp(q)
    BY <1>1, <2>1, <2>2, <2>3, <2>5 DEF QueuesUp, Moves, LookupTypes
  <2> QED
    BY <2>2, <2>4, <2>5, UnseenStep
<1> QED
  BY <1>2, <1>3

(* create_qp's entry into the table lists the QP, with its queues.            *)
LEMMA InsertLists ==
  ASSUME LifecycleInv, NEW t \in Threads, CreateQpInsert(t)
  PROVE  Directory!Next
<1>1. LookupInv /\ LookupTypes
  BY DEF LifecycleInv, LookupInv
<1>2. PICK p \in Qps : arg[t] = p /\ pc[t] = "insert"
  BY <1>1 DEF CreateQpInsert, LookupInv, ArgsFit, QpCalls
<1>3. /\ table' = [table EXCEPT ![num[p]] = p] /\ Goto(t, "ref_send")
      /\ UNCHANGED <<mem, arg, cur>>
  BY <1>2 DEF CreateQpInsert, qpVars
<1>4. Moves(t, "ref_send", p)
  BY <1>1, <1>2, <1>3, MovesLemma
<1>5. /\ mem[p] = Whole /\ driver[p] = "idle" /\ num[p] \in Nums
      /\ \A u \in Threads \ {t} : ~Doing(u, p)
  BY <1>1, <1>2 DEF LookupInv, StagesFit, OneCallEach, NumsApart, Doing, QpCalls
<1>6. Doing(t, p) /\ pc[t] \notin ShownCalls
  BY <1>2 DEF Doing, QpCalls, ShownCalls
<1>7. \A n \in Nums : table[n] # p
  BY <1>1, <1>6, UnshownIsHidden
<1>8. table[num[p]] = None
  BY <1>1, <1>5, <1>7 DEF LookupInv, LookupTypes, TableFits, NumsApart
<1>9. \A n \in Nums : table'[n] = IF n = num[p] THEN p ELSE table[n]
  BY <1>1, <1>3 DEF LookupTypes
<1>10. p \notin ListedQps /\ ListedQps' = ListedQps \cup {p}
  <2>1. InTable(p)' /\ ~InTable(p)
    BY <1>5, <1>7, <1>9 DEF InTable
  <2>2. ASSUME NEW q \in Qps, q # p PROVE InTable(q)' <=> InTable(q)
    BY <1>5, <1>8, <1>9, <2>2, Constants DEF InTable
  <2> QED
    BY <2>1, <2>2 DEF ListedQps
<1>11. p \notin UsableQps /\ UsableQps' = UsableQps \cup {p}
  <2>1. QueuesUp(p)' /\ ~QueuesUp(p)
    BY <1>2, <1>3, <1>4, <1>5 DEF QueuesUp, Moves, Doing, QpCalls, Whole
  <2>2. ASSUME NEW q \in Qps, q # p PROVE QueuesUp(q)' <=> QueuesUp(q)
    BY <1>2, <1>3, <1>4, <2>2 DEF QueuesUp, Moves
  <2> QED
    BY <2>1, <2>2 DEF UsableQps
<1>12. UNCHANGED UsingQp
  BY <1>3 DEF UsingQp
<1> QED
  BY <1>10, <1>11, <1>12, DirectorySteps

(* efa_destroy_qp takes out a QP that nobody uses.                            *)
LEMMA UnlinkUnlists ==
  ASSUME LifecycleInv, NumsDrained, NEW t \in Threads, UnlinkQp(t)
  PROVE  Directory!Next
<1>1. LookupInv /\ LookupTypes
  BY DEF LifecycleInv, LookupInv
<1>2. PICK p \in Qps : arg[t] = p /\ pc[t] = "unlink"
  BY <1>1 DEF UnlinkQp, LookupInv, ArgsFit, QpCalls
<1>3. /\ table' = [table EXCEPT ![num[p]] = None] /\ Goto(t, "free")
      /\ UNCHANGED <<mem, arg, cur>>
  BY <1>2 DEF UnlinkQp, qpVars
<1>4. Moves(t, "free", p)
  BY <1>1, <1>2, <1>3, MovesLemma
<1>5. Listed(p)
  BY <1>1, <1>2 DEF LookupInv, StagesFit, ShownCalls
<1>6. \A n \in Nums : table'[n] = IF n = num[p] THEN None ELSE table[n]
  BY <1>1, <1>3 DEF LookupTypes
<1>7. p \in ListedQps /\ ListedQps' = ListedQps \ {p}
  <2>1. InTable(p)
    BY <1>5 DEF InTable, Listed
  <2>2. ~InTable(p)'
    <3>1. \A n \in Nums : table[n] = p => n = num[p]
      BY <1>1, Constants DEF LookupInv, TableFits
    <3> QED
      BY <1>6, <3>1, Constants DEF InTable
  <2>3. ASSUME NEW q \in Qps, q # p PROVE InTable(q)' <=> InTable(q)
    BY <1>5, <1>6, <2>3, Constants DEF InTable, Listed
  <2> QED
    BY <2>1, <2>2, <2>3 DEF ListedQps
<1>8. \A u \in Threads : UsingQp[u] # p
  BY <1>1, <1>2, UnlinkedIsUnused, Constants DEF UsingQp
<1>9. UNCHANGED UsingQp /\ UNCHANGED UsableQps
  <2>1. \A q \in Qps : QueuesUp(q)' <=> QueuesUp(q)
    BY <1>2, <1>3, <1>4 DEF QueuesUp, Moves
  <2> QED
    BY <1>3, <2>1 DEF UsingQp, UsableQps
<1> QED
  BY <1>7, <1>8, <1>9, DirectorySteps

(* Its queues go when it is out of the table, so out of everybody's use.      *)
LEMMA FreeQueuesFrees ==
  ASSUME LifecycleInv, NumsDrained, NEW t \in Threads, FreeQueues(t)
  PROVE  Directory!Next
<1>1. LookupInv /\ LookupTypes
  BY DEF LifecycleInv, LookupInv
<1>2. PICK p \in Qps : arg[t] = p /\ pc[t] = "free" /\ mem[p] = Whole
  BY <1>1 DEF FreeQueues, LookupInv, ArgsFit, StagesFit, QpCalls
<1>3. /\ mem' = [mem EXCEPT ![p] = @ \ {"rq", "sq"}] /\ Goto(t, "driver")
      /\ UNCHANGED <<table, arg, cur>>
  BY <1>2 DEF FreeQueues
<1>4. Moves(t, "driver", p)
  BY <1>1, <1>2, <1>3, MovesLemma
<1>5. \A u \in Threads \ {t} : ~Doing(u, p)
  BY <1>1, <1>2 DEF LookupInv, OneCallEach, Doing, QpCalls
<1>6. Doing(t, p) /\ pc[t] \notin ShownCalls
  BY <1>2 DEF Doing, QpCalls, ShownCalls
<1>7. \A n \in Nums : table[n] # p
  BY <1>1, <1>6, UnshownIsHidden
<1>8. p \notin ListedQps /\ UNCHANGED ListedQps /\ UNCHANGED UsingQp
  BY <1>3, <1>7 DEF ListedQps, InTable, UsingQp
<1>9. \A u \in Threads : UsingQp[u] # p
  BY <1>1, <1>7, Constants DEF LookupInv, PollersHold, Listed, UsingQp
<1>10. p \in UsableQps /\ UsableQps' = UsableQps \ {p}
  <2>1. QueuesUp(p) /\ ~QueuesUp(p)'
    BY <1>1, <1>2, <1>3, <1>5 DEF QueuesUp, LookupTypes, Doing, QpCalls, Whole
  <2>2. ASSUME NEW q \in Qps, q # p PROVE QueuesUp(q)' <=> QueuesUp(q)
    BY <1>1, <1>2, <1>3, <1>4, <2>2 DEF QueuesUp, LookupTypes, Moves
  <2> QED
    BY <2>1, <2>2 DEF UsableQps
<1> QED
  BY <1>8, <1>9, <1>10, DirectorySteps

(* A poller finds a QP that is listed, and lets go of it.                     *)
LEMMA PollFinds ==
  ASSUME LifecycleInv, NEW t \in Threads, PollCqe(t) \/ PollUse(t)
  PROVE  Unseen \/ Directory!Next
<1>1. LookupInv /\ LookupTypes
  BY DEF LifecycleInv, LookupInv
<1>2. UNCHANGED ListedQps /\ UNCHANGED UsableQps
  <2>1. PICK w, x : Moves(t, w, x) /\ w # "insert" /\ pc[t] # "insert"
    BY <1>1, MovesLemma DEF PollCqe, PollUse
  <2>2. UNCHANGED <<mem, table>>
    BY DEF PollCqe, PollUse, qpVars
  <2>3. \A q \in Qps : QueuesUp(q)' <=> QueuesUp(q)
    BY <2>1, <2>2 DEF QueuesUp, Moves
  <2> QED
    BY <2>2, <2>3 DEF ListedQps, UsableQps, InTable
<1>3. CASE PollCqe(t)
  <2>1. PICK c \in Cqs : arg[t] = c /\ pc[t] = "poll"
    BY <1>1, <1>3 DEF PollCqe, LookupInv, ArgsFit, CqCalls
  <2>2. PICK e : e = Head(cqes[c])
    OBVIOUS
  <2>3. /\ cqes[c] # <<>>
        /\ \/ UNCHANGED cur
           \/ /\ table[e.num] # None
              /\ cur' = [cur EXCEPT ![t] = [qp |-> table[e.num], role |-> e.role]]
    BY <1>3, <2>1, <2>2 DEF PollCqe
  <2>4. e \in Cqe /\ cur[t] = None
    BY <1>1, <2>1, <2>2, <2>3 DEF LookupInv, LookupTypes, PollersHold
  <2>5. CASE UNCHANGED cur
    BY <1>2, <2>5 DEF Unseen, UsingQp
  <2>6. CASE /\ table[e.num] # None
             /\ cur' = [cur EXCEPT ![t] = [qp |-> table[e.num], role |-> e.role]]
    <3>1. PICK q \in ListedQps : q = table[e.num]
      BY <1>1, <2>4, <2>6 DEF LookupTypes, Cqe, ListedQps, InTable
    <3>2. /\ cur'[t] = [qp |-> q, role |-> e.role] /\ cur'[t] \in Found
          /\ \A u \in Threads \ {t} : cur'[u] = cur[u]
      BY <1>1, <2>4, <2>6, <3>1 DEF LookupTypes, Found, Cqe, ListedQps
    <3>3. UsingQp[t] = None /\ UsingQp' = [UsingQp EXCEPT ![t] = q]
      <4>1. cur'[t] # None /\ cur'[t].qp = q
        BY <3>2, Constants
      <4> QED
        BY <2>4, <3>2, <4>1 DEF UsingQp
    <3> QED
      BY <1>2, <3>1, <3>3, DirectorySteps DEF ListedQps
  <2> QED
    BY <2>3, <2>5, <2>6
<1>4. CASE PollUse(t)
  <2>1. pc[t] = "use" /\ cur' = [cur EXCEPT ![t] = None]
    BY <1>4 DEF PollUse
  <2>2. PICK q \in Qps : cur[t] # None /\ cur[t].qp = q
    BY <1>1, <2>1 DEF LookupInv, PollersHold, LookupTypes, Found
  <2>3. UsingQp[t] # None
    BY <2>2, Constants DEF UsingQp
  <2>4. UsingQp' = [UsingQp EXCEPT ![t] = None]
    BY <1>1, <2>1 DEF LookupTypes, UsingQp
  <2> QED
    BY <1>2, <2>2, <2>3, <2>4, DirectorySteps
<1> QED
  BY <1>3, <1>4

LEMMA NextIsDirectoryStep ==
  ASSUME LifecycleInv, NumsDrained, [Next]_vars
  PROVE  Unseen \/ Directory!Next
<1>1. LookupInv /\ LookupTypes
  BY DEF LifecycleInv, LookupInv
<1>2. ASSUME NEW t \in Threads, Begin(t) PROVE Unseen
  <2>1. ASSUME NEW p \in Qps, DestroyQp(t, p) PROVE Unseen
    <3>1. Moves(t, "locking", p) /\ pc[t] = "idle" /\ UNCHANGED <<mem, table, cur>>
      BY <1>1, <2>1, MovesLemma DEF DestroyQp
    <3> QED
      BY <3>1, UnseenCalls
  <2>2. ASSUME NEW c \in Cqs, PollCq(t, c) PROVE Unseen
    <3>1. Moves(t, "lock_cq", c) /\ pc[t] = "idle" /\ UNCHANGED <<mem, table, cur>>
      BY <1>1, <2>2, MovesLemma DEF PollCq, qpVars
    <3> QED
      BY <3>1, UnseenCalls
  <2> QED
    BY <1>2, <2>1, <2>2, UnseenMaking DEF Begin
<1>3. ASSUME NEW t \in Threads,
             CreateQpRefSend(t) \/ CreateQpRefRecv(t) \/ DestroyQpLock(t)
               \/ PollCqLock(t) \/ PollNothing(t)
      PROVE  Unseen
  <2>1. UNCHANGED <<mem, table, cur>> /\ pc[t] # "insert"
    BY <1>3 DEF CreateQpRefSend, CreateQpRefRecv, DestroyQpLock, PollCqLock, PollNothing,
                qpVars
  <2>2. PICK w, x : Moves(t, w, x) /\ w # "insert"
    <3>1. CASE CreateQpRefSend(t)
      BY <1>1, <3>1, MovesLemma DEF CreateQpRefSend
    <3>2. CASE CreateQpRefRecv(t)
      BY <1>1, <3>2, MovesLemma DEF CreateQpRefRecv
    <3>3. CASE DestroyQpLock(t)
      <4>1. /\ UNCHANGED arg /\ pc[t] = "locking"
            /\ Goto(t, "unlink") \/ UNCHANGED pc
        BY <3>3 DEF DestroyQpLock
      <4> QED
        BY <1>1, <4>1, MovesLemma
    <3>4. CASE PollCqLock(t)
      BY <1>1, <3>4, MovesLemma DEF PollCqLock
    <3>5. CASE PollNothing(t)
      BY <1>1, <3>5, MovesLemma DEF PollNothing
    <3> QED
      BY <1>3, <3>1, <3>2, <3>3, <3>4, <3>5
  <2> QED
    BY <2>1, <2>2, UnseenCalls
<1>4. ASSUME NEW t \in Threads, Continue(t) PROVE Unseen \/ Directory!Next
  BY <1>3, <1>4, UnseenMaking, InsertLists, UnlinkUnlists, FreeQueuesFrees, PollFinds
     DEF Continue
<1>5. ASSUME NEW p \in Qps, NEW r \in Roles, DevComplete(p, r) PROVE Unseen
  <2>1. UNCHANGED <<mem, table, pc, arg, cur>>
    BY <1>5 DEF DevComplete, qpVars
  <2> QED
    BY <2>1, UnseenStep DEF QueuesUp
<1>6. CASE UNCHANGED vars
  <2>1. UNCHANGED <<mem, table, pc, arg, cur>>
    BY <1>6 DEF vars, qpVars
  <2> QED
    BY <2>1, UnseenStep DEF QueuesUp
<1> QED
  BY <1>2, <1>4, <1>5, <1>6 DEF Next

(* The table with its locks and counts is a directory of queue pairs, whose   *)
(* clients use a queue pair only between finding it and letting it go, and    *)
(* from which one is taken only while nobody does.                            *)
THEOREM TableIsDirectory ==
  ASSUME NumsDrained
  PROVE  Spec => ImplementsDirectory
<1>1. Init => Directory!Init
  BY Constants DEF Init, Directory!Init
<1>2. LifecycleInv /\ [Next]_vars => [Directory!Next]_(Directory!dirVars)
  <2>1. Unseen => UNCHANGED Directory!dirVars
    BY DEF Unseen, Directory!dirVars, ListedQps, UsableQps, UsingQp, InTable, QueuesUp
  <2> QED
    BY <2>1, NextIsDirectoryStep
<1> QED
  BY <1>1, <1>2, LifecycleCorrect, PTL DEF Spec, ImplementsDirectory, Directory!Spec
=============================================================================
