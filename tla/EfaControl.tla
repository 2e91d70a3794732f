------------------------------- MODULE EfaControl ------------------------------
(* The objects of efawin.dll and the driver's objects behind them: devices    *)
(* and contexts (efawin/efa.c, efawin/efa_win_cmd.c), protection domains,     *)
(* memory regions, address handles, completion queues and queue pairs         *)
(* (efawin/verbs.c), the command layer that talks to the driver               *)
(* (efawin/ibv_win_cmd.c, efawin/efawinif.c), and the exported functions over *)
(* them (efawin/efawin.c).                                                    *)
(*                                                                            *)
(* A call is one step: what concurrent calls can see of each other is in      *)
(* EfaQpLifecycle. Its parameter f says what fails in it, an allocation or    *)
(* the driver, and "none" when nothing does. The application keeps to the     *)
(* order verbs ask for: one context of a device, children gone before their   *)
(* parents, and no use of an object after a destroy call but to try the call  *)
(* again.                                                                     *)
EXTENDS EfaAttributes, FiniteSets

CONSTANTS
  Pds, Mrs, Ahs, Cqs, Qps,   \* the objects an application can have
  Nums,          \* the numbers the driver has for objects of each kind
  Cqes, Requests,            \* what the application asks of a CQ and of a QP
  QpStates,      \* the states it moves a QP to
  None

(* The slots of qp_table, as efa_query_device_ctx allocates it.               *)
TableSize == QpTableSize(Info)

QpStateNames == {"RESET", "INIT", "RTR", "RTS", "SQD", "SQE", "ERR"}

Objects == Pds \cup Mrs \cup Ahs \cup Cqs \cup Qps

(* The number of a QP is not its handle.                                      *)
QpNum(h) == h + Cardinality(Nums)

(* What belongs to no object of the application's.                            *)
Outside == {"list", "device", "context"}

ASSUME ControlAssumption ==
  /\ Nums \subseteq UInt16 /\ Cardinality(Nums) <= Info.maxQp
  /\ Cqes \subseteq UInt32
  /\ Requests \subseteq QpInitAttr(Pds, Cqs) /\ QpStates \subseteq QpStateNames
  /\ None \notin Objects /\ Objects \cap Outside = {}
  \* an object is of one kind
  /\ Pds \cap (Mrs \cup Ahs \cup Cqs \cup Qps) = {}
  /\ Mrs \cap (Ahs \cup Cqs \cup Qps) = {}
  /\ Ahs \cap (Cqs \cup Qps) = {} /\ Cqs \cap Qps = {}
  \* the numbers of QPs differ in the bits qp_table goes by
  /\ \A m, n \in Nums :
       QpNum(m) % TableSize = QpNum(n) % TableSize => m = n

VARIABLES
  context,   \* what ibv_open_device gave the application, "none" before that
  cached,    \* dev_attr: what the driver answered when the device was opened
  attrs,     \* what struct efa_context holds of it
  told,      \* what ibv_query_device told of this context, None before that
  blocks,    \* memory allocated and locks initialised, as <<object, part>>
  fields,    \* fields[o]: what the struct of object o holds, None: no struct
  driver,    \* the objects the driver has for this process
  refused,   \* those of them it refused to destroy
  leftovers, \* objects the application gave up in a destroy call that failed
  table,     \* qp_table
  refCnt,    \* ref_cnt of the sub CQ of each CQ
  held,      \* the objects the application has and may use
  fault      \* the call that broke the process, None while it runs

contextVars == <<context, cached, attrs, told>>
objectVars == <<blocks, fields, driver, refused, leftovers, held>>
lookupVars == <<table, refCnt>>
controlVars == <<contextVars, objectVars, lookupVars, fault>>

----------------------------------------------------------------------------
(* Parts of an object: its struct, the condition variable and mutex the       *)
(* command layer sets up ("cond"), its locks and arrays.                      *)
Part(o, names) == {o} \X names
RqParts(size) ==
  IF size.rqCnt = 0 THEN {} ELSE {"rq.wrid", "rq.pool", "rq.lock"}
SqParts(size) ==
  IF size.sqCnt = 0 THEN {}
  ELSE {"sq.wrid", "sq.pool", "sq.lock", "local_queue"}

Parts(o) ==
  IF o \in Qps THEN {"struct", "cond"} \cup RqParts(fields[o].size)
                                       \cup SqParts(fields[o].size)
  ELSE IF o \in Cqs THEN {"struct", "cond", "lock"} ELSE {"struct"}
ContextParts == {"struct", "table", "table_lock"}

Exists(o) == <<o, "struct">> \in blocks

(* Numbers of the driver: it gives the lowest one it has not given, and no    *)
(* object when there is none.                                                 *)
NumsOf(kind) == {d.num : d \in {x \in driver : x.kind = kind}}
HasNum(kind) == Nums \ NumsOf(kind) # {}
NewNum(kind) == CHOOSE n \in Nums \ NumsOf(kind) :
                  \A k \in Nums \ NumsOf(kind) : n <= k
QpSlot(q) == fields[q].qpNum % TableSize

(* What the driver can have, with the widths of its interface: the parameters *)
(* an object is made and named with, and the number the driver answers. A QP  *)
(* knows its state as well.                                                   *)
DriverPds == [kind : {"pd"}, num : UInt16]
DriverMrs == [kind : {"mr"}, num : UInt32, pd : UInt16]
DriverAhs == [kind : {"ah"}, num : UInt16, pd : UInt16]
DriverCqs == [kind : {"cq"}, num : UInt16, depth : UInt16]
DriverQps ==
  [kind : {"qp"}, num : UInt32, type : {"EFA_WIN_QP_SRD", "EFA_WIN_QP_UD"}, pd : UInt16,
   scq : UInt32, rcq : UInt32, sqDepth : UInt32, rqDepth : UInt32,
   sqRing : UInt32, rqRing : UInt32, state : QpStateNames]
DriverObjects == DriverPds \cup DriverMrs \cup DriverAhs \cup DriverCqs \cup DriverQps

(* The driver's object that a call names by its number.                       *)
Named(kind, n) == {d \in driver : d.kind = kind /\ d.num = n}

Init ==
  /\ context = "none" /\ cached = NoInfo /\ attrs = NoAttrs /\ told = None
  /\ blocks = {} /\ fields = [o \in Objects |-> None]
  /\ driver = {} /\ refused = {} /\ leftovers = {} /\ held = {}
  /\ table = [s \in 0 .. TableSize - 1 |-> None]
  /\ refCnt = [c \in Cqs |-> 0]
  /\ fault = None

Breaks(call) == fault' = call /\ UNCHANGED <<contextVars, objectVars, lookupVars>>
Fails == UNCHANGED controlVars

----------------------------------------------------------------------------
(* ibv_get_device_list and ibv_free_device_list. The device outlives the list *)
(* (nothing frees it; a later list has another in its place). Bound: no new   *)
(* list while a device is open.                                               *)
\* mutant: the device goes with the list
FreeListAndDevice == blocks' = blocks \ {<<"list", "struct">>, <<"device", "struct">>}
FreeList == blocks' = blocks \ {<<"list", "struct">>}

GetDeviceList(f) ==
  /\ ~Exists("list") /\ context = "none"
  /\ \/ f \in {"list", "device"} /\ UNCHANGED <<blocks, cached>>
     \/ f = "none" /\ cached' = NoInfo
        /\ blocks' = blocks \cup {<<"list", "struct">>, <<"device", "struct">>}
  /\ UNCHANGED <<context, attrs, told, fields, driver, refused, leftovers, held>>
  /\ UNCHANGED <<lookupVars, fault>>

FreeDeviceList ==
  /\ Exists("list")
  /\ FreeList
  /\ UNCHANGED <<contextVars, fields, driver, refused, leftovers, held, lookupVars, fault>>

(* efa_alloc_context: the table comes last, and what came before it is undone *)
(* when there is no memory for it.                                            *)
AllocContext(f) ==
  LET got    == CASE f = "none"  -> ContextParts
                  [] f = "table" -> ContextParts \ {"table"}
                  [] OTHER       -> {}
      undone == IF f = "table" THEN {"table_lock", "struct"} ELSE {}
  IN  got \ undone

(* What may fail in opening: the device, the attributes with the interface    *)
(* version, and the two allocations of the context.                           *)
OpenSteps == {"open", "info", "context", "table"}

(* ibv_open_device: opens the device, asks the driver for its attributes and  *)
(* allocates the context, or closes the device again. Without a context,      *)
(* whether the device does not open, its driver has another interface         *)
(* version, or memory is short, it returns the address of a member of the     *)
(* context at NULL.                                                           *)
OpenDevice(f) ==
  /\ context = "none" /\ Exists("list")
  /\ blocks' = blocks \cup Part("context", AllocContext(f) \cup
                                 (IF f = "none" THEN {"mutex"} ELSE {}))
  /\ context' = IF f = "none" THEN "open" ELSE "null member"
  /\ cached' = GetDeviceInfo(cached, f)
  /\ attrs' = IF f = "none" THEN GetContext(cached') ELSE NoAttrs
  /\ UNCHANGED <<told, fields, driver, refused, leftovers, held, lookupVars, fault>>

(* Any call with what a failed ibv_open_device returned.                      *)
UseNullMember == context = "null member" /\ Breaks("ibv_open_device")

(* ibv_query_device: only it fills in what create_qp compares with. (The      *)
(* other queries change nothing: what they answer is in EfaAttributes.)       *)
QueryDevice ==
  /\ context = "open"
  /\ told' = DeviceAnswer(cached)
  /\ cached' = CutVersion(cached)
  /\ attrs' = QueriedAttrs(cached)
  /\ UNCHANGED <<context, objectVars, lookupVars, fault>>

(* ibv_close_device. The driver lets go of everything it has for the handle;  *)
(* nothing destroys the mutex of the context.                                 *)
CloseDevice ==
  /\ context = "open" /\ held = {}
  /\ context' = "none" /\ attrs' = NoAttrs /\ told' = None
  /\ driver' = {} /\ refused' = {}
  /\ blocks' = blocks \ Part("context", ContextParts)
  /\ table' = [s \in DOMAIN table |-> None]
  /\ UNCHANGED <<cached, fields, leftovers, held, refCnt, fault>>

----------------------------------------------------------------------------
(* A call that ends well has made object o: its struct, with what the driver  *)
(* answered, and its other parts.                                             *)
Obtains(o, d, contents, parts) ==
  /\ driver' = driver \cup {d}
  /\ fields' = [fields EXCEPT ![o] = contents]
  /\ blocks' = blocks \cup Part(o, parts)
  /\ held' = held \cup {o}
  /\ UNCHANGED <<contextVars, refused, leftovers, fault>>

(* A call that asks the driver to let object d go and then, if it did, frees  *)
(* the struct: efa_dealloc_pd, efa_dereg_mr and efa_destroy_ah. Otherwise the *)
(* application still has the object and may try again.                        *)
Releases(o, d, f) ==
  IF f = "none"
  THEN /\ driver' = driver \ d
       /\ blocks' = blocks \ Part(o, {"struct"})
       /\ fields' = [fields EXCEPT ![o] = None]
       /\ held' = held \ {o}
       /\ UNCHANGED <<contextVars, lookupVars, refused, leftovers, fault>>
  ELSE Fails

(* What becomes of a CQ or QP in its destroy call: efa_destroy_cq and         *)
(* efa_destroy_qp leave the struct when the driver refuses, but nothing the   *)
(* application could use.                                                     *)
GivesUp(o, d, f) ==
  /\ held' = held \ {o}
  /\ IF f = "none"
     THEN /\ driver' = driver \ d
          /\ fields' = [fields EXCEPT ![o] = None]
          /\ UNCHANGED <<refused, leftovers>>
     ELSE /\ refused' = refused \cup d /\ leftovers' = leftovers \cup {o}
          /\ UNCHANGED <<driver, fields>>

(* Every call reads the struct it is given.                                   *)
Given(o) == context = "open" /\ o \in held
Reads(o, call, Step) == IF Exists(o) THEN Step ELSE Breaks(call)

Children(p) == {o \in held \cap (Mrs \cup Ahs \cup Qps) : fields[o].pd = p}

(* ibv_alloc_pd. What the driver makes of it is DriverPd; the handle is what  *)
(* later calls use, and pdn, set by ibv_cmd_alloc_pd, is overwritten from a   *)
(* response nobody filled in. NamedPd is what the driver is named to let go.  *)
DriverPd(n) == [kind |-> "pd", num |-> n]
PdFields(n) == [handle |-> n, pdn |-> 0]
NamedPd(p) == Named("pd", fields[p].handle)

AllocPd(p, f) ==
  /\ context = "open" /\ ~Exists(p)
  /\ IF f = "none" /\ HasNum("pd")
     THEN LET n == NewNum("pd")
          IN  /\ Obtains(p, DriverPd(n), PdFields(n), {"struct"})
              /\ UNCHANGED lookupVars
     ELSE Fails

DeallocPd(p, f) ==
  /\ Given(p) /\ Children(p) = {}
  /\ Reads(p, "dealloc_pd", Releases(p, NamedPd(p), f))

(* ibv_reg_mr and ibv_reg_mr_iova2, which differ in nothing.                  *)
DriverMr(p, n) == [kind |-> "mr", num |-> n, pd |-> fields[p].handle]
MrFields(p, n) == [lkey |-> n, pd |-> p]
NamedMr(m) == Named("mr", fields[m].lkey)

RegMr(m, p, f) ==
  /\ Given(p) /\ ~Exists(m)
  /\ IF f = "none" /\ HasNum("mr")
     THEN LET n == NewNum("mr")
          IN  /\ Obtains(m, DriverMr(p, n), MrFields(p, n), {"struct"})
              /\ UNCHANGED lookupVars
     ELSE Fails

DeregMr(m, f) ==
  /\ Given(m)
  /\ Reads(m, "dereg_mr", Releases(m, NamedMr(m), f))

(* ibv_create_ah. When the driver refuses, ibv_cmd_create_ah frees the struct *)
(* and efa_create_ah frees it again. The PD is named as well to let it go.    *)
DriverAh(p, n) == [kind |-> "ah", num |-> n, pd |-> fields[p].handle]
AhFields(p, n) == [handle |-> n, ahn |-> n, pd |-> p]
NamedAh(a) == {d \in Named("ah", fields[a].handle) : d.pd = fields[fields[a].pd].handle}

CreateAh(a, p, f) ==
  /\ Given(p) /\ ~Exists(a)
  /\ IF f = "none" /\ HasNum("ah")
     THEN LET n == NewNum("ah")
          IN  /\ Obtains(a, DriverAh(p, n), AhFields(p, n), {"struct"})
              /\ UNCHANGED lookupVars
     ELSE IF f = "calloc" THEN Fails ELSE Breaks("create_ah")

(* efadv_query_ah.                                                            *)
AhAnswer(a) == fields[a].ahn

DestroyAh(a, f) == Given(a) /\ Reads(a, "destroy_ah", Releases(a, NamedAh(a), f))

----------------------------------------------------------------------------
(* ibv_create_cq and ibv_create_cq_ex write to the CQ they return, also when  *)
(* create_cq had no memory (or, with the same result, does not know a flag),  *)
(* the depth does not fit the driver's UINT16, or the driver refuses.         *)
DriverCq(n, cqe) == [kind |-> "cq", num |-> n, depth |-> CqDepth(cqe)]
CqFields(n, cqe) == [handle |-> n, cqe |-> CqDepth(cqe)]
NamedCq(c) == Named("cq", fields[c].handle)

CreateCq(c, cqe, f) ==
  /\ context = "open" /\ ~Exists(c)
  /\ IF f # "calloc" /\ ~LoopEnds(cqe) THEN Breaks("roundup_pow_of_two")
     ELSE IF f = "none" /\ CqDepthOk(cqe) /\ HasNum("cq")
     THEN LET n == NewNum("cq")
          IN  /\ Obtains(c, DriverCq(n, cqe), CqFields(n, cqe),
                         {"struct", "cond", "lock"})
              /\ refCnt' = [refCnt EXCEPT ![c] = 0]
              /\ UNCHANGED table
     ELSE Breaks("create_cq")

(* The lock goes before the driver is asked, the condition variable after,    *)
(* whatever it answers; the struct stays if it refuses.                       *)
CqFreed(c, f) == {"cond", "lock"} \cup (IF f = "none" THEN {"struct"} ELSE {})

DestroyCq(c, f) ==
  /\ Given(c)
  /\ ~\E q \in held \cap Qps : c \in {fields[q].scq, fields[q].rcq}
  /\ blocks' = blocks \ Part(c, CqFreed(c, f))
  /\ GivesUp(c, NamedCq(c), f)
  /\ UNCHANGED <<contextVars, lookupVars, fault>>

----------------------------------------------------------------------------
(* create_qp, from where the driver has made the QP: what there is when step  *)
(* f of efa_rq_initialize or efa_sq_initialize fails, and what the error      *)
(* labels from there on give back.                                            *)
AllocationOrder == <<"struct", "cond", "rq.wrid", "rq.pool", "rq.lock",
                     "sq.wrid", "sq.pool", "sq.lock", "local_queue">>
RqSteps == {"rq.wrid", "rq.pool"}
SqSteps == {"sq.wrid", "sq.pool", "local_queue"}

Got(size, f) ==
  LET at == CHOOSE i \in DOMAIN AllocationOrder : AllocationOrder[i] = f
  IN  {AllocationOrder[i] : i \in 1 .. at - 1}
        \ (IF size.rqCnt = 0 THEN {"rq.wrid", "rq.pool", "rq.lock"} ELSE {})

UndoneInQueue(f) ==
  CASE f = "rq.pool" -> {"rq.wrid"} [] f = "sq.pool" -> {"sq.wrid"}
    [] f = "local_queue" -> {"sq.wrid", "sq.pool", "sq.lock"} [] OTHER -> {}

\* mutant: err_terminate_rq is missed
UndoneWithoutRq(size, f) == {"struct", "cond"} \cup UndoneInQueue(f)
Undone(size, f) ==
  {"struct", "cond"}                                   \* err_destroy_qp
  \cup (IF f \in SqSteps THEN RqParts(size) ELSE {})   \* err_terminate_rq
  \cup UndoneInQueue(f)

(* The driver's names of the QP types, which become the QP's qp_type too.     *)
WinQpType(type) == IF type = "UD" THEN "EFA_WIN_QP_UD" ELSE "EFA_WIN_QP_SRD"

(* What ibv_cmd_create_qp_ex tells the driver.                                *)
DriverQp(h, r, size) ==
  [kind |-> "qp", num |-> h, type |-> WinQpType(r.type),
   pd |-> fields[r.pd].handle,
   scq |-> fields[r.scq].handle, rcq |-> fields[r.rcq].handle,
   sqDepth |-> size.sqCnt, rqDepth |-> size.rqCnt,
   sqRing |-> RingEntries(size.sqMask), rqRing |-> RingEntries(size.rqMask),
   state |-> "RESET"]

QpFields(h, r, size) ==
  [handle |-> h, qpNum |-> QpNum(h), pd |-> r.pd, scq |-> r.scq, rcq |-> r.rcq,
   type |-> WinQpType(r.type), ops |-> WrOps(r), state |-> "RESET", size |-> size,
   maxBatchWr |-> MaxBatchWr(attrs.maxTxBatch, 0, size.sqCnt), asked |-> r.cap]

\* mutant: a CQ used both ways is counted down once
RefsOnce(q, c) == IF c \in {fields[q].scq, fields[q].rcq} THEN 1 ELSE 0
RefsOf(q, c) == Cardinality({r \in {"scq", "rcq"} : fields[q][r] = c})

QpAccepted(r) ==
  /\ EntryAccepts(r)
  /\ CheckQpAttr(r, "rdma_read" \in attrs.features)
  /\ CheckQpLimits(r.cap, attrs.limits)

(* The driver's answer to err_destroy_qp is not looked at.                    *)
CreateQpUndo(q, d, size, f, destroyed) ==
  /\ blocks' = blocks \cup Part(q, Got(size, f) \ Undone(size, f))
  /\ IF destroyed THEN UNCHANGED <<driver, refused>>
     ELSE driver' = driver \cup {d} /\ refused' = refused \cup {d}
  /\ UNCHANGED <<contextVars, fields, leftovers, held, lookupVars, fault>>

CreateQpDone(q, h, r, size) ==
  /\ Obtains(q, DriverQp(h, r, size), QpFields(h, r, size),
             {"struct", "cond"} \cup RqParts(size) \cup SqParts(size))
  /\ table' = [table EXCEPT ![QpNum(h) % TableSize] = q]
  /\ refCnt' = [c \in Cqs |-> refCnt[c] + (IF r.scq = c THEN 1 ELSE 0)
                                        + (IF r.rcq = c THEN 1 ELSE 0)]

(* ibv_create_qp and efadv_create_qp_ex. Steps of a queue without entries are *)
(* not taken. Nothing in this command layer sets min_sq_wr.                   *)
CreateQp(q, r, f, destroyed) ==
  /\ Given(r.pd) /\ {r.scq, r.rcq} \subseteq held /\ ~Exists(q)
  /\ IF ~QpAccepted(r) \/ f = "calloc" THEN Fails
     ELSE IF ~QpRounds(r.cap, 0) THEN Breaks("roundup_pow_of_two")
     ELSE IF ~Divides(r.cap) THEN Breaks("create_qp")
     ELSE LET size == SetupQp(r.cap, 0)
              h == NewNum("qp")
          IN  IF f = "driver" \/ ~HasNum("qp") THEN Fails
              ELSE IF f \in SqSteps \/ (f \in RqSteps /\ size.rqCnt # 0)
              THEN CreateQpUndo(q, DriverQp(h, r, size), size, f, destroyed)
              ELSE CreateQpDone(q, h, r, size)

NamedQp(q) == Named("qp", fields[q].handle)

(* ibv_modify_qp with IBV_QP_STATE: the library follows the driver. (What     *)
(* becomes of the queues at RESET is in EfaSendQueue and EfaRecvQueue.)       *)
ModifyState(q, state, f) ==
  IF f # "none" THEN UNCHANGED <<fields, driver>> ELSE
  /\ fields' = [fields EXCEPT ![q].state = state]
  /\ driver' =
       {IF d \in NamedQp(q) THEN [d EXCEPT !.state = state] ELSE d : d \in driver}

ModifyQp(q, state, f) ==
  /\ Given(q)
  /\ ModifyState(q, state, f)
  /\ UNCHANGED <<contextVars, blocks, refused, leftovers, held, lookupVars, fault>>

(* ibv_destroy_qp: table entry, counts and queues go first, then the driver   *)
(* is asked; the struct stays if it refuses.                                  *)
DestroyQp(q, f) ==
  /\ Given(q)
  /\ table' = [table EXCEPT ![QpSlot(q)] = None]
  /\ refCnt' = [c \in Cqs |-> refCnt[c] - RefsOf(q, c)]
  /\ blocks' = blocks \ Part(q, (Parts(q) \ {"struct"}) \cup
                                (IF f = "none" THEN {"struct"} ELSE {}))
  /\ GivesUp(q, NamedQp(q), f)
  /\ UNCHANGED <<contextVars, fault>>

(* A destroy call tried again after the driver refused: the locks, and the    *)
(* queues of a QP, go a second time.                                          *)
RetryDestroy(o) ==
  /\ context = "open" /\ o \in leftovers
  /\ Breaks(IF o \in Qps THEN "destroy_qp" ELSE "destroy_cq")
=============================================================================
