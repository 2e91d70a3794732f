--------------------------------- MODULE Efawin --------------------------------
(* An application, the loader it is built with and efawin.dll: every call of  *)
(* the application goes through the table of the loader (interface/efawin.c), *)
(* to a dummy function or to the function of the library (efawin/efawin.c)    *)
(* whose effect is in EfaControl. One thread loads and frees the library.     *)
EXTENDS EfaControl, EfaWorkRequest, EfawinLoader

vars == <<controlVars, loaderVars>>

EfawinInit == Init /\ LoaderInit

----------------------------------------------------------------------------
(* The loader's own functions. Bound: the library is freed only when the      *)
(* application has closed its device.                                         *)
Running == fault = None

LoadLib ==
  /\ Running
  /\ LoadAgain \/ LoadMissing \/ \E dll \in Dlls : Load(dll)
  /\ UNCHANGED controlVars

FreeLib ==
  Running /\ held = {} /\ context # "open" /\ Free /\ UNCHANGED controlVars

(* A dummy function returns NULL or -ENODEV.                                  *)
CallDummy ==
  Running /\ (\E e \in Exports : ForwardsToDummy(e)) /\ UNCHANGED vars

(* A function of a library that is gone.                                      *)
CallNowhere ==
  /\ Running /\ \E e \in Exports : ForwardsNowhere(e)
  /\ Breaks("reload") /\ UNCHANGED loaderVars

----------------------------------------------------------------------------
Calls(e, Effect) == Running /\ Forwards(e) /\ Effect /\ UNCHANGED loaderVars

(* What may fail in a call: an allocation, or the driver.                     *)
Refusal == {"none", "driver"}
Failure == Refusal \cup {"calloc"}

DeviceCalls ==
  \/ \E f \in {"none", "list", "device"} :
       Calls("ibv_get_device_list", GetDeviceList(f))
  \/ Calls("ibv_free_device_list", FreeDeviceList)
  \/ \E f \in OpenSteps \cup {"none"} : Calls("ibv_open_device", OpenDevice(f))
  \/ \E e \in {"ibv_alloc_pd", "ibv_query_device"} : Calls(e, UseNullMember)
  \/ Calls("ibv_query_device", QueryDevice)
  \/ Calls("ibv_close_device", CloseDevice)

ProtectionCalls ==
  \/ \E p \in Pds, f \in Failure : Calls("ibv_alloc_pd", AllocPd(p, f))
  \/ \E p \in Pds, f \in Refusal : Calls("ibv_dealloc_pd", DeallocPd(p, f))
  \/ \E e \in {"ibv_reg_mr", "ibv_reg_mr_iova2"}, m \in Mrs, p \in Pds,
        f \in Failure : Calls(e, RegMr(m, p, f))
  \/ \E m \in Mrs, f \in Refusal : Calls("ibv_dereg_mr", DeregMr(m, f))
  \/ \E a \in Ahs, p \in Pds, f \in Failure :
       Calls("ibv_create_ah", CreateAh(a, p, f))
  \/ \E a \in Ahs, f \in Refusal : Calls("ibv_destroy_ah", DestroyAh(a, f))

QueueCalls ==
  \/ \E e \in {"ibv_create_cq", "ibv_create_cq_ex"}, c \in Cqs, n \in Cqes,
        f \in Failure : Calls(e, CreateCq(c, n, f))
  \/ \E c \in Cqs, f \in Refusal : Calls("ibv_destroy_cq", DestroyCq(c, f))
  \/ \E c \in Cqs : Calls("ibv_destroy_cq", RetryDestroy(c))
  \/ \E q \in Qps, r \in Requests, f \in Failure \cup RqSteps \cup SqSteps,
        destroyed \in BOOLEAN : Calls(r.call, CreateQp(q, r, f, destroyed))
  \/ \E q \in Qps, state \in QpStates, f \in Refusal :
       Calls("ibv_modify_qp", ModifyQp(q, state, f))
  \/ \E q \in Qps, f \in Refusal : Calls("ibv_destroy_qp", DestroyQp(q, f))
  \/ \E q \in Qps : Calls("ibv_destroy_qp", RetryDestroy(q))

(* A process that broke does nothing more.                                    *)
Ended == ~Running /\ UNCHANGED vars

Next ==
  \/ LoadLib \/ FreeLib \/ CallDummy \/ CallNowhere
  \/ DeviceCalls \/ ProtectionCalls \/ QueueCalls
  \/ Ended

Spec == EfawinInit /\ [][Next]_vars

----------------------------------------------------------------------------
(* The types of the variables: objects are held, left over or neither, the    *)
(* driver's objects are those of its interface, the table has QPs.            *)
TypeOK ==
  /\ context \in {"none", "open", "null member"}
  /\ cached \in {NoInfo, Info, CutVersion(Info)}
  /\ \A b \in blocks : b[1] \in Objects \cup {"list", "device", "context"}
  /\ held \subseteq Objects /\ leftovers \subseteq Objects
  /\ driver \subseteq DriverObjects /\ refused \subseteq driver
  /\ table \in [0 .. TableSize - 1 -> Qps \cup {None}]
  /\ refCnt \in [Cqs -> 0 .. 2 * Cardinality(Qps)]
  /\ lib \in BOOLEAN /\ mapped \in BOOLEAN /\ wanted \in BOOLEAN
  /\ ops \in [Exports -> {"dummy", "lib"}]

(* What the driver has for object o, as o and the objects o names tell it.    *)
Counterpart(o) ==
  LET my == fields[o]
  IN  CASE o \in Pds -> [kind |-> "pd", num |-> my.handle]
        [] o \in Mrs -> [kind |-> "mr", num |-> my.lkey,
                         pd |-> fields[my.pd].handle]
        [] o \in Ahs -> [kind |-> "ah", num |-> my.handle,
                         pd |-> fields[my.pd].handle]
        [] o \in Cqs -> [kind |-> "cq", num |-> my.handle, depth |-> my.cqe]
        [] o \in Qps -> [kind |-> "qp", num |-> my.handle, type |-> my.type,
                         pd |-> fields[my.pd].handle,
                         scq |-> fields[my.scq].handle,
                         rcq |-> fields[my.rcq].handle,
                         sqDepth |-> my.size.sqCnt, rqDepth |-> my.size.rqCnt,
                         sqRing |-> RingEntries(my.size.sqMask),
                         rqRing |-> RingEntries(my.size.rqMask),
                         state |-> my.state]

(* The table and the counts of the poll loop are those of the QPs the         *)
(* application has.                                                           *)
LookupsMatchQps ==
  /\ \A s \in DOMAIN table :
       {q \in held \cap Qps : QpSlot(q) = s} =
         (IF table[s] = None THEN {} ELSE {table[s]})
  /\ \A c \in held \cap Cqs :
       refCnt[c] = Cardinality({x \in (held \cap Qps) \X {"scq", "rcq"} :
                                  fields[x[1]][x[2]] = c})

(* What the application holds can be used: an object, its device and its      *)
(* context have all their memory and locks, the objects it names are held as  *)
(* well, the driver has exactly the object it stands for, in the same state,  *)
(* and its completions are looked for and lead to it, whatever failed before: *)
(* ibv_free_device_list does not take the device away under an open context,  *)
(* no failed call of another object undoes part of this one, and              *)
(* efa_modify_qp follows the driver.                                          *)
HeldObjectsWork ==
  /\ LookupsMatchQps
  /\ \A o \in held :
       /\ context = "open" /\ Exists("device")
       /\ Part("context", ContextParts) \subseteq blocks
       /\ Part(o, Parts(o)) \subseteq blocks
       /\ o \in Mrs \cup Ahs \cup Qps => fields[o].pd \in held
       /\ o \in Qps => {fields[o].scq, fields[o].rcq} \subseteq held
       /\ Counterpart(o) \in driver \ refused
       /\ \A other \in held \ {o} : Counterpart(other) # Counterpart(o)

Structs(S) == S \X {"struct"}

(* No memory, lock or object of the driver is forgotten, with every failing   *)
(* step of create_qp undone, except what this code cannot give back: the      *)
(* struct of a CQ or QP whose destroy call failed, what the driver refused to *)
(* destroy, the device and the mutex of a context.                            *)
NothingForgotten ==
  /\ {b \in blocks : b[1] \in Objects} =
       (UNION {Part(o, Parts(o)) : o \in held}) \cup Structs(leftovers)
  /\ leftovers \subseteq Cqs \cup Qps /\ leftovers \cap held = {}
  /\ driver = {Counterpart(o) : o \in held} \cup refused
  /\ context # "open" => blocks \subseteq
       Structs(leftovers) \cup {<<"list", "struct">>, <<"device", "struct">>,
                              <<"context", "mutex">>}

(* What the application was told holds, as long as the context is open: it    *)
(* would be told the same again; a QP within what ibv_query_device told       *)
(* passes the limits of create_qp, which from then on are those of the device *)
(* and those efadv_query_device tells; the cache follows the device, a second *)
(* opening included, but for the low byte of its version, which the first     *)
(* ibv_query_device cuts off; and no QP is made while the limits are still 0, *)
(* as they are before ibv_query_device, or asks for more than the device has. *)
AnswersHold ==
  context = "open" =>
    LET adv == AdvAnswer(attrs, TRUE)
    IN  /\ adv.inline = Info.inline
        /\ PortAnswer(cached).maxMsgSz = Info.mtu /\ GidAnswer(cached) = Info.addr
        /\ told # None =>
             /\ told = DeviceAnswer(cached) /\ told.hwVer.high = Info.version.high
             /\ adv.limits = LimitsIn(Info) /\ adv.features = Info.features
             /\ \A r \in Requests :
                  WithinAnswer(r.cap, told) => CheckQpLimits(r.cap, attrs.limits)
        /\ \A a \in held \cap Ahs : Named("ah", AhAnswer(a)) = NamedAh(a)
        /\ \A q \in held \cap Qps : /\ attrs.limits = LimitsIn(Info)
                                   /\ CheckQpLimits(fields[q].asked, LimitsIn(Info))

IsPower(n) == n \in PowersOfTwo

(* The queues of a QP fit the rings the driver was told of, the most requests *)
(* the queue takes as well as the most receive buffers those can have; they   *)
(* take what was asked, but for a receive queue whose 16-bit descriptor count *)
(* was cut to nothing; a batch has room for a request; and a QP has no        *)
(* operation but those its device knows.                                      *)
RingsFit ==
  \A q \in held \cap Qps :
    LET s == fields[q].size  a == fields[q].asked
    IN  /\ s.sqCnt <= RingEntries(s.sqMask) /\ IsPower(RingEntries(s.sqMask))
        /\ s.rqCnt * s.rqSge <= RingEntries(s.rqMask) /\ IsPower(RingEntries(s.rqMask))
        /\ s.sqCnt >= a.sendWr
        /\ \/ s.rqCnt >= a.recvWr
           \/ s.rqCnt = 0 /\ a.recvSge * a.recvWr > U16 \div 2
        /\ fields[q].maxBatchWr >= 1
        /\ fields[q].ops \subseteq {"send", "send_imm"} \cup
                                   (Info.features \cap {"rdma_read"})

(* What each QP, as it was sized, makes of a request is the same whether it   *)
(* is posted or built in a session, with either of the setters that suit its  *)
(* data, before or after its address; and a completion reads the same through *)
(* a work completion and through a poll session. (Constant expressions, so    *)
(* that they are evaluated once.)                                             *)
Sges == 0 .. Info.sendSge
InlineSizes == {r.cap.inline : r \in Requests}
SameDescriptor ==
  [sge \in Sges |-> [inline \in InlineSizes |->
    [sendOps \in {WrOps(r) : r \in Requests} |->
       \A wr \in {x \in WorkRequests : x.op \in sendOps} :
         IF wr.op = "rdma_read"
         THEN \A maxRdma \in 0 .. 1 : ReadTheSame(wr, sge, maxRdma, inline)
         ELSE SentTheSame(wr, sge, inline)]]]
SameCompletion ==
  \A c, old \in Cdescs : CompletedTheSame(c, ReadAll(old))

EitherWayTheSame ==
  /\ \A q \in held \cap Qps :
       SameDescriptor[fields[q].size.sqSge][fields[q].asked.inline][fields[q].ops]
  /\ SameCompletion

(* The table of the loader is whole: all dummies, or all of a library that    *)
(* had every function and the right version, mapped as long as it is loaded.  *)
TableIsWhole ==
  /\ \A e, g \in Exports : ops[e] = ops[g]
  /\ lib => mapped /\ \A e \in Exports : ops[e] = "lib"
=============================================================================
