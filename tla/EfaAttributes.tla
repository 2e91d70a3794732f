------------------------------ MODULE EfaAttributes -----------------------------
(* What the device says of itself, on its way to the application. The driver  *)
(* answers once, when the device is opened, and struct efa_dev keeps that     *)
(* answer (the cache). Opening and ibv_query_device copy parts of it to       *)
(* struct efa_context, where create_qp and efadv_query_device look; the other *)
(* queries answer from the cache (efawin/efa_win_cmd.c, efawin/ibv_win_cmd.c, *)
(* efawin/efa.c, efawin/verbs.c).                                             *)
EXTENDS EfaSizing

CONSTANT Info   \* what the driver answers

Features == {"rdma_read", "rnr_retry"}

(* EFA_DEVICE_INFO. Of the version the low byte is told from the rest; the    *)
(* depths fit the int they are told in.                                       *)
DeviceInfo ==
  [version : [high : Nat, low : Nat], features : SUBSET Features, maxQp : Nat,
   sendWr : 0 .. U32 \div 2 - 1, recvWr : 0 .. U32 \div 2 - 1,
   sendSge : UInt16, recvSge : UInt16, cqDepth : 0 .. U32 \div 2 - 1,
   inline : UInt32, mtu : Nat, addr : Nat]

ASSUME AttributesAssumption ==
  Info \in DeviceInfo /\ Info.maxQp # 0 /\ LoopEnds(Info.maxQp)

(* efa_win_get_device_info fills the cache. The ioctl is told the version of  *)
(* the interface the library was built for, and may refuse it.                *)
NoInfo == [version |-> [high |-> 0, low |-> 0], features |-> {}, maxQp |-> 0,
           sendWr |-> 0, recvWr |-> 0, sendSge |-> 0, recvSge |-> 0, cqDepth |-> 0,
           inline |-> 0, mtu |-> 0, addr |-> 0]
GetDeviceInfo(cached, f) == IF f \in {"open", "info"} THEN cached ELSE Info

(* The size of qp_table, from ibv_cmd_query_device_any.                       *)
QpTableSize(info) == RoundupPowOfTwo(info.maxQp)

----------------------------------------------------------------------------
(* The attributes in struct efa_context: as calloc leaves them, as opening    *)
(* fills them in, and after ibv_query_device. inline_buf_size is a uint16_t.  *)
NoLimits == [sendSge |-> 0, recvSge |-> 0, sendWr |-> 0, recvWr |-> 0]
NoAttrs == [limits |-> NoLimits, features |-> {}, inline |-> 0, maxTxBatch |-> 0]
LimitsIn(info) == [sendSge |-> info.sendSge, recvSge |-> info.recvSge,
                   sendWr |-> info.sendWr, recvWr |-> info.recvWr]

GetContext(info) == [NoAttrs EXCEPT !.inline = info.inline % U16]
QueriedAttrs(info) ==
  [limits |-> LimitsIn(info), features |-> info.features,
   inline |-> info.inline % U16, maxTxBatch |-> 1]

----------------------------------------------------------------------------
(* The 0 that ends the firmware version is written one byte too far, over the *)
(* low byte of the version of the device in the cache.                        *)
CutVersion(info) == [info EXCEPT !.version.low = 0]

Lesser(a, b) == IF a <= b THEN a ELSE b

(* struct ibv_device_attr, as far as it bounds what can be asked later.       *)
DeviceAttr(info) ==
  [hwVer |-> info.version, maxQp |-> info.maxQp, maxCqe |-> info.cqDepth,
   maxQpWr |-> Lesser(info.sendWr, info.recvWr),
   maxSge |-> Lesser(info.sendSge, info.recvSge)]

(* ibv_query_device: it reads the version after it has cut it.                *)
\* mutant: it reads the version first
DeviceAnswerUncut(cached) == DeviceAttr(cached)
DeviceAnswer(cached) == DeviceAttr(CutVersion(cached))

(* efadv_query_device: the context's fields, those that the caller's struct   *)
(* has room for. Nothing sets max_rdma_size.                                  *)
AdvAnswer(attrs, room) ==
  [limits |-> attrs.limits, inline |-> attrs.inline, maxRdmaSize |-> 0,
   features |-> IF room THEN attrs.features ELSE {}]

(* ibv_query_port and ibv_query_gid.                                          *)
PortAnswer(cached) ==
  [state |-> "ACTIVE", activeMtu |-> cached.mtu, maxMsgSz |-> cached.mtu]
GidAnswer(cached) == cached.addr

(* A request for queues within what ibv_query_device told.                    *)
WithinAnswer(cap, told) ==
  /\ cap.sendWr <= told.maxQpWr /\ cap.recvWr <= told.maxQpWr
  /\ cap.sendSge <= told.maxSge /\ cap.recvSge <= told.maxSge
=============================================================================
