------------------------------- MODULE EfaSizing -------------------------------
(* How big the queues of a QP and of a CQ are, and which requests for them    *)
(* are refused: the arithmetic and the tests of create_qp and create_cq       *)
(* (efawin/verbs.c, efawin/ibv_win_cmd.c, util/util.h), with the widths of    *)
(* the C types it is done in.                                                 *)
EXTENDS Integers

CONSTANTS
  W16, W32,    \* bits of a uint16_t and of a uint32_t (or unsigned long)
  BatchBytes,  \* bytes of a send batch the device counts as one
  WqeBytes     \* sizeof(struct efa_io_tx_wqe)

U16 == 2 ^ W16
U32 == 2 ^ W32
UInt16 == 0 .. U16 - 1
UInt32 == 0 .. U32 - 1

ASSUME SizingAssumption ==
  /\ W16 \in Nat \ {0, 1} /\ W32 \in Nat /\ W16 < W32
  /\ BatchBytes \in Nat \ {0} /\ WqeBytes \in Nat \ {0}
  \* a batch the device counts as one has room for a request
  /\ BatchBytes \div WqeBytes \in 1 .. U16 - 1
  \* arithmetic the provers know nothing of
  /\ 2 ^ 0 = 1 /\ \A k \in 0 .. W32 - 1 : 2 ^ (k + 1) = 2 * 2 ^ k

----------------------------------------------------------------------------
(* roundup_pow_of_two as Windows builds it: 1 is doubled until it reaches n,  *)
(* and a request for 1 is answered by 2. Beyond the highest power that fits,  *)
(* the bit is shifted out and the loop never ends.                            *)
PowersOfTwo == {2 ^ k : k \in 0 .. W32 - 1}
LoopEnds(n) == n <= 2 ^ (W32 - 1)
LeastPower(n) == CHOOSE p \in PowersOfTwo :
                   n <= p /\ \A q \in PowersOfTwo : n <= q => p <= q
RoundupPowOfTwo(n) == IF n = 1 THEN 2 ELSE LeastPower(n)

(* The entries of a CQ: create_cq rounds, and ibv_cmd_create_cq_ex again; the *)
(* driver is told the number as a UINT16.                                     *)
CqDepth(cqe) == RoundupPowOfTwo(RoundupPowOfTwo(cqe))
CqDepthOk(cqe) == CqDepth(cqe) < U16

----------------------------------------------------------------------------
(* A request for a QP: the call it is made in, its qp_type, whether its       *)
(* driver_qp_type is SRD, the bits of comp_mask and of send_ops_flags that    *)
(* matter here, whether it has its CQs, whether it has an SRQ, and its cap.   *)
QpTypes == {"RC", "UC", "UD", "RAW_PACKET", "XRC_SEND", "XRC_RECV", "DRIVER"}
InitAttrMask == {"pd", "xrcd", "create_flags", "max_tso_header", "ind_table",
                 "rx_hash", "send_ops"}
SendOps == {"rdma_write", "rdma_write_imm", "send", "send_imm", "rdma_read",
            "cmp_swap", "fetch_add", "local_inv", "bind_mw", "send_inv", "tso"}
QpCap == [sendWr : UInt32, recvWr : UInt32, sendSge : UInt32,
          recvSge : UInt32, inline : UInt32]
QpInitAttr(pds, cqs) ==
  [call : {"ibv_create_qp", "efadv_create_qp_ex"}, type : QpTypes, srd : BOOLEAN,
   mask : SUBSET InitAttrMask, ops : SUBSET SendOps, cqs : BOOLEAN, srq : BOOLEAN,
   cap : QpCap, pd : pds, scq : cqs, rcq : cqs]

(* efa_check_qp_attr; rdma says whether the device is known to read remotely. *)
SupportedOps(r, rdma) ==
  CASE r.type = "UD"     -> {"send", "send_imm"}
    [] r.type = "DRIVER" -> {"send", "send_imm"} \cup
                            (IF rdma THEN {"rdma_read"} ELSE {})
    [] OTHER             -> {}

CheckQpAttr(r, rdma) ==
  /\ r.type = "DRIVER" => r.srd
  /\ r.mask \subseteq {"pd", "send_ops"} /\ "pd" \in r.mask
  /\ "send_ops" \in r.mask => /\ r.type \in {"UD", "DRIVER"}
                              /\ r.ops \subseteq SupportedOps(r, rdma)
  /\ r.cqs /\ ~r.srq

(* What the two exported calls let pass to create_qp: ibv_create_qp makes UD  *)
(* QPs and sets comp_mask itself, efadv_create_qp_ex makes driver QPs.        *)
EntryAccepts(r) ==
  \/ r.call = "ibv_create_qp" /\ r.type = "UD" /\ r.mask = {"pd"}
  \/ r.call = "efadv_create_qp_ex" /\ r.type = "DRIVER"

(* The functions efa_qp_fill_wr_pfns gives the QP.                            *)
WrOps(r) == IF "send_ops" \in r.mask THEN r.ops ELSE {}

(* efa_check_qp_limits.                                                       *)
CheckQpLimits(cap, lim) ==
  /\ cap.sendSge <= lim.sendSge /\ cap.recvSge <= lim.recvSge
  /\ cap.sendWr <= lim.sendWr /\ cap.recvWr <= lim.recvWr

----------------------------------------------------------------------------
(* The requests efa_setup_qp makes room for, and the entries its receive      *)
(* requests can have, which are multiplied in 32 bits.                        *)
SqWants(cap, minSqWr) == IF cap.sendWr < minSqWr THEN minSqWr ELSE cap.sendWr
RqWants(cap) == (cap.recvSge * cap.recvWr) % U32

(* efa_setup_qp rounds both, and then divides by max_recv_sge.                *)
QpRounds(cap, minSqWr) == LoopEnds(SqWants(cap, minSqWr)) /\ LoopEnds(RqWants(cap))
Divides(cap) == cap.recvSge # 0

(* rq_desc_cnt is a uint16_t, as are both desc_mask.                          *)
\* mutant: the scatter entries are not multiplied in
RqDescCntOfOne(cap) == RoundupPowOfTwo(cap.recvWr) % U16
RqDescCnt(cap) == RoundupPowOfTwo(RqWants(cap)) % U16

SetupQp(cap, minSqWr) ==
  LET cnt == RoundupPowOfTwo(SqWants(cap, minSqWr))
  IN  [sqCnt |-> cnt, sqMask |-> (cnt - 1) % U16, sqSge |-> cap.sendSge,
       rqCnt |-> RqDescCnt(cap) \div cap.recvSge,
       rqMask |-> (RqDescCnt(cap) - 1) % U16, rqSge |-> cap.recvSge]

(* max_batch_wr as efa_sq_initialize computes it.                             *)
MaxBatchWr(maxTxBatch, minSqWr, wqeCnt) ==
  LET batch == IF maxTxBatch = 0 THEN U16 - 1
               ELSE ((maxTxBatch * BatchBytes) \div WqeBytes) % U16
  IN  IF minSqWr # 0 /\ wqeCnt - 1 < batch THEN wqeCnt - 1 ELSE batch

(* Descriptors in the ring the driver is told of: desc_mask + 1.              *)
RingEntries(mask) == mask + 1
=============================================================================
