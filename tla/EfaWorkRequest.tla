----------------------------- MODULE EfaWorkRequest ----------------------------
(* What a work request becomes, and what a completion becomes: the descriptor *)
(* efa_post_send builds at once and the one wr_... and wr_set_... calls build *)
(* step by step in a session; the work completion efa_poll_cq fills and the   *)
(* answers of the read_... functions of a CQ (efawin/verbs.c, with the        *)
(* descriptors of include/efa_io_defs.h). Which index a request gets, the     *)
(* ring and the session's errors are in EfaSendQueue and EfaCompletion.       *)
EXTENDS EfaSizing, SequencesExt

CONSTANTS
  LkeyBits,       \* bits of the lkey field of a buffer descriptor
  WqeSges,        \* buffer descriptors and bytes of inline data there is room
  WqeInline,      \*   for in struct efa_io_tx_wqe
  WorkRequests,   \* what an application may send
  Cdescs          \* the completion descriptors a device may write

(* A buffer, and a request: its operation, immediate data, buffers, whether   *)
(* their bytes go inline, where it is sent, and where it reads remotely. The  *)
(* memory at an address is abstracted to the address.                         *)
Sge == [addr : Nat, length : UInt32, lkey : UInt32]
SendWr ==
  [op : {"send", "send_imm", "rdma_read"}, imm : UInt32, inline : BOOLEAN,
   bufs : Seq(Sge), to : [ah : UInt16, qpn : UInt32, qkey : UInt32], remote : Nat]

(* A completion descriptor: the type of its queue, its status, QP number and  *)
(* length, and for a receive whether there is immediate data, that, the       *)
(* source QP and its address handle.                                          *)
CompStatuses ==
  {"OK", "FLUSHED", "QP_INTERNAL_ERROR", "INVALID_OP_TYPE", "INVALID_AH",
   "INVALID_LKEY", "LOCAL_BAD_LENGTH", "BAD_ADDRESS", "ABORT", "BAD_DEST_QPN",
   "RNR", "REMOTE_BAD_LENGTH", "BAD_STATUS"}
Cdesc ==
  [queue : {"send", "recv"}, status : CompStatuses, qpNum : UInt16, length : UInt16,
   hasImm : BOOLEAN, imm : UInt32, srcQp : UInt16, ah : UInt16]

(* A work completion. Its wr_id is in EfaCompletion.                          *)
WcStatuses ==
  {"SUCCESS", "LOC_LEN_ERR", "LOC_QP_OP_ERR", "LOC_EEC_OP_ERR", "LOC_PROT_ERR",
   "WR_FLUSH_ERR", "MW_BIND_ERR", "BAD_RESP_ERR", "LOC_ACCESS_ERR", "REM_INV_REQ_ERR",
   "REM_ACCESS_ERR", "REM_OP_ERR", "RETRY_EXC_ERR", "RNR_RETRY_EXC_ERR",
   "LOC_RDD_VIOL_ERR", "REM_INV_RD_REQ_ERR", "REM_ABORT_ERR", "INV_EECN_ERR",
   "INV_EEC_STATE_ERR", "FATAL_ERR", "RESP_TIMEOUT_ERR", "GENERAL_ERR", "TM_ERR",
   "TM_RNDV_INCOMPLETE"}
Wc ==
  [status : WcStatuses, vendorErr : CompStatuses, flags : SUBSET {"with_imm"},
   qpNum : UInt32, opcode : {"SEND", "RECV"}, byteLen : UInt32, srcQp : UInt32,
   sl : {0}, slid : UInt16, imm : UInt32]

ASSUME WorkRequestAssumption ==
  /\ LkeyBits \in Nat /\ WqeSges \in 1 .. U16 - 1 /\ WqeInline \in 0 .. U16 - 1
  /\ WorkRequests \subseteq SendWr
  /\ Cdescs \subseteq Cdesc /\ \A c \in Cdescs : c.hasImm => c.queue = "recv"

----------------------------------------------------------------------------
(* The descriptor, cleared.                                                   *)
EmptyWqe == [op |-> "send", hasImm |-> FALSE, imm |-> 0, inline |-> FALSE,
             length |-> 0, data |-> <<>>, remote |-> 0, remoteLength |-> 0,
             ah |-> 0, qpn |-> 0, qkey |-> 0]

(* The descriptor has room for its data, which its length counts: inline      *)
(* data, or buffers, or the one local buffer of a read.                       *)
FitsWqe(wqe) ==
  /\ Len(wqe.data) <= IF wqe.inline THEN WqeInline
                      ELSE IF wqe.op = "rdma_read" THEN 1 ELSE WqeSges
  /\ wqe.length = Len(wqe.data)

TotalBytes(bufs) == FoldLeft(LAMBDA n, b : n + b.length, 0, bufs)
Bytes(buf) == [k \in 1 .. buf.length |-> buf.addr + k - 1]
InlineData(bufs) == FlattenSeq([i \in DOMAIN bufs |-> Bytes(bufs[i])])
TxBuf(sge) == [sge EXCEPT !.lkey = @ % 2 ^ LkeyBits]
Sgl(sges) == [i \in DOMAIN sges |-> TxBuf(sges[i])]

(* What depends on the operation and its immediate data, and on the address.  *)
WithImm(wqe, imm) == [wqe EXCEPT !.hasImm = TRUE, !.imm = imm]
SentTo(wqe, to) == [wqe EXCEPT !.ah = to.ah, !.qpn = to.qpn % U16, !.qkey = to.qkey]

----------------------------------------------------------------------------
(* efa_post_send_validate_wr, after what EfaSendQueue has of validation.      *)
PostAccepts(maxSge, maxInline, wr) ==
  /\ wr.op \in {"send", "send_imm"}
  /\ IF wr.inline THEN TotalBytes(wr.bufs) <= maxInline
     ELSE Len(wr.bufs) <= maxSge

PostSendWqe(wr) ==
  LET data == IF wr.inline
              THEN [EmptyWqe EXCEPT !.inline = TRUE, !.data = InlineData(wr.bufs),
                                    !.length = TotalBytes(wr.bufs) % U16]
              ELSE [EmptyWqe EXCEPT !.data = Sgl(wr.bufs), !.length = Len(wr.bufs) % U16]
      imm  == IF wr.op = "send_imm" THEN WithImm(data, wr.imm) ELSE data
  IN  SentTo(imm, wr.to)

----------------------------------------------------------------------------
(* The calls of a session on its latest request: s.err is wr_session_err,     *)
(* s.wqe the descriptor. After an error they do nothing.                      *)
Unless(s, t) == IF s.err THEN s ELSE t
Refuse(s) == [s EXCEPT !.err = TRUE]

WrStart == [err |-> FALSE, wqe |-> EmptyWqe]
WrSend(s) == Unless(s, [s EXCEPT !.wqe = EmptyWqe])
\* mutant: the flag for immediate data is forgotten
WrSendImmUnmarked(s, imm) == Unless(s, [s EXCEPT !.wqe = [EmptyWqe EXCEPT !.imm = imm]])
WrSendImm(s, imm) == Unless(s, [s EXCEPT !.wqe = WithImm(EmptyWqe, imm)])
WrRdmaRead(s, addr) ==
  Unless(s, [s EXCEPT !.wqe = [EmptyWqe EXCEPT !.op = "rdma_read", !.remote = addr]])

PutSgl(s, sges) ==
  [s EXCEPT !.wqe.data = Sgl(sges), !.wqe.length = Len(sges) % U16,
            !.wqe.remoteLength = IF s.wqe.op = "rdma_read" THEN TotalBytes(sges) ELSE @]

(* wr_set_sge asks for no room, wr_set_sge_list does; max_wr_rdma_sge is the  *)
(* less of one and a value of the device that nobody filled in.               *)
WrSetSge(s, sge) == Unless(s, PutSgl(s, <<sge>>))
WrSetSgeList(s, maxSge, maxRdmaSge, sges) ==
  LET room == IF s.wqe.op = "rdma_read" THEN maxRdmaSge ELSE maxSge
  IN  Unless(s, IF Len(sges) > room THEN Refuse(s) ELSE PutSgl(s, sges))

WrSetInlineDataList(s, maxInline, bufs) ==
  Unless(s, IF TotalBytes(bufs) > maxInline THEN Refuse(s)
            ELSE [s EXCEPT !.wqe.inline = TRUE, !.wqe.data = InlineData(bufs),
                           !.wqe.length = TotalBytes(bufs) % U16])
WrSetInlineData(s, maxInline, buf) ==
  Unless(s, IF buf.length > maxInline THEN Refuse(s)
            ELSE [s EXCEPT !.wqe.inline = TRUE, !.wqe.data = Bytes(buf),
                           !.wqe.length = buf.length % U16])
WrSetUdAddr(s, to) == Unless(s, [s EXCEPT !.wqe = SentTo(s.wqe, to)])

(* What a session makes of a request, with each setter that suits its data,   *)
(* and the address set before the data or after it.                           *)
WrOpOf(wr) ==
  CASE wr.op = "send" -> WrSend(WrStart)
    [] wr.op = "send_imm" -> WrSendImm(WrStart, wr.imm)
    [] wr.op = "rdma_read" -> WrRdmaRead(WrStart, wr.remote)

Filled(s, wr, maxSge, maxRdmaSge, maxInline) ==
  IF wr.inline
  THEN {WrSetInlineDataList(s, maxInline, wr.bufs)} \cup
       {WrSetInlineData(s, maxInline, b) : b \in {x \in ToSet(wr.bufs) : wr.bufs = <<x>>}}
  ELSE {WrSetSgeList(s, maxSge, maxRdmaSge, wr.bufs)} \cup
       {WrSetSge(s, b) : b \in {x \in ToSet(wr.bufs) : wr.bufs = <<x>>}}

SessionWqes(wr, maxSge, maxRdmaSge, maxInline) ==
  Filled(WrSetUdAddr(WrOpOf(wr), wr.to), wr, maxSge, maxRdmaSge, maxInline)
  \cup {WrSetUdAddr(s, wr.to) :
          s \in Filled(WrOpOf(wr), wr, maxSge, maxRdmaSge, maxInline)}

----------------------------------------------------------------------------
(* to_ibv_status; statuses it does not know, BAD_ADDRESS among them, are      *)
(* general errors.                                                            *)
ToIbvStatus(status) ==
  CASE status = "OK" -> "SUCCESS"
    [] status = "FLUSHED" -> "WR_FLUSH_ERR"
    [] status \in {"QP_INTERNAL_ERROR", "INVALID_OP_TYPE", "INVALID_AH"} -> "LOC_QP_OP_ERR"
    [] status = "INVALID_LKEY" -> "LOC_PROT_ERR"
    [] status = "LOCAL_BAD_LENGTH" -> "LOC_LEN_ERR"
    [] status = "ABORT" -> "REM_ABORT_ERR"
    [] status = "RNR" -> "RNR_RETRY_EXC_ERR"
    [] status = "BAD_DEST_QPN" -> "REM_INV_RD_REQ_ERR"
    [] status = "BAD_STATUS" -> "BAD_RESP_ERR"
    [] status = "REMOTE_BAD_LENGTH" -> "REM_INV_REQ_ERR"
    [] OTHER -> "GENERAL_ERR"

(* efa_process_cqe; a work completion starts out as it was.                   *)
ProcessCqe(c, wc) ==
  LET common == [wc EXCEPT !.status = ToIbvStatus(c.status), !.vendorErr = c.status,
                           !.flags = {}, !.qpNum = c.qpNum]
      recv == [common EXCEPT !.opcode = "RECV", !.byteLen = c.length,
                             !.srcQp = c.srcQp, !.sl = 0, !.slid = c.ah]
  IN  IF c.queue = "send" THEN [common EXCEPT !.opcode = "SEND"]
      ELSE IF c.hasImm THEN [recv EXCEPT !.imm = c.imm, !.flags = {"with_imm"}]
      ELSE recv

(* The read_... functions, each with the wc_flag of the CQ it is there for.   *)
ReadOpcode(c) == IF c.queue = "send" THEN "SEND" ELSE "RECV"
ReadWcFlags(c) == IF c.hasImm THEN {"with_imm"} ELSE {}
ReadAll(c) ==
  [status |-> ToIbvStatus(c.status), vendorErr |-> c.status, flags |-> ReadWcFlags(c),
   qpNum |-> c.qpNum, opcode |-> ReadOpcode(c), byteLen |-> c.length,
   srcQp |-> c.srcQp, sl |-> 0, slid |-> c.ah, imm |-> c.imm]

----------------------------------------------------------------------------
(* On a QP with room for maxSge buffers and maxInline bytes, a session sends  *)
(* the descriptor efa_post_send sends, and refuses what it refuses, save that *)
(* wr_set_sge takes a buffer when there is room for none. The data fit when   *)
(* the QP allows no more of them than a descriptor holds; nothing in create_qp *)
(* sees to that for inline data.                                              *)
RoomyQp(maxSge, maxInline) == maxSge > WqeSges \/ maxInline > WqeInline
SentTheSame(wr, maxSge, maxInline) ==
  \A s \in SessionWqes(wr, maxSge, 1, maxInline) :
    /\ IF PostAccepts(maxSge, maxInline, wr) THEN ~s.err /\ s.wqe = PostSendWqe(wr)
       ELSE s.err \/ (~wr.inline /\ maxSge = 0 /\ Len(wr.bufs) = 1)
    /\ s.err \/ FitsWqe(s.wqe) \/ RoomyQp(maxSge, maxInline)

(* A read has no other way, but more than one way to name its buffer, for     *)
(* which there is room.                                                       *)
ReadTheSame(wr, maxSge, maxRdmaSge, maxInline) ==
  LET sent == {x \in SessionWqes(wr, maxSge, maxRdmaSge, maxInline) : ~x.err}
  IN  Cardinality({s.wqe : s \in sent}) <= 1
      /\ \A s \in sent : FitsWqe(s.wqe) \/ maxInline > WqeInline

(* What efa_poll_cq fills in is a work completion, and is what the read_...   *)
(* functions answer.                                                          *)
CompletedTheSame(c, wc) ==
  /\ ProcessCqe(c, wc) \in Wc
  /\ \A field \in {"status", "vendorErr", "flags", "qpNum", "opcode"}
               \cup (IF c.queue = "recv" THEN {"byteLen", "srcQp", "sl", "slid"} ELSE {})
               \cup (IF c.hasImm THEN {"imm"} ELSE {}) :
       ProcessCqe(c, wc)[field] = ReadAll(c)[field]
=============================================================================
