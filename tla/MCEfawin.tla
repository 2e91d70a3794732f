-------------------------------- MODULE MCEfawin -------------------------------
(* One device with a protection domain, and numbers short enough that the    *)
(* 16-bit and the 32-bit boundary are met.                                   *)
EXTENDS Efawin

CONSTANTS p1, m1, a1, c1, c2, q1

(* More receives than sends; two QPs; a version with something to lose.       *)
SomeInfo ==
  [version |-> [high |-> 1, low |-> 1], features |-> Features, maxQp |-> 2,
   sendWr |-> 4, recvWr |-> 9, sendSge |-> 2, recvSge |-> 2, cqDepth |-> 15,
   inline |-> 3, mtu |-> 9, addr |-> 1]

Cap(sendWr, recvWr, sendSge, recvSge, inline) ==
  [sendWr |-> sendWr, recvWr |-> recvWr, sendSge |-> sendSge, recvSge |-> recvSge,
   inline |-> inline]

(* A ring of one, of three rounded up, of 16 entries cut to 16 bits, of 18    *)
(* that are never rounded; no receive buffers; nothing at all, which limits   *)
(* of 0 let pass; too much.                                                   *)
SomeCaps == {Cap(1, 1, 1, 1, 0), Cap(3, 3, 2, 2, 0), Cap(4, 8, 2, 2, 0),
             Cap(1, 9, 1, 2, 0), Cap(1, 1, 1, 0, 0), Cap(0, 0, 0, 0, 0),
             Cap(5, 1, 1, 1, 0)}

Ask(cap) ==
  [call |-> "ibv_create_qp", type |-> "UD", srd |-> FALSE, mask |-> {"pd"},
   ops |-> {}, cqs |-> TRUE, srq |-> FALSE, pd |-> p1, scq |-> c1, rcq |-> c2,
   cap |-> cap]
AskSrd(cap, sendOps) ==
  [Ask(cap) EXCEPT !.call = "efadv_create_qp_ex", !.type = "DRIVER", !.srd = TRUE,
                   !.mask = {"pd", "send_ops"}, !.ops = sendOps, !.rcq = c1]

(* Among those for SRD one with no requests but two buffers each; an          *)
(* operation no device has, an SRQ, and a driver QP that is not SRD.          *)
Sends == {"send", "send_imm"}
SomeRequests ==
  {Ask(cap) : cap \in SomeCaps}
  \cup {AskSrd(Cap(3, 3, 2, 2, 3), Sends),
        AskSrd(Cap(0, 0, 0, 2, 2), Sends \cup {"rdma_read"}),
        AskSrd(Cap(3, 3, 2, 2, 3), {"send", "rdma_write"})}
  \cup {[Ask(Cap(1, 1, 1, 1, 0)) EXCEPT !.srq = TRUE],
        [AskSrd(Cap(1, 1, 1, 1, 0), Sends) EXCEPT !.srd = FALSE]}

(* Rounded to 2, rounded too deep for 16 bits, and never rounded.             *)
SomeCqes == {1, 16, 20}

(* No buffer, one, two, three; in all none to four bytes; an lkey too wide    *)
(* for its field.                                                             *)
Buf(addr, length) == [addr |-> addr, length |-> length, lkey |-> addr]
SomeWorkRequests ==
  [op : {"send", "send_imm", "rdma_read"}, imm : {7}, inline : BOOLEAN,
   bufs : {<<>>, <<Buf(1, 0)>>, <<Buf(1, 3)>>, <<Buf(1, 1), Buf(5, 2)>>,
           <<Buf(5, 2), Buf(1, 2)>>, <<Buf(1, 1), Buf(3, 1), Buf(5, 1)>>},
   to : {[ah |-> 1, qpn |-> 17, qkey |-> 2]}, remote : {9}]

SomeCdescs ==
  {c \in [queue : {"send", "recv"}, hasImm : BOOLEAN, imm : {7}, qpNum : {1, 2},
          status : {"OK", "FLUSHED", "RNR", "BAD_ADDRESS"},
          length : {0, 3}, srcQp : {3}, ah : {0, 1}] : c.hasImm => c.queue = "recv"}

SomeDlls ==
  {[version |-> TRUE, exports |-> Exports], [version |-> FALSE, exports |-> Exports],
   [version |-> TRUE, exports |-> Exports \ {"efadv_query_ah"}]}
=============================================================================
