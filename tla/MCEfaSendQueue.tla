---------------------------- MODULE MCEfaSendQueue ---------------------------
(* TLC instances of EfaSendQueue. Requests are interchangeable; the threads   *)
(* of each kind are too.                                                      *)
EXTENDS EfaSendQueue, TLC

Symmetry ==
  Permutations(WrIds) \cup Permutations(Threads) \cup Permutations(SessionThreads)
=============================================================================
