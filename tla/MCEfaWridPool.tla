---------------------------- MODULE MCEfaWridPool ----------------------------
(* TLC instance of EfaWridPool. The names of the requests are interchangeable.*)
EXTENDS EfaWridPool, TLC

Symmetry == Permutations(WrIds)
=============================================================================
