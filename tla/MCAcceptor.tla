----------------------------- MODULE MCAcceptor -----------------------------
(* Acceptor instantiated for TLC: two competing blocks per height, chains  *)
(* up to height 3, rolling-finality window of 2.                           *)
EXTENDS Acceptor, TLC

CONSTANTS f1, f2

MCForks == {f1, f2}

(* The fork choices are interchangeable: blocks are only compared.        *)
MCSymmetry == Permutations(MCForks)

=============================================================================
