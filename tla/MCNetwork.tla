------------------------------ MODULE MCNetwork -----------------------------
(* Network for TLC: two connections, so that one may come before the end of  *)
(* the other is seen, and few packets, so that the pool runs out in the      *)
(* middle of a text.                                                         *)
EXTENDS Network, TLC

CONSTANTS c1, c2
=============================================================================
