------------------------------- MODULE MCVfs --------------------------------
(* Vfs for TLC.  Three threads would share two mutexes; two are enough to   *)
(* overlap every pair of calls.                                            *)
EXTENDS Vfs, TLC
=============================================================================
