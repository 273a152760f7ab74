------------------------------- MODULE MCLeds -------------------------------
(* Leds for TLC: a ring of 2 pixels, tables of 2 and 5 steps, a full ring at *)
(* 2, and ticks past every table.                                           *)
EXTENDS Leds, TLC
=============================================================================
