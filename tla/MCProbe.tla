------------------------------- MODULE MCProbe ------------------------------
(* Probe for TLC, in kHz: frequencies at, next to and between the rates,     *)
(* below the slowest, and from the fastest on, where it may also answer 0.   *)
EXTENDS Probe, TLC

MCFrequencies ==
  {0, 500, 975, 976, 977, 1464, 1465, 2900, 5859, 11718, 11719, 20000, 46874, 46875, 46876,
   62499, 62500, 100000}
=============================================================================
