------------------------------ MODULE MCLogger ------------------------------
(***************************************************************************)
(* Module Logger for TLC, in units of 256 bytes: buffers of 4, threshold   *)
(* at 3, and lines of 1 or 2 so that the threshold is hit and jumped over. *)
(***************************************************************************)
EXTENDS Logger
=============================================================================
