---------------------------- MODULE MCUsbRouter ----------------------------
(***************************************************************************)
(* Module UsbRouter for TLC: more message blocks than queue places, so     *)
(* that a send can fail, and fewer payload blocks than messages.           *)
(***************************************************************************)
EXTENDS UsbRouter

MCThreads == {"bridge_recv", "bridge_change"}
MCBits == 0 .. 15
\* Messages live in RAM at 0x2000xxxx, 0x2001xxxx and so on.
MCAddressMask == {13, 0}
=============================================================================
