---------------------------- MODULE MCUsbTerminal ---------------------------
(* UsbTerminal for TLC: texts of two packets, so that the cable may go       *)
(* between them.  Nothing bounds how often it is plugged in.                 *)
EXTENDS UsbTerminal, TLC
=============================================================================
