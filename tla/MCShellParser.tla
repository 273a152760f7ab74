--------------------------- MODULE MCShellParser ---------------------------
(***************************************************************************)
(* Module ShellParser for TLC: the USB and the Telnet stream, two commands *)
(* ("a" for the shell, "a?" for SCPI), lines with and without them, in     *)
(* lower and upper case.                                                   *)
(***************************************************************************)
EXTENDS ShellParser, TLC

CONSTANTS usb, telnet

MCStreams == {usb, telnet}
MCAlphabet == (usb :> {"a", "?"}) @@ (telnet :> {"A"})
MCLower == "A" :> "a"
MCShellCommands == {<<"a">>}
MCScpiCommands == {<<"a", "?">>}
=============================================================================
