----------------------------- MODULE UsbTerminal ----------------------------
(***************************************************************************)
(* The terminal on USB: the callbacks of USBX (app_usbx_status.c), which   *)
(* run in interrupts, the thread that reads the port (app_usbx_tasks.c)    *)
(* and the stream it feeds (ShellStreamCdc.cpp), on which parser_task      *)
(* answers.  A callback may come between any two steps of the threads.     *)
(* What the shell makes of a line is in ShellParser: an answer is external *)
(* here.  The one CDC instance is set or NULL.                             *)
(***************************************************************************)
EXTENDS Integers

CONSTANT Chunks   \* packets of 64 bytes in the welcome and in an answer

ASSUME UsbTerminalAssumption == Chunks \in Nat \ {0}

VARIABLES
  plugged,   \* the device is configured
  dtr,       \* ux_slave_class_cdc_acm_data_dtr_state
  last_dtr,  \* last_dtr_state of USBX_TerminalChange
  enabled,   \* USBX_STATUS_CDC_TERMINAL_CONNECTED
  terminal,  \* usbx_terminal is set
  cdc,       \* cdc_instance of the stream is set
  welcome,   \* welcome_pending
  pc,        \* where each thread is
  text,      \* what it transmits: the text and the packets left
  endpoint,  \* the owner of the mutex of the IN endpoint
  fresh,     \* history: the key was typed after the last connect
  welcomed,  \* history: the welcome left after the last connect
  pulled,    \* history: the threads that were transmitting at the last unplug
  kept,      \* history: the last session ended open, and no change with DTR low came since
  fault      \* a write through NULL ended in a fault

port == <<plugged, dtr, last_dtr, enabled, terminal>>
stream == <<cdc, welcome>>
history == <<fresh, welcomed, pulled, kept>>
terminalVars == <<port, stream, pc, text, endpoint, history, fault>>

Threads == {"shell", "parser"}
Texts == {"none", "welcome", "echo", "answer"}
Transmitting == {"test", "loop", "transfer", "aborted"}
NoText == [kind |-> "none", left |-> 0]

TerminalInit ==
  /\ plugged = FALSE /\ dtr = 0 /\ last_dtr = 0
  /\ enabled = FALSE /\ terminal = FALSE
  /\ cdc = FALSE /\ welcome = FALSE
  /\ pc = [shell |-> "check", parser |-> "idle"]
  /\ text = [t \in Threads |-> NoText]
  /\ endpoint = "none"
  /\ fresh = FALSE /\ welcomed = FALSE /\ pulled = {} /\ kept = FALSE
  /\ fault = FALSE

Goto(t, label) == pc' = [pc EXCEPT ![t] = label]

-----------------------------------------------------------------------------
(* The interrupts. *)

\* Mutant: the flag is not set.
USBX_TerminalEnableSilent ==
  /\ ~fault /\ ~plugged
  /\ plugged' = TRUE /\ enabled' = FALSE /\ terminal' = TRUE
  /\ UNCHANGED <<dtr, last_dtr, stream, pc, text, endpoint, history, fault>>

\* USBX_TerminalEnable, when the host configures the device.
USBX_TerminalEnable ==
  /\ ~fault /\ ~plugged
  /\ plugged' = TRUE /\ enabled' = TRUE /\ terminal' = TRUE
  /\ UNCHANGED <<dtr, last_dtr, stream, pc, text, endpoint, history, fault>>

\* Mutant: the transfers go on.
AbortNothing == pc' = pc

\* The transfers in progress end with an error.
Abort == pc' = [t \in Threads |-> IF pc[t] = "transfer" THEN "aborted"
                                  ELSE IF pc[t] = "read" THEN "check" ELSE pc[t]]

\* The cable: USBX aborts the transfers, USBX_TerminalDisable takes the port away
\* from the stream, USBX clears DTR.  last_dtr_state stays.
USBX_TerminalDisable ==
  /\ ~fault /\ plugged
  /\ plugged' = FALSE /\ enabled' = FALSE /\ terminal' = TRUE
  /\ Abort
  /\ cdc' = FALSE
  /\ dtr' = 0
  /\ pulled' = {t \in Threads : pc[t] \in Transmitting}
  /\ kept' = (last_dtr = 1)
  /\ UNCHANGED <<last_dtr, welcome, text, endpoint, fresh, welcomed, fault>>

\* Mutant: the stream is connected when DTR falls.
USBX_TerminalChangeFalls(line) ==
  /\ ~fault /\ plugged
  /\ dtr' = line /\ last_dtr' = line
  /\ IF line # last_dtr /\ line = 0
     THEN cdc' = TRUE /\ welcome' = TRUE /\ fresh' = FALSE /\ welcomed' = FALSE
     ELSE UNCHANGED <<stream, fresh, welcomed>>
  /\ kept' = (kept /\ line = 1)
  /\ UNCHANGED <<plugged, enabled, terminal, pc, text, endpoint, pulled, fault>>

\* SET_CONTROL_LINE_STATE, or SET_LINE_CODING with the DTR there is: a DTR that
\* rises connects the stream.
USBX_TerminalChange(line) ==
  /\ ~fault /\ plugged
  /\ dtr' = line /\ last_dtr' = line
  /\ IF line # last_dtr /\ line = 1
     THEN cdc' = TRUE /\ welcome' = TRUE /\ fresh' = FALSE /\ welcomed' = FALSE
     ELSE UNCHANGED <<stream, fresh, welcomed>>
  /\ kept' = (kept /\ line = 1)
  /\ UNCHANGED <<plugged, enabled, terminal, pc, text, endpoint, pulled, fault>>

-----------------------------------------------------------------------------
(* The thread that reads the port. *)

\* usbx_terminal_recv_task: tx_thread_sleep until there is a port.
CheckPort ==
  /\ ~fault /\ pc["shell"] = "check" /\ terminal
  /\ Goto("shell", "wait")
  /\ UNCHANGED <<port, stream, text, endpoint, history, fault>>

WaitEnabled ==
  /\ ~fault /\ pc["shell"] = "wait" /\ enabled
  /\ Goto("shell", "call")
  /\ UNCHANGED <<port, stream, text, endpoint, history, fault>>

\* ux_device_class_cdc_acm_read: refused unless the device is configured.
Read ==
  /\ ~fault /\ pc["shell"] = "call"
  /\ Goto("shell", IF plugged THEN "read" ELSE "check")
  /\ UNCHANGED <<port, stream, text, endpoint, history, fault>>

\* External: someone types in an open terminal.
Key ==
  /\ ~fault /\ pc["shell"] = "read" /\ dtr = 1
  /\ Goto("shell", "process")
  /\ fresh' = TRUE
  /\ UNCHANGED <<port, stream, text, endpoint, welcomed, pulled, kept, fault>>

\* Mutant: welcome_pending is not tested.
EchoAlways ==
  /\ ~fault /\ pc["shell"] = "process"
  /\ text' = [text EXCEPT !["shell"].kind = "echo", !["shell"].left = 1]
  /\ Goto("shell", "test")
  /\ UNCHANGED <<port, stream, endpoint, history, fault>>

\* ShellStreamCdc::process: the test of welcome_pending.
Echo ==
  /\ ~fault /\ pc["shell"] = "process" /\ ~welcome
  /\ text' = [text EXCEPT !["shell"].kind = "echo", !["shell"].left = 1]
  /\ Goto("shell", "test")
  /\ UNCHANGED <<port, stream, endpoint, history, fault>>

FindWelcome ==
  /\ ~fault /\ pc["shell"] = "process" /\ welcome
  /\ Goto("shell", "clear")
  /\ UNCHANGED <<port, stream, text, endpoint, history, fault>>

Welcome ==
  /\ ~fault /\ pc["shell"] = "clear"
  /\ welcome' = FALSE
  /\ text' = [text EXCEPT !["shell"].kind = "welcome", !["shell"].left = Chunks]
  /\ Goto("shell", "test")
  /\ UNCHANGED <<port, cdc, endpoint, history, fault>>

\* parser_task answers a command, of this session or of an earlier one.
Answer ==
  /\ ~fault /\ pc["parser"] = "idle"
  /\ text' = [text EXCEPT !["parser"].kind = "answer", !["parser"].left = Chunks]
  /\ Goto("parser", "test")
  /\ UNCHANGED <<port, stream, endpoint, history, fault>>

-----------------------------------------------------------------------------
(* ShellStreamCdc::hw_transmit. *)

\* Where a thread goes on after a text: the character that came with the welcome
\* is echoed.
EndText(t) ==
  IF t = "shell" /\ text[t].kind = "welcome"
  THEN /\ text' = [text EXCEPT ![t].kind = "echo", ![t].left = 1]
       /\ Goto(t, "test")
  ELSE /\ text' = [text EXCEPT ![t] = NoText]
       /\ Goto(t, IF t = "shell" THEN "check" ELSE "idle")

\* Mutant: cdc_instance is not tested.
TestPortNever(t) ==
  /\ ~fault /\ pc[t] = "test"
  /\ Goto(t, "loop") /\ UNCHANGED text
  /\ pulled' = pulled \ {t}
  /\ UNCHANGED <<port, stream, endpoint, fresh, welcomed, kept, fault>>

TestPort(t) ==
  /\ ~fault /\ pc[t] = "test"
  /\ IF cdc THEN Goto(t, "loop") /\ UNCHANGED text ELSE EndText(t)
  /\ pulled' = pulled \ {t}
  /\ UNCHANGED <<port, stream, endpoint, fresh, welcomed, kept, fault>>

\* ux_device_class_cdc_acm_write, with the cdc_instance of this moment: refused
\* unless the device is configured, then one writer at a time.
Write(t) ==
  /\ ~fault /\ pc[t] = "loop" /\ cdc
  /\ \/ ~plugged /\ EndText(t) /\ UNCHANGED endpoint
     \/ plugged /\ endpoint = "none" /\ endpoint' = t /\ Goto(t, "transfer") /\ UNCHANGED text
  /\ UNCHANGED <<port, stream, history, fault>>

\* The write through NULL reads what is at its address: it fails, or the
\* processor faults.
WriteNull(t) ==
  /\ ~fault /\ pc[t] = "loop" /\ ~cdc
  /\ \/ EndText(t) /\ UNCHANGED fault
     \/ fault' = TRUE /\ UNCHANGED <<pc, text>>
  /\ UNCHANGED <<port, stream, endpoint, history>>

\* External: the host of an open terminal takes the packet.
Sent(t) ==
  /\ ~fault /\ pc[t] = "transfer" /\ plugged /\ dtr = 1
  /\ endpoint' = "none"
  /\ welcomed' = (welcomed \/ (text[t].kind = "welcome" /\ text[t].left = 1))
  /\ IF text[t].left > 1
     THEN text' = [text EXCEPT ![t].left = @ - 1] /\ Goto(t, "loop")
     ELSE EndText(t)
  /\ UNCHANGED <<port, stream, fresh, pulled, kept, fault>>

\* "Leave to never block anything."
Failed(t) ==
  /\ ~fault /\ pc[t] = "aborted"
  /\ endpoint' = "none"
  /\ EndText(t)
  /\ UNCHANGED <<port, stream, history, fault>>

-----------------------------------------------------------------------------
Reader == CheckPort \/ WaitEnabled \/ Read \/ Echo \/ FindWelcome \/ Welcome
Transmit(t) == TestPort(t) \/ WriteNull(t) \/ Failed(t)

TerminalNext ==
  \/ USBX_TerminalEnable \/ USBX_TerminalDisable
  \/ \E line \in {0, 1} : USBX_TerminalChange(line)
  \/ Reader \/ Key \/ Answer
  \/ \E t \in Threads : Transmit(t) \/ Write(t) \/ Sent(t)

\* The threads go on, the mutex of the endpoint is first in, first out, and the
\* host of an open terminal reads.  Nobody has to plug, open, type or ask.
TerminalFairness ==
  /\ WF_terminalVars(Reader)
  /\ \A t \in Threads : WF_terminalVars(Transmit(t)) /\ SF_terminalVars(Write(t)) /\ WF_terminalVars(Sent(t))

TerminalSpec ==
  TerminalInit /\ [][TerminalNext]_terminalVars /\ TerminalFairness

-----------------------------------------------------------------------------
TerminalTypeOK ==
  /\ {plugged, enabled, terminal, cdc, welcome, fresh, welcomed, kept, fault} \subseteq BOOLEAN
  /\ dtr \in {0, 1} /\ last_dtr \in {0, 1}
  /\ pc \in [Threads -> {"idle", "check", "wait", "call", "read", "process", "clear"}
                          \cup Transmitting]
  /\ pc["shell"] # "idle" /\ pc["parser"] \in {"idle"} \cup Transmitting
  /\ text \in [Threads -> [kind : Texts, left : 0 .. Chunks]]
  /\ endpoint \in Threads \cup {"none"}
  /\ pulled \subseteq Threads
  /\ \A t \in Threads :
       /\ (pc[t] \in {"transfer", "aborted"}) <=> (endpoint = t)
       /\ (pc[t] \in Transmitting) <=> (text[t].left > 0)

\* "if (cdc_instance)": a packet is only written through a port.  The test is
\* made once for a text of many packets: the one way out is a cable that is
\* unplugged between the test and a packet.
WritesHavePort == \A t \in Threads : pc[t] = "loop" => cdc \/ t \in pulled

\* The port and what the stream and the threads know of it.
PortFits ==
  /\ cdc => plugged
  /\ \A t \in Threads : pc[t] = "transfer" => cdc
  /\ dtr = 1 => plugged /\ last_dtr = 1
  /\ last_dtr = 1 => cdc \/ kept
  /\ kept => last_dtr = 1 /\ ~cdc

\* A welcome that did not leave is pending or with the thread, and a key typed
\* meanwhile is not echoed before it.
WelcomeDue ==
  /\ text["parser"].kind \in {"none", "answer"}
  /\ cdc /\ ~welcomed =>
       /\ \/ welcome
          \/ text["shell"].kind = "welcome" /\ pc["shell"] \in {"test", "loop", "transfer"}
       /\ fresh /\ pc["shell"] \in Transmitting =>
            text["shell"].kind = "welcome" /\ pc["shell"] # "aborted"

\* The threads, their texts and the endpoint fit together, no packet goes through
\* NULL but for an unplug, and every terminal is connected and welcomed.
TerminalInv == TerminalTypeOK /\ WritesHavePort /\ PortFits /\ WelcomeDue

\* What is typed after a connect is only echoed after a welcome that left after
\* it, although the threads may still transmit for an earlier terminal, and the
\* callbacks may come between the test of welcome_pending, its reset and the text.
WelcomeBeforeEcho ==
  [][ \A t \in Threads :
        Sent(t) /\ text[t].kind = "echo" /\ fresh => welcomed ]_terminalVars

\* Which open terminals are connected to the stream: all but those of a session
\* that follows one that ended open.  The cable resets DTR and not last_dtr_state,
\* so that a host that opens the next session is not seen until it lowers DTR.
OpenIsConnected == plugged /\ dtr = 1 => (cdc <=> ~kept)

\* A thread that transmits comes to the end of its text, unplugged or not,
\* unless the terminal is closed: then nobody takes its packet.
TextLeaves ==
  \A t \in Threads :
    pc[t] \in Transmitting ~> (pc[t] \notin Transmitting \/ (plugged /\ dtr = 0) \/ fault)

\* The thread reads the port of every session, after any end of the session before.
ShellReads == plugged ~> (pc["shell"] = "read" \/ ~plugged \/ dtr = 0 \/ fault)
=============================================================================
