------------------------------- MODULE Network ------------------------------
(***************************************************************************)
(* The network: the thread that brings it up (app_netxduo.c), the          *)
(* callbacks of the Telnet server (app_netxduo_status.c) and the one       *)
(* stream behind them (ShellStreamTelnet.cpp), on which parser_task        *)
(* answers.  NetX Duo is external: the link, the DHCP client, TCP and the  *)
(* order in which the server thread calls back.  What the shell makes of a *)
(* line is in ShellParser: here a key is echoed, and answers come at any   *)
(* time.                                                                   *)
(***************************************************************************)
EXTENDS Integers, FiniteSets

CONSTANTS
  Conns,    \* logical connections, NX_TELNET_MAX_CLIENTS of them
  Packets,  \* NX_POOL_SIZE
  None      \* logical_connection is -1

ASSUME NetworkAssumption ==
  IsFiniteSet(Conns) /\ None \notin Conns /\ Packets \in Nat \ {0}

VARIABLES
  net,       \* where app_network_thread_entry is
  link,      \* the link is up
  dhcp,      \* the DHCP client: "off", "asking" or "bound"
  address,   \* of the interface: "none", "leased" or "fallback"
  sock,      \* each connection: "free", "request", "open" or "ending"
  instance,  \* the stream is connected to the server
  logical_connection,
  pool,      \* available packets
  tcp,       \* packets each connection waits to see acknowledged
  pc,        \* where the server thread and parser_task are
  job,       \* what each does: packets received, packets built, texts left
  rival      \* history: a connection came while another was there, and one still is

up == <<net, dhcp, address>>
stream == <<instance, logical_connection>>
vars == <<up, link, sock, stream, pool, tcp, pc, job, rival>>

Threads == {"telnet", "parser"}
NoJob == [received |-> 0, built |-> 0, texts |-> 0]

Init ==
  /\ net = "link" /\ dhcp = "off" /\ address = "none"
  /\ link = FALSE
  /\ sock = [c \in Conns |-> "free"]
  /\ instance = FALSE /\ logical_connection \in Conns
  /\ pool = Packets /\ tcp = [c \in Conns |-> 0]
  /\ pc = [t \in Threads |-> "idle"] /\ job = [t \in Threads |-> NoJob]
  /\ rival = FALSE

-----------------------------------------------------------------------------
(* app_network_thread_entry *)

NetGoto(from, to) == net = from /\ net' = to

WaitLink ==
  /\ link /\ NetGoto("link", "start")
  /\ UNCHANGED <<dhcp, address>>

\* nx_dhcp_start, or Tx_Error_Handler, which does not return.
StartDhcp ==
  /\ \/ NetGoto("start", "wait") /\ dhcp' = "asking"
     \/ NetGoto("start", "failed") /\ UNCHANGED dhcp
  /\ UNCHANGED address

\* Mutant: no timeout.
WaitAddressForever ==
  /\ address # "none" /\ NetGoto("wait", "serve")
  /\ UNCHANGED <<dhcp, address>>

\* nx_ip_status_check: there is an address, or NX_DHCP_TIMEOUT is over.
WaitAddress ==
  /\ \/ address # "none" /\ NetGoto("wait", "serve")
     \/ address = "none" /\ NetGoto("wait", "stop")
  /\ UNCHANGED <<dhcp, address>>

\* Mutant: the client goes on.
StopDhcpNot ==
  /\ NetGoto("stop", "fallback")
  /\ UNCHANGED <<dhcp, address>>

StopDhcp ==
  /\ NetGoto("stop", "fallback")
  /\ dhcp' = "off"
  /\ UNCHANGED address

SetFallback ==
  /\ NetGoto("fallback", "serve")
  /\ address' = "fallback"
  /\ UNCHANGED dhcp

\* nx_telnet_server_start, or Tx_Error_Handler.
Serve ==
  /\ NetGoto("serve", "done") \/ NetGoto("serve", "failed")
  /\ UNCHANGED <<dhcp, address>>

app_network_thread_entry ==
  /\ WaitLink \/ StartDhcp \/ WaitAddress \/ StopDhcp \/ SetFallback \/ Serve
  /\ UNCHANGED <<link, sock, stream, pool, tcp, pc, job, rival>>

\* External: the cable, a lease that comes at any time, and one that runs out.
Link ==
  /\ link' = ~link
  /\ UNCHANGED <<up, sock, stream, pool, tcp, pc, job, rival>>

Lease ==
  /\ \/ dhcp = "asking" /\ link /\ dhcp' = "bound" /\ address' = "leased"
     \/ dhcp = "bound" /\ dhcp' = "asking" /\ address' = "none"
  /\ UNCHANGED <<net, link, sock, stream, pool, tcp, pc, job, rival>>

-----------------------------------------------------------------------------
(* The callbacks.  The server thread starts the next one when it is done with *)
(* the texts of this one.                                                     *)

Open(c) == sock[c] \in {"open", "ending"}

Work(t, received, texts) ==
  /\ pc' = [pc EXCEPT ![t] = "test"]
  /\ job' = [job EXCEPT ![t] = [received |-> received, built |-> 0, texts |-> texts]]

\* External: a client connects to the server, or closes its connection.
Client(c) ==
  /\ net = "done" /\ address # "none" /\ link
  /\ \/ sock[c] = "free" /\ sock' = [sock EXCEPT ![c] = "request"]
     \/ sock[c] = "open" /\ sock' = [sock EXCEPT ![c] = "ending"]
  /\ UNCHANGED <<up, link, stream, pool, tcp, pc, job, rival>>

\* Mutant: the logical connection stays.
telnet_connectSame(c) ==
  /\ pc["telnet"] = "idle" /\ sock[c] = "request"
  /\ sock' = [sock EXCEPT ![c] = "open"]
  /\ instance' = TRUE /\ UNCHANGED logical_connection
  /\ rival' = (rival \/ \E d \in Conns : Open(d))
  /\ Work("telnet", 0, 2)
  /\ UNCHANGED <<up, link, pool, tcp>>

\* telnet_new_connection: the welcome and a new line.
telnet_connect(c) ==
  /\ pc["telnet"] = "idle" /\ sock[c] = "request"
  /\ sock' = [sock EXCEPT ![c] = "open"]
  /\ instance' = TRUE /\ logical_connection' = c
  /\ rival' = (rival \/ \E d \in Conns : Open(d))
  /\ Work("telnet", 0, 2)
  /\ UNCHANGED <<up, link, pool, tcp>>

\* telnet_close_connection: the client closed it, or the activity timeout is
\* over.  TCP gives its packets back.  Whose connection ends is not asked.
telnet_disconnect(c) ==
  /\ pc["telnet"] = "idle" /\ Open(c)
  /\ sock' = [sock EXCEPT ![c] = "free"]
  /\ instance' = FALSE /\ logical_connection' = None
  /\ pool' = pool + tcp[c] /\ tcp' = [tcp EXCEPT ![c] = 0]
  /\ rival' = (rival /\ \E d \in Conns \ {c} : Open(d))
  /\ UNCHANGED <<up, link, pc, job>>

\* telnet_data_in: the packet is echoed, the one text or two, and released.
telnet_data_in(c) ==
  /\ pc["telnet"] = "idle" /\ Open(c) /\ pool > 0
  /\ pool' = pool - 1
  /\ \E texts \in 1 .. 2 : Work("telnet", 1, texts)
  /\ UNCHANGED <<up, link, sock, stream, tcp, rival>>

\* External: parser_task has an answer, for a client that may be gone.
Answer ==
  /\ pc["parser"] = "idle"
  /\ Work("parser", 0, 1)
  /\ UNCHANGED <<up, link, sock, stream, pool, tcp, rival>>

-----------------------------------------------------------------------------
(* ShellStreamTelnet::hw_transmit *)

Goto(t, label) == pc' = [pc EXCEPT ![t] = label]

\* The end of a text: back to the next one, or the packet received is released.
EndText(t) ==
  IF job[t].texts > 1
  THEN /\ Goto(t, "test")
       /\ job' = [job EXCEPT ![t].texts = @ - 1, ![t].built = 0]
  ELSE /\ Goto(t, IF job[t].received > 0 THEN "release" ELSE "idle")
       /\ job' = [job EXCEPT ![t] = [NoJob EXCEPT !.received = job[t].received]]

TestInstance(t) ==
  /\ pc[t] = "test"
  /\ IF instance THEN Goto(t, "allocate") /\ UNCHANGED job ELSE EndText(t)
  /\ UNCHANGED <<pool, tcp>>

Allocate(t) ==
  /\ pc[t] = "allocate"
  /\ IF pool > 0
     THEN /\ pool' = pool - 1
          /\ job' = [job EXCEPT ![t].built = 1] /\ Goto(t, "append")
     ELSE EndText(t) /\ UNCHANGED pool
  /\ UNCHANGED tcp

\* A text that does not fit takes a second packet.
DataAppend(t) ==
  /\ pc[t] = "append"
  /\ \/ Goto(t, "send") /\ UNCHANGED <<pool, job>>
     \/ /\ pool > 0 /\ pool' = pool - 1
        /\ job' = [job EXCEPT ![t].built = 2] /\ Goto(t, "send")
     \/ /\ pool = 0 /\ pool' = pool + 1
        /\ EndText(t)
  /\ UNCHANGED tcp

\* nx_telnet_server_packet_send checks both its arguments; TCP refuses when the
\* connection is not established or its window is full.
Accepted(t, c) ==
  /\ pc[t] = "send" /\ instance /\ logical_connection = c /\ sock[c] = "open"
  /\ tcp' = [tcp EXCEPT ![c] = @ + job[t].built]
  /\ EndText(t)
  /\ UNCHANGED pool

\* Mutant: the packet is left to the one who refused it.
RefusedLeaks(t) ==
  /\ pc[t] = "send"
  /\ EndText(t)
  /\ UNCHANGED <<pool, tcp>>

Refused(t) ==
  /\ pc[t] = "send"
  /\ pool' = pool + job[t].built
  /\ EndText(t)
  /\ UNCHANGED tcp

\* nx_packet_release in telnet_data_in.
Release(t) ==
  /\ pc[t] = "release"
  /\ pool' = pool + job[t].received
  /\ job' = [job EXCEPT ![t] = NoJob] /\ Goto(t, "idle")
  /\ UNCHANGED tcp

hw_transmit(t) ==
  /\ \/ TestInstance(t) \/ Allocate(t) \/ DataAppend(t) \/ Refused(t) \/ Release(t)
     \/ \E c \in Conns : Accepted(t, c)
  /\ UNCHANGED <<up, link, sock, stream, rival>>

\* External: the client acknowledges what it got.
Acknowledge(c) ==
  /\ tcp[c] > 0 /\ link
  /\ pool' = pool + tcp[c] /\ tcp' = [tcp EXCEPT ![c] = 0]
  /\ UNCHANGED <<up, link, sock, stream, pc, job, rival>>

-----------------------------------------------------------------------------
Next ==
  \/ app_network_thread_entry \/ Link \/ Lease
  \/ \E c \in Conns :
       \/ Client(c) \/ telnet_connect(c) \/ telnet_disconnect(c)
       \/ telnet_data_in(c) \/ Acknowledge(c)
  \/ Answer
  \/ \E t \in Threads : hw_transmit(t)

\* The threads go on.  A link that stays up is seen; nobody has to answer.
Fairness ==
  /\ WF_vars(app_network_thread_entry)
  /\ \A t \in Threads : WF_vars(hw_transmit(t))

Spec == Init /\ [][Next]_vars /\ Fairness

-----------------------------------------------------------------------------
TypeOK ==
  /\ net \in {"link", "start", "wait", "stop", "fallback", "serve", "done", "failed"}
  /\ dhcp \in {"off", "asking", "bound"} /\ address \in {"none", "leased", "fallback"}
  /\ sock \in [Conns -> {"free", "request", "open", "ending"}]
  /\ {link, instance, rival} \subseteq BOOLEAN /\ logical_connection \in Conns \cup {None}
  /\ pool \in 0 .. Packets /\ tcp \in [Conns -> 0 .. Packets]
  /\ pc \in [Threads -> {"idle", "test", "allocate", "append", "send", "release"}]
  /\ job \in [Threads -> [received : {0, 1}, built : 0 .. 2, texts : 0 .. 2]]

\* The packets TCP has, one by one, and those a thread has.
Waiting == {w \in Conns \X (1 .. Packets) : w[2] <= tcp[w[1]]}
Held(t) == job[t].received + job[t].built

\* Each packet is in the pool, in the hands of one thread or with TCP: whatever
\* fails, hw_transmit releases what it built, once, and telnet_data_in what it got.
PacketsAccounted ==
  pool + Cardinality(Waiting) + Held("telnet") + Held("parser") = Packets

\* What a thread has in its hands, by where it is.
InHands ==
  \A t \in Threads :
    /\ pc[t] = "idle" => job[t] = NoJob
    /\ pc[t] \in {"test", "allocate"} => job[t].built = 0
    /\ pc[t] = "append" => job[t].built = 1
    /\ pc[t] = "release" => job[t].received = 1 /\ job[t].built = 0

NetInv == TypeOK /\ PacketsAccounted /\ InHands

\* A connection is heard and answered as long as it was never one of two: the
\* stream is its own.  A second connection takes the stream, and the end of
\* either takes it from both, also when the client opened the second after it
\* had closed the first and the server saw them the other way round.
OpenIsHeard ==
  \A c \in Conns : sock[c] = "open" /\ ~rival => instance /\ logical_connection = c

\* The address is either the fallback or the business of a DHCP client that is
\* on, never both: a lease that comes while the timeout is dealt with does not
\* fight with the fallback, and a server never starts without either.
OneAddress ==
  /\ address = "fallback" => dhcp = "off"
  /\ net \in {"serve", "done"} /\ dhcp = "off" => address = "fallback"

\* If the link comes up and stays up, the server is started, with a DHCP server
\* or without one, unless NetX Duo refuses to start the client or the server.
ServerStarts == <>[]link => <>(net \in {"done", "failed"})

-----------------------------------------------------------------------------
(* The inductive invariants behind these properties (module NetworkProofs). *)

\* Without a rival there is one connection at most; with one there is at least one.
Alone ==
  IF rival THEN \E c \in Conns : Open(c)
  ELSE \A c, d \in Conns : Open(c) /\ Open(d) => c = d

HeardInv ==
  /\ sock \in [Conns -> {"free", "request", "open", "ending"}]
  /\ rival \in BOOLEAN
  /\ Alone
  /\ OpenIsHeard

\* What app_network_thread_entry knows of the client and the address, step by step.
AddressInv ==
  /\ net \in {"link", "start", "fallback"} => dhcp = "off"
  /\ net \in {"wait", "stop"} => dhcp # "off"
  /\ net \notin {"serve", "done", "failed"} => address # "fallback"
  /\ OneAddress
=============================================================================
