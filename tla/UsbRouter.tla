------------------------------ MODULE UsbRouter ------------------------------
(***************************************************************************)
(* The routing that exists today: the USB-USART bridge creates messages    *)
(* for the hardware task and queues them on router_input, and muxer_task   *)
(* receives one 32-bit word at a time and walks its destination bits.      *)
(*                                                                         *)
(* The queue holds words (TX_1_ULONG), not messages.  With the short enums *)
(* of arm-none-eabi the first word of a muxerInput_t is its source and its *)
(* destination, 16 bits each.  usbx_bridge_recv_task queues that word,     *)
(* USBX_USARTBridgeChange queues the address of the message.  muxer_task   *)
(* reads either as the source and destination of its local cmd.            *)
(***************************************************************************)
EXTENDS Messages, Sequences, FiniteSetsExt

CONSTANTS
  QueueDepth,   \* ROUTER_COMMAND_FIFO_DEPTH words
  AddressMask   \* bits set in the upper half of the address of a message

ASSUME UsbRouterAssumption ==
  /\ Threads = {"bridge_recv", "bridge_change"}
  /\ Bits = 0 .. 15
  /\ QueueDepth \in Nat \ {0}
  /\ AddressMask \in SUBSET Bits

VARIABLES
  router_input,  \* the queue: each word as the destination mask it is read as
  dest_mask,     \* bits muxer_task has still to route
  client,        \* the queue muxer_task looked up last
  sent           \* messages whose word, or address, was queued

routerVars == <<dest_mask, client>>
vars == <<router_pool, router_payloads, msg, pc, cur, req,
          router_input, dest_mask, client, sent>>

\* muxerSource_t and muxerDestination_t, as bit numbers.
Task == [logger |-> 1, parser |-> 2, network |-> 3, usb |-> 4,
         sequencer |-> 5, file |-> 6, board |-> 7, hardware |-> 8,
         router |-> 9, programmer |-> 10, argb |-> 11]

\* The table of muxer_task, indexed by bit number.
outputs == [i \in 0 .. 10 |->
  CASE i = 1 -> "parser"  [] i = 4 -> "sequencer" [] i = 6 -> "board"
    [] i = 7 -> "hardware" [] i = 8 -> "router" [] i = 9 -> "programmer"
    [] i = 10 -> "argb" [] OTHER -> "nullptr"]

\* Reading past the table gives whatever lies there.
Lookup(i) == IF i \in DOMAIN outputs THEN outputs[i] ELSE "out_of_bounds"

Init ==
  /\ ApiInit
  /\ router_input = <<>>
  /\ dest_mask = {}
  /\ client = "nullptr"
  /\ sent = {}

\* Both senders ask the hardware task for something, with a payload that fits.
Prepare(t) ==
  /\ pc[t] = "idle"
  /\ CreateMessage(t, {Task["hardware"]}, {Task["usb"]}, "fits")
  /\ UNCHANGED <<router_input, routerVars, sent>>

Words == [msg : Msgs, destination : SUBSET Bits]

\* The word that reaches muxer_task.
Word(t) == [msg |-> cur[t],
            destination |-> IF t = "bridge_recv" THEN msg[cur[t]].destination
                                                 ELSE AddressMask]

Send(t) ==
  /\ pc[t] = "created"
  /\ Len(router_input) < QueueDepth
  /\ router_input' = Append(router_input, Word(t))
  /\ sent' = sent \cup {cur[t]}
  /\ cur' = [cur EXCEPT ![t] = NULL]
  /\ Goto(t, "idle")
  /\ UNCHANGED <<router_pool, router_payloads, msg, req, routerVars>>

\* Mutant: the message that could not be queued is not consumed.
SendFailsDrops(t) ==
  /\ pc[t] = "created"
  /\ Len(router_input) = QueueDepth
  /\ cur' = [cur EXCEPT ![t] = NULL]
  /\ Goto(t, "idle")
  /\ UNCHANGED <<router_pool, router_payloads, msg, req, router_input,
                 routerVars, sent>>

\* The queue is full: the sender consumes its own message.
SendFails(t) ==
  /\ pc[t] = "created"
  /\ Len(router_input) = QueueDepth
  /\ cur' = [cur EXCEPT ![t] = NULL]
  /\ req' = [req EXCEPT ![t] = cur[t]]
  /\ Goto(t, "decrement")
  /\ UNCHANGED <<router_pool, router_payloads, msg, router_input, routerVars,
                 sent>>

Continue(t) == ApiStep(t) /\ UNCHANGED <<router_input, routerVars, sent>>

\* muxer_task: receive a word, then route its bits from the lowest to the
\* highest.  What the queue that was found should get is not written yet.
Receive ==
  /\ dest_mask = {}
  /\ router_input # <<>>
  /\ dest_mask' = Head(router_input).destination
  /\ router_input' = Tail(router_input)
  /\ UNCHANGED <<apiVars, client, sent>>

\* Mutant: the bit above the one that was routed is cleared.
RouteBitAbove ==
  /\ dest_mask # {}
  /\ client' = Lookup(Min(dest_mask))
  /\ dest_mask' = dest_mask \ {Min(dest_mask) + 1}
  /\ UNCHANGED <<apiVars, router_input, sent>>

RouteBit ==
  /\ dest_mask # {}
  /\ LET target == Min(dest_mask)
     IN  /\ client' = Lookup(target)
         /\ dest_mask' = dest_mask \ {target}
  /\ UNCHANGED <<apiVars, router_input, sent>>

Next ==
  \/ \E t \in Threads :
       Prepare(t) \/ Send(t) \/ SendFails(t) \/ Continue(t)
  \/ Receive
  \/ RouteBit

\* The threads run whenever they can; new USB traffic is never forced.
Fairness ==
  /\ \A t \in Threads : WF_vars(Send(t) \/ SendFails(t) \/ Continue(t))
  /\ WF_vars(Receive \/ RouteBit)

Spec == Init /\ [][Next]_vars
FairSpec == Spec /\ Fairness

-----------------------------------------------------------------------------
TypeOK ==
  /\ ApiTypeOK
  /\ router_input \in Seq(Words)
  /\ dest_mask \in SUBSET Bits
  /\ client \in {outputs[i] : i \in DOMAIN outputs} \cup {"out_of_bounds"}
  /\ sent \in SUBSET Msgs

\* Between a creation and a successful send no block is lost: a message that
\* was not queued is in the pool or in the hands of the sender that builds it
\* or takes it back, and a payload block out of the pool belongs to a message
\* that is out of the pool too (the failure branches of both senders).
FailedSendReturnsBlocks ==
  /\ \A m \in Msgs \ (router_pool \cup sent) :
       \E t \in Threads : cur[t] = m \/ req[t] = m
  /\ \A b \in Bufs \ router_payloads :
       \E m \in Msgs \ router_pool : msg[m].payload = b

\* A message that was queued is never released: its sender gave it away, so
\* the failure branch must not run for it, even after the router read its word.
QueuedStaysOut == \A m \in sent : m \notin router_pool

\* What a sender holds at each of its program points.
SenderShape == \A t \in Threads :
  /\ pc[t] # "handling"
  /\ pc[t] = "idle" => cur[t] = NULL /\ req[t] = NULL
  /\ pc[t] \in {"payload", "undo", "created"} => cur[t] \in Msgs /\ req[t] = NULL
  /\ pc[t] \in {"decrement", "free_payload", "free_message"} =>
       cur[t] = NULL /\ req[t] \in Msgs

\* The message it holds is its own: not available, not queued, no one else's.
HeldOnce == \A t \in Threads, m \in Msgs : cur[t] = m \/ req[t] = m =>
  /\ m \notin router_pool
  /\ m \notin sent
  /\ \A u \in Threads \ {t} : cur[u] # m /\ req[u] # m

\* Its one destination is counted, so that its own consumption frees it.
CountedOnce == \A t \in Threads :
  /\ pc[t] \in {"payload", "undo"} => /\ msg[cur[t]].destination = {Task["hardware"]}
                                     /\ msg[cur[t]].payload = NULL
  /\ pc[t] = "created" => msg[cur[t]].count = 1
  /\ pc[t] = "decrement" => msg[req[t]].count = 1
  /\ pc[t] = "free_payload" => msg[req[t]].payload # NULL
  /\ pc[t] = "free_message" => msg[req[t]].payload = NULL

\* A payload block out of its pool is the payload of one message.
PayloadsApart == \A m \in Msgs :
  /\ m \in router_pool => msg[m].payload = NULL
  /\ msg[m].payload \notin router_payloads
  /\ \A n \in Msgs \ {m} : msg[n].payload = msg[m].payload => msg[m].payload = NULL

\* What the senders do on every path, with or without a success, with the shape
\* of their state that it rests on.
RouterInv ==
  /\ TypeOK
  /\ SenderShape /\ HeldOnce /\ CountedOnce /\ PayloadsApart
  /\ FailedSendReturnsBlocks
  /\ QueuedStaysOut

\* muxer_task gets through every mask and comes back to its queue.
RouterReturns == []<>(dest_mask = {} /\ router_input = <<>>)
=============================================================================
