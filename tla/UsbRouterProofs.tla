--------------------------- MODULE UsbRouterProofs ---------------------------
(***************************************************************************)
(* Module UsbRouter for pools and queues of any size: RouterInv is         *)
(* inductive, so a message that was not queued goes back with its payload  *)
(* and one that was queued does not.                                       *)
(*                                                                         *)
(* The argument: a message is in the pool, queued, or held by one sender,  *)
(* and a payload block belongs to one message.  A sender that takes its    *)
(* message back counts one client, the one it is, and frees both blocks.   *)
(***************************************************************************)
EXTENDS UsbRouter, TLAPS, FiniteSetTheorems

One == {Task["hardware"]}

LEMMA OneDestination == One \in SUBSET Bits /\ PopCount(One) = 1 /\ 1 < CountMod
<1>1. One = {8} /\ {8} \in SUBSET Bits BY UsbRouterAssumption DEF One, Task
<1>2. Cardinality(One) = 1 BY <1>1, FS_Singleton
<1>3. Cardinality(One) <= Cardinality(Bits) /\ Cardinality(Bits) \in Nat
  BY <1>1, MessagesAssumption, FS_Subset, FS_CardinalityType
<1> QED BY <1>1, <1>2, <1>3, MessagesAssumption DEF PopCount

LEMMA MessageUpdates ==
  ASSUME NEW m \in Message
  PROVE  /\ \A src \in SUBSET Bits, dest \in SUBSET Bits :
              [m EXCEPT !.source = src, !.destination = dest] \in Message
         /\ \A b \in Bufs \cup {NULL}, c \in 0 .. CountMod - 1 :
              [m EXCEPT !.payload = b, !.count = c] \in Message
         /\ \A b \in Bufs \cup {NULL} : [m EXCEPT !.payload = b] \in Message
         /\ \A c \in 0 .. CountMod - 1 : [m EXCEPT !.count = c] \in Message
  BY DEF Message

LEMMA PrepareInv ==
  ASSUME RouterInv, NEW t \in Threads, Prepare(t)
  PROVE  RouterInv'
<1> USE MessagesAssumption DEF RouterInv
<1>1. /\ pc[t] = "idle" /\ cur[t] = NULL /\ req[t] = NULL
      /\ UNCHANGED <<router_payloads, req, router_input, dest_mask, client, sent>>
  BY DEF Prepare, CreateMessage, SenderShape, routerVars
<1>2. CASE /\ Goto(t, AfterFailure(t))
           /\ UNCHANGED <<router_pool, msg, cur>>
  <2>1. pc' = pc BY <1>1, <1>2 DEF Goto, AfterFailure, TypeOK, ApiTypeOK
  <2>2. TypeOK' BY <1>1, <1>2, <2>1 DEF TypeOK, ApiTypeOK
  <2>3. SenderShape' /\ HeldOnce' /\ CountedOnce' /\ PayloadsApart'
    BY <1>1, <1>2, <2>1 DEF SenderShape, HeldOnce, CountedOnce, PayloadsApart
  <2>4. FailedSendReturnsBlocks' /\ QueuedStaysOut'
    BY <1>1, <1>2, <2>1 DEF FailedSendReturnsBlocks, QueuedStaysOut
  <2> QED BY <2>2, <2>3, <2>4
<1>3. ASSUME NEW m \in router_pool,
             router_pool' = router_pool \ {m},
             cur' = [cur EXCEPT ![t] = m],
             msg' = [msg EXCEPT ![m].source = {Task["usb"]}, ![m].destination = One],
             Goto(t, "payload")
      PROVE  RouterInv'
  <2>1. m \in Msgs /\ m # NULL /\ msg[m].payload = NULL
    BY DEF TypeOK, ApiTypeOK, PayloadsApart
  <2>2. /\ pc' = [pc EXCEPT ![t] = "payload"]
        /\ \A n \in Msgs : msg'[n].payload = msg[n].payload /\ msg'[n].count = msg[n].count
        /\ \A n \in Msgs \ {m} : msg'[n] = msg[n]
        /\ msg'[m].destination = One
    BY <1>3, <2>1 DEF Goto, TypeOK, ApiTypeOK, Message
  <2>3. TypeOK'
    <3>1. {Task["usb"]} \in SUBSET Bits BY UsbRouterAssumption DEF Task
    <3>2. msg' \in [Msgs -> Message]
      BY <1>3, <2>1, <3>1, OneDestination, MessageUpdates DEF TypeOK, ApiTypeOK
    <3> QED BY <1>1, <1>3, <2>1, <2>2, <3>2 DEF TypeOK, ApiTypeOK, PC
  <2>4. \A u \in Threads : cur[u] # m /\ req[u] # m
    BY <1>3, <2>1 DEF HeldOnce
  <2>5. SenderShape' BY <1>1, <1>3, <2>1, <2>2 DEF SenderShape, TypeOK, ApiTypeOK
  <2>6. HeldOnce'
    BY <1>1, <1>3, <2>1, <2>4 DEF HeldOnce, QueuedStaysOut, TypeOK, ApiTypeOK
  <2>7. CountedOnce'
    <3>1. /\ cur'[t] = m /\ pc'[t] = "payload"
          /\ \A u \in Threads \ {t} : pc'[u] = pc[u] /\ cur'[u] = cur[u]
      BY <1>3, <2>2 DEF TypeOK, ApiTypeOK
    <3>2. \A u \in Threads \ {t} :
            /\ pc[u] \in {"payload", "undo", "created"} => msg'[cur[u]] = msg[cur[u]]
            /\ pc[u] \in {"decrement", "free_payload", "free_message"} => msg'[req[u]] = msg[req[u]]
      BY <2>2, <2>4 DEF SenderShape
    <3> QED BY <1>1, <2>1, <2>2, <3>1, <3>2 DEF CountedOnce, One
  <2>8. PayloadsApart'
    <3>1. router_pool' = router_pool \ {m} BY <1>3
    <3> QED BY <1>1, <2>2, <3>1 DEF PayloadsApart
  <2>9. FailedSendReturnsBlocks'
    <3>1. \A n \in Msgs \ (router_pool' \cup sent') :
            \E u \in Threads : cur'[u] = n \/ req'[u] = n
      BY <1>1, <1>3 DEF FailedSendReturnsBlocks, TypeOK, ApiTypeOK
    <3>2. \A b \in Bufs \ router_payloads' :
            \E n \in Msgs \ router_pool' : msg'[n].payload = b
      <4> SUFFICES ASSUME NEW b \in Bufs \ router_payloads
                   PROVE  \E n \in Msgs \ router_pool' : msg'[n].payload = b
        BY <1>1
      <4>1. PICK n \in Msgs \ router_pool : msg[n].payload = b
        BY DEF FailedSendReturnsBlocks
      <4> QED BY <1>3, <2>2, <4>1
    <3> QED BY <3>1, <3>2 DEF FailedSendReturnsBlocks
  <2>10. QueuedStaysOut' BY <1>1, <1>3 DEF QueuedStaysOut
  <2> QED BY <2>3, <2>5, <2>6, <2>7, <2>8, <2>9, <2>10
<1> QED
  BY <1>2, <1>3 DEF Prepare, CreateMessage, One

LEMMA PayloadInv ==
  ASSUME RouterInv, NEW t \in Threads, CreatePayload(t),
         UNCHANGED <<router_input, routerVars, sent>>
  PROVE  RouterInv'
<1> USE MessagesAssumption DEF RouterInv
<1>1. PICK m \in Msgs : m = cur[t] BY DEF CreatePayload, SenderShape
<1>2. /\ pc[t] = "payload" /\ req[t] = NULL
      /\ msg[m].destination = One /\ msg[m].payload = NULL
      /\ m \notin router_pool /\ m \notin sent
      /\ \A u \in Threads \ {t} : cur[u] # m /\ req[u] # m
      /\ UNCHANGED <<router_pool, cur, req, router_input, dest_mask, client, sent>>
  BY <1>1 DEF CreatePayload, SenderShape, CountedOnce, HeldOnce, One, routerVars
<1>3. HeldOnce' /\ QueuedStaysOut' BY <1>2 DEF HeldOnce, QueuedStaysOut
<1>4. CASE Goto(t, "undo") /\ UNCHANGED <<router_payloads, msg>>
  <2>1. pc' = [pc EXCEPT ![t] = "undo"] BY <1>4 DEF Goto
  <2>2. TypeOK' BY <1>2, <1>4, <2>1 DEF TypeOK, ApiTypeOK, PC
  <2>3. SenderShape' /\ CountedOnce'
    BY <1>2, <1>4, <2>1 DEF SenderShape, CountedOnce, TypeOK, ApiTypeOK
  <2>4. PayloadsApart' /\ FailedSendReturnsBlocks'
    BY <1>2, <1>4 DEF PayloadsApart, FailedSendReturnsBlocks
  <2> QED BY <1>3, <2>2, <2>3, <2>4
<1>5. ASSUME NEW b \in router_payloads,
             router_payloads' = router_payloads \ {b},
             msg' = [msg EXCEPT ![m].payload = b, ![m].count = PopCount(msg[m].destination)],
             Goto(t, AfterCreate(t))
      PROVE  RouterInv'
  <2>1. b \in Bufs BY DEF TypeOK, ApiTypeOK
  <2>2. /\ pc' = [pc EXCEPT ![t] = "created"]
        /\ msg'[m].payload = b /\ msg'[m].count = 1
        /\ \A n \in Msgs \ {m} : msg'[n] = msg[n]
    BY <1>2, <1>5, OneDestination DEF Goto, AfterCreate, TypeOK, ApiTypeOK, Message
  <2>3. TypeOK'
    <3>1. PopCount(msg[m].destination) \in 0 .. CountMod - 1
      BY <1>2, OneDestination
    <3>2. PICK c \in 0 .. CountMod - 1 : c = PopCount(msg[m].destination) BY <3>1
    <3>3. msg' = [msg EXCEPT ![m] = [msg[m] EXCEPT !.payload = b, !.count = c]]
      BY <1>5, <3>2
    <3>4. msg[m] \in Message BY DEF TypeOK, ApiTypeOK
    <3>5. [msg[m] EXCEPT !.payload = b, !.count = c] \in Message
      BY <2>1, <3>2, <3>4, MessageUpdates
    <3>6. msg' \in [Msgs -> Message] BY <3>3, <3>5 DEF TypeOK, ApiTypeOK
    <3> QED BY <1>2, <1>5, <2>2, <3>6 DEF TypeOK, ApiTypeOK, PC
  <2>4. SenderShape' BY <1>1, <1>2, <2>2 DEF SenderShape, TypeOK, ApiTypeOK
  <2>5. CountedOnce'
    <3>1. \A u \in Threads \ {t} :
            /\ pc'[u] = pc[u]
            /\ pc[u] \in {"payload", "undo", "created"} => msg'[cur[u]] = msg[cur[u]]
            /\ pc[u] \in {"decrement", "free_payload", "free_message"} => msg'[req[u]] = msg[req[u]]
      BY <1>2, <2>2 DEF SenderShape, TypeOK, ApiTypeOK
    <3> QED BY <1>1, <1>2, <2>2, <3>1 DEF CountedOnce, TypeOK, ApiTypeOK
  <2>6. PayloadsApart'
    <3>1. \A n \in Msgs : msg[n].payload # b BY DEF PayloadsApart
    <3>2. router_payloads' = router_payloads \ {b} BY <1>5
    <3> QED BY <1>2, <2>1, <2>2, <3>1, <3>2 DEF PayloadsApart
  <2>7. FailedSendReturnsBlocks'
    <3>1. \A n \in Msgs \ (router_pool' \cup sent') :
            \E u \in Threads : cur'[u] = n \/ req'[u] = n
      BY <1>2 DEF FailedSendReturnsBlocks
    <3>2. ASSUME NEW c \in Bufs \ router_payloads'
          PROVE  \E n \in Msgs \ router_pool : msg'[n].payload = c
      <4>1. CASE c = b BY <1>2, <2>2, <4>1
      <4>2. CASE c # b
        <5>1. PICK n \in Msgs \ router_pool : msg[n].payload = c
          BY <1>5, <4>2 DEF FailedSendReturnsBlocks
        <5> QED BY <1>2, <2>2, <5>1
      <4> QED BY <4>1, <4>2
    <3> QED BY <1>2, <3>1, <3>2 DEF FailedSendReturnsBlocks
  <2> QED BY <1>3, <2>3, <2>4, <2>5, <2>6, <2>7
<1> QED BY <1>1, <1>4, <1>5 DEF CreatePayload

\* The message block goes back without a payload.
LEMMA UndoInv ==
  ASSUME RouterInv, NEW t \in Threads, CreateUndo(t),
         UNCHANGED <<router_input, routerVars, sent>>
  PROVE  RouterInv'
<1> USE MessagesAssumption DEF RouterInv
<1>1. PICK m \in Msgs : m = cur[t] BY DEF CreateUndo, SenderShape
<1>2. /\ pc[t] = "undo" /\ req[t] = NULL /\ msg[m].payload = NULL
      /\ m \notin sent
      /\ \A u \in Threads \ {t} : cur[u] # m /\ req[u] # m
      /\ router_pool' = router_pool \cup {m}
      /\ cur' = [cur EXCEPT ![t] = NULL]
      /\ pc' = [pc EXCEPT ![t] = "idle"]
      /\ UNCHANGED <<router_payloads, msg, req, router_input, dest_mask, client, sent>>
  BY <1>1 DEF CreateUndo, Goto, AfterFailure, SenderShape, CountedOnce, HeldOnce, routerVars
<1>3. TypeOK' BY <1>2 DEF TypeOK, ApiTypeOK, PC
<1>4. SenderShape' /\ CountedOnce'
  BY <1>2 DEF SenderShape, CountedOnce, TypeOK, ApiTypeOK
<1>5. HeldOnce' BY <1>2 DEF HeldOnce, TypeOK, ApiTypeOK
<1>6. PayloadsApart' /\ QueuedStaysOut' BY <1>2 DEF PayloadsApart, QueuedStaysOut
<1>7. FailedSendReturnsBlocks'
  <2>1. \A n \in Msgs \ (router_pool' \cup sent') :
          \E u \in Threads : cur'[u] = n \/ req'[u] = n
    BY <1>1, <1>2 DEF FailedSendReturnsBlocks, TypeOK, ApiTypeOK
  <2>2. \A b \in Bufs \ router_payloads' :
          \E n \in Msgs \ router_pool' : msg'[n].payload = b
    BY <1>2 DEF FailedSendReturnsBlocks
  <2> QED BY <2>1, <2>2 DEF FailedSendReturnsBlocks
<1> QED BY <1>3, <1>4, <1>5, <1>6, <1>7

\* The word is queued: the message leaves the hands of its sender.
LEMMA SendInv ==
  ASSUME RouterInv, NEW t \in Threads, Send(t)
  PROVE  RouterInv'
<1> USE MessagesAssumption DEF RouterInv
<1>1. PICK m \in Msgs : m = cur[t] BY DEF Send, SenderShape
<1>2. /\ pc[t] = "created" /\ req[t] = NULL
      /\ m \notin router_pool /\ m \notin sent
      /\ \A u \in Threads \ {t} : cur[u] # m /\ req[u] # m
      /\ cur' = [cur EXCEPT ![t] = NULL]
      /\ pc' = [pc EXCEPT ![t] = "idle"]
      /\ sent' = sent \cup {m}
      /\ router_input' = Append(router_input, Word(t))
      /\ UNCHANGED <<router_pool, router_payloads, msg, req, dest_mask, client>>
  BY <1>1 DEF Send, Goto, SenderShape, HeldOnce, routerVars
<1>3. TypeOK'
  <2>1. Word(t) \in Words
    BY <1>1, UsbRouterAssumption DEF Word, Words, TypeOK, ApiTypeOK, Message
  <2>2. router_input' \in Seq(Words) BY <1>2, <2>1 DEF TypeOK
  <2> QED BY <1>2, <2>2 DEF TypeOK, ApiTypeOK, PC
<1>4. SenderShape' /\ CountedOnce'
  BY <1>2 DEF SenderShape, CountedOnce, TypeOK, ApiTypeOK
<1>5. HeldOnce' BY <1>2 DEF HeldOnce, TypeOK, ApiTypeOK
<1>6. PayloadsApart' /\ QueuedStaysOut' BY <1>2 DEF PayloadsApart, QueuedStaysOut
<1>7. FailedSendReturnsBlocks'
  BY <1>1, <1>2 DEF FailedSendReturnsBlocks, TypeOK, ApiTypeOK
<1> QED BY <1>3, <1>4, <1>5, <1>6, <1>7

\* The queue is full: the sender becomes the consumer of its message.
LEMMA SendFailsInv ==
  ASSUME RouterInv, NEW t \in Threads, SendFails(t)
  PROVE  RouterInv'
<1> USE MessagesAssumption DEF RouterInv
<1>1. PICK m \in Msgs : m = cur[t] BY DEF SendFails, SenderShape
<1>2. /\ pc[t] = "created" /\ req[t] = NULL /\ msg[m].count = 1
      /\ m \notin router_pool /\ m \notin sent
      /\ \A u \in Threads \ {t} : cur[u] # m /\ req[u] # m
      /\ cur' = [cur EXCEPT ![t] = NULL]
      /\ req' = [req EXCEPT ![t] = m]
      /\ pc' = [pc EXCEPT ![t] = "decrement"]
      /\ UNCHANGED <<router_pool, router_payloads, msg, router_input, dest_mask,
                     client, sent>>
  BY <1>1 DEF SendFails, Goto, SenderShape, HeldOnce, CountedOnce, routerVars
<1>3. TypeOK' BY <1>2 DEF TypeOK, ApiTypeOK, PC
<1>4. SenderShape' /\ CountedOnce'
  BY <1>2 DEF SenderShape, CountedOnce, TypeOK, ApiTypeOK
<1>5. HeldOnce' BY <1>1, <1>2 DEF HeldOnce, TypeOK, ApiTypeOK
<1>6. PayloadsApart' /\ QueuedStaysOut' BY <1>2 DEF PayloadsApart, QueuedStaysOut
<1>7. FailedSendReturnsBlocks'
  BY <1>1, <1>2 DEF FailedSendReturnsBlocks, TypeOK, ApiTypeOK
<1> QED BY <1>3, <1>4, <1>5, <1>6, <1>7

\* The count was 1: it is its only client, and goes on to the releases.
LEMMA DecrementInv ==
  ASSUME RouterInv, NEW t \in Threads, Decrement(t),
         UNCHANGED <<router_input, routerVars, sent>>
  PROVE  RouterInv'
<1> USE MessagesAssumption DEF RouterInv
<1>1. PICK m \in Msgs : m = req[t] BY DEF Decrement, SenderShape
<1>2. /\ pc[t] = "decrement" /\ cur[t] = NULL /\ msg[m].count = 1
      /\ m \notin router_pool /\ m \notin sent
      /\ \A u \in Threads \ {t} : cur[u] # m /\ req[u] # m
  BY <1>1 DEF Decrement, SenderShape, CountedOnce, HeldOnce
<1>3. PICK where \in {"free_payload", "free_message"} :
        /\ where = (IF msg[m].payload # NULL THEN "free_payload" ELSE "free_message")
        /\ pc' = [pc EXCEPT ![t] = where]
        /\ msg' = [msg EXCEPT ![m] = [msg[m] EXCEPT !.count = 0]]
        /\ UNCHANGED <<router_pool, router_payloads, cur, req, router_input,
                       dest_mask, client, sent>>
  BY <1>1, <1>2 DEF Decrement, LastClient, Pred, Goto, routerVars
<1>4. msg' \in [Msgs -> Message]
  <2>1. msg[m] \in Message /\ 0 \in 0 .. CountMod - 1
    <3>1. CountMod > 0 BY OneDestination
    <3> QED BY <3>1 DEF TypeOK, ApiTypeOK
  <2>2. [msg[m] EXCEPT !.count = 0] \in Message BY <2>1, MessageUpdates
  <2> QED BY <1>3, <2>2 DEF TypeOK, ApiTypeOK
<1>5. /\ \A n \in Msgs : /\ msg'[n].payload = msg[n].payload
                         /\ msg'[n].destination = msg[n].destination
      /\ \A n \in Msgs \ {m} : msg'[n] = msg[n]
  BY <1>3 DEF TypeOK, ApiTypeOK, Message
<1>6. TypeOK' BY <1>3, <1>4 DEF TypeOK, ApiTypeOK, PC
<1>7. SenderShape' BY <1>1, <1>2, <1>3 DEF SenderShape, TypeOK, ApiTypeOK
<1>8. CountedOnce'
  <2>1. /\ pc'[t] = where /\ req'[t] = m
        /\ \A u \in Threads \ {t} :
            /\ pc'[u] = pc[u]
            /\ pc[u] \in {"payload", "undo", "created"} =>
                 cur'[u] = cur[u] /\ msg'[cur[u]] = msg[cur[u]]
            /\ pc[u] \in {"decrement", "free_payload", "free_message"} =>
                 req'[u] = req[u] /\ msg'[req[u]] = msg[req[u]]
    BY <1>1, <1>2, <1>3, <1>5 DEF SenderShape, TypeOK, ApiTypeOK
  <2>2. CountedOnce!(t)' BY <1>3, <1>5, <2>1
  <2>3. \A u \in Threads \ {t} : CountedOnce!(u)' BY <2>1 DEF CountedOnce
  <2> QED BY <2>2, <2>3 DEF CountedOnce
<1>9. HeldOnce' /\ QueuedStaysOut' BY <1>3 DEF HeldOnce, QueuedStaysOut
<1>10. PayloadsApart' /\ FailedSendReturnsBlocks'
  BY <1>3, <1>5 DEF PayloadsApart, FailedSendReturnsBlocks, TypeOK, ApiTypeOK
<1> QED BY <1>6, <1>7, <1>8, <1>9, <1>10

LEMMA FreePayloadInv ==
  ASSUME RouterInv, NEW t \in Threads, FreePayload(t),
         UNCHANGED <<router_input, routerVars, sent>>
  PROVE  RouterInv'
<1> USE MessagesAssumption DEF RouterInv
<1>1. PICK m \in Msgs : m = req[t] BY DEF FreePayload, SenderShape
<1>2. /\ pc[t] = "free_payload" /\ cur[t] = NULL /\ msg[m].payload # NULL
      /\ m \notin router_pool /\ m \notin sent
      /\ \A u \in Threads \ {t} : cur[u] # m /\ req[u] # m
  BY <1>1 DEF FreePayload, SenderShape, CountedOnce, HeldOnce
<1>3. PICK b \in Bufs : b = msg[m].payload
  BY <1>2 DEF TypeOK, ApiTypeOK, Message
<1>4. b \notin router_payloads /\ \A n \in Msgs \ {m} : msg[n].payload # b
  BY <1>2, <1>3 DEF PayloadsApart
<1>5. /\ pc' = [pc EXCEPT ![t] = "free_message"]
      /\ router_payloads' = router_payloads \cup {b}
      /\ msg' = [msg EXCEPT ![m] = [msg[m] EXCEPT !.payload = NULL]]
      /\ UNCHANGED <<router_pool, cur, req, router_input, dest_mask, client, sent>>
  BY <1>1, <1>3, <1>4 DEF FreePayload, Goto, routerVars
<1>6. msg' \in [Msgs -> Message]
  <2>1. msg[m] \in Message BY DEF TypeOK, ApiTypeOK
  <2>2. [msg[m] EXCEPT !.payload = NULL] \in Message BY <2>1, MessageUpdates
  <2> QED BY <1>5, <2>2 DEF TypeOK, ApiTypeOK
<1>7. msg'[m].payload = NULL /\ \A n \in Msgs \ {m} : msg'[n] = msg[n]
  BY <1>5 DEF TypeOK, ApiTypeOK, Message
<1>8. TypeOK' BY <1>5, <1>6 DEF TypeOK, ApiTypeOK, PC
<1>9. SenderShape' BY <1>1, <1>2, <1>5 DEF SenderShape, TypeOK, ApiTypeOK
<1>10. CountedOnce'
  <2>1. /\ pc'[t] = "free_message" /\ req'[t] = m
        /\ \A u \in Threads \ {t} :
            /\ pc'[u] = pc[u]
            /\ pc[u] \in {"payload", "undo", "created"} =>
                 cur'[u] = cur[u] /\ msg'[cur[u]] = msg[cur[u]]
            /\ pc[u] \in {"decrement", "free_payload", "free_message"} =>
                 req'[u] = req[u] /\ msg'[req[u]] = msg[req[u]]
    BY <1>1, <1>2, <1>5, <1>7 DEF SenderShape, TypeOK, ApiTypeOK
  <2> QED BY <1>7, <2>1 DEF CountedOnce
<1>11. HeldOnce' /\ QueuedStaysOut' BY <1>5 DEF HeldOnce, QueuedStaysOut
<1>12. PayloadsApart'
  <2>1. router_payloads' = router_payloads \cup {b} /\ router_pool' = router_pool
    BY <1>5
  <2>2. NULL \notin router_payloads' BY <1>3, <2>1 DEF TypeOK, ApiTypeOK
  <2> QED BY <1>2, <1>4, <1>7, <2>1, <2>2 DEF PayloadsApart
<1>13. FailedSendReturnsBlocks'
  <2>1. \A n \in Msgs \ (router_pool' \cup sent') :
          \E u \in Threads : cur'[u] = n \/ req'[u] = n
    BY <1>5 DEF FailedSendReturnsBlocks
  <2>2. ASSUME NEW c \in Bufs \ router_payloads'
        PROVE  \E n \in Msgs \ router_pool' : msg'[n].payload = c
    <3>1. c # b /\ c \in Bufs \ router_payloads BY <1>5
    <3>2. PICK n \in Msgs \ router_pool : msg[n].payload = c
      BY <3>1 DEF FailedSendReturnsBlocks
    <3> QED BY <1>3, <1>5, <1>7, <3>1, <3>2
  <2> QED BY <2>1, <2>2 DEF FailedSendReturnsBlocks
<1> QED BY <1>8, <1>9, <1>10, <1>11, <1>12, <1>13

LEMMA FreeMessageInv ==
  ASSUME RouterInv, NEW t \in Threads, FreeMessage(t),
         UNCHANGED <<router_input, routerVars, sent>>
  PROVE  RouterInv'
<1> USE MessagesAssumption DEF RouterInv
<1>1. PICK m \in Msgs : m = req[t] BY DEF FreeMessage, SenderShape
<1>2. /\ pc[t] = "free_message" /\ cur[t] = NULL /\ msg[m].payload = NULL
      /\ m \notin router_pool /\ m \notin sent
      /\ \A u \in Threads \ {t} : cur[u] # m /\ req[u] # m
  BY <1>1 DEF FreeMessage, SenderShape, CountedOnce, HeldOnce
<1>3. /\ pc' = [pc EXCEPT ![t] = "idle"]
      /\ req' = [req EXCEPT ![t] = NULL]
      /\ router_pool' = router_pool \cup {m}
      /\ UNCHANGED <<router_payloads, msg, cur, router_input, dest_mask, client, sent>>
  BY <1>1, <1>2 DEF FreeMessage, Return, Goto, routerVars
<1>4. TypeOK' BY <1>3 DEF TypeOK, ApiTypeOK, PC
<1>5. SenderShape' /\ CountedOnce'
  BY <1>2, <1>3 DEF SenderShape, CountedOnce, TypeOK, ApiTypeOK
<1>6. HeldOnce' BY <1>2, <1>3 DEF HeldOnce, TypeOK, ApiTypeOK
<1>7. PayloadsApart' /\ QueuedStaysOut' BY <1>2, <1>3 DEF PayloadsApart, QueuedStaysOut
<1>8. FailedSendReturnsBlocks'
  <2>1. \A n \in Msgs \ (router_pool' \cup sent') :
          \E u \in Threads : cur'[u] = n \/ req'[u] = n
    BY <1>1, <1>3 DEF FailedSendReturnsBlocks, TypeOK, ApiTypeOK
  <2>2. \A b \in Bufs \ router_payloads' :
          \E n \in Msgs \ router_pool' : msg'[n].payload = b
    BY <1>2, <1>3 DEF FailedSendReturnsBlocks
  <2> QED BY <2>1, <2>2 DEF FailedSendReturnsBlocks
<1> QED BY <1>4, <1>5, <1>6, <1>7, <1>8

\* The router task changes nothing the senders hold.
LEMMA RouterSteps ==
  ASSUME RouterInv, Receive \/ RouteBit
  PROVE  RouterInv'
<1> USE DEF RouterInv
<1>1. /\ UNCHANGED <<router_pool, router_payloads, msg, pc, cur, req, sent>>
  BY DEF Receive, RouteBit, apiVars
<1>2. CASE Receive
  <2>1. Head(router_input) \in Words /\ Tail(router_input) \in Seq(Words)
    BY <1>2 DEF Receive, TypeOK
  <2> QED BY <1>1, <1>2, <2>1
          DEF Receive, Words, TypeOK, ApiTypeOK, SenderShape, HeldOnce, CountedOnce,
              PayloadsApart, FailedSendReturnsBlocks, QueuedStaysOut
<1>3. CASE RouteBit
  <2>1. PICK target : /\ client' = Lookup(target)
                      /\ dest_mask' = dest_mask \ {target}
                      /\ router_input' = router_input
    BY <1>3 DEF RouteBit
  <2>2. client' \in {outputs[i] : i \in DOMAIN outputs} \cup {"out_of_bounds"}
    BY <2>1 DEF Lookup
  <2> QED BY <1>1, <2>1, <2>2
          DEF TypeOK, ApiTypeOK, SenderShape, HeldOnce, CountedOnce,
              PayloadsApart, FailedSendReturnsBlocks, QueuedStaysOut
<1> QED BY <1>2, <1>3

LEMMA InitInv ==
  ASSUME Init
  PROVE  RouterInv
<1> USE MessagesAssumption
<1>1. TypeOK
  <2>1. \A m \in Msgs : msg[m] \in Message
    <3>1. 0 \in 0 .. CountMod - 1 BY OneDestination
    <3> QED BY <3>1 DEF Init, ApiInit, Message
  <2>2. client \in {outputs[i] : i \in DOMAIN outputs}
    <3>1. 0 \in DOMAIN outputs /\ outputs[0] = "nullptr" BY DEF outputs
    <3> QED BY <3>1 DEF Init
  <2>3. msg \in [Msgs -> Message] BY <2>1 DEF Init, ApiInit
  <2>4. ApiTypeOK BY <2>3 DEF Init, ApiInit, ApiTypeOK, PC
  <2>5. router_input \in Seq(Words) BY DEF Init
  <2> QED BY <2>2, <2>4, <2>5 DEF Init, TypeOK
<1>2. SenderShape /\ HeldOnce /\ CountedOnce
  BY DEF Init, ApiInit, SenderShape, HeldOnce, CountedOnce
<1>3. PayloadsApart /\ FailedSendReturnsBlocks /\ QueuedStaysOut
  BY DEF Init, ApiInit, PayloadsApart, FailedSendReturnsBlocks, QueuedStaysOut
<1> QED BY <1>1, <1>2, <1>3 DEF RouterInv

LEMMA StutterInv ==
  ASSUME RouterInv, UNCHANGED vars
  PROVE  RouterInv'
BY DEF vars, RouterInv, TypeOK, ApiTypeOK, SenderShape, HeldOnce, CountedOnce,
       PayloadsApart, FailedSendReturnsBlocks, QueuedStaysOut

LEMMA NextInv ==
  ASSUME RouterInv, [Next]_vars
  PROVE  RouterInv'
<1>1. ASSUME NEW t \in Threads,
             Prepare(t) \/ Send(t) \/ SendFails(t) \/ Continue(t)
      PROVE  RouterInv'
  <2>1. CASE Continue(t)
    BY <2>1, PayloadInv, UndoInv, DecrementInv, FreePayloadInv, FreeMessageInv
       DEF Continue, ApiStep
  <2> QED BY <1>1, <2>1, PrepareInv, SendInv, SendFailsInv
<1> QED BY <1>1, RouterSteps, StutterInv DEF Next

\* A message that could not be queued goes back to its pool with its payload,
\* one that was queued is never released by its sender: the creation and the
\* failure branches of usbx_bridge_recv_task and USBX_USARTBridgeChange, for
\* pools and queues of any size.
THEOREM RouterInvariant == Spec => []RouterInv
<1>1. Init => RouterInv BY InitInv
<1>2. RouterInv /\ [Next]_vars => RouterInv' BY NextInv
<1> QED BY <1>1, <1>2, PTL DEF Spec
=============================================================================
