-------------------------------- MODULE Muxer --------------------------------
(***************************************************************************)
(* Threads that exchange messages through the API of module Messages, as   *)
(* muxer/include/task_muxer.h asks of them: producers create messages,     *)
(* clients receive them and then either consume them or respond, once.     *)
(*                                                                         *)
(* Delivery is external: muxer_task leaves it "To do", so it is the copy   *)
(* of the pointer to every destination that the header describes.  What    *)
(* muxer_task does today is module UsbRouter.                              *)
(***************************************************************************)
EXTENDS Messages

CONSTANTS
  Producers,  \* threads that only create messages
  Clients,    \* threads that receive messages: each is named by its bit
  Masks       \* the destination masks given to create_message

ASSUME MuxerAssumption ==
  /\ Threads = Producers \cup Clients
  /\ Producers \cap Clients = {}
  /\ Clients \subseteq Bits
  /\ Masks \subseteq (SUBSET Bits) \ {{}}

VARIABLE inbox   \* the messages queued for each client

vars == <<router_pool, router_payloads, msg, pc, cur, req, inbox>>

Init == ApiInit /\ inbox = [c \in Clients |-> {}]

Produce(p, dest, src, arg) ==
  /\ pc[p] = "idle"
  /\ CreateMessage(p, dest, {src}, arg)
  /\ UNCHANGED inbox

Deliver(t) ==
  /\ pc[t] = "created"
  /\ inbox' = [c \in Clients |-> IF c \in msg[cur[t]].destination
                                 THEN inbox[c] \cup {cur[t]} ELSE inbox[c]]
  /\ cur' = [cur EXCEPT ![t] = NULL]
  /\ Goto(t, "idle")
  /\ UNCHANGED <<router_pool, router_payloads, msg, req>>

Take(c, m) ==
  /\ pc[c] = "idle"
  /\ m \in inbox[c]
  /\ inbox' = [inbox EXCEPT ![c] = @ \ {m}]
  /\ req' = [req EXCEPT ![c] = m]
  /\ Goto(c, "handling")
  /\ UNCHANGED <<router_pool, router_payloads, msg, cur>>

\* What a client does with the message it received.
Handle(c) ==
  /\ \/ Consume(c)
     \/ \E arg \in PayloadArg : Respond(c, arg)
  /\ UNCHANGED inbox

Continue(t) == ApiStep(t) /\ UNCHANGED inbox

Next ==
  \/ \E p \in Producers, dest \in Masks, src \in Clients, arg \in PayloadArg :
       Produce(p, dest, src, arg)
  \/ \E t \in Threads : Deliver(t) \/ Continue(t)
  \/ \E c \in Clients : Handle(c) \/ \E m \in Msgs : Take(c, m)

\* A thread inside the API, or with a message to deliver or to handle, is
\* scheduled again; a client returns to its queue, which is first in first
\* out: a message that waits there is taken.  Nothing forces a new message.
Fairness ==
  /\ \A t \in Threads : WF_vars(Deliver(t)) /\ WF_vars(Continue(t))
  /\ \A c \in Clients : /\ WF_vars(Handle(c))
                        /\ \A m \in Msgs : SF_vars(Take(c, m))

Spec == Init /\ [][Next]_vars

FairSpec == Spec /\ Fairness

-----------------------------------------------------------------------------
TypeOK == ApiTypeOK /\ inbox \in [Clients -> SUBSET Msgs]

\* A client that received m and has not decremented its count yet.
Using(c, m) == /\ req[c] = m
               /\ pc[c] \in {"handling", "payload", "undo", "decrement"}

Holders(m) == {c \in Clients : m \in inbox[c] \/ Using(c, m)}

\* A thread builds m, or built it and has not delivered it.
Building(t, m) == cur[t] = m

\* The thread that took the count to 0 and has not finished the releases.
Freeing(t, m) == req[t] = m /\ pc[t] \in {"free_payload", "free_message"}

\* The payload pointer of m is set: m is out of the pool, and past the
\* allocation of its payload if it is being built.
PayloadSet(m) ==
  /\ m \notin router_pool
  /\ msg[m].payload # NULL
  /\ ~ \E t \in Threads : Building(t, m) /\ pc[t] \in {"payload", "undo"}

\* The count of a delivered message is the number of destinations that have
\* not consumed it: "Set to the number of destinations. Atomically decremented
\* after each process" (task_muxer.h:114).
CountIsHolders ==
  \A m \in Msgs : Holders(m) # {} => msg[m].count = Cardinality(Holders(m))

\* As long as a destination has not consumed a message, neither its block nor
\* its payload is available for another message: consume_message frees both
\* for the last client only.
NoUseAfterFree ==
  \A m \in Msgs : Holders(m) # {} =>
    /\ m \notin router_pool
    /\ msg[m].payload \notin router_payloads

\* Two messages never share a payload block: the copy create_message made for
\* one is not written by the creation of another.
PayloadExclusive ==
  \A m, n \in Msgs :
    PayloadSet(m) /\ PayloadSet(n) /\ msg[m].payload = msg[n].payload => m = n

\* No block is lost: a message block out of the pool is held by a destination,
\* or in the hands of exactly the thread that builds or frees it; a payload
\* block out of the pool belongs to such a message.
NoLostBlock ==
  /\ \A m \in Msgs \ router_pool :
       \/ Holders(m) # {}
       \/ \E t \in Threads : Building(t, m) \/ Freeing(t, m)
  /\ \A b \in Bufs \ router_payloads :
       \E m \in Msgs : PayloadSet(m) /\ msg[m].payload = b

\* A message that left the pool comes back to it, whatever its clients do:
\* consume or respond, with or without a response in the end.
BlocksReturn ==
  \A m \in Msgs : m \notin router_pool ~> m \in router_pool

-----------------------------------------------------------------------------
\* The inductive invariant behind these properties (module MuxerProofs).

\* The pointers a thread holds at each program point.
ThreadShape ==
  \A t \in Threads :
    /\ pc[t] = "idle" => cur[t] = NULL /\ req[t] = NULL
    /\ pc[t] = "handling" => cur[t] = NULL /\ req[t] # NULL
    /\ pc[t] \in {"payload", "undo"} => cur[t] # NULL
    /\ pc[t] = "created" => cur[t] # NULL /\ req[t] = NULL
    /\ pc[t] \in {"decrement", "free_payload", "free_message"} => req[t] # NULL
    /\ req[t] # NULL => t \in Clients

\* A message under construction belongs to one thread, and counts its
\* destinations once its payload is settled.
OneBuilder ==
  \A t \in Threads : \A m \in Msgs : Building(t, m) =>
    /\ m \notin router_pool
    /\ Holders(m) = {}
    /\ \A u \in Threads : req[u] # m /\ (Building(u, m) => u = t)
    /\ pc[t] \notin {"payload", "undo"} =>
         msg[m].count = Cardinality(msg[m].destination)

\* A message being freed belongs to one thread; its payload goes first.
OneFreer ==
  \A t \in Threads : \A m \in Msgs : Freeing(t, m) =>
    /\ m \notin router_pool
    /\ Holders(m) = {}
    /\ \A u \in Threads : req[u] = m => u = t
    /\ pc[t] = "free_payload" <=> msg[m].payload # NULL

\* A client has a message either in its queue or in hand.
OneReference ==
  \A c \in Clients : \A m \in Msgs : ~ (m \in inbox[c] /\ req[c] = m)

\* Messages out of the pool come from and go to clients.
LiveMasks ==
  \A m \in Msgs \ router_pool :
    /\ msg[m].source \in (SUBSET Clients) \ {{}}
    /\ msg[m].destination \in (SUBSET Clients) \ {{}}

\* A payload in use is not available.
PayloadOut ==
  \A m \in Msgs : PayloadSet(m) => msg[m].payload \notin router_payloads

MuxerInv ==
  /\ TypeOK
  /\ ThreadShape
  /\ OneBuilder
  /\ OneFreer
  /\ OneReference
  /\ LiveMasks
  /\ PayloadOut
  /\ PayloadExclusive
  /\ CountIsHolders
  /\ NoUseAfterFree
  /\ NoLostBlock

-----------------------------------------------------------------------------
\* The counters implement the sets of holders of module MessageLifecycle.
StageOf(m) ==
  IF m \in router_pool THEN "free"
  ELSE IF Holders(m) # {} THEN "shared"
  ELSE IF \E t \in Threads : Building(t, m) THEN "building"
  ELSE "dying"

Lifecycle == INSTANCE MessageLifecycle
               WITH stage <- [m \in Msgs |-> StageOf(m)],
                    holders <- [m \in Msgs |-> Holders(m)]

\* Every message goes through the life MessageLifecycle describes: it is
\* reclaimed after its last destination consumed it, and only then.
ImplementsLifecycle == Lifecycle!Spec
=============================================================================
