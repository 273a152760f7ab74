------------------------------ MODULE Messages ------------------------------
(***************************************************************************)
(* The message API of muxer/src/task_muxer.cpp: create_message,            *)
(* consume_message and create_response_message, run by concurrent threads  *)
(* over the two ThreadX block pools router_pool and router_payloads.       *)
(*                                                                         *)
(* A step is what a thread does between two ThreadX calls (or the atomic   *)
(* __sync_fetch_and_sub): the kernel may switch threads at each of them.   *)
(* A mask of destination bits is a set of bits.  type, info and the bytes  *)
(* of the payload are left out: no step reads them.                        *)
(***************************************************************************)
EXTENDS Integers, FiniteSets

CONSTANTS
  Threads,      \* the threads that call the API
  Msgs,         \* blocks of router_pool, one muxerInput_t each
  Bufs,         \* blocks of router_payloads, one payload each
  Bits,         \* the bits of muxerDestination_t and muxerSource_t
  CountMod,     \* muxerInput_t.count counts modulo this (2^16)
  NULL          \* nullptr

ASSUME MessagesAssumption ==
  /\ IsFiniteSet(Bits)
  /\ CountMod \in Nat
  /\ Cardinality(Bits) < CountMod
  /\ NULL \notin Msgs \cup Bufs

VARIABLES
  router_pool,      \* available blocks of the message pool
  router_payloads,  \* available blocks of the payload pool
  msg,              \* contents of each message block, stale when available
  pc,               \* where each thread is in the API
  cur,              \* the message a thread is building, or has built
  req               \* the message a thread received and has to consume

apiVars == <<router_pool, router_payloads, msg, pc, cur, req>>

Message == [source : SUBSET Bits, destination : SUBSET Bits,
            count : 0 .. CountMod - 1, payload : Bufs \cup {NULL}]

\* What the payload arguments of create_message ask for: nothing (no pointer,
\* or a null size), a payload that fits, or more than ROUTER_TYPICAL_PAYLOAD.
PayloadArg == {"none", "fits", "too_large"}

\* Program points of a thread: outside the API, handling a received message,
\* before the payload allocation, before the release that undoes a failed
\* creation, holding a created message, and the three steps of a consumption.
PC == {"idle", "handling", "payload", "undo", "created",
       "decrement", "free_payload", "free_message"}

ApiInit ==
  /\ router_pool = Msgs
  /\ router_payloads = Bufs
  /\ msg = [m \in Msgs |-> [source |-> {}, destination |-> {},
                            count |-> 0, payload |-> NULL]]
  /\ pc = [t \in Threads |-> "idle"]
  /\ cur = [t \in Threads |-> NULL]
  /\ req = [t \in Threads |-> NULL]

Goto(t, where) == pc' = [pc EXCEPT ![t] = where]

-----------------------------------------------------------------------------
\* create_message and create_response_message

\* Where a thread goes when its creation returned a message, or nullptr: a
\* response goes on to consume the request in both cases.
AfterCreate(t) == IF req[t] = NULL THEN "created" ELSE "decrement"

\* Mutant: a response that cannot be created leaves its request unconsumed.
AfterFailureKeeps(t) == "idle"
AfterFailure(t) == IF req[t] = NULL THEN "idle" ELSE "decrement"

\* Mutant: one client is counted whatever the mask.
PopCountOne(mask) == 1

\* __builtin_popcount of the destination mask.
PopCount(mask) == Cardinality(mask)

\* The size check, the allocation of the block and the fields set from the
\* arguments.  Without a payload nothing else can fail or be interleaved, so
\* the count is set in the same step.
CreateMessage(t, dest, src, arg) ==
  /\ UNCHANGED <<router_payloads, req>>
  /\ \/ /\ arg = "too_large" \/ router_pool = {}
        /\ Goto(t, AfterFailure(t))
        /\ UNCHANGED <<router_pool, msg, cur>>
     \/ /\ arg # "too_large"
        /\ \E m \in router_pool :
             /\ router_pool' = router_pool \ {m}
             /\ cur' = [cur EXCEPT ![t] = m]
             /\ IF arg = "fits"
                THEN /\ msg' = [msg EXCEPT ![m].source = src,
                                           ![m].destination = dest]
                     /\ Goto(t, "payload")
                ELSE /\ msg' = [msg EXCEPT ![m] =
                                  [source |-> src, destination |-> dest,
                                   count |-> PopCount(dest), payload |-> NULL]]
                     /\ Goto(t, AfterCreate(t))

\* The allocation of the payload block, then the copy and the count.
CreatePayload(t) ==
  /\ pc[t] = "payload"
  /\ UNCHANGED <<router_pool, cur, req>>
  /\ \/ /\ router_payloads = {}
        /\ Goto(t, "undo")
        /\ UNCHANGED <<router_payloads, msg>>
     \/ \E b \in router_payloads :
          /\ router_payloads' = router_payloads \ {b}
          /\ msg' = [msg EXCEPT ![cur[t]].payload = b,
                                ![cur[t]].count =
                                  PopCount(msg[cur[t]].destination)]
          /\ Goto(t, AfterCreate(t))

\* Mutant: nullptr is returned without the release.
CreateUndoLeaks(t) ==
  /\ pc[t] = "undo"
  /\ cur' = [cur EXCEPT ![t] = NULL]
  /\ Goto(t, AfterFailure(t))
  /\ UNCHANGED <<router_pool, router_payloads, msg, req>>

\* No payload block was left: the message block is released, nullptr returned.
CreateUndo(t) ==
  /\ pc[t] = "undo"
  /\ router_pool' = router_pool \cup {cur[t]}
  /\ cur' = [cur EXCEPT ![t] = NULL]
  /\ Goto(t, AfterFailure(t))
  /\ UNCHANGED <<router_payloads, msg, req>>

\* create_response_message: the answer goes to the source of the request and
\* carries its destination mask as source.  The request is consumed afterwards.
Respond(t, arg) ==
  /\ pc[t] = "handling"
  /\ CreateMessage(t, msg[req[t]].source, msg[req[t]].destination, arg)

-----------------------------------------------------------------------------
\* consume_message

Consume(t) ==
  /\ pc[t] = "handling"
  /\ Goto(t, "decrement")
  /\ UNCHANGED <<router_pool, router_payloads, msg, cur, req>>

\* uint16_t arithmetic of __sync_fetch_and_sub.
Pred(count) == IF count = 0 THEN CountMod - 1 ELSE count - 1

\* consume_message returns: the request is gone, and a response that was
\* built before goes back to the caller, unless the release of the request
\* reported an error.
Return(t, ok) ==
  /\ req' = [req EXCEPT ![t] = NULL]
  /\ cur' = IF ok THEN cur ELSE [cur EXCEPT ![t] = NULL]
  /\ Goto(t, IF ok /\ cur[t] # NULL THEN "created" ELSE "idle")

\* Mutant: the new value is tested, as __sync_sub_and_fetch would return it.
LastClientNew(count) == Pred(count) = 1

\* Only the thread that takes the count from 1 to 0 goes on to the releases.
LastClient(count) == count = 1

Decrement(t) ==
  /\ pc[t] = "decrement"
  /\ LET m == req[t]
     IN  /\ msg' = [msg EXCEPT ![m].count = Pred(msg[m].count)]
         /\ IF LastClient(msg[m].count)
            THEN /\ Goto(t, IF msg[m].payload # NULL THEN "free_payload"
                                                     ELSE "free_message")
                 /\ UNCHANGED <<cur, req>>
            ELSE Return(t, TRUE)
  /\ UNCHANGED <<router_pool, router_payloads>>

\* tx_block_release refuses a block that is already available.
FreePayload(t) ==
  /\ pc[t] = "free_payload"
  /\ LET m == req[t]
         b == msg[m].payload
     IN  IF b \in router_payloads
         THEN Return(t, FALSE) /\ UNCHANGED <<router_payloads, msg>>
         ELSE /\ router_payloads' = router_payloads \cup {b}
              /\ msg' = [msg EXCEPT ![m].payload = NULL]
              /\ Goto(t, "free_message")
              /\ UNCHANGED <<cur, req>>
  /\ UNCHANGED router_pool

FreeMessage(t) ==
  /\ pc[t] = "free_message"
  /\ router_pool' = router_pool \cup {req[t]}
  /\ Return(t, req[t] \notin router_pool)
  /\ UNCHANGED <<router_payloads, msg>>

\* The steps a thread takes inside the API once it entered it.
ApiStep(t) ==
  \/ CreatePayload(t)
  \/ CreateUndo(t)
  \/ Decrement(t)
  \/ FreePayload(t)
  \/ FreeMessage(t)

-----------------------------------------------------------------------------
ApiTypeOK ==
  /\ router_pool \in SUBSET Msgs
  /\ router_payloads \in SUBSET Bufs
  /\ msg \in [Msgs -> Message]
  /\ pc \in [Threads -> PC]
  /\ cur \in [Threads -> Msgs \cup {NULL}]
  /\ req \in [Threads -> Msgs \cup {NULL}]
=============================================================================
