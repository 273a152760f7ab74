----------------------------- MODULE MuxerProofs -----------------------------
(***************************************************************************)
(* Proofs about module Muxer, for any number of threads, blocks and bits.  *)
(* They need that messages only name bits some client listens to.          *)
(***************************************************************************)
EXTENDS Muxer, TLAPS, FiniteSetTheorems

\* Every destination mask given to create_message only names clients.
OnlyClients == Masks \subseteq SUBSET Clients

LEMMA ClientsFinite ==
  ASSUME NEW S \in SUBSET Clients
  PROVE  IsFiniteSet(S) /\ Cardinality(S) \in 0 .. CountMod - 1
<1>1. S \in SUBSET Bits /\ IsFiniteSet(Bits)
  BY MessagesAssumption, MuxerAssumption
<1>2. IsFiniteSet(S) /\ Cardinality(S) <= Cardinality(Bits)
  BY <1>1, FS_Subset
<1>3. Cardinality(S) \in Nat /\ Cardinality(Bits) \in Nat
  BY <1>1, <1>2, FS_CardinalityType
<1> QED
  BY <1>2, <1>3, MessagesAssumption

LEMMA CountModPositive == CountMod \in Nat \ {0}
BY MessagesAssumption, FS_CardinalityType

LEMMA InitInv == Init => MuxerInv
<1> SUFFICES ASSUME Init PROVE MuxerInv
  OBVIOUS
<1> USE MessagesAssumption, MuxerAssumption DEF Init, ApiInit
<1>1. TypeOK
  <2>1. [source |-> {}, destination |-> {}, count |-> 0, payload |-> NULL]
        \in Message
    BY CountModPositive DEF Message
  <2> QED
    BY <2>1 DEF TypeOK, ApiTypeOK, PC
<1>2. \A m \in Msgs : Holders(m) = {}
  BY DEF Holders, Using
<1>3. ThreadShape /\ OneBuilder /\ OneFreer /\ OneReference /\ LiveMasks
  BY DEF ThreadShape, OneBuilder, OneFreer, OneReference, LiveMasks,
         Building, Freeing
<1>4. PayloadOut /\ PayloadExclusive /\ NoLostBlock
  BY DEF PayloadOut, PayloadExclusive, PayloadSet, NoLostBlock
<1>5. CountIsHolders /\ NoUseAfterFree
  BY <1>2 DEF CountIsHolders, NoUseAfterFree
<1> QED
  BY <1>1, <1>3, <1>4, <1>5 DEF MuxerInv

\* Nobody has a pointer to a message block that is in the pool.
LEMMA PoolUnreferenced ==
  ASSUME MuxerInv, NEW m \in router_pool
  PROVE  /\ Holders(m) = {}
         /\ \A t \in Threads : cur[t] # m /\ req[t] # m
<1> USE DEF MuxerInv
<1>1. m \in Msgs /\ m # NULL
  BY MessagesAssumption DEF TypeOK, ApiTypeOK
<1>2. Holders(m) = {}
  BY <1>1 DEF NoUseAfterFree
<1>3. ASSUME NEW t \in Threads PROVE cur[t] # m
  BY <1>1, <1>3 DEF OneBuilder, Building
<1>4. ASSUME NEW t \in Threads, req[t] = m PROVE FALSE
  <2>1. t \in Clients /\ ~ Using(t, m) /\ ~ Freeing(t, m)
    BY <1>1, <1>2, <1>4 DEF ThreadShape, OneFreer, Holders
  <2> QED
    BY <1>1, <1>4, <2>1
    DEF Using, Freeing, ThreadShape, TypeOK, ApiTypeOK, PC
<1> QED
  BY <1>2, <1>3, <1>4

\* A creation, by a producer or for a response, leaves the delivered messages
\* alone.
LEMMA CreateMessageInv ==
  ASSUME MuxerInv, UNCHANGED inbox, NEW t \in Threads, NEW arg \in PayloadArg,
         NEW dest \in (SUBSET Clients) \ {{}}, NEW src \in (SUBSET Clients) \ {{}},
         CreateMessage(t, dest, src, arg),
         \/ pc[t] = "idle"
         \/ pc[t] = "handling"
  PROVE  MuxerInv'
<1> USE MessagesAssumption, MuxerAssumption DEF MuxerInv
<1>1. /\ dest \in SUBSET Bits /\ src \in SUBSET Bits
      /\ PopCount(dest) \in 0 .. CountMod - 1
  BY ClientsFinite DEF PopCount
<1>2. ASSUME pc' = [pc EXCEPT ![t] = AfterFailure(t)],
             UNCHANGED <<router_pool, router_payloads, msg, cur, req>>
      PROVE  MuxerInv'
  <2>1. /\ \A n \in Msgs : Holders(n)' = Holders(n)
        /\ TypeOK'
        /\ ThreadShape'
    BY <1>2
    DEF Holders, Using, AfterFailure, TypeOK, ApiTypeOK, ThreadShape, PC
  <2>2. OneBuilder' /\ OneFreer' /\ OneReference' /\ LiveMasks'
    <3>1. OneBuilder'
      BY <1>2, <2>1
      DEF OneBuilder, Building, AfterFailure, TypeOK, ApiTypeOK, ThreadShape
    <3>2. OneFreer'
      BY <1>2, <2>1
      DEF OneFreer, Freeing, AfterFailure, TypeOK, ApiTypeOK
    <3> QED
      BY <1>2, <3>1, <3>2 DEF OneReference, LiveMasks
  <2>3. \A n \in Msgs : PayloadSet(n)' = PayloadSet(n)
    BY <1>2 DEF PayloadSet, Building, AfterFailure, TypeOK, ApiTypeOK, ThreadShape
  <2>4. /\ PayloadOut' /\ PayloadExclusive'
        /\ CountIsHolders' /\ NoUseAfterFree'
    BY <1>2, <2>1, <2>3
    DEF PayloadOut, PayloadExclusive, CountIsHolders, NoUseAfterFree
  <2>5. NoLostBlock'
    BY <1>2, <2>1, <2>3
    DEF NoLostBlock, Building, Freeing, AfterFailure, TypeOK, ApiTypeOK
  <2> QED
    BY <2>1, <2>2, <2>4, <2>5
<1>3. ASSUME NEW m \in router_pool,
             router_pool' = router_pool \ {m},
             cur' = [cur EXCEPT ![t] = m],
             UNCHANGED <<router_payloads, req>>,
             \/ /\ msg' = [msg EXCEPT ![m].source = src, ![m].destination = dest]
                /\ pc' = [pc EXCEPT ![t] = "payload"]
             \/ /\ msg' = [msg EXCEPT ![m] =
                             [source |-> src, destination |-> dest,
                              count |-> PopCount(dest), payload |-> NULL]]
                /\ pc' = [pc EXCEPT ![t] = AfterCreate(t)]
      PROVE  MuxerInv'
  <2>1. \A n \in Msgs : Holders(n)' = Holders(n)
    BY <1>3 DEF Holders, Using, AfterCreate, TypeOK, ApiTypeOK, ThreadShape
  <2>2. TypeOK'
    BY <1>1, <1>3 DEF TypeOK, ApiTypeOK, Message, PC, AfterCreate
  <2>3. \A n \in Msgs : n # m => msg'[n] = msg[n]
    BY <1>3 DEF TypeOK, ApiTypeOK
  <2>4. /\ msg'[m].source = src /\ msg'[m].destination = dest
        /\ pc'[t] # "payload" => /\ msg'[m].count = Cardinality(dest)
                                /\ msg'[m].payload = NULL
    BY <1>3 DEF TypeOK, ApiTypeOK, PopCount, Message, AfterCreate
  <2>5. ThreadShape'
    BY <1>3, MessagesAssumption DEF ThreadShape, AfterCreate, TypeOK, ApiTypeOK
  <2>6. /\ m \in Msgs /\ Holders(m) = {}
        /\ \A u \in Threads : cur[u] # m /\ req[u] # m
    BY PoolUnreferenced DEF TypeOK, ApiTypeOK
  <2>7. OneBuilder'
    <3> SUFFICES ASSUME NEW u \in Threads, NEW n \in Msgs, Building(u, n)'
                 PROVE  /\ n \notin router_pool' /\ Holders(n)' = {}
                        /\ \A v \in Threads :
                             req'[v] # n /\ (Building(v, n)' => v = u)
                        /\ pc'[u] \notin {"payload", "undo"} =>
                             msg'[n].count = Cardinality(msg'[n].destination)
      BY DEF OneBuilder
    <3>1. CASE u = t
      BY <1>3, <2>1, <2>4, <2>6, <3>1 DEF Building, TypeOK, ApiTypeOK
    <3>2. CASE u # t
      <4>1. Building(u, n) /\ n # m /\ pc'[u] = pc[u]
        BY <1>3, <2>6, <3>2 DEF Building, TypeOK, ApiTypeOK
      <4> QED
        BY <1>3, <2>1, <2>3, <4>1 DEF OneBuilder, Building, TypeOK, ApiTypeOK
    <3> QED
      BY <3>1, <3>2
  <2>8. OneFreer' /\ OneReference' /\ LiveMasks'
    <3>1. \A u \in Threads : \A n \in Msgs :
            Freeing(u, n)' => Freeing(u, n) /\ n # m /\ pc'[u] = pc[u]
      BY <1>3, <2>6 DEF Freeing, TypeOK, ApiTypeOK, AfterCreate
    <3>2. OneFreer'
      BY <1>3, <2>1, <2>3, <3>1 DEF OneFreer
    <3>3. LiveMasks'
      BY <1>3, <2>3, <2>4 DEF LiveMasks, TypeOK, ApiTypeOK
    <3> QED
      BY <1>3, <3>2, <3>3 DEF OneReference
  <2>9. \A n \in Msgs : PayloadSet(n)' = PayloadSet(n)
    BY <1>3, <2>3, <2>4, <2>6
    DEF PayloadSet, Building, TypeOK, ApiTypeOK, AfterCreate, ThreadShape
  <2>10. ~ PayloadSet(m)
    BY DEF PayloadSet
  <2>11. /\ PayloadOut' /\ PayloadExclusive'
         /\ CountIsHolders' /\ NoUseAfterFree'
    BY <1>3, <2>1, <2>3, <2>6, <2>9, <2>10
    DEF PayloadOut, PayloadExclusive, CountIsHolders, NoUseAfterFree
  <2>4a. NoLostBlock'
    BY <1>3, <2>1, <2>3, <2>6, <2>9, <2>10
    DEF NoLostBlock, Building, Freeing, TypeOK, ApiTypeOK, AfterCreate, ThreadShape
  <2> QED
    BY <2>2, <2>5, <2>7, <2>8, <2>11, <2>4a
<1> QED
  BY <1>2, <1>3 DEF CreateMessage, Goto

LEMMA CreatePayloadInv ==
  ASSUME MuxerInv, UNCHANGED inbox, NEW t \in Threads, CreatePayload(t)
  PROVE  MuxerInv'
<1> USE MessagesAssumption, MuxerAssumption DEF MuxerInv
<1> DEFINE m == cur[t]
<1>1. /\ m \in Msgs /\ Building(t, m) /\ pc[t] = "payload"
      /\ m \notin router_pool /\ Holders(m) = {}
      /\ \A u \in Threads : req[u] # m /\ (cur[u] = m => u = t)
      /\ ~ PayloadSet(m)
  BY DEF CreatePayload, ThreadShape, OneBuilder, Building, TypeOK, ApiTypeOK,
         PayloadSet
<1>2. CASE pc' = [pc EXCEPT ![t] = "undo"] /\ UNCHANGED <<router_payloads, msg>>
  <2>1. UNCHANGED <<router_pool, cur, req>>
    BY DEF CreatePayload
  <2>2. \A n \in Msgs : Holders(n)' = Holders(n)
    BY <1>1, <1>2, <2>1 DEF Holders, Using, TypeOK, ApiTypeOK
  <2>3. TypeOK' /\ ThreadShape'
    BY <1>1, <1>2, <2>1 DEF TypeOK, ApiTypeOK, ThreadShape, PC
  <2>4. OneBuilder'
    BY <1>1, <1>2, <2>1, <2>2 DEF OneBuilder, Building, TypeOK, ApiTypeOK
  <2>5. OneFreer' /\ OneReference' /\ LiveMasks'
    <3>1. OneFreer'
      BY <1>1, <1>2, <2>1, <2>2 DEF OneFreer, Freeing, TypeOK, ApiTypeOK
    <3> QED
      BY <1>2, <2>1, <3>1 DEF OneReference, LiveMasks
  <2>6. \A n \in Msgs : PayloadSet(n)' = PayloadSet(n)
    BY <1>1, <1>2, <2>1 DEF PayloadSet, Building, TypeOK, ApiTypeOK
  <2>7. /\ PayloadOut' /\ PayloadExclusive'
        /\ CountIsHolders' /\ NoUseAfterFree'
    BY <1>2, <2>1, <2>2, <2>6
    DEF PayloadOut, PayloadExclusive, CountIsHolders, NoUseAfterFree
  <2>8. NoLostBlock'
    BY <1>1, <1>2, <2>1, <2>2, <2>6
    DEF NoLostBlock, Building, Freeing, TypeOK, ApiTypeOK
  <2> QED
    BY <2>3, <2>4, <2>5, <2>7, <2>8
<1>3. ASSUME NEW b \in router_payloads,
             router_payloads' = router_payloads \ {b},
             msg' = [msg EXCEPT ![m].payload = b,
                                ![m].count = PopCount(msg[m].destination)],
             pc' = [pc EXCEPT ![t] = AfterCreate(t)]
      PROVE  MuxerInv'
  <2>1. UNCHANGED <<router_pool, cur, req>>
    BY DEF CreatePayload
  <2>2. \A n \in Msgs : Holders(n)' = Holders(n)
    BY <1>1, <1>3, <2>1
    DEF Holders, Using, AfterCreate, TypeOK, ApiTypeOK, ThreadShape
  <2>3. /\ \A n \in Msgs : n # m => msg'[n] = msg[n]
        /\ msg'[m] = [msg[m] EXCEPT !.payload = b,
                          !.count = Cardinality(msg[m].destination)]
    BY <1>1, <1>3 DEF TypeOK, ApiTypeOK, PopCount
  <2>4. Cardinality(msg[m].destination) \in 0 .. CountMod - 1
    BY <1>1, ClientsFinite DEF LiveMasks
  <2> DEFINE new == msg'[m]
  <2>4a. /\ new \in Message
         /\ new.source = msg[m].source
         /\ new.destination = msg[m].destination
         /\ new.count = Cardinality(new.destination)
         /\ new.payload = b /\ b # NULL
    <3> HIDE DEF new, m
    <3>1. msg[m] \in Message /\ b \in Bufs
      BY <1>1 DEF TypeOK, ApiTypeOK
    <3>2. new = [msg[m] EXCEPT !.payload = b,
                               !.count = Cardinality(msg[m].destination)]
      BY <2>3 DEF new
    <3> QED
      BY <2>4, <3>1, <3>2 DEF Message
  <2>4b. router_payloads' = router_payloads \ {b} /\ msg'[m].payload = b
    BY <1>3, <2>4a
  <2>5. TypeOK' /\ ThreadShape'
    <3>1. msg'[m] \in Message
      BY <2>4a
    <3>2. msg' \in [Msgs -> Message]
      BY <1>1, <1>3, <2>3, <3>1 DEF TypeOK, ApiTypeOK
    <3> QED
      BY <1>1, <1>3, <2>1, <3>2
      DEF TypeOK, ApiTypeOK, ThreadShape, AfterCreate, PC
  <2>6. OneBuilder'
    <3>1. \A u \in Threads : \A n \in Msgs :
            Building(u, n)' => Building(u, n) /\ (n = m <=> u = t)
      BY <1>1, <2>1 DEF Building
    <3> SUFFICES ASSUME NEW u \in Threads, NEW n \in Msgs, Building(u, n)'
                 PROVE  /\ n \notin router_pool' /\ Holders(n)' = {}
                        /\ \A v \in Threads :
                             req'[v] # n /\ (Building(v, n)' => v = u)
                        /\ pc'[u] \notin {"payload", "undo"} =>
                             msg'[n].count = Cardinality(msg'[n].destination)
      BY DEF OneBuilder
    <3>2. CASE u = t
      BY <1>1, <2>1, <2>2, <2>4a, <3>1, <3>2 DEF Building
    <3>3. CASE u # t
      <4>1. pc'[u] = pc[u] /\ n # m /\ Building(u, n)
        BY <1>3, <3>1, <3>3 DEF TypeOK, ApiTypeOK
      <4> QED
        BY <2>1, <2>2, <2>3, <3>1, <4>1 DEF OneBuilder, Building
    <3> QED
      BY <3>2, <3>3
  <2>7. OneFreer' /\ OneReference' /\ LiveMasks'
    <3>1. \A u \in Threads : \A n \in Msgs :
            Freeing(u, n)' => Freeing(u, n) /\ n # m /\ pc'[u] = pc[u]
      BY <1>1, <1>3, <2>1 DEF Freeing, AfterCreate, TypeOK, ApiTypeOK
    <3>2. OneFreer'
      BY <2>1, <2>2, <2>3, <3>1 DEF OneFreer
    <3> QED
      BY <1>1, <2>1, <2>3, <2>4a, <3>2 DEF OneReference, LiveMasks
  <2>8. /\ \A n \in Msgs : n # m => PayloadSet(n)' = PayloadSet(n)
        /\ PayloadSet(m)'
    BY <1>1, <1>3, <2>1, <2>3
    DEF PayloadSet, Building, AfterCreate, TypeOK, ApiTypeOK
  <2>9. PayloadOut' /\ PayloadExclusive'
    <3>1. \A n \in Msgs : n # m /\ PayloadSet(n)' =>
            /\ PayloadSet(n) /\ msg'[n] = msg[n]
            /\ msg[n].payload \notin router_payloads /\ msg[n].payload # b
      BY <1>3, <2>3, <2>8 DEF PayloadOut
    <3>2. PayloadOut'
      BY <2>4b, <3>1 DEF PayloadOut
    <3>3. PayloadExclusive'
      BY <2>4b, <3>1 DEF PayloadExclusive
    <3> QED
      BY <3>2, <3>3
  <2>10. CountIsHolders' /\ NoUseAfterFree'
    <3>1. \A n \in Msgs : Holders(n)' # {} =>
            n # m /\ Holders(n) # {} /\ msg'[n] = msg[n]
      BY <1>1, <2>2, <2>3
    <3> QED
      BY <2>1, <2>2, <2>4b, <3>1 DEF CountIsHolders, NoUseAfterFree
  <2>11. NoLostBlock'
    BY <1>1, <1>3, <2>1, <2>2, <2>3, <2>4a, <2>8
    DEF NoLostBlock, Building, Freeing, AfterCreate, TypeOK, ApiTypeOK
  <2> QED
    BY <2>5, <2>6, <2>7, <2>9, <2>10, <2>11
<1> QED
  BY <1>2, <1>3 DEF CreatePayload, Goto

LEMMA CreateUndoInv ==
  ASSUME MuxerInv, UNCHANGED inbox, NEW t \in Threads, CreateUndo(t)
  PROVE  MuxerInv'
<1> USE MessagesAssumption, MuxerAssumption DEF MuxerInv
<1> DEFINE m == cur[t]
<1>1. /\ m \in Msgs /\ pc[t] = "undo"
      /\ m \notin router_pool /\ Holders(m) = {}
      /\ \A u \in Threads : req[u] # m /\ (cur[u] = m => u = t)
      /\ ~ PayloadSet(m)
  BY DEF CreateUndo, ThreadShape, OneBuilder, Building, TypeOK, ApiTypeOK,
         PayloadSet
<1>2. /\ router_pool' = router_pool \cup {m}
      /\ cur' = [cur EXCEPT ![t] = NULL]
      /\ pc' = [pc EXCEPT ![t] = IF req[t] = NULL THEN "idle" ELSE "decrement"]
      /\ UNCHANGED <<router_payloads, msg, req>>
  BY DEF CreateUndo, Goto, AfterFailure
<1>3. \A n \in Msgs : Holders(n)' = Holders(n)
  BY <1>1, <1>2 DEF Holders, Using, TypeOK, ApiTypeOK
<1>4. TypeOK' /\ ThreadShape'
  BY <1>1, <1>2 DEF TypeOK, ApiTypeOK, ThreadShape, PC
<1>5. OneBuilder'
  <2>1. \A u \in Threads : \A n \in Msgs :
          Building(u, n)' => Building(u, n) /\ u # t /\ n # m /\ pc'[u] = pc[u]
    BY <1>1, <1>2 DEF Building, TypeOK, ApiTypeOK
  <2> QED
    BY <1>2, <1>3, <2>1 DEF OneBuilder
<1>6. OneFreer' /\ OneReference' /\ LiveMasks'
  <2>1. \A u \in Threads : \A n \in Msgs :
          Freeing(u, n)' => Freeing(u, n) /\ n # m /\ pc'[u] = pc[u]
    BY <1>1, <1>2 DEF Freeing, TypeOK, ApiTypeOK
  <2>2. OneFreer'
    BY <1>2, <1>3, <2>1 DEF OneFreer
  <2> QED
    BY <1>2, <2>2 DEF OneReference, LiveMasks
<1>7. \A n \in Msgs : PayloadSet(n)' = PayloadSet(n)
  BY <1>1, <1>2 DEF PayloadSet, Building, TypeOK, ApiTypeOK
<1>8. PayloadOut' /\ PayloadExclusive' /\ CountIsHolders' /\ NoUseAfterFree'
  BY <1>1, <1>2, <1>3, <1>7
  DEF PayloadOut, PayloadExclusive, CountIsHolders, NoUseAfterFree
<1>9. NoLostBlock'
  BY <1>1, <1>2, <1>3, <1>7
  DEF NoLostBlock, Building, Freeing, TypeOK, ApiTypeOK
<1> QED
  BY <1>4, <1>5, <1>6, <1>8, <1>9

\* A delivery turns the destinations of the message into its holders.
LEMMA DeliverInv ==
  ASSUME MuxerInv, NEW t \in Threads, Deliver(t)
  PROVE  MuxerInv'
<1> USE MessagesAssumption, MuxerAssumption DEF MuxerInv
<1> PICK m \in Msgs : m = cur[t]
  BY DEF Deliver, ThreadShape, TypeOK, ApiTypeOK
<1>1. /\ cur[t] = m /\ pc[t] = "created" /\ req[t] = NULL
      /\ m \notin router_pool /\ Holders(m) = {}
      /\ \A u \in Threads : req[u] # m /\ (cur[u] = m => u = t)
      /\ msg[m].count = Cardinality(msg[m].destination)
  BY DEF Deliver, ThreadShape, OneBuilder, Building, TypeOK, ApiTypeOK
<1>2. /\ inbox' = [c \in Clients |-> IF c \in msg[m].destination
                                    THEN inbox[c] \cup {m} ELSE inbox[c]]
      /\ cur' = [cur EXCEPT ![t] = NULL]
      /\ pc' = [pc EXCEPT ![t] = "idle"]
      /\ UNCHANGED <<router_pool, router_payloads, msg, req>>
  BY DEF Deliver, Goto
<1>3. msg[m].destination \in (SUBSET Clients) \ {{}}
  BY <1>1 DEF LiveMasks
<1>4. /\ \A n \in Msgs : n # m => Holders(n)' = Holders(n)
      /\ Holders(m)' = msg[m].destination
  <2>1. \A c \in Clients : \A n \in Msgs : Using(c, n)' = Using(c, n)
    BY <1>1, <1>2 DEF Using, TypeOK, ApiTypeOK
  <2>2. \A c \in Clients : \A n \in Msgs :
          n \in inbox'[c] <=> \/ n \in inbox[c]
                              \/ n = m /\ c \in msg[m].destination
    BY <1>2
  <2> QED
    BY <1>1, <1>3, <2>1, <2>2 DEF Holders
<1>5. TypeOK' /\ ThreadShape'
  BY <1>1, <1>2 DEF TypeOK, ApiTypeOK, ThreadShape, PC
<1>6. OneBuilder'
  <2>1. \A u \in Threads : \A n \in Msgs :
          Building(u, n)' => Building(u, n) /\ u # t /\ n # m /\ pc'[u] = pc[u]
    BY <1>1, <1>2 DEF Building, TypeOK, ApiTypeOK
  <2> QED
    BY <1>2, <1>4, <2>1 DEF OneBuilder
<1>7. OneFreer'
  <2>1. \A u \in Threads : \A n \in Msgs :
          Freeing(u, n)' => Freeing(u, n) /\ n # m /\ pc'[u] = pc[u]
    BY <1>1, <1>2 DEF Freeing, TypeOK, ApiTypeOK
  <2> QED
    BY <1>2, <1>4, <2>1 DEF OneFreer
<1>8. OneReference' /\ LiveMasks'
  BY <1>1, <1>2 DEF OneReference, LiveMasks
<1>9. \A n \in Msgs : PayloadSet(n)' = PayloadSet(n)
  BY <1>1, <1>2 DEF PayloadSet, Building, TypeOK, ApiTypeOK
<1>10. PayloadOut' /\ PayloadExclusive'
  BY <1>2, <1>9 DEF PayloadOut, PayloadExclusive
<1>11. CountIsHolders' /\ NoUseAfterFree'
  <2>1. CountIsHolders'
    BY <1>1, <1>2, <1>4 DEF CountIsHolders
  <2>2. msg[m].payload \notin router_payloads
    BY <1>1 DEF PayloadOut, PayloadSet, Building, TypeOK, ApiTypeOK
  <2>3. NoUseAfterFree'
    BY <1>1, <1>2, <1>4, <2>2 DEF NoUseAfterFree
  <2> QED
    BY <2>1, <2>3
<1>12. NoLostBlock'
  <2>1. \A u \in Threads : \A n \in Msgs :
          n # m /\ (Building(u, n) \/ Freeing(u, n))
            => (Building(u, n) \/ Freeing(u, n))'
    BY <1>1, <1>2 DEF Building, Freeing, TypeOK, ApiTypeOK
  <2>2. \A n \in Msgs \ router_pool' :
          \/ Holders(n)' # {}
          \/ \E u \in Threads : (Building(u, n) \/ Freeing(u, n))'
    BY <1>2, <1>3, <1>4, <2>1 DEF NoLostBlock
  <2>3. \A b \in Bufs \ router_payloads' :
          \E n \in Msgs : PayloadSet(n)' /\ msg'[n].payload = b
    BY <1>2, <1>9 DEF NoLostBlock
  <2> QED
    BY <2>2, <2>3 DEF NoLostBlock
<1> QED
  BY <1>5, <1>6, <1>7, <1>8, <1>10, <1>11, <1>12

\* Taking a message from the queue, or choosing to consume it, leaves every
\* message with the same holders.
LEMMA TakeInv ==
  ASSUME MuxerInv, NEW c \in Clients, NEW m \in Msgs, Take(c, m)
  PROVE  MuxerInv'
<1> USE MessagesAssumption, MuxerAssumption DEF MuxerInv
<1>1. pc[c] = "idle" /\ cur[c] = NULL /\ req[c] = NULL /\ m \in inbox[c]
  BY DEF Take, ThreadShape
<1>2. /\ inbox' = [inbox EXCEPT ![c] = @ \ {m}]
      /\ req' = [req EXCEPT ![c] = m]
      /\ pc' = [pc EXCEPT ![c] = "handling"]
      /\ UNCHANGED <<router_pool, router_payloads, msg, cur>>
  BY DEF Take, Goto
<1>3. \A n \in Msgs : Holders(n)' = Holders(n)
  <2>1. \A d \in Clients : \A n \in Msgs :
          (n \in inbox[d] \/ Using(d, n))' <=> (n \in inbox[d] \/ Using(d, n))
    BY <1>1, <1>2 DEF Using, TypeOK, ApiTypeOK
  <2> QED
    BY <2>1 DEF Holders
<1>4. TypeOK' /\ ThreadShape'
  BY <1>1, <1>2 DEF TypeOK, ApiTypeOK, ThreadShape, PC
<1>5. Holders(m) # {}
  BY <1>1 DEF Holders
<1>6. OneBuilder'
  <2>1. \A u \in Threads : \A n \in Msgs :
          Building(u, n)' => Building(u, n) /\ u # c /\ n # m /\ pc'[u] = pc[u]
    BY <1>1, <1>2, <1>5 DEF Building, OneBuilder, TypeOK, ApiTypeOK
  <2>2. \A u, v \in Threads : \A n \in Msgs : n # m =>
          /\ Building(v, n)' => Building(v, n)
          /\ req'[v] = n => req[v] = n
    BY <1>2 DEF Building, TypeOK, ApiTypeOK
  <2> QED
    BY <1>2, <1>3, <2>1, <2>2 DEF OneBuilder
<1>7. OneFreer'
  <2>1. \A u \in Threads : \A n \in Msgs :
          Freeing(u, n)' => /\ Freeing(u, n) /\ u # c /\ n # m
                            /\ pc'[u] = pc[u] /\ req'[u] = req[u]
    BY <1>1, <1>2, <1>5 DEF Freeing, OneFreer, TypeOK, ApiTypeOK
  <2> QED
    BY <1>2, <1>3, <2>1 DEF OneFreer, TypeOK, ApiTypeOK
<1>8. OneReference' /\ LiveMasks'
  BY <1>1, <1>2 DEF OneReference, LiveMasks, TypeOK, ApiTypeOK
<1>9. \A n \in Msgs : PayloadSet(n)' = PayloadSet(n)
  BY <1>1, <1>2 DEF PayloadSet, Building, TypeOK, ApiTypeOK
<1>10. PayloadOut' /\ PayloadExclusive' /\ CountIsHolders' /\ NoUseAfterFree'
  BY <1>2, <1>3, <1>9
  DEF PayloadOut, PayloadExclusive, CountIsHolders, NoUseAfterFree
<1>11. NoLostBlock'
  BY <1>1, <1>2, <1>3, <1>9
  DEF NoLostBlock, Building, Freeing, TypeOK, ApiTypeOK
<1> QED
  BY <1>4, <1>6, <1>7, <1>8, <1>10, <1>11

LEMMA ConsumeInv ==
  ASSUME MuxerInv, UNCHANGED inbox, NEW c \in Clients, Consume(c)
  PROVE  MuxerInv'
<1> USE MessagesAssumption, MuxerAssumption DEF MuxerInv
<1>1. /\ pc[c] = "handling"
      /\ pc' = [pc EXCEPT ![c] = "decrement"]
      /\ UNCHANGED <<router_pool, router_payloads, msg, cur, req>>
  BY DEF Consume, Goto
<1>2. \A n \in Msgs : Holders(n)' = Holders(n)
  BY <1>1 DEF Holders, Using, TypeOK, ApiTypeOK
<1>3. TypeOK' /\ ThreadShape'
  BY <1>1 DEF TypeOK, ApiTypeOK, ThreadShape, PC
<1>4. OneBuilder'
  <2>1. \A u \in Threads : \A n \in Msgs :
          Building(u, n)' => Building(u, n) /\ pc'[u] = pc[u]
    BY <1>1, MessagesAssumption DEF Building, ThreadShape, TypeOK, ApiTypeOK
  <2> QED
    BY <1>1, <1>2, <2>1 DEF OneBuilder, Building
<1>5. OneFreer'
  <2>1. \A u \in Threads : \A n \in Msgs :
          Freeing(u, n)' => Freeing(u, n) /\ pc'[u] = pc[u]
    BY <1>1 DEF Freeing, TypeOK, ApiTypeOK
  <2> QED
    BY <1>1, <1>2, <2>1 DEF OneFreer
<1>6. OneReference' /\ LiveMasks'
  BY <1>1 DEF OneReference, LiveMasks
<1>7. \A n \in Msgs : PayloadSet(n)' = PayloadSet(n)
  BY <1>1 DEF PayloadSet, Building, TypeOK, ApiTypeOK
<1>8. PayloadOut' /\ PayloadExclusive' /\ CountIsHolders' /\ NoUseAfterFree'
  BY <1>1, <1>2, <1>7
  DEF PayloadOut, PayloadExclusive, CountIsHolders, NoUseAfterFree
<1>9. NoLostBlock'
  BY <1>1, <1>2, <1>7 DEF NoLostBlock, Building, Freeing, TypeOK, ApiTypeOK
<1> QED
  BY <1>3, <1>4, <1>5, <1>6, <1>8, <1>9

\* A decrement removes one holder; the thread that removes the last one
\* becomes the only thread that frees the message.
LEMMA DecrementInv ==
  ASSUME MuxerInv, UNCHANGED inbox, NEW c \in Threads, Decrement(c)
  PROVE  MuxerInv'
<1> USE MessagesAssumption, MuxerAssumption DEF MuxerInv
<1> PICK m \in Msgs : m = req[c]
  BY DEF LastClient, Decrement, ThreadShape, TypeOK, ApiTypeOK
<1>1. /\ c \in Clients /\ pc[c] = "decrement" /\ req[c] = m /\ m # NULL
      /\ c \in Holders(m)
  BY DEF LastClient, Decrement, ThreadShape, Holders, Using
<1>2. /\ Holders(m) \in SUBSET Clients
      /\ IsFiniteSet(Holders(m))
      /\ msg[m].count = Cardinality(Holders(m))
      /\ Cardinality(Holders(m)) \in 0 .. CountMod - 1
      /\ m \notin router_pool
  BY <1>1, ClientsFinite DEF Holders, CountIsHolders, NoUseAfterFree
<1>3. /\ Cardinality(Holders(m) \ {c}) = Cardinality(Holders(m)) - 1
      /\ Cardinality(Holders(m) \ {c}) \in Nat
      /\ msg[m].count = 1 <=> Holders(m) \ {c} = {}
  <2>1. /\ IsFiniteSet(Holders(m) \ {c})
        /\ Cardinality(Holders(m) \ {c}) = Cardinality(Holders(m)) - 1
    BY <1>1, <1>2, FS_RemoveElement
  <2>2. /\ Cardinality(Holders(m) \ {c}) \in Nat
        /\ Cardinality(Holders(m) \ {c}) = 0 <=> Holders(m) \ {c} = {}
    BY <2>1, FS_CardinalityType, FS_EmptySet
  <2> QED
    BY <1>2, <2>1, <2>2
<1>4. /\ \A n \in Msgs : n # m => msg'[n] = msg[n]
      /\ msg'[m].count = Cardinality(Holders(m)) - 1
      /\ msg'[m].source = msg[m].source
      /\ msg'[m].destination = msg[m].destination
      /\ msg'[m].payload = msg[m].payload
      /\ msg' \in [Msgs -> Message]
  <2>0. Pred(msg[m].count) = msg[m].count - 1
    BY <1>2, <1>3 DEF Pred
  <2>1. msg' = [msg EXCEPT ![m].count = msg[m].count - 1]
    BY <1>1, <2>0 DEF LastClient, Decrement
  <2>2. msg[m] \in Message /\ msg[m].count - 1 \in 0 .. CountMod - 1
    BY <1>2, <1>3 DEF TypeOK, ApiTypeOK
  <2> QED
    BY <1>2, <2>1, <2>2 DEF TypeOK, ApiTypeOK, Message
<1>5. /\ UNCHANGED <<router_pool, router_payloads, cur, inbox>>
      /\ \/ /\ Holders(m) \ {c} = {}
            /\ pc' = [pc EXCEPT ![c] = IF msg[m].payload # NULL
                                       THEN "free_payload" ELSE "free_message"]
            /\ UNCHANGED req
         \/ /\ Holders(m) \ {c} # {}
            /\ pc' = [pc EXCEPT ![c] = IF cur[c] # NULL
                                       THEN "created" ELSE "idle"]
            /\ req' = [req EXCEPT ![c] = NULL]
  BY <1>1, <1>3 DEF LastClient, Decrement, Return, Goto
<1>6. /\ \A n \in Msgs : n # m => Holders(n)' = Holders(n)
      /\ Holders(m)' = Holders(m) \ {c}
  <2>1. \A d \in Clients : \A n \in Msgs :
          (n \in inbox[d] \/ Using(d, n))' <=>
            (n \in inbox[d] \/ Using(d, n)) /\ ~ (n = m /\ d = c)
    BY <1>1, <1>5 DEF Using, OneReference, TypeOK, ApiTypeOK
  <2> QED
    BY <2>1 DEF Holders
<1>7. TypeOK' /\ ThreadShape'
  BY <1>1, <1>4, <1>5 DEF TypeOK, ApiTypeOK, ThreadShape, PC
<1>8. OneBuilder'
  <2>1. \A u \in Threads : \A n \in Msgs : Building(u, n)' =>
          /\ Building(u, n) /\ n # m
          /\ pc'[u] \notin {"payload", "undo"} =>
               pc[u] \notin {"payload", "undo"}
    BY <1>1, <1>5 DEF Building, OneBuilder, TypeOK, ApiTypeOK
  <2>2. \A v \in Threads : \A n \in Msgs :
          /\ Building(v, n)' => Building(v, n)
          /\ req'[v] = n => req[v] = n
    BY <1>5 DEF Building, TypeOK, ApiTypeOK
  <2> QED
    BY <1>4, <1>5, <1>6, <2>1, <2>2 DEF OneBuilder
<1>9. OneFreer'
  <2>1. ASSUME NEW u \in Threads, u # c, req[u] = m, Holders(m) \ {c} = {}
        PROVE  FALSE
    <3>1. u \in Clients /\ ~ Using(u, m) /\ ~ Freeing(u, m)
      BY <1>1, <2>1 DEF ThreadShape, OneFreer, Holders
    <3> QED
      BY <2>1, <3>1 DEF Using, Freeing, ThreadShape, TypeOK, ApiTypeOK, PC
  <2>2. \A u \in Threads : \A n \in Msgs : req'[u] = n => req[u] = n
    BY <1>5 DEF TypeOK, ApiTypeOK
  <2>3. ASSUME NEW u \in Threads, NEW n \in Msgs, Freeing(u, n)', u # c
        PROVE  Freeing(u, n) /\ n # m /\ pc'[u] = pc[u]
    BY <1>1, <1>5, <2>3 DEF Freeing, OneFreer, TypeOK, ApiTypeOK
  <2>4. ASSUME NEW n \in Msgs, Freeing(c, n)'
        PROVE  /\ n = m /\ Holders(m) \ {c} = {}
               /\ pc'[c] = "free_payload" <=> msg'[m].payload # NULL
    BY <1>1, <1>4, <1>5, <2>4 DEF Freeing, TypeOK, ApiTypeOK
  <2>5. ASSUME NEW n \in Msgs, Freeing(c, n)'
        PROVE  /\ n \notin router_pool' /\ Holders(n)' = {}
               /\ \A v \in Threads : req'[v] = n => v = c
               /\ pc'[c] = "free_payload" <=> msg'[n].payload # NULL
    BY <1>2, <1>5, <1>6, <2>1, <2>2, <2>4, <2>5
  <2> QED
    BY <1>4, <1>5, <1>6, <2>2, <2>3, <2>5 DEF OneFreer
<1>10. OneReference' /\ LiveMasks'
  <2>1. OneReference'
    BY <1>1, <1>5 DEF OneReference, TypeOK, ApiTypeOK
  <2>2. LiveMasks'
    BY <1>4, <1>5 DEF LiveMasks
  <2> QED
    BY <2>1, <2>2
<1>11. \A n \in Msgs : /\ PayloadSet(n)' = PayloadSet(n)
                       /\ msg'[n].payload = msg[n].payload
  BY <1>1, <1>4, <1>5 DEF PayloadSet, Building, TypeOK, ApiTypeOK
<1>12. PayloadOut' /\ PayloadExclusive'
  BY <1>5, <1>11 DEF PayloadOut, PayloadExclusive
<1>13. CountIsHolders' /\ NoUseAfterFree'
  BY <1>1, <1>3, <1>4, <1>5, <1>6, <1>11 DEF CountIsHolders, NoUseAfterFree
<1>14. NoLostBlock'
  <2>1. \A u \in Threads : \A n \in Msgs :
          /\ Building(u, n) => Building(u, n)'
          /\ Freeing(u, n) => Freeing(u, n)'
          /\ Holders(m) \ {c} = {} => Freeing(c, m)'
    BY <1>1, <1>5 DEF Building, Freeing, TypeOK, ApiTypeOK
  <2>2. \A n \in Msgs \ router_pool' :
          \/ Holders(n)' # {}
          \/ \E u \in Threads : (Building(u, n) \/ Freeing(u, n))'
    BY <1>5, <1>6, <2>1 DEF NoLostBlock
  <2>3. \A b \in Bufs \ router_payloads' :
          \E n \in Msgs : PayloadSet(n)' /\ msg'[n].payload = b
    BY <1>5, <1>11 DEF NoLostBlock
  <2> QED
    BY <2>2, <2>3 DEF NoLostBlock
<1> QED
  BY <1>7, <1>8, <1>9, <1>10, <1>12, <1>13, <1>14

\* The release of the payload cannot fail: no other message refers to it.
LEMMA FreePayloadInv ==
  ASSUME MuxerInv, UNCHANGED inbox, NEW c \in Threads, FreePayload(c)
  PROVE  MuxerInv'
<1> USE MessagesAssumption, MuxerAssumption DEF MuxerInv
<1> PICK m \in Msgs : m = req[c]
  BY DEF FreePayload, ThreadShape, TypeOK, ApiTypeOK
<1> DEFINE b == msg[m].payload
<1>1. /\ pc[c] = "free_payload" /\ req[c] = m /\ Freeing(c, m)
      /\ m \notin router_pool /\ Holders(m) = {} /\ b # NULL
      /\ \A u \in Threads : /\ req[u] = m => u = c
                            /\ ~ Building(u, m)
  BY DEF FreePayload, Freeing, OneFreer, OneBuilder
<1>2. PayloadSet(m) /\ b \notin router_payloads /\ b \in Bufs
  BY <1>1 DEF PayloadSet, PayloadOut, TypeOK, ApiTypeOK, Message
<1>3. /\ router_payloads' = router_payloads \cup {b}
      /\ msg' = [msg EXCEPT ![m].payload = NULL]
      /\ pc' = [pc EXCEPT ![c] = "free_message"]
      /\ UNCHANGED <<router_pool, cur, req, inbox>>
  BY <1>1, <1>2 DEF FreePayload, Goto
<1>4. /\ \A n \in Msgs : n # m => msg'[n] = msg[n]
      /\ msg'[m].payload = NULL
      /\ \A n \in Msgs : /\ msg'[n].source = msg[n].source
                          /\ msg'[n].destination = msg[n].destination
                          /\ msg'[n].count = msg[n].count
      /\ msg' \in [Msgs -> Message]
  BY <1>3 DEF TypeOK, ApiTypeOK, Message
<1>5. \A n \in Msgs : Holders(n)' = Holders(n)
  BY <1>1, <1>3 DEF Holders, Using, TypeOK, ApiTypeOK
<1>6. TypeOK' /\ ThreadShape'
  BY <1>1, <1>2, <1>3, <1>4 DEF TypeOK, ApiTypeOK, ThreadShape, PC
<1>7. OneBuilder'
  <2>1. \A u \in Threads : \A n \in Msgs : Building(u, n)' =>
          /\ Building(u, n) /\ n # m
          /\ pc'[u] \notin {"payload", "undo"} =>
               pc[u] \notin {"payload", "undo"}
    BY <1>1, <1>3 DEF Building, TypeOK, ApiTypeOK
  <2> QED
    BY <1>3, <1>4, <1>5, <2>1 DEF OneBuilder, Building
<1>8. OneFreer'
  <2>1. ASSUME NEW u \in Threads, NEW n \in Msgs, Freeing(u, n)'
        PROVE  /\ Freeing(u, n)
               /\ pc'[u] = "free_payload" <=> msg'[n].payload # NULL
    BY <1>1, <1>3, <1>4, <2>1 DEF Freeing, OneFreer, TypeOK, ApiTypeOK
  <2> QED
    BY <1>3, <1>5, <2>1 DEF OneFreer
<1>9. OneReference' /\ LiveMasks'
  BY <1>3, <1>4 DEF OneReference, LiveMasks
<1>10. /\ \A n \in Msgs : n # m => PayloadSet(n)' = PayloadSet(n)
       /\ ~ PayloadSet(m)'
  BY <1>1, <1>3, <1>4 DEF PayloadSet, Building, TypeOK, ApiTypeOK
<1>11. PayloadOut' /\ PayloadExclusive'
  <2>1. \A n \in Msgs : PayloadSet(n)' =>
          /\ PayloadSet(n) /\ n # m /\ msg'[n] = msg[n]
          /\ msg[n].payload # b
    BY <1>2, <1>4, <1>10 DEF PayloadExclusive
  <2> QED
    BY <1>3, <2>1 DEF PayloadOut, PayloadExclusive
<1>12. CountIsHolders' /\ NoUseAfterFree'
  <2>1. \A n \in Msgs : Holders(n) # {} => msg[n].payload # b
    <3> SUFFICES ASSUME NEW n \in Msgs, Holders(n) # {}, msg[n].payload = b
                 PROVE  FALSE
      OBVIOUS
    <3>1. PayloadSet(n)
      BY <1>1 DEF PayloadSet, NoUseAfterFree, OneBuilder
    <3> QED
      BY <1>1, <1>2, <3>1 DEF PayloadExclusive
  <2> QED
    BY <1>3, <1>4, <1>5, <2>1 DEF CountIsHolders, NoUseAfterFree
<1>13. NoLostBlock'
  <2>1. \A n \in Msgs \ router_pool' :
          \/ Holders(n)' # {}
          \/ \E u \in Threads : (Building(u, n) \/ Freeing(u, n))'
    <3>1. \A u \in Threads : \A n \in Msgs :
            /\ Building(u, n) => Building(u, n)'
            /\ Freeing(u, n) => Freeing(u, n)'
      BY <1>1, <1>3 DEF Building, Freeing, TypeOK, ApiTypeOK
    <3> QED
      BY <1>3, <1>5, <3>1 DEF NoLostBlock
  <2>2. \A a \in Bufs \ router_payloads' :
          \E n \in Msgs : PayloadSet(n)' /\ msg'[n].payload = a
    BY <1>3, <1>4, <1>10 DEF NoLostBlock
  <2> QED
    BY <2>1, <2>2 DEF NoLostBlock
<1> QED
  BY <1>6, <1>7, <1>8, <1>9, <1>11, <1>12, <1>13

LEMMA FreeMessageInv ==
  ASSUME MuxerInv, UNCHANGED inbox, NEW c \in Threads, FreeMessage(c)
  PROVE  MuxerInv'
<1> USE MessagesAssumption, MuxerAssumption DEF MuxerInv
<1> PICK m \in Msgs : m = req[c]
  BY DEF FreeMessage, ThreadShape, TypeOK, ApiTypeOK
<1>1. /\ pc[c] = "free_message" /\ req[c] = m /\ Freeing(c, m)
      /\ m \notin router_pool /\ Holders(m) = {} /\ msg[m].payload = NULL
      /\ \A u \in Threads : /\ req[u] = m => u = c
                            /\ ~ Building(u, m)
  BY DEF FreeMessage, Freeing, OneFreer, OneBuilder
<1>2. /\ router_pool' = router_pool \cup {m}
      /\ pc' = [pc EXCEPT ![c] = IF cur[c] # NULL THEN "created" ELSE "idle"]
      /\ req' = [req EXCEPT ![c] = NULL]
      /\ UNCHANGED <<router_payloads, msg, cur, inbox>>
  BY <1>1 DEF FreeMessage, Return, Goto
<1>3. \A n \in Msgs : Holders(n)' = Holders(n)
  BY <1>1, <1>2 DEF Holders, Using, TypeOK, ApiTypeOK
<1>4. TypeOK' /\ ThreadShape'
  BY <1>1, <1>2 DEF TypeOK, ApiTypeOK, ThreadShape, PC
<1>5. OneBuilder'
  <2>1. \A u \in Threads : \A n \in Msgs : Building(u, n)' =>
          /\ Building(u, n) /\ n # m
          /\ pc'[u] \notin {"payload", "undo"} =>
               pc[u] \notin {"payload", "undo"}
    BY <1>1, <1>2 DEF Building, TypeOK, ApiTypeOK
  <2>2. \A v \in Threads : \A n \in Msgs : req'[v] = n => req[v] = n
    BY <1>2 DEF TypeOK, ApiTypeOK
  <2> QED
    BY <1>2, <1>3, <2>1, <2>2 DEF OneBuilder, Building
<1>6. OneFreer'
  <2>1. \A u \in Threads : \A n \in Msgs :
          Freeing(u, n)' => Freeing(u, n) /\ n # m /\ pc'[u] = pc[u]
    BY <1>1, <1>2 DEF Freeing, TypeOK, ApiTypeOK
  <2>2. \A v \in Threads : \A n \in Msgs : req'[v] = n => req[v] = n
    BY <1>2 DEF TypeOK, ApiTypeOK
  <2> QED
    BY <1>2, <1>3, <2>1, <2>2 DEF OneFreer
<1>7. OneReference' /\ LiveMasks'
  BY <1>2 DEF OneReference, LiveMasks, TypeOK, ApiTypeOK
<1>8. \A n \in Msgs : PayloadSet(n)' = PayloadSet(n)
  BY <1>1, <1>2 DEF PayloadSet, Building, TypeOK, ApiTypeOK
<1>9. PayloadOut' /\ PayloadExclusive' /\ CountIsHolders' /\ NoUseAfterFree'
  BY <1>1, <1>2, <1>3, <1>8
  DEF PayloadOut, PayloadExclusive, CountIsHolders, NoUseAfterFree
<1>10. NoLostBlock'
  BY <1>1, <1>2, <1>3, <1>8
  DEF NoLostBlock, Building, Freeing, TypeOK, ApiTypeOK
<1> QED
  BY <1>4, <1>5, <1>6, <1>7, <1>9, <1>10

-----------------------------------------------------------------------------
\* Every step of the system is one of the steps above.
LEMMA NextInv ==
  ASSUME OnlyClients, MuxerInv, [Next]_vars
  PROVE  MuxerInv'
<1>1. CASE UNCHANGED vars
  BY <1>1
  DEF vars, MuxerInv, TypeOK, ApiTypeOK, ThreadShape, OneBuilder, OneFreer,
      OneReference, LiveMasks, PayloadOut, PayloadExclusive, CountIsHolders,
      NoUseAfterFree, NoLostBlock, Holders, Using, Building, Freeing, PayloadSet
<1>2. ASSUME NEW p \in Producers, NEW dest \in Masks, NEW src \in Clients,
             NEW arg \in PayloadArg, Produce(p, dest, src, arg)
      PROVE  MuxerInv'
  <2>1. /\ p \in Threads /\ {src} \in (SUBSET Clients) \ {{}}
        /\ dest \in (SUBSET Clients) \ {{}}
    BY MuxerAssumption DEF OnlyClients
  <2> QED
    BY <1>2, <2>1, CreateMessageInv DEF Produce
<1>3. ASSUME NEW c \in Clients, NEW arg \in PayloadArg, Respond(c, arg),
             UNCHANGED inbox
      PROVE  MuxerInv'
  <2>1. /\ c \in Threads /\ req[c] \in Msgs /\ c \in Holders(req[c])
    BY <1>3, MuxerAssumption
    DEF Respond, MuxerInv, ThreadShape, TypeOK, ApiTypeOK, Holders, Using
  <2>2. /\ msg[req[c]].source \in (SUBSET Clients) \ {{}}
        /\ msg[req[c]].destination \in (SUBSET Clients) \ {{}}
    BY <2>1 DEF MuxerInv, NoUseAfterFree, LiveMasks
  <2> QED
    BY <1>3, <2>1, <2>2, CreateMessageInv DEF Respond
<1>4. ASSUME NEW t \in Threads, Continue(t)
      PROVE  MuxerInv'
  BY <1>4, CreatePayloadInv, CreateUndoInv, DecrementInv, FreePayloadInv,
     FreeMessageInv DEF Continue, ApiStep
<1> QED
  BY <1>1, <1>2, <1>3, <1>4, DeliverInv, TakeInv, ConsumeInv DEF Next, Handle

\* The inductive invariant holds of every reachable state: builders and
\* freers own their message alone, and the rest below follows from it.
THEOREM MuxerInvariant ==
  ASSUME OnlyClients
  PROVE  Spec => []MuxerInv
<1>1. MuxerInv /\ [Next]_vars => MuxerInv'
  BY NextInv
<1> QED
  BY <1>1, InitInv, PTL DEF Spec

\* Whatever the interleaving, the count of a delivered message is the number
\* of destinations that have not consumed it (task_muxer.h:114).
THEOREM CountCorrect ==
  ASSUME OnlyClients
  PROVE  Spec => []CountIsHolders
<1>1. MuxerInv => CountIsHolders
  BY DEF MuxerInv
<1> QED
  BY <1>1, MuxerInvariant, PTL

\* A message and its payload stay out of the pools until the last destination
\* consumed the message (consume_message, task_muxer.cpp:113).
THEOREM NeverFreedInUse ==
  ASSUME OnlyClients
  PROVE  Spec => [](NoUseAfterFree /\ PayloadExclusive)
<1>1. MuxerInv => NoUseAfterFree /\ PayloadExclusive
  BY DEF MuxerInv
<1> QED
  BY <1>1, MuxerInvariant, PTL

\* No path of create_message, consume_message or create_response_message
\* loses a block, the failing ones included.
THEOREM BlocksAccounted ==
  ASSUME OnlyClients
  PROVE  Spec => []NoLostBlock
<1>1. MuxerInv => NoLostBlock
  BY DEF MuxerInv
<1> QED
  BY <1>1, MuxerInvariant, PTL

-----------------------------------------------------------------------------
(***************************************************************************)
(* Muxer implements MessageLifecycle: the counter of a message and the two *)
(* releases of consume_message are the set of its holders and its end.     *)
(*                                                                         *)
(* The argument: with MuxerInv, a step changes the stage or the holders of *)
(* one message at most, the one in the hands of the thread that takes it.  *)
(***************************************************************************)

Built(n) == \E t \in Threads : Building(t, n)
Stages == [n \in Msgs |-> StageOf(n)]
Sharing == [n \in Msgs |-> Holders(n)]

\* What StageOf and Lifecycle say of one message.
LEMMA StageCases ==
  ASSUME NEW n \in Msgs
  PROVE  /\ n \in router_pool => StageOf(n) = "free"
         /\ n \notin router_pool /\ Holders(n) # {} => StageOf(n) = "shared"
         /\ n \notin router_pool /\ Holders(n) = {} /\ Built(n) => StageOf(n) = "building"
         /\ n \notin router_pool /\ Holders(n) = {} /\ ~ Built(n) => StageOf(n) = "dying"
BY DEF StageOf, Built

LEMMA StageCasesNext ==
  ASSUME NEW n \in Msgs
  PROVE  /\ n \in router_pool' => StageOf(n)' = "free"
         /\ n \notin router_pool' /\ Holders(n)' # {} => StageOf(n)' = "shared"
         /\ n \notin router_pool' /\ Holders(n)' = {} /\ Built(n)' => StageOf(n)' = "building"
         /\ n \notin router_pool' /\ Holders(n)' = {} /\ ~ Built(n)' => StageOf(n)' = "dying"
BY DEF StageOf, Built

\* A message that keeps its place keeps its stage.
Kept(n) == /\ n \in router_pool' <=> n \in router_pool
           /\ Holders(n)' = Holders(n)
           /\ Built(n)' <=> Built(n)

LEMMA KeptStage ==
  ASSUME NEW n \in Msgs, Kept(n)
  PROVE  StageOf(n)' = StageOf(n)
BY StageCases, StageCasesNext DEF Kept

LEMMA Stutter ==
  ASSUME \A n \in Msgs : Kept(n)
  PROVE  UNCHANGED <<Stages, Sharing>>
<1>1. \A n \in Msgs : StageOf(n)' = StageOf(n) /\ Holders(n)' = Holders(n)
  BY KeptStage DEF Kept
<1> QED BY <1>1 DEF Stages, Sharing

\* One message moves and the others stay.
LEMMA OneMoves ==
  ASSUME NEW m \in Msgs, \A n \in Msgs \ {m} : Kept(n),
         NEW to, StageOf(m)' = to, NEW S, Holders(m)' = S
  PROVE  /\ Stages' = [Stages EXCEPT ![m] = to]
         /\ Sharing' = [Sharing EXCEPT ![m] = S]
         /\ Stages[m] = StageOf(m) /\ Sharing[m] = Holders(m)
<1>1. \A n \in Msgs \ {m} : StageOf(n)' = StageOf(n) /\ Holders(n)' = Holders(n)
  BY KeptStage DEF Kept
<1>2. Stages' = [n \in Msgs |-> StageOf(n)'] /\ Sharing' = [n \in Msgs |-> Holders(n)']
  BY DEF Stages, Sharing
<1> QED BY <1>1, <1>2 DEF Stages, Sharing

\* The actions of MessageLifecycle, in terms of StageOf and Holders.
LEMMA MoveStep ==
  ASSUME NEW m \in Msgs, \A n \in Msgs \ {m} : Kept(n),
         Holders(m)' = Holders(m),
         \/ StageOf(m) = "free" /\ StageOf(m)' = "building"
         \/ StageOf(m) = "building" /\ StageOf(m)' = "free"
         \/ StageOf(m) = "dying" /\ StageOf(m)' = "free"
  PROVE  Lifecycle!Next
<1>1. PICK to : to = StageOf(m)' OBVIOUS
<1>2. /\ Stages' = [Stages EXCEPT ![m] = to] /\ Stages[m] = StageOf(m)
      /\ Sharing' = [Sharing EXCEPT ![m] = Holders(m)]
  BY <1>1, OneMoves
<1>3. Sharing' = Sharing BY <1>2 DEF Sharing
<1>4. Lifecycle!Claim(m) \/ Lifecycle!Abandon(m) \/ Lifecycle!Reclaim(m)
  BY <1>1, <1>2, <1>3
     DEF Lifecycle!Claim, Lifecycle!Abandon, Lifecycle!Reclaim, Lifecycle!Move,
         Stages, Sharing
<1> QED BY <1>4 DEF Lifecycle!Next

LEMMA ShareStep ==
  ASSUME NEW m \in Msgs, \A n \in Msgs \ {m} : Kept(n),
         StageOf(m) = "building", StageOf(m)' = "shared",
         NEW S \in (SUBSET Clients) \ {{}}, Holders(m)' = S
  PROVE  Lifecycle!Next
<1>1. /\ Stages' = [Stages EXCEPT ![m] = "shared"] /\ Stages[m] = "building"
      /\ Sharing' = [Sharing EXCEPT ![m] = S]
  BY OneMoves
<1>2. Lifecycle!Share(m, S)
  BY <1>1 DEF Lifecycle!Share, Lifecycle!Move, Stages, Sharing
<1> QED BY <1>2 DEF Lifecycle!Next

LEMMA LeaveStep ==
  ASSUME NEW m \in Msgs, \A n \in Msgs \ {m} : Kept(n),
         NEW c \in Clients, c \in Holders(m), StageOf(m) = "shared",
         Holders(m)' = Holders(m) \ {c},
         StageOf(m)' = (IF Holders(m) = {c} THEN "dying" ELSE "shared")
  PROVE  Lifecycle!Next
<1>1. PICK to : to = StageOf(m)' OBVIOUS
<1>2. /\ Stages' = [Stages EXCEPT ![m] = to]
      /\ Sharing' = [Sharing EXCEPT ![m] = Holders(m) \ {c}]
      /\ Stages[m] = "shared" /\ Sharing[m] = Holders(m)
  BY <1>1, OneMoves
<1>3. Stages' = IF Sharing[m] = {c} THEN [Stages EXCEPT ![m] = "dying"] ELSE Stages
  <2>1. CASE Holders(m) = {c} BY <1>1, <1>2, <2>1
  <2>2. CASE Holders(m) # {c} BY <1>1, <1>2, <2>2 DEF Stages
  <2> QED BY <1>2, <2>1, <2>2
<1>4. Lifecycle!Leave(m, c)
  BY <1>2, <1>3 DEF Lifecycle!Leave, Stages, Sharing
<1> QED BY <1>4 DEF Lifecycle!Next

Step == Lifecycle!Next \/ UNCHANGED <<Stages, Sharing>>

-----------------------------------------------------------------------------
\* The steps of the threads.

LEMMA CreateMessageStep ==
  ASSUME MuxerInv, UNCHANGED inbox, NEW t \in Threads, NEW arg \in PayloadArg,
         NEW dest, NEW src, CreateMessage(t, dest, src, arg),
         pc[t] \in {"idle", "handling"}
  PROVE  Step
<1> USE MessagesAssumption, MuxerAssumption DEF MuxerInv
<1>1. CASE /\ Goto(t, AfterFailure(t))
           /\ UNCHANGED <<router_pool, msg, cur>>
  <2>1. UNCHANGED <<router_pool, cur, req>> BY <1>1 DEF CreateMessage
  <2>2. pc' = [pc EXCEPT ![t] = AfterFailure(t)] BY <1>1 DEF Goto
  <2>3. \A n \in Msgs : Holders(n)' = Holders(n)
    BY <2>1, <2>2 DEF Holders, Using, AfterFailure, TypeOK, ApiTypeOK, ThreadShape
  <2>4. \A n \in Msgs : Kept(n) BY <2>1, <2>3 DEF Kept, Built, Building
  <2> QED BY <2>4, Stutter DEF Step
<1>2. ASSUME NEW m \in router_pool, NEW where,
             where = "payload" \/ where = AfterCreate(t),
             router_pool' = router_pool \ {m},
             cur' = [cur EXCEPT ![t] = m],
             Goto(t, where)
      PROVE  Step
  <2>1. /\ m \in Msgs /\ cur[t] = NULL /\ req' = req
        /\ pc' = [pc EXCEPT ![t] = where]
    BY <1>2 DEF CreateMessage, Goto, TypeOK, ApiTypeOK, ThreadShape
  <2>2. \A n \in Msgs : Holders(n)' = Holders(n)
    BY <1>2, <2>1 DEF Holders, Using, AfterCreate, TypeOK, ApiTypeOK, ThreadShape
  <2>3. \A n \in Msgs \ {m} : Built(n)' <=> Built(n)
    BY <1>2, <2>1 DEF Built, Building, TypeOK, ApiTypeOK
  <2>4. \A n \in Msgs \ {m} : Kept(n) BY <1>2, <2>2, <2>3 DEF Kept
  <2>5. Built(m)' BY <1>2, <2>1 DEF Built, Building, TypeOK, ApiTypeOK
  <2>6. Holders(m) = {} BY PoolUnreferenced
  <2>7. StageOf(m) = "free" /\ StageOf(m)' = "building"
    BY <1>2, <2>1, <2>2, <2>5, <2>6, StageCases, StageCasesNext
  <2> QED BY <2>1, <2>2, <2>4, <2>7, MoveStep DEF Step
<1> QED BY <1>1, <1>2 DEF CreateMessage

LEMMA CreatePayloadStep ==
  ASSUME MuxerInv, UNCHANGED inbox, NEW t \in Threads, CreatePayload(t)
  PROVE  Step
<1> USE MessagesAssumption, MuxerAssumption DEF MuxerInv
<1>1. /\ pc[t] = "payload" /\ UNCHANGED <<router_pool, cur, req>>
      /\ pc' = [pc EXCEPT ![t] = "undo"] \/ pc' = [pc EXCEPT ![t] = AfterCreate(t)]
  BY DEF CreatePayload, Goto
<1>2. \A n \in Msgs : Holders(n)' = Holders(n)
  BY <1>1 DEF Holders, Using, AfterCreate, TypeOK, ApiTypeOK, ThreadShape
<1>3. \A n \in Msgs : Kept(n) BY <1>1, <1>2 DEF Kept, Built, Building
<1> QED BY <1>3, Stutter DEF Step

LEMMA CreateUndoStep ==
  ASSUME MuxerInv, UNCHANGED inbox, NEW t \in Threads, CreateUndo(t)
  PROVE  Step
<1> USE MessagesAssumption, MuxerAssumption DEF MuxerInv
<1>1. PICK m \in Msgs : m = cur[t]
  BY DEF CreateUndo, ThreadShape, TypeOK, ApiTypeOK
<1>2. /\ pc[t] = "undo" /\ m \notin router_pool /\ Holders(m) = {} /\ Built(m)
      /\ \A u \in Threads : cur[u] = m => u = t
  BY <1>1 DEF CreateUndo, OneBuilder, Building, Built
<1>3. /\ router_pool' = router_pool \cup {m}
      /\ cur' = [cur EXCEPT ![t] = NULL] /\ req' = req
      /\ pc' = [pc EXCEPT ![t] = AfterFailure(t)]
  BY <1>1 DEF CreateUndo, Goto
<1>4. \A n \in Msgs : Holders(n)' = Holders(n)
  BY <1>2, <1>3 DEF Holders, Using, AfterFailure, TypeOK, ApiTypeOK, ThreadShape
<1>5. \A n \in Msgs \ {m} : Built(n)' <=> Built(n)
  BY <1>1, <1>3 DEF Built, Building, TypeOK, ApiTypeOK
<1>6. \A n \in Msgs \ {m} : Kept(n) BY <1>3, <1>4, <1>5 DEF Kept
<1>7. StageOf(m) = "building" /\ StageOf(m)' = "free"
  BY <1>2, <1>3, StageCases, StageCasesNext
<1> QED BY <1>4, <1>6, <1>7, MoveStep DEF Step

LEMMA DeliverStep ==
  ASSUME MuxerInv, NEW t \in Threads, Deliver(t)
  PROVE  Step
<1> USE MessagesAssumption, MuxerAssumption DEF MuxerInv
<1>1. PICK m \in Msgs : m = cur[t]
  BY DEF Deliver, ThreadShape, TypeOK, ApiTypeOK
<1>2. /\ pc[t] = "created" /\ req[t] = NULL
      /\ m \notin router_pool /\ Holders(m) = {} /\ Built(m)
      /\ \A u \in Threads : req[u] # m /\ (cur[u] = m => u = t)
  BY <1>1 DEF Deliver, ThreadShape, OneBuilder, Building, Built
<1>3. PICK S \in (SUBSET Clients) \ {{}} : S = msg[m].destination
  BY <1>2 DEF LiveMasks
<1>4. /\ inbox' = [c \in Clients |-> IF c \in S THEN inbox[c] \cup {m} ELSE inbox[c]]
      /\ cur' = [cur EXCEPT ![t] = NULL]
      /\ pc' = [pc EXCEPT ![t] = "idle"]
      /\ UNCHANGED <<router_pool, req>>
  BY <1>1, <1>3 DEF Deliver, Goto
<1>5. /\ \A n \in Msgs \ {m} : Holders(n)' = Holders(n)
      /\ Holders(m)' = S
  <2>1. \A c \in Clients : \A n \in Msgs : Using(c, n)' = Using(c, n)
    BY <1>2, <1>4 DEF Using, TypeOK, ApiTypeOK
  <2>2. \A c \in Clients : \A n \in Msgs :
          n \in inbox'[c] <=> n \in inbox[c] \/ (n = m /\ c \in S)
    BY <1>4
  <2> QED BY <1>2, <1>3, <2>1, <2>2 DEF Holders
<1>6. \A n \in Msgs \ {m} : Built(n)' <=> Built(n)
  BY <1>1, <1>4 DEF Built, Building, TypeOK, ApiTypeOK
<1>7. \A n \in Msgs \ {m} : Kept(n) BY <1>4, <1>5, <1>6 DEF Kept
<1>8. StageOf(m) = "building" /\ StageOf(m)' = "shared"
  BY <1>2, <1>3, <1>4, <1>5, StageCases, StageCasesNext
<1> QED BY <1>5, <1>7, <1>8, ShareStep DEF Step

LEMMA TakeStep ==
  ASSUME MuxerInv, NEW c \in Clients, NEW m \in Msgs, Take(c, m)
  PROVE  Step
<1> USE MessagesAssumption, MuxerAssumption DEF MuxerInv
<1>1. /\ pc[c] = "idle" /\ req[c] = NULL /\ m \in inbox[c]
      /\ inbox' = [inbox EXCEPT ![c] = @ \ {m}]
      /\ req' = [req EXCEPT ![c] = m]
      /\ pc' = [pc EXCEPT ![c] = "handling"]
      /\ UNCHANGED <<router_pool, cur>>
  BY DEF Take, Goto, ThreadShape
<1>2. \A d \in Clients : \A n \in Msgs :
        (n \in inbox[d] \/ Using(d, n)) <=> (n \in inbox'[d] \/ Using(d, n)')
  BY <1>1 DEF Using, TypeOK, ApiTypeOK
<1>3. \A n \in Msgs : Kept(n) BY <1>1, <1>2 DEF Kept, Holders, Built, Building
<1> QED BY <1>3, Stutter DEF Step

LEMMA ConsumeStep ==
  ASSUME MuxerInv, UNCHANGED inbox, NEW c \in Clients, Consume(c)
  PROVE  Step
<1> USE MessagesAssumption, MuxerAssumption DEF MuxerInv
<1>1. /\ pc[c] = "handling" /\ pc' = [pc EXCEPT ![c] = "decrement"]
      /\ UNCHANGED <<router_pool, cur, req>>
  BY DEF Consume, Goto
<1>2. \A n \in Msgs : Holders(n)' = Holders(n)
  BY <1>1 DEF Holders, Using, TypeOK, ApiTypeOK
<1>3. \A n \in Msgs : Kept(n) BY <1>1, <1>2 DEF Kept, Built, Building
<1> QED BY <1>3, Stutter DEF Step

\* The old value of the count is 1 exactly if c is the last holder.
LEMMA DecrementStep ==
  ASSUME MuxerInv, UNCHANGED inbox, NEW c \in Threads, Decrement(c)
  PROVE  Step
<1> USE MessagesAssumption, MuxerAssumption DEF MuxerInv
<1>1. PICK m \in Msgs : m = req[c]
  BY DEF Decrement, ThreadShape, TypeOK, ApiTypeOK
<1>2. /\ c \in Clients /\ pc[c] = "decrement" /\ c \in Holders(m)
      /\ m \notin router_pool /\ m \notin inbox[c]
  BY <1>1 DEF Decrement, ThreadShape, Holders, Using, NoUseAfterFree, OneReference
<1>3. ~ Built(m) BY <1>2 DEF Built, OneBuilder
<1>4. msg[m].count = 1 <=> Holders(m) = {c}
  <2>1. IsFiniteSet(Holders(m)) /\ msg[m].count = Cardinality(Holders(m))
    BY <1>2, ClientsFinite DEF Holders, CountIsHolders
  <2>2. Cardinality(Holders(m)) = 1 <=> \E d : Holders(m) = {d}
    BY <2>1, FS_Singleton
  <2> QED BY <1>2, <2>1, <2>2
<1>5. /\ UNCHANGED <<router_pool, cur>>
      /\ \/ /\ Holders(m) = {c} /\ req' = req
            /\ \/ pc' = [pc EXCEPT ![c] = "free_payload"]
               \/ pc' = [pc EXCEPT ![c] = "free_message"]
         \/ /\ Holders(m) # {c} /\ req' = [req EXCEPT ![c] = NULL]
            /\ \/ pc' = [pc EXCEPT ![c] = "created"]
               \/ pc' = [pc EXCEPT ![c] = "idle"]
  BY <1>1, <1>4 DEF Decrement, LastClient, Return, Goto
<1>6. /\ \A n \in Msgs \ {m} : Holders(n)' = Holders(n)
      /\ Holders(m)' = Holders(m) \ {c}
  <2>1. \A d \in Clients : \A n \in Msgs :
          Using(d, n)' <=> Using(d, n) /\ ~ (d = c /\ n = m)
    BY <1>1, <1>2, <1>5 DEF Using, TypeOK, ApiTypeOK
  <2>2. \A n \in Msgs \ {m} : Holders(n)' = Holders(n)
    BY <1>2, <2>1 DEF Holders
  <2>3. Holders(m)' = Holders(m) \ {c} BY <1>2, <2>1 DEF Holders
  <2> QED BY <2>2, <2>3
<1>7. \A n \in Msgs : Built(n)' <=> Built(n) BY <1>5 DEF Built, Building
<1>8. \A n \in Msgs \ {m} : Kept(n) BY <1>5, <1>6, <1>7 DEF Kept
<1>9. StageOf(m) = "shared" BY <1>2, StageCases
<1>10. StageOf(m)' = IF Holders(m) = {c} THEN "dying" ELSE "shared"
  <2>1. m \notin router_pool' /\ ~ Built(m)' BY <1>2, <1>3, <1>5, <1>7
  <2>2. Holders(m)' = {} <=> Holders(m) = {c} BY <1>2, <1>6
  <2> QED BY <2>1, <2>2, StageCasesNext
<1> QED BY <1>2, <1>6, <1>8, <1>9, <1>10, LeaveStep DEF Step

LEMMA FreePayloadStep ==
  ASSUME MuxerInv, UNCHANGED inbox, NEW c \in Threads, FreePayload(c)
  PROVE  Step
<1> USE MessagesAssumption, MuxerAssumption DEF MuxerInv
<1>1. PICK m \in Msgs : m = req[c]
  BY DEF FreePayload, ThreadShape, TypeOK, ApiTypeOK
<1>2. /\ pc[c] = "free_payload" /\ m \notin router_pool
      /\ msg[m].payload # NULL /\ ~ Built(m)
  BY <1>1 DEF FreePayload, Freeing, OneFreer, OneBuilder, Built
<1>3. msg[m].payload \notin router_payloads
  BY <1>2 DEF PayloadSet, PayloadOut, Built
<1>4. pc' = [pc EXCEPT ![c] = "free_message"] /\ UNCHANGED <<router_pool, cur, req>>
  BY <1>1, <1>3 DEF FreePayload, Goto
<1>5. \A n \in Msgs : Holders(n)' = Holders(n)
  BY <1>2, <1>4 DEF Holders, Using, TypeOK, ApiTypeOK
<1>6. \A n \in Msgs : Kept(n) BY <1>4, <1>5 DEF Kept, Built, Building
<1> QED BY <1>6, Stutter DEF Step

LEMMA FreeMessageStep ==
  ASSUME MuxerInv, UNCHANGED inbox, NEW c \in Threads, FreeMessage(c)
  PROVE  Step
<1> USE MessagesAssumption, MuxerAssumption DEF MuxerInv
<1>1. PICK m \in Msgs : m = req[c]
  BY DEF FreeMessage, ThreadShape, TypeOK, ApiTypeOK
<1>2. /\ pc[c] = "free_message" /\ m \notin router_pool
      /\ Holders(m) = {} /\ ~ Built(m)
  BY <1>1 DEF FreeMessage, Freeing, OneFreer, OneBuilder, Built
<1>3. /\ router_pool' = router_pool \cup {m} /\ cur' = cur
      /\ req' = [req EXCEPT ![c] = NULL]
      /\ pc' = [pc EXCEPT ![c] = "created"] \/ pc' = [pc EXCEPT ![c] = "idle"]
  BY <1>1, <1>2 DEF FreeMessage, Return, Goto
<1>4. \A n \in Msgs : Holders(n)' = Holders(n)
  BY <1>2, <1>3 DEF Holders, Using, TypeOK, ApiTypeOK
<1>5. \A n \in Msgs \ {m} : Kept(n) BY <1>3, <1>4 DEF Kept, Built, Building
<1>6. StageOf(m) = "dying" /\ StageOf(m)' = "free"
  BY <1>2, <1>3, StageCases, StageCasesNext
<1> QED BY <1>4, <1>5, <1>6, MoveStep DEF Step

LEMMA UnchangedStep ==
  ASSUME UNCHANGED vars
  PROVE  Step
<1>1. \A n \in Msgs : Kept(n)
  BY DEF vars, Kept, Holders, Using, Built, Building
<1> QED BY <1>1, Stutter DEF Step

LEMMA NextStep ==
  ASSUME MuxerInv, [Next]_vars
  PROVE  Step
<1>1. ASSUME NEW p \in Producers, NEW dest \in Masks, NEW src \in Clients,
             NEW arg \in PayloadArg, Produce(p, dest, src, arg)
      PROVE  Step
  <2>1. p \in Threads BY MuxerAssumption
  <2> QED BY <1>1, <2>1, CreateMessageStep DEF Produce
<1>2. ASSUME NEW c \in Clients, Handle(c)
      PROVE  Step
  <2>1. c \in Threads BY MuxerAssumption
  <2>2. CASE Consume(c) BY <1>2, <2>2, ConsumeStep DEF Handle
  <2>3. ASSUME NEW arg \in PayloadArg, Respond(c, arg) PROVE Step
    BY <1>2, <2>1, <2>3, CreateMessageStep DEF Handle, Respond
  <2> QED BY <1>2, <2>2, <2>3 DEF Handle
<1>3. ASSUME NEW t \in Threads, Continue(t)
      PROVE  Step
  BY <1>3, CreatePayloadStep, CreateUndoStep, DecrementStep, FreePayloadStep,
     FreeMessageStep DEF Continue, ApiStep
<1> QED BY <1>1, <1>2, <1>3, DeliverStep, TakeStep, UnchangedStep DEF Next

LEMMA InitStages ==
  ASSUME Init
  PROVE  Lifecycle!Init
<1>1. \A n \in Msgs : Holders(n) = {} /\ StageOf(n) = "free"
  BY MessagesAssumption, MuxerAssumption
     DEF Init, ApiInit, Holders, Using, StageOf
<1> QED BY <1>1 DEF Lifecycle!Init

\* Whatever threads are switched between two kernel calls, a message is claimed by
\* one thread, shared by its destinations, left by each of them once and reclaimed
\* after the last one: the counters and the error paths of create_message,
\* consume_message and create_response_message do what MessageLifecycle promises.
THEOREM MuxerImplementsLifecycle ==
  ASSUME OnlyClients
  PROVE  Spec => ImplementsLifecycle
<1>1. Init => Lifecycle!Init BY InitStages
<1>2. MuxerInv /\ [Next]_vars => [Lifecycle!Next]_(Lifecycle!vars)
  <2> SUFFICES ASSUME MuxerInv, [Next]_vars
               PROVE  Lifecycle!Next \/ UNCHANGED Lifecycle!vars
    OBVIOUS
  <2>1. Lifecycle!Next \/ UNCHANGED <<Stages, Sharing>> BY NextStep DEF Step
  <2> QED BY <2>1 DEF Lifecycle!vars, Stages, Sharing
<1>3. Spec => []MuxerInv BY MuxerInvariant
<1> QED
  BY <1>1, <1>2, <1>3, PTL DEF Spec, ImplementsLifecycle, Lifecycle!Spec
=============================================================================
