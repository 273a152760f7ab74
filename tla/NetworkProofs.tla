---------------------------- MODULE NetworkProofs ---------------------------
(* Proofs about Network, for any connections and any number of packets.      *)
EXTENDS Network, TLAPS, FiniteSetTheorems

\* The steps that leave the stream and the connections alone.
LEMMA HeardStutter ==
  ASSUME HeardInv, UNCHANGED <<sock, stream, rival>>
  PROVE  HeardInv'
BY DEF HeardInv, Alone, OpenIsHeard, Open, stream

\* The steps that leave the thread, the client and the address alone.
LEMMA AddressStutter ==
  ASSUME AddressInv, UNCHANGED up
  PROVE  AddressInv'
BY DEF AddressInv, OneAddress, up

-----------------------------------------------------------------------------
(* The stream and the connections. *)

\* A client that asks for a connection, or closes one, opens none.
LEMMA HeardClient ==
  ASSUME HeardInv, NEW c \in Conns, Client(c)
  PROVE  HeardInv'
<1>1. sock' \in [Conns -> {"free", "request", "open", "ending"}]
  BY DEF Client, HeardInv
<1>2. \A d \in Conns : Open(d)' <=> Open(d)
  BY DEF Client, HeardInv, Open
<1>3. \A d \in Conns : sock'[d] = "open" => sock[d] = "open"
  BY DEF Client, HeardInv
<1>4. UNCHANGED <<stream, rival>>
  BY DEF Client
<1>5. Alone'
  BY <1>2, <1>4 DEF HeardInv, Alone
<1>6. OpenIsHeard'
  BY <1>3, <1>4 DEF HeardInv, OpenIsHeard, stream
<1> QED BY <1>1, <1>4, <1>5, <1>6 DEF HeardInv

\* A new connection takes the stream: it is alone, or it is a rival.
LEMMA HeardConnect ==
  ASSUME HeardInv, NEW c \in Conns, telnet_connect(c)
  PROVE  HeardInv'
<1>1. sock' \in [Conns -> {"free", "request", "open", "ending"}] /\ rival' \in BOOLEAN
  BY DEF telnet_connect, HeardInv, Open
<1>2. \A d \in Conns : Open(d)' <=> (Open(d) \/ d = c)
  BY DEF telnet_connect, HeardInv, Open
<1>3. rival' <=> (rival \/ \E d \in Conns : Open(d))
  BY DEF telnet_connect
<1>4. Alone'
  <2>1. CASE rival'
    BY <2>1, <1>2 DEF Alone
  <2>2. CASE ~rival'
    <3>1. \A d \in Conns : ~Open(d) BY <2>2, <1>3
    <3> QED BY <2>2, <3>1, <1>2 DEF Alone
  <2> QED BY <2>1, <2>2
<1>5. OpenIsHeard'
  <2> SUFFICES ASSUME NEW d \in Conns, sock'[d] = "open", ~rival'
               PROVE  instance' /\ logical_connection' = d
    BY DEF OpenIsHeard
  <2>1. ~Open(d) BY <1>3
  <2>2. Open(d)' BY DEF Open
  <2>3. d = c BY <1>2, <2>1, <2>2
  <2> QED BY <2>3 DEF telnet_connect
<1> QED BY <1>1, <1>4, <1>5 DEF HeardInv

\* The end of a connection takes the stream from all: the others had a rival.
LEMMA HeardDisconnect ==
  ASSUME HeardInv, NEW c \in Conns, telnet_disconnect(c)
  PROVE  HeardInv'
<1>1. sock' \in [Conns -> {"free", "request", "open", "ending"}] /\ rival' \in BOOLEAN
  BY DEF telnet_disconnect, HeardInv, Open
<1>2. \A d \in Conns : Open(d)' <=> (Open(d) /\ d # c)
  BY DEF telnet_disconnect, HeardInv, Open
<1>3. rival' <=> (rival /\ \E d \in Conns \ {c} : Open(d))
  BY DEF telnet_disconnect
<1>4. ~rival' => \A d \in Conns : ~Open(d)'
  <2> SUFFICES ASSUME ~rival', NEW d \in Conns, Open(d), d # c PROVE FALSE
    BY <1>2
  <2>1. ~rival BY <1>3
  <2>2. Open(c) BY DEF telnet_disconnect
  <2> QED BY <2>1, <2>2 DEF HeardInv, Alone
<1>5. Alone'
  <2>1. CASE rival'
    <3>1. PICK d \in Conns \ {c} : Open(d) BY <2>1, <1>3
    <3> QED BY <2>1, <3>1, <1>2 DEF Alone
  <2>2. CASE ~rival'
    BY <2>2, <1>4 DEF Alone
  <2> QED BY <2>1, <2>2
<1>6. OpenIsHeard'
  BY <1>4 DEF OpenIsHeard, Open
<1> QED BY <1>1, <1>5, <1>6 DEF HeardInv

\* HeardInv is inductive.
LEMMA HeardNext ==
  ASSUME HeardInv, [Next]_vars
  PROVE  HeardInv'
<1>1. CASE app_network_thread_entry
  BY <1>1, HeardStutter DEF app_network_thread_entry
<1>2. CASE Link \/ Lease
  BY <1>2, HeardStutter DEF Link, Lease
<1>3. ASSUME NEW c \in Conns, Client(c) PROVE HeardInv'
  BY <1>3, HeardClient
<1>4. ASSUME NEW c \in Conns, telnet_connect(c) PROVE HeardInv'
  BY <1>4, HeardConnect
<1>5. ASSUME NEW c \in Conns, telnet_disconnect(c) PROVE HeardInv'
  BY <1>5, HeardDisconnect
<1>6. ASSUME NEW c \in Conns, telnet_data_in(c) \/ Acknowledge(c) PROVE HeardInv'
  BY <1>6, HeardStutter DEF telnet_data_in, Acknowledge
<1>7. CASE Answer
  BY <1>7, HeardStutter DEF Answer
<1>8. ASSUME NEW t \in Threads, hw_transmit(t) PROVE HeardInv'
  BY <1>8, HeardStutter DEF hw_transmit
<1>9. CASE UNCHANGED vars
  BY <1>9, HeardStutter DEF vars
<1> QED BY <1>1, <1>2, <1>3, <1>4, <1>5, <1>6, <1>7, <1>8, <1>9 DEF Next

-----------------------------------------------------------------------------
(* The address. *)

\* AddressInv is inductive.
LEMMA AddressNext ==
  ASSUME AddressInv, [Next]_vars
  PROVE  AddressInv'
<1> USE DEF AddressInv, OneAddress, NetGoto
<1>1. CASE app_network_thread_entry
  <2>1. CASE WaitLink BY <2>1 DEF WaitLink
  <2>2. CASE StartDhcp BY <2>2 DEF StartDhcp
  <2>3. CASE WaitAddress BY <2>3 DEF WaitAddress
  <2>4. CASE StopDhcp BY <2>4 DEF StopDhcp
  <2>5. CASE SetFallback BY <2>5 DEF SetFallback
  <2>6. CASE Serve BY <2>6 DEF Serve
  <2> QED BY <1>1, <2>1, <2>2, <2>3, <2>4, <2>5, <2>6 DEF app_network_thread_entry
<1>2. CASE Lease
  BY <1>2 DEF Lease
<1>3. CASE Link \/ Answer
  BY <1>3 DEF Link, Answer, up
<1>4. ASSUME NEW c \in Conns,
             \/ Client(c) \/ telnet_connect(c) \/ telnet_disconnect(c)
             \/ telnet_data_in(c) \/ Acknowledge(c)
      PROVE  AddressInv'
  <2>1. UNCHANGED up
    BY <1>4 DEF Client, telnet_connect, telnet_disconnect, telnet_data_in, Acknowledge
  <2> QED BY <2>1, AddressStutter
<1>5. ASSUME NEW t \in Threads, hw_transmit(t) PROVE AddressInv'
  BY <1>5, AddressStutter DEF hw_transmit
<1>6. CASE UNCHANGED vars
  BY <1>6, AddressStutter DEF vars
<1> QED BY <1>1, <1>2, <1>3, <1>4, <1>5, <1>6 DEF Next

-----------------------------------------------------------------------------
(* The packets.  TCP has as many as the pairs in Waiting: a connection that   *)
(* goes from k packets to n adds n - k of them.                               *)

\* The packets of the other connections.
Others(c) == {w \in Conns \X (1 .. Packets) : w[1] # c /\ w[2] <= tcp[w[1]]}

LEMMA OfOne ==
  ASSUME NEW c \in Conns, NEW k \in 0 .. Packets
  PROVE  IsFiniteSet({c} \X (1 .. k)) /\ Cardinality({c} \X (1 .. k)) = k
<1>1. k \in Int /\ k \in Nat BY NetworkAssumption
<1>2. IsFiniteSet(1 .. k) /\ Cardinality(1 .. k) = k
  BY <1>1, FS_Interval
<1>3. IsFiniteSet({c}) /\ Cardinality({c}) = 1 BY FS_Singleton
<1>4. IsFiniteSet({c} \X (1 .. k)) /\ Cardinality({c} \X (1 .. k)) = 1 * k
  BY <1>2, <1>3, FS_Product
<1> QED BY <1>1, <1>4

LEMMA OthersFinite ==
  ASSUME NEW c \in Conns
  PROVE  IsFiniteSet(Others(c)) /\ Cardinality(Others(c)) \in Nat
<1>1. IsFiniteSet(Conns) /\ IsFiniteSet(1 .. Packets)
  BY NetworkAssumption, FS_Interval
<1>2. IsFiniteSet(Conns \X (1 .. Packets)) BY <1>1, FS_Product
<1>3. Others(c) \in SUBSET (Conns \X (1 .. Packets)) BY DEF Others
<1> QED BY <1>2, <1>3, FS_Subset, FS_CardinalityType

LEMMA CountSplits ==
  ASSUME NEW c \in Conns, tcp \in [Conns -> 0 .. Packets]
  PROVE  Cardinality(Waiting) = Cardinality(Others(c)) + tcp[c]
<1> DEFINE own == {c} \X (1 .. tcp[c])
<1>1. tcp[c] \in 0 .. Packets OBVIOUS
<1>2. IsFiniteSet(own) /\ Cardinality(own) = tcp[c] BY <1>1, OfOne
<1>3. Waiting = Others(c) \cup own
  BY <1>1, NetworkAssumption DEF Waiting, Others
<1>4. Others(c) \cap own = {} BY DEF Others
<1>5. Cardinality({}) = 0 BY FS_EmptySet
<1> HIDE DEF own
<1>6. Cardinality(Others(c) \cup own) = Cardinality(Others(c)) + Cardinality(own) - 0
  BY <1>2, <1>4, <1>5, OthersFinite, FS_Union
<1> QED BY <1>1, <1>2, <1>3, <1>6, OthersFinite, NetworkAssumption

\* One connection changes its packets.
LEMMA Recount ==
  ASSUME NEW c \in Conns, tcp \in [Conns -> 0 .. Packets],
         NEW k \in 0 .. Packets, tcp' = [tcp EXCEPT ![c] = k]
  PROVE  /\ Cardinality(Waiting)' = Cardinality(Waiting) - tcp[c] + k
         /\ tcp' \in [Conns -> 0 .. Packets]
<1>1. tcp' \in [Conns -> 0 .. Packets] /\ tcp'[c] = k OBVIOUS
<1>2. Others(c)' = Others(c) BY DEF Others
<1>3. Cardinality(Waiting)' = Cardinality(Others(c))' + tcp'[c]
  <2>1. IsFiniteSet(Others(c)') /\ Cardinality(Others(c)') \in Nat
    BY <1>2, OthersFinite
  <2> DEFINE own == {c} \X (1 .. tcp'[c])
  <2>2. IsFiniteSet(own) /\ Cardinality(own) = k BY <1>1, OfOne
  <2>3. Waiting' = Others(c)' \cup own
    BY <1>1, NetworkAssumption DEF Waiting, Others
  <2>4. Others(c)' \cap own = {} BY DEF Others
  <2>5. Cardinality({}) = 0 BY FS_EmptySet
  <2> HIDE DEF own
  <2>6. Cardinality(Others(c)' \cup own) = Cardinality(Others(c)') + Cardinality(own) - 0
    BY <2>1, <2>2, <2>4, <2>5, FS_Union
  <2> QED BY <1>1, <2>1, <2>2, <2>3, <2>6, NetworkAssumption
<1> QED BY <1>1, <1>2, <1>3, CountSplits, OthersFinite, NetworkAssumption

\* What a thread may have, and the places where it may be.
Jobs == [received : {0, 1}, built : 0 .. 2, texts : 0 .. 2]
Places == {"idle", "test", "allocate", "append", "send", "release"}

\* What a thread has in its hands at each place.
Fits(place, j) ==
  /\ place = "idle" => j = NoJob
  /\ place \in {"test", "allocate"} => j.built = 0
  /\ place = "append" => j.built = 1
  /\ place = "release" => j.received = 1 /\ j.built = 0

\* The counts behind PacketsAccounted are numbers, none is more than Packets.
LEMMA Counts ==
  ASSUME NetInv
  PROVE  /\ pool \in Nat /\ Cardinality(Waiting) \in Nat
         /\ \A t \in Threads : /\ job[t].received \in {0, 1} /\ job[t].built \in 0 .. 2
                               /\ Held(t) \in Nat
                               /\ Held(t) = job[t].received + job[t].built
         /\ \A c \in Conns : tcp[c] \in Nat /\ tcp[c] <= Cardinality(Waiting)
<1>1. pool \in Nat BY NetworkAssumption DEF NetInv, TypeOK
<1>2. tcp \in [Conns -> 0 .. Packets] BY DEF NetInv, TypeOK
<1>3. \A t \in Threads : job[t].received \in {0, 1} /\ job[t].built \in 0 .. 2
  BY DEF NetInv, TypeOK
<1>4. \A t \in Threads : Held(t) \in Nat /\ Held(t) = job[t].received + job[t].built
  BY <1>3 DEF Held
<1>5. \A c \in Conns : tcp[c] \in Nat /\ tcp[c] <= Cardinality(Waiting)
  BY <1>2, CountSplits, OthersFinite, NetworkAssumption
<1>6. Cardinality(Waiting) \in Nat
  <2>1. IsFiniteSet(Conns \X (1 .. Packets))
    <3>1. IsFiniteSet(Conns) /\ IsFiniteSet(1 .. Packets)
      BY NetworkAssumption, FS_Interval
    <3> QED BY <3>1, FS_Product
  <2>2. Waiting \in SUBSET (Conns \X (1 .. Packets)) BY DEF Waiting
  <2> QED BY <2>1, <2>2, FS_Subset, FS_CardinalityType
<1> QED BY <1>1, <1>3, <1>4, <1>5, <1>6

\* A step that leaves the packets, the threads and the connections alone.
LEMMA PacketsStutter ==
  ASSUME NetInv, UNCHANGED <<pool, tcp, pc, job>>,
         sock' \in [Conns -> {"free", "request", "open", "ending"}],
         net' \in {"link", "start", "wait", "stop", "fallback", "serve", "done", "failed"},
         dhcp' \in {"off", "asking", "bound"}, address' \in {"none", "leased", "fallback"},
         {link', instance', rival'} \subseteq BOOLEAN,
         logical_connection' \in Conns \cup {None}
  PROVE  NetInv'
<1>1. TypeOK' BY DEF NetInv, TypeOK
<1>2. Cardinality(Waiting)' = Cardinality(Waiting) BY DEF Waiting
<1>3. PacketsAccounted' BY <1>2 DEF NetInv, PacketsAccounted, Held
<1>4. InHands' BY DEF NetInv, InHands
<1> QED BY <1>1, <1>3, <1>4 DEF NetInv

\* One thread takes packets from the pool or gives them back, to the pool or to
\* TCP, and goes on to a place that fits with what it has then.
LEMMA PacketsMove ==
  ASSUME NetInv,
         sock' \in [Conns -> {"free", "request", "open", "ending"}],
         {instance', rival'} \subseteq BOOLEAN, logical_connection' \in Conns \cup {None},
         UNCHANGED <<up, link>>,
         NEW t \in Threads, NEW place \in Places, NEW j \in Jobs,
         pc' = [pc EXCEPT ![t] = place], job' = [job EXCEPT ![t] = j],
         Fits(place, j),
         pool' \in Nat, Cardinality(Waiting)' \in Nat,
         tcp' \in [Conns -> 0 .. Packets],
         pool' + Cardinality(Waiting)' + (j.received + j.built)
           = pool + Cardinality(Waiting) + Held(t)
  PROVE  NetInv'
<1>1. PICK o \in Threads : o # t /\ Threads = {t, o} BY DEF Threads
<1>2. /\ job'[t] = j /\ job'[o] = job[o]
      /\ pc'[t] = place /\ pc'[o] = pc[o]
      /\ job' \in [Threads -> Jobs] /\ pc' \in [Threads -> Places]
  BY <1>1 DEF NetInv, TypeOK, Jobs, Places
<1>3. /\ Held("telnet") + Held("parser") = Held(t) + Held(o)
      /\ Held("telnet")' + Held("parser")' = Held(t)' + Held(o)'
      /\ Held(t)' = j.received + j.built /\ Held(o)' = Held(o)
  <2>1. j.received \in {0, 1} /\ j.built \in 0 .. 2 BY DEF Jobs
  <2>2. Held(t) \in Nat /\ Held(o) \in Nat BY Counts
  <2>3. Held(t)' = j.received + j.built /\ Held(o)' = Held(o) BY <1>2 DEF Held
  <2>4. CASE t = "telnet" /\ o = "parser" BY <2>1, <2>2, <2>3, <2>4
  <2>5. CASE t = "parser" /\ o = "telnet" BY <2>1, <2>2, <2>3, <2>5
  <2> QED BY <1>1, <2>4, <2>5 DEF Threads
<1>4. PacketsAccounted' /\ pool' \in 0 .. Packets
  <2> DEFINE held == j.received + j.built
  <2>1. held \in Nat /\ pool \in Nat /\ Cardinality(Waiting) \in Nat
    BY Counts DEF Jobs
  <2>2. Held(t) \in Nat /\ Held(o) \in Nat BY Counts
  <2>3. pool + Cardinality(Waiting) + (Held(t) + Held(o)) = Packets
    BY <1>3, <2>1, Counts DEF NetInv, PacketsAccounted, Threads
  <2>4. pool' + Cardinality(Waiting)' + held = pool + Cardinality(Waiting) + Held(t)
    OBVIOUS
  <2>5. Held(t)' = held /\ Held(o)' = Held(o) BY <1>3
  <2> HIDE DEF held
  <2>6. /\ pool' + Cardinality(Waiting)' + (held + Held(o)) = Packets
        /\ pool' <= Packets
    BY <2>1, <2>2, <2>3, <2>4
  <2>7. pool' + Cardinality(Waiting)' + (Held("telnet")' + Held("parser")') = Packets
    BY <1>3, <2>5, <2>6
  <2>8. Held("telnet")' \in Nat /\ Held("parser")' \in Nat
    BY <1>1, <2>1, <2>2, <2>5 DEF Threads
  <2>9. pool' \in 0 .. Packets BY <2>6, NetworkAssumption
  <2> QED BY <2>7, <2>8, <2>9 DEF PacketsAccounted
<1>6. TypeOK' BY <1>2, <1>4 DEF NetInv, TypeOK, up, Jobs, Places
<1>7. InHands' BY <1>1, <1>2 DEF NetInv, InHands, Fits
<1> QED BY <1>4, <1>6, <1>7 DEF NetInv

\* What EndText leaves to a thread.
LEMMA AfterText ==
  ASSUME NetInv, NEW t \in Threads, EndText(t)
  PROVE  \E place \in Places, j \in Jobs :
           /\ pc' = [pc EXCEPT ![t] = place] /\ job' = [job EXCEPT ![t] = j]
           /\ Fits(place, j) /\ j.received = job[t].received /\ j.built = 0
<1>1. job \in [Threads -> Jobs] /\ job[t] \in Jobs BY DEF NetInv, TypeOK, Jobs
<1>2. CASE job[t].texts > 1
  <2> DEFINE j == [job[t] EXCEPT !.texts = job[t].texts - 1, !.built = 0]
  <2>0. /\ job[t].received \in {0, 1} /\ job[t].texts \in 0 .. 2
        /\ job[t].texts - 1 \in 0 .. 2 /\ 0 \in 0 .. 2
    BY <1>1, <1>2 DEF Jobs
  <2>1. j \in Jobs /\ j.received = job[t].received /\ j.built = 0
    BY <1>1, <2>0 DEF Jobs
  <2>2. job' = [job EXCEPT ![t] = j] BY <1>1, <1>2 DEF EndText, Jobs
  <2>3. pc' = [pc EXCEPT ![t] = "test"] BY <1>2 DEF EndText, Goto
  <2>4. Fits("test", j) BY <2>1 DEF Fits
  <2>5. "test" \in Places BY DEF Places
  <2> QED BY <2>1, <2>2, <2>3, <2>4, <2>5
<1>3. CASE ~ (job[t].texts > 1)
  <2> DEFINE j == [NoJob EXCEPT !.received = job[t].received]
             place == IF job[t].received > 0 THEN "release" ELSE "idle"
  <2>1. j \in Jobs /\ j.received = job[t].received /\ j.built = 0
    BY <1>1 DEF Jobs, NoJob
  <2>2. job' = [job EXCEPT ![t] = j] /\ pc' = [pc EXCEPT ![t] = place]
    BY <1>3 DEF EndText, Goto
  <2>3. Fits(place, j) /\ place \in Places BY <1>1 DEF Fits, Jobs, NoJob, Places
  <2> QED BY <2>1, <2>2, <2>3
<1> QED BY <1>2, <1>3

LEMMA PacketsWork ==
  ASSUME NetInv, NEW t \in Threads, pc[t] = "idle",
         NEW received \in {0, 1}, NEW texts \in 1 .. 2, Work(t, received, texts),
         sock' \in [Conns -> {"free", "request", "open", "ending"}],
         {instance', rival'} \subseteq BOOLEAN, logical_connection' \in Conns \cup {None},
         UNCHANGED <<up, link, tcp>>,
         pool' \in Nat, pool' + received = pool
  PROVE  NetInv'
<1> DEFINE j == [received |-> received, built |-> 0, texts |-> texts]
<1>1. j \in Jobs /\ j.received = received /\ j.built = 0 BY DEF Jobs
<1>2. pc' = [pc EXCEPT ![t] = "test"] /\ job' = [job EXCEPT ![t] = j] BY DEF Work
<1>3. Fits("test", j) /\ "test" \in Places BY <1>1 DEF Fits, Places
<1>4. Held(t) = 0 BY DEF NetInv, InHands, Held, NoJob
<1>5. Cardinality(Waiting)' = Cardinality(Waiting) /\ Cardinality(Waiting) \in Nat
  BY Counts DEF Waiting
<1>6. tcp' \in [Conns -> 0 .. Packets] BY DEF NetInv, TypeOK
<1> HIDE DEF j
<1>7. pool' + Cardinality(Waiting)' + (j.received + j.built)
        = pool + Cardinality(Waiting) + Held(t)
  BY <1>1, <1>4, <1>5, Counts
<1> QED BY <1>1, <1>2, <1>3, <1>5, <1>6, <1>7, PacketsMove

\* The packets of a connection come back to the pool.
LEMMA PacketsBack ==
  ASSUME NetInv, NEW c \in Conns,
         pool' = pool + tcp[c], tcp' = [tcp EXCEPT ![c] = 0], UNCHANGED <<pc, job>>,
         sock' \in [Conns -> {"free", "request", "open", "ending"}],
         {instance', rival'} \subseteq BOOLEAN, logical_connection' \in Conns \cup {None},
         UNCHANGED <<up, link>>
  PROVE  NetInv'
<1>1. tcp \in [Conns -> 0 .. Packets] /\ 0 \in 0 .. Packets
  BY NetworkAssumption DEF NetInv, TypeOK
<1>2. /\ Cardinality(Waiting)' = Cardinality(Waiting) - tcp[c] + 0
      /\ tcp' \in [Conns -> 0 .. Packets]
  BY <1>1, Recount
<1>3. /\ pc["parser"] \in Places /\ job["parser"] \in Jobs /\ "parser" \in Threads
      /\ pc' = [pc EXCEPT !["parser"] = pc["parser"]]
      /\ job' = [job EXCEPT !["parser"] = job["parser"]]
  BY DEF NetInv, TypeOK, Places, Jobs, Threads
<1>4. Fits(pc["parser"], job["parser"]) BY <1>3 DEF NetInv, InHands, Fits
<1>5. /\ pool' \in Nat /\ Cardinality(Waiting)' \in Nat
      /\ pool' + Cardinality(Waiting)' = pool + Cardinality(Waiting)
  BY <1>2, Counts
<1>6. Held("parser") = job["parser"].received + job["parser"].built BY DEF Held
<1> QED BY <1>2, <1>3, <1>4, <1>5, <1>6, PacketsMove

\* A thread goes on in a text: it takes packets from the pool, or gives them back,
\* and nothing else changes.
LEMMA PacketsText ==
  ASSUME NetInv, NEW t \in Threads, hw_transmit(t),
         NEW place \in Places, NEW j \in Jobs,
         pc' = [pc EXCEPT ![t] = place], job' = [job EXCEPT ![t] = j],
         Fits(place, j), tcp' = tcp, pool' \in Nat,
         pool' + (j.received + j.built) = pool + Held(t)
  PROVE  NetInv'
<1>1. Cardinality(Waiting)' = Cardinality(Waiting) /\ Cardinality(Waiting) \in Nat
  BY Counts DEF Waiting
<1>2. /\ sock' \in [Conns -> {"free", "request", "open", "ending"}]
      /\ {instance', rival'} \subseteq BOOLEAN /\ logical_connection' \in Conns \cup {None}
      /\ UNCHANGED <<up, link>> /\ tcp' \in [Conns -> 0 .. Packets]
  BY DEF hw_transmit, NetInv, TypeOK, stream
<1>3. j.received + j.built \in Nat BY DEF Jobs
<1>4. pool' + Cardinality(Waiting)' + (j.received + j.built)
        = pool + Cardinality(Waiting) + Held(t)
  BY <1>1, <1>3, Counts
<1> QED BY <1>1, <1>2, <1>4, PacketsMove

\* A text ends, and the packets it had built are back in the pool.
LEMMA PacketsEndText ==
  ASSUME NetInv, NEW t \in Threads, hw_transmit(t), EndText(t), tcp' = tcp,
         pool' = pool + job[t].built
  PROVE  NetInv'
<1>1. PICK place \in Places, j \in Jobs :
        /\ pc' = [pc EXCEPT ![t] = place] /\ job' = [job EXCEPT ![t] = j]
        /\ Fits(place, j) /\ j.received = job[t].received /\ j.built = 0
  BY AfterText
<1>2. pool' \in Nat /\ pool' + (j.received + j.built) = pool + Held(t)
  BY <1>1, Counts
<1> QED BY <1>1, <1>2, PacketsText

LEMMA PacketsTransmit ==
  ASSUME NetInv, NEW t \in Threads, hw_transmit(t)
  PROVE  NetInv'
<1>1. /\ job[t] \in Jobs /\ job[t].received \in {0, 1} /\ job[t].built \in 0 .. 2
      /\ pool \in Nat /\ Held(t) = job[t].received + job[t].built
  BY Counts DEF NetInv, TypeOK, Jobs
<1>2. CASE TestInstance(t)
  <2>1. pc[t] = "test" /\ pool' = pool /\ tcp' = tcp /\ job[t].built = 0
    BY <1>2 DEF TestInstance, NetInv, InHands
  <2>2. CASE instance
    <3>1. pc' = [pc EXCEPT ![t] = "allocate"] /\ job' = [job EXCEPT ![t] = job[t]]
      BY <1>2, <2>2 DEF TestInstance, Goto, NetInv, TypeOK
    <3>2. Fits("allocate", job[t]) /\ "allocate" \in Places BY <2>1 DEF Fits, Places
    <3> QED BY <1>1, <2>1, <3>1, <3>2, PacketsText
  <2>3. CASE ~ instance
    <3>1. EndText(t) /\ pool' = pool + job[t].built
      BY <1>1, <1>2, <2>1, <2>3 DEF TestInstance
    <3> QED BY <2>1, <3>1, PacketsEndText
  <2> QED BY <2>2, <2>3
<1>3. CASE Allocate(t)
  <2>1. pc[t] = "allocate" /\ tcp' = tcp /\ job[t].built = 0
    BY <1>3 DEF Allocate, NetInv, InHands
  <2>2. CASE pool > 0
    <3> DEFINE j == [job[t] EXCEPT !.built = 1]
    <3>1. j \in Jobs /\ j.received = job[t].received /\ j.built = 1
      BY <1>1 DEF Jobs
    <3>2. /\ pc' = [pc EXCEPT ![t] = "append"] /\ job' = [job EXCEPT ![t] = j]
          /\ pool' = pool - 1
      BY <1>3, <2>2 DEF Allocate, Goto, NetInv, TypeOK
    <3>3. Fits("append", j) /\ "append" \in Places BY <3>1 DEF Fits, Places
    <3>4. pool' \in Nat /\ pool' + (j.received + j.built) = pool + Held(t)
      BY <1>1, <2>1, <2>2, <3>1, <3>2
    <3> QED BY <2>1, <3>1, <3>2, <3>3, <3>4, PacketsText
  <2>3. CASE ~ (pool > 0)
    <3>1. EndText(t) /\ pool' = pool + job[t].built
      BY <1>1, <1>3, <2>1, <2>3 DEF Allocate
    <3> QED BY <2>1, <3>1, PacketsEndText
  <2> QED BY <2>2, <2>3
<1>4. CASE DataAppend(t)
  <2>1. pc[t] = "append" /\ tcp' = tcp /\ job[t].built = 1
    BY <1>4 DEF DataAppend, NetInv, InHands
  <2>2. CASE Goto(t, "send") /\ UNCHANGED <<pool, job>>
    <3>1. pc' = [pc EXCEPT ![t] = "send"] /\ job' = [job EXCEPT ![t] = job[t]]
      BY <2>2 DEF Goto, NetInv, TypeOK
    <3>2. Fits("send", job[t]) /\ "send" \in Places BY DEF Fits, Places
    <3> QED BY <1>1, <2>1, <2>2, <3>1, <3>2, PacketsText
  <2>3. CASE /\ pool > 0 /\ pool' = pool - 1
             /\ job' = [job EXCEPT ![t].built = 2] /\ Goto(t, "send")
    <3> DEFINE j == [job[t] EXCEPT !.built = 2]
    <3>1. j \in Jobs /\ j.received = job[t].received /\ j.built = 2
      BY <1>1 DEF Jobs
    <3>2. pc' = [pc EXCEPT ![t] = "send"] /\ job' = [job EXCEPT ![t] = j]
      BY <2>3 DEF Goto, NetInv, TypeOK
    <3>3. Fits("send", j) /\ "send" \in Places BY DEF Fits, Places
    <3>4. pool' \in Nat /\ pool' + (j.received + j.built) = pool + Held(t)
      BY <1>1, <2>1, <2>3, <3>1
    <3> QED BY <2>1, <3>1, <3>2, <3>3, <3>4, PacketsText
  <2>4. CASE pool = 0 /\ pool' = pool + 1 /\ EndText(t)
    BY <2>1, <2>4, PacketsEndText
  <2> QED BY <1>4, <2>2, <2>3, <2>4 DEF DataAppend
<1>5. CASE Refused(t)
  BY <1>5, PacketsEndText DEF Refused
<1>6. CASE Release(t)
  <2>1. /\ pc[t] = "release" /\ tcp' = tcp
        /\ job[t].received = 1 /\ job[t].built = 0
    BY <1>6 DEF Release, NetInv, InHands
  <2>2. /\ pc' = [pc EXCEPT ![t] = "idle"] /\ job' = [job EXCEPT ![t] = NoJob]
        /\ pool' = pool + 1
    BY <1>6, <2>1 DEF Release, Goto
  <2>3. /\ NoJob \in Jobs /\ NoJob.received = 0 /\ NoJob.built = 0
        /\ Fits("idle", NoJob) /\ "idle" \in Places
    BY DEF NoJob, Jobs, Fits, Places
  <2>4. pool' \in Nat /\ pool' + (NoJob.received + NoJob.built) = pool + Held(t)
    BY <1>1, <2>1, <2>2, <2>3
  <2> QED BY <2>1, <2>2, <2>3, <2>4, PacketsText
<1>7. ASSUME NEW c \in Conns, Accepted(t, c)
      PROVE  NetInv'
  <2>1. /\ EndText(t) /\ pool' = pool
        /\ tcp' = [tcp EXCEPT ![c] = tcp[c] + job[t].built]
    BY <1>7 DEF Accepted, NetInv, TypeOK
  <2>2. PICK place \in Places, j \in Jobs :
          /\ pc' = [pc EXCEPT ![t] = place] /\ job' = [job EXCEPT ![t] = j]
          /\ Fits(place, j) /\ j.received = job[t].received /\ j.built = 0
    BY <2>1, AfterText
  <2>3. /\ tcp \in [Conns -> 0 .. Packets]
        /\ tcp[c] \in Nat /\ tcp[c] <= Cardinality(Waiting) /\ Cardinality(Waiting) \in Nat
    BY Counts DEF NetInv, TypeOK
  <2>4. tcp[c] + job[t].built \in 0 .. Packets
    <3>1. pool + Cardinality(Waiting) + Held("telnet") + Held("parser") = Packets
      BY DEF NetInv, PacketsAccounted
    <3>2. Held("telnet") \in Nat /\ Held("parser") \in Nat BY Counts DEF Threads
    <3>3. Held(t) = Held("telnet") \/ Held(t) = Held("parser") BY DEF Threads
    <3>4. Cardinality(Waiting) + Held(t) <= Packets
      BY <1>1, <2>3, <3>1, <3>2, <3>3, NetworkAssumption
    <3> QED BY <1>1, <2>3, <3>4, NetworkAssumption
  <2>5. /\ Cardinality(Waiting)' = Cardinality(Waiting) - tcp[c] + (tcp[c] + job[t].built)
        /\ tcp' \in [Conns -> 0 .. Packets]
    BY <2>1, <2>3, <2>4, Recount
  <2>6. /\ pool' \in Nat /\ Cardinality(Waiting)' \in Nat
        /\ pool' + Cardinality(Waiting)' + (j.received + j.built)
             = pool + Cardinality(Waiting) + Held(t)
    BY <1>1, <2>1, <2>2, <2>3, <2>5
  <2>7. /\ sock' \in [Conns -> {"free", "request", "open", "ending"}]
        /\ {instance', rival'} \subseteq BOOLEAN /\ logical_connection' \in Conns \cup {None}
        /\ UNCHANGED <<up, link>>
    BY DEF hw_transmit, NetInv, TypeOK, stream
  <2> QED BY <2>2, <2>5, <2>6, <2>7, PacketsMove
<1> QED BY <1>2, <1>3, <1>4, <1>5, <1>6, <1>7 DEF hw_transmit

\* NetInv is inductive.
LEMMA PacketsNext ==
  ASSUME NetInv, [Next]_vars
  PROVE  NetInv'
<1>0. /\ sock \in [Conns -> {"free", "request", "open", "ending"}]
      /\ net \in {"link", "start", "wait", "stop", "fallback", "serve", "done", "failed"}
      /\ dhcp \in {"off", "asking", "bound"} /\ address \in {"none", "leased", "fallback"}
      /\ {link, instance, rival} \subseteq BOOLEAN
      /\ logical_connection \in Conns \cup {None}
  BY DEF NetInv, TypeOK
<1>1. CASE app_network_thread_entry
  <2>1. /\ net' \in {"link", "start", "wait", "stop", "fallback", "serve", "done", "failed"}
        /\ dhcp' \in {"off", "asking", "bound"}
        /\ address' \in {"none", "leased", "fallback"}
    BY <1>0, <1>1 DEF app_network_thread_entry, WaitLink, StartDhcp, WaitAddress,
                      StopDhcp, SetFallback, Serve, NetGoto
  <2> QED BY <1>0, <1>1, <2>1, PacketsStutter DEF app_network_thread_entry, stream
<1>2. CASE Link \/ Lease
  BY <1>0, <1>2, PacketsStutter DEF Link, Lease, up, stream
<1>3. ASSUME NEW c \in Conns, Client(c) PROVE NetInv'
  BY <1>0, <1>3, PacketsStutter DEF Client, up, stream
<1>4. ASSUME NEW c \in Conns, telnet_connect(c) PROVE NetInv'
  <2>1. /\ sock' \in [Conns -> {"free", "request", "open", "ending"}]
        /\ {instance', rival'} \subseteq BOOLEAN /\ logical_connection' \in Conns \cup {None}
        /\ UNCHANGED <<up, link, tcp>> /\ pool' = pool
        /\ pc["telnet"] = "idle" /\ Work("telnet", 0, 2)
    BY <1>0, <1>4 DEF telnet_connect
  <2>2. pool' \in Nat /\ pool' + 0 = pool BY <2>1, Counts
  <2> QED BY <2>1, <2>2, PacketsWork DEF Threads
<1>5. ASSUME NEW c \in Conns, telnet_disconnect(c) PROVE NetInv'
  <2>1. /\ sock' \in [Conns -> {"free", "request", "open", "ending"}]
        /\ {instance', rival'} \subseteq BOOLEAN /\ logical_connection' \in Conns \cup {None}
    BY <1>0, <1>5 DEF telnet_disconnect
  <2> QED BY <1>5, <2>1, PacketsBack DEF telnet_disconnect
<1>6. ASSUME NEW c \in Conns, telnet_data_in(c) PROVE NetInv'
  <2>1. PICK texts \in 1 .. 2 : Work("telnet", 1, texts)
    BY <1>6 DEF telnet_data_in
  <2>2. pool' \in Nat /\ pool' + 1 = pool BY <1>6, Counts DEF telnet_data_in
  <2> QED BY <1>0, <1>6, <2>1, <2>2, PacketsWork DEF telnet_data_in, stream, Threads
<1>7. ASSUME NEW c \in Conns, Acknowledge(c) PROVE NetInv'
  BY <1>0, <1>7, PacketsBack DEF Acknowledge, stream
<1>8. CASE Answer
  <2>1. pool' \in Nat /\ pool' + 0 = pool BY <1>8, Counts DEF Answer
  <2> QED BY <1>0, <1>8, <2>1, PacketsWork DEF Answer, stream, Threads
<1>9. ASSUME NEW t \in Threads, hw_transmit(t) PROVE NetInv'
  BY <1>9, PacketsTransmit
<1>10. CASE UNCHANGED vars
  BY <1>0, <1>10, PacketsStutter DEF vars, up, stream
<1> QED BY <1>1, <1>2, <1>3, <1>4, <1>5, <1>6, <1>7, <1>8, <1>9, <1>10 DEF Next

LEMMA PacketsInit ==
  ASSUME Init
  PROVE  NetInv
<1>1. TypeOK
  <2>1. Packets \in 0 .. Packets /\ 0 \in 0 .. Packets BY NetworkAssumption
  <2>2. NoJob \in [received : {0, 1}, built : 0 .. 2, texts : 0 .. 2] BY DEF NoJob
  <2>3. {link, instance, rival} \subseteq BOOLEAN BY DEF Init
  <2> QED BY <2>1, <2>2, <2>3 DEF Init, TypeOK
<1>2. InHands BY DEF Init, InHands, NoJob
<1>3. Waiting = {} BY NetworkAssumption DEF Init, Waiting
<1>4. Held("telnet") = 0 /\ Held("parser") = 0 BY DEF Init, Held, NoJob, Threads
<1>5. PacketsAccounted
  BY <1>3, <1>4, FS_EmptySet, NetworkAssumption DEF Init, PacketsAccounted
<1> QED BY <1>1, <1>2, <1>5 DEF NetInv

-----------------------------------------------------------------------------
\* Whatever the number of connections, one that never was one of two is heard
\* and answered: the stream of the Telnet server is its own.
THEOREM HeardAlone == Spec => []OpenIsHeard
<1>1. Init => HeardInv
  BY DEF Init, HeardInv, Alone, OpenIsHeard, Open
<1>2. HeardInv /\ [Next]_vars => HeardInv'
  BY HeardNext
<1>3. HeardInv => OpenIsHeard
  BY DEF HeardInv
<1> QED BY <1>1, <1>2, <1>3, PTL DEF Spec

\* Whenever the lease comes: the fallback is only set when the DHCP client is off,
\* and the server only starts without the client if it is set.
THEOREM AddressIsOne == Spec => []OneAddress
<1>1. Init => AddressInv
  BY DEF Init, AddressInv, OneAddress
<1>2. AddressInv /\ [Next]_vars => AddressInv'
  BY AddressNext
<1>3. AddressInv => OneAddress
  BY DEF AddressInv
<1> QED BY <1>1, <1>2, <1>3, PTL DEF Spec

\* Whatever fails in hw_transmit and telnet_data_in, and however the connections
\* end, no packet is lost and none is released twice.
THEOREM PacketsKept == Spec => []NetInv
<1>1. Init => NetInv
  BY PacketsInit
<1>2. NetInv /\ [Next]_vars => NetInv'
  BY PacketsNext
<1> QED BY <1>1, <1>2, PTL DEF Spec
=============================================================================
