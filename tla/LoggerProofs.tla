---------------------------- MODULE LoggerProofs ----------------------------
(***************************************************************************)
(* Proofs about module Logger, for any buffer size, threshold, line sizes  *)
(* and number of lines, under one hypothesis: a transmission does not      *)
(* outlast the timeout of logger_task.                                     *)
(***************************************************************************)
EXTENDS Logger, TLAPS

\* There are two buffers.
LEMMA OtherBuffer ==
  ASSUME NEW b \in Buffers
  PROVE  Other(b) \in Buffers /\ Other(b) # b /\ Other(Other(b)) = b
BY DEF Buffers, Other

LEMMA LoggerInit == Init => LoggerInv
<1> SUFFICES ASSUME Init PROVE LoggerInv
  OBVIOUS
<1> USE LoggerAssumption DEF Init, Buffers
<1>1. TypeOK
  <2>1. LOG_BUFFER_SIZE \in Nat \ {0}
    OBVIOUS
  <2> QED
    BY <2>1 DEF TypeOK
<1>2. DmaBufferQuiet /\ NoStaleToken /\ SentBuffer
  BY DEF DmaBufferQuiet, NoStaleToken, SentBuffer
<1>3. TokenForThreshold /\ LinesCalled
  BY DEF TokenForThreshold, LinesCalled
<1> QED
  BY <1>1, <1>2, <1>3 DEF LoggerInv

\* A line is appended to the active buffer, which logger_task is not sending.
LEMMA AddLogInv ==
  ASSUME LoggerInv, NEW size \in LineSizes, add_log(size)
  PROVE  LoggerInv'
<1> USE LoggerAssumption DEF LoggerInv
<1>1. /\ calls \in 0 .. MaxLines /\ calls < MaxLines /\ calls' = calls + 1
      /\ calls + 1 \in 1 .. MaxLines
      /\ UNCHANGED <<taskVars, uartVars, handed>>
  BY DEF add_log, TypeOK
<1>2. size \in Nat \ {0}
  OBVIOUS
<1>3. CASE Fits(buffer_size[active_buffer] + size)
  <2> DEFINE after == buffer_size[active_buffer] + size
  <2>1. /\ log_buffer' = [log_buffer EXCEPT ![active_buffer] =
                            Append(@, calls + 1)]
        /\ buffer_size' = [buffer_size EXCEPT ![active_buffer] = after]
        /\ dma_trigger' = IF Crosses(buffer_size[active_buffer], after)
                          THEN dma_trigger + 1 ELSE dma_trigger
    BY <1>3 DEF add_log
  <2>2. /\ active_buffer \in Buffers
        /\ buffer_size[active_buffer] \in 0 .. LOG_BUFFER_SIZE - 1
        /\ after \in 1 .. LOG_BUFFER_SIZE - 1
    BY <1>2, <1>3 DEF TypeOK, Fits
  <2>3. log_buffer' \in [Buffers -> Seq(1 .. MaxLines)]
    <3>1. Append(log_buffer[active_buffer], calls + 1) \in Seq(1 .. MaxLines)
      BY <1>1, <2>2 DEF TypeOK
    <3> QED
      BY <2>1, <2>2, <3>1 DEF TypeOK
  <2>4. TypeOK'
    <3>1. buffer_size' \in [Buffers -> 0 .. LOG_BUFFER_SIZE - 1]
      BY <2>1, <2>2 DEF TypeOK
    <3>2. dma_trigger' \in Nat
      BY <2>1 DEF TypeOK
    <3>3. handed' \in Seq(1 .. MaxLines) /\ calls' \in 0 .. MaxLines
      BY <1>1 DEF TypeOK
    <3> QED
      BY <1>1, <2>3, <3>1, <3>2, <3>3 DEF TypeOK, taskVars, uartVars
  <2>5. DmaBufferQuiet' /\ NoStaleToken'
    BY <1>1 DEF DmaBufferQuiet, NoStaleToken, taskVars, uartVars
  <2>6. SentBuffer'
    <3>1. log_buffer'[active_buffer] # <<>>
      <4>1. log_buffer'[active_buffer] = Append(log_buffer[active_buffer],
                                                calls + 1)
        BY <2>1, <2>2 DEF TypeOK
      <4>2. Len(log_buffer'[active_buffer]) = Len(log_buffer[active_buffer]) + 1
        BY <1>1, <2>2, <4>1 DEF TypeOK
      <4>3. Len(log_buffer[active_buffer]) \in Nat
        BY <2>2 DEF TypeOK
      <4> QED
        BY <4>2, <4>3
    <3>2. \A b \in Buffers : buffer_size'[b] > 0 => log_buffer'[b] # <<>>
      BY <2>1, <2>2, <3>1 DEF SentBuffer, TypeOK
    <3>3. \A b \in Buffers : buffer_size[b] > 0 => buffer_size'[b] > 0
      <4>1. buffer_size'[active_buffer] > 0
        BY <2>1, <2>2 DEF TypeOK
      <4> QED
        BY <2>1, <2>2, <4>1 DEF TypeOK
    <3> QED
      BY <1>1, <3>2, <3>3 DEF SentBuffer, taskVars, uartVars, TypeOK
  <2>7. TokenForThreshold'
    <3>1. buffer_size'[active_buffer] = after
      BY <2>1, <2>2 DEF TypeOK
    <3>2. \/ buffer_size[active_buffer] < LOG_BUFFER_THRESHOLD
             /\ after < LOG_BUFFER_THRESHOLD
          \/ Crosses(buffer_size[active_buffer], after)
          \/ buffer_size[active_buffer] >= LOG_BUFFER_THRESHOLD
      BY <2>2 DEF Crosses
    <3> QED
      BY <1>1, <2>1, <2>2, <3>1, <3>2
         DEF TokenForThreshold, TypeOK, taskVars, uartVars
  <2>8. LinesCalled'
    <3>1. \A b \in Buffers : \A i \in DOMAIN log_buffer'[b] :
            log_buffer'[b][i] \in 1 .. calls'
      <4> SUFFICES ASSUME NEW b \in Buffers, NEW i \in DOMAIN log_buffer'[b]
                   PROVE  log_buffer'[b][i] \in 1 .. calls + 1
        BY <1>1
      <4>1. log_buffer[b] \in Seq(1 .. MaxLines)
        BY DEF TypeOK
      <4>2. CASE b # active_buffer
        BY <1>1, <2>1, <2>2, <4>1, <4>2 DEF LinesCalled, TypeOK
      <4>3. CASE b = active_buffer
        <5>1. log_buffer'[b] = Append(log_buffer[b], calls + 1)
          BY <2>1, <2>2, <4>3 DEF TypeOK
        <5>2. \/ i \in DOMAIN log_buffer[b]
                 /\ log_buffer'[b][i] = log_buffer[b][i]
              \/ log_buffer'[b][i] = calls + 1
          BY <4>1, <5>1
        <5> QED
          BY <1>1, <4>1, <5>2 DEF LinesCalled
      <4> QED
        BY <4>2, <4>3
    <3>2. \A i \in DOMAIN handed' : handed'[i] \in 1 .. calls'
      BY <1>1 DEF LinesCalled, TypeOK
    <3> QED
      BY <1>1, <3>1, <3>2 DEF LinesCalled, taskVars
  <2> QED
    BY <2>4, <2>5, <2>6, <2>7, <2>8
<1>4. CASE ~ Fits(buffer_size[active_buffer] + size)
  <2>1. UNCHANGED <<log_buffer, buffer_size, dma_trigger>>
    BY <1>4 DEF add_log
  <2>2. TypeOK'
    BY <1>1, <2>1 DEF TypeOK, taskVars, uartVars
  <2>3. DmaBufferQuiet' /\ NoStaleToken' /\ SentBuffer' /\ TokenForThreshold'
    BY <1>1, <2>1 DEF DmaBufferQuiet, NoStaleToken, SentBuffer,
                      TokenForThreshold, taskVars, uartVars
  <2>4. LinesCalled'
    BY <1>1, <2>1 DEF LinesCalled, TypeOK, taskVars
  <2> QED
    BY <2>2, <2>3, <2>4
<1> QED
  BY <1>3, <1>4

LEMMA StartInv ==
  ASSUME LoggerInv, Start
  PROVE  LoggerInv'
<1> USE LoggerAssumption DEF LoggerInv
<1>1. /\ log_buffer' = [b \in Buffers |-> <<>>]
      /\ buffer_size' = [b \in Buffers |-> 0]
      /\ active_buffer' = 0 /\ pc = "start" /\ pc' = "wait"
      /\ UNCHANGED <<buffer_to_send, dma_trigger, uartVars, calls, handed>>
  BY DEF Start
<1>2. TypeOK'
  BY <1>1 DEF TypeOK, Buffers, uartVars
<1>3. DmaBufferQuiet' /\ NoStaleToken'
  BY <1>1 DEF DmaBufferQuiet, NoStaleToken, uartVars
<1>4. SentBuffer' /\ TokenForThreshold'
  BY <1>1 DEF SentBuffer, TokenForThreshold, NoStaleToken, uartVars, Buffers
<1>5. LinesCalled'
  BY <1>1 DEF LinesCalled
<1> QED
  BY <1>2, <1>3, <1>4, <1>5

\* Steps of logger_task that leave the buffers alone.
LEMMA WaitInv ==
  ASSUME LoggerInv, WaitTrigger \/ Drain
  PROVE  LoggerInv'
<1> USE LoggerAssumption DEF LoggerInv
<1>1. /\ pc \in {"wait", "drain"} /\ pc' \in {"drain", "swap"}
      /\ dma_trigger' \in Nat
      /\ UNCHANGED <<log_buffer, buffer_size, active_buffer, buffer_to_send,
                     uartVars, calls, handed>>
  BY DEF WaitTrigger, Drain, TypeOK
<1>2. TypeOK'
  BY <1>1 DEF TypeOK, uartVars
<1>3. DmaBufferQuiet' /\ NoStaleToken' /\ SentBuffer' /\ TokenForThreshold'
  BY <1>1 DEF DmaBufferQuiet, NoStaleToken, SentBuffer, TokenForThreshold,
              uartVars
<1>4. LinesCalled'
  BY <1>1 DEF LinesCalled
<1> QED
  BY <1>2, <1>3, <1>4

LEMMA SwapInv ==
  ASSUME LoggerInv, Swap
  PROVE  LoggerInv'
<1> USE LoggerAssumption DEF LoggerInv
<1> DEFINE next == Other(active_buffer)
<1>1. /\ active_buffer \in Buffers
      /\ buffer_size \in [Buffers -> 0 .. LOG_BUFFER_SIZE - 1]
      /\ log_buffer \in [Buffers -> Seq(1 .. MaxLines)]
      /\ LOG_BUFFER_SIZE - 1 \in Nat
  BY DEF TypeOK
<1>2. /\ pc = "swap" /\ buffer_to_send' = active_buffer
      /\ UNCHANGED <<dma_trigger, uartVars, calls, handed>>
  BY DEF Swap
<1>3. uart = "ready" /\ dma_tx_done = 0
  BY <1>2 DEF NoStaleToken
<1>4. CASE buffer_size[active_buffer] > 0
  <2>1. /\ active_buffer' = next
        /\ log_buffer' = [log_buffer EXCEPT ![next] = <<>>]
        /\ buffer_size' = [buffer_size EXCEPT ![next] = 0]
        /\ pc' = "transmit"
    BY <1>4 DEF Swap
  <2>2. next \in Buffers /\ next # active_buffer /\ Other(next) = active_buffer
    BY <1>1, OtherBuffer
  <2>3. /\ log_buffer'[next] = <<>> /\ buffer_size'[next] = 0
        /\ log_buffer'[active_buffer] = log_buffer[active_buffer]
        /\ buffer_size'[active_buffer] = buffer_size[active_buffer]
    BY <1>1, <2>1, <2>2
  <2>4. TypeOK'
    <3>1. log_buffer' \in [Buffers -> Seq(1 .. MaxLines)]
      BY <1>1, <2>1, <2>2
    <3>2. buffer_size' \in [Buffers -> 0 .. LOG_BUFFER_SIZE - 1]
      BY <1>1, <2>1, <2>2
    <3> QED
      BY <1>1, <1>2, <2>1, <2>2, <3>1, <3>2 DEF TypeOK, uartVars
  <2>5. DmaBufferQuiet' /\ NoStaleToken'
    BY <1>2, <1>3, <2>1 DEF DmaBufferQuiet, NoStaleToken, uartVars
  <2>6. SentBuffer'
    <3>1. \A b \in Buffers : buffer_size'[b] > 0 => log_buffer'[b] # <<>>
      BY <1>1, <2>1, <2>2 DEF SentBuffer
    <3> QED
      BY <1>2, <1>3, <1>4, <2>1, <2>2, <2>3, <3>1 DEF SentBuffer, uartVars
  <2>7. TokenForThreshold'
    BY <2>1, <2>3 DEF TokenForThreshold
  <2>8. LinesCalled'
    BY <1>1, <1>2, <2>1, <2>2 DEF LinesCalled
  <2> QED
    BY <2>4, <2>5, <2>6, <2>7, <2>8
<1>5. CASE ~ (buffer_size[active_buffer] > 0)
  <2>1. pc' = "wait" /\ UNCHANGED <<log_buffer, buffer_size, active_buffer>>
    BY <1>5 DEF Swap
  <2>2. buffer_size[active_buffer] = 0
    BY <1>1, <1>5
  <2>3. TypeOK'
    BY <1>1, <1>2, <2>1 DEF TypeOK, uartVars
  <2>4. DmaBufferQuiet' /\ NoStaleToken' /\ SentBuffer' /\ TokenForThreshold'
    BY <1>2, <1>3, <2>1, <2>2 DEF DmaBufferQuiet, NoStaleToken, SentBuffer,
                                  TokenForThreshold, uartVars
  <2>5. LinesCalled'
    BY <1>2, <2>1 DEF LinesCalled
  <2> QED
    BY <2>3, <2>4, <2>5
<1> QED
  BY <1>4, <1>5

LEMMA TransmitInv ==
  ASSUME LoggerInv, Transmit
  PROVE  LoggerInv'
<1> USE LoggerAssumption DEF LoggerInv
<1>1. /\ pc = "transmit"
      /\ handed' = handed \o log_buffer[buffer_to_send]
      /\ UNCHANGED <<log_buffer, buffer_size, active_buffer, buffer_to_send,
                     dma_trigger, dma_tx_done, calls>>
  BY DEF Transmit
<1>2. \/ uart' = "busy" /\ dma_buffer' = buffer_to_send /\ pc' = "wait_done"
      \/ pc' = "abort" /\ UNCHANGED <<uart, dma_buffer>>
  BY DEF Transmit
<1>3. uart = "ready" /\ dma_tx_done = 0
  BY <1>1 DEF NoStaleToken
<1>4. /\ active_buffer \in Buffers /\ buffer_to_send \in Buffers
      /\ buffer_to_send = Other(active_buffer)
      /\ buffer_to_send # active_buffer
  BY <1>1, OtherBuffer DEF SentBuffer, TypeOK
<1>5. handed' \in Seq(1 .. MaxLines)
  BY <1>1, <1>4 DEF TypeOK
<1>6. TypeOK'
  BY <1>1, <1>2, <1>4, <1>5 DEF TypeOK
<1>7. DmaBufferQuiet' /\ NoStaleToken' /\ SentBuffer' /\ TokenForThreshold'
  BY <1>1, <1>2, <1>3, <1>4
     DEF DmaBufferQuiet, NoStaleToken, SentBuffer, TokenForThreshold
<1>8. LinesCalled'
  <2>1. ASSUME NEW i \in DOMAIN handed' PROVE handed'[i] \in 1 .. calls
    <3>1. handed \in Seq(1 .. MaxLines)
          /\ log_buffer[buffer_to_send] \in Seq(1 .. MaxLines)
      BY <1>4 DEF TypeOK
    <3>2. \/ i \in DOMAIN handed /\ handed'[i] = handed[i]
          \/ \E j \in DOMAIN log_buffer[buffer_to_send] :
               handed'[i] = log_buffer[buffer_to_send][j]
      BY <1>1, <2>1, <3>1
    <3> QED
      BY <1>4, <3>2 DEF LinesCalled
  <2> QED
    BY <1>1, <1>2, <2>1 DEF LinesCalled
<1> QED
  BY <1>6, <1>7, <1>8

\* The timeout is the end of a transmission: this is where the hypothesis on
\* LateCompletion is needed.
LEMMA WaitDoneInv ==
  ASSUME LateCompletion = FALSE, LoggerInv, WaitDone
  PROVE  LoggerInv'
<1> USE LoggerAssumption DEF LoggerInv
<1>1. /\ pc = "wait_done"
      /\ UNCHANGED <<log_buffer, buffer_size, active_buffer, buffer_to_send,
                     dma_trigger, uart, dma_buffer, calls, handed>>
  BY DEF WaitDone
<1>2. /\ uart = "ready"
      /\ dma_tx_done' = 0
      /\ pc' \in {"wait", "abort"}
  BY DEF WaitDone, NoStaleToken, TypeOK
<1>3. TypeOK'
  BY <1>1, <1>2 DEF TypeOK
<1>4. DmaBufferQuiet' /\ NoStaleToken' /\ SentBuffer' /\ TokenForThreshold'
  BY <1>1, <1>2 DEF DmaBufferQuiet, NoStaleToken, SentBuffer, TokenForThreshold
<1>5. LinesCalled'
  BY <1>1, <1>2 DEF LinesCalled
<1> QED
  BY <1>3, <1>4, <1>5

LEMMA AbortInv ==
  ASSUME LoggerInv, Abort
  PROVE  LoggerInv'
<1> USE LoggerAssumption DEF LoggerInv
<1>1. /\ pc = "abort" /\ pc' = "wait" /\ uart' = "ready"
      /\ UNCHANGED <<log_buffer, buffer_size, active_buffer, buffer_to_send,
                     dma_trigger, dma_buffer, dma_tx_done, calls, handed>>
  BY DEF Abort
<1>2. TypeOK'
  BY <1>1 DEF TypeOK
<1>3. DmaBufferQuiet' /\ NoStaleToken' /\ SentBuffer' /\ TokenForThreshold'
  BY <1>1 DEF DmaBufferQuiet, NoStaleToken, SentBuffer, TokenForThreshold
<1>4. LinesCalled'
  BY <1>1 DEF LinesCalled
<1> QED
  BY <1>2, <1>3, <1>4

LEMMA InterruptInv ==
  ASSUME LoggerInv, dma_tx_callback \/ DmaError
  PROVE  LoggerInv'
<1> USE LoggerAssumption DEF LoggerInv
<1>1. /\ uart = "busy" /\ uart' = "ready"
      /\ dma_tx_done' \in {dma_tx_done, dma_tx_done + 1}
      /\ UNCHANGED <<log_buffer, buffer_size, dma_trigger, taskVars, dma_buffer,
                     calls, handed>>
  BY DEF dma_tx_callback, DmaError
<1>2. pc = "wait_done" /\ dma_tx_done = 0
  BY <1>1 DEF NoStaleToken, TypeOK
<1>3. TypeOK'
  BY <1>1, <1>2 DEF TypeOK, taskVars
<1>4. DmaBufferQuiet' /\ NoStaleToken' /\ SentBuffer' /\ TokenForThreshold'
  BY <1>1, <1>2 DEF DmaBufferQuiet, NoStaleToken, SentBuffer,
                    TokenForThreshold, taskVars
<1>5. LinesCalled'
  BY <1>1 DEF LinesCalled, taskVars
<1> QED
  BY <1>3, <1>4, <1>5

LEMMA LoggerNext ==
  ASSUME LateCompletion = FALSE, LoggerInv, [Next]_vars
  PROVE  LoggerInv'
<1>1. CASE Next
  BY <1>1, AddLogInv, StartInv, WaitInv, SwapInv, TransmitInv, WaitDoneInv,
     AbortInv, InterruptInv DEF Next, logger_task
<1>2. CASE UNCHANGED vars
  BY <1>2 DEF vars, taskVars, uartVars, LoggerInv, TypeOK, DmaBufferQuiet,
              NoStaleToken, SentBuffer, TokenForThreshold, LinesCalled
<1> QED
  BY <1>1, <1>2

\* The invariant the properties of the logger follow from.
THEOREM LoggerInvariant ==
  ASSUME LateCompletion = FALSE
  PROVE  Spec => []LoggerInv
<1>1. Init => LoggerInv
  BY LoggerInit
<1>2. LoggerInv /\ [Next]_vars => LoggerInv'
  BY LoggerNext
<1> QED
  BY <1>1, <1>2, PTL DEF Spec

\* add_log never writes the buffer the DMA reads, and logger_task never takes
\* the end of one transmission for the end of the next.
THEOREM DmaSafe ==
  ASSUME LateCompletion = FALSE
  PROVE  Spec => [](DmaBufferQuiet /\ NoStaleToken)
<1>1. LoggerInv => DmaBufferQuiet /\ NoStaleToken
  BY DEF LoggerInv
<1> QED
  BY <1>1, LoggerInvariant, PTL

\* logger_task never sleeps on a buffer past its threshold.
THEOREM ThresholdNotMissed ==
  ASSUME LateCompletion = FALSE
  PROVE  Spec => []ThresholdWakes
<1>1. LoggerInv => ThresholdWakes
  BY LoggerAssumption
     DEF LoggerInv, ThresholdWakes, TokenForThreshold, TypeOK
<1> QED
  BY <1>1, LoggerInvariant, PTL

-----------------------------------------------------------------------------
\* The refinement: accepted lines reach the UART in order, once.

LEMMA StreamInit == Init => Stream!Init
<1> SUFFICES ASSUME Init PROVE Stream!Init
  OBVIOUS
<1>1. log_buffer[active_buffer] = <<>> /\ pc = "start" /\ handed = <<>>
  BY DEF Init, Buffers
<1>2. Pending = <<>>
  BY <1>1 DEF Pending
<1> QED
  BY <1>1, <1>2 DEF Stream!Init

\* The types the steps below rely on.
LEMMA PendingType ==
  ASSUME LoggerInv
  PROVE  /\ Pending \in Seq(1 .. MaxLines)
         /\ handed \in Seq(1 .. MaxLines)
         /\ \A i \in DOMAIN Pending : Pending[i] \in 1 .. calls
         /\ \A i \in DOMAIN handed : handed[i] \in 1 .. calls
<1> USE DEF LoggerInv
<1>1. /\ log_buffer[active_buffer] \in Seq(1 .. MaxLines)
      /\ log_buffer[buffer_to_send] \in Seq(1 .. MaxLines)
      /\ handed \in Seq(1 .. MaxLines)
      /\ active_buffer \in Buffers /\ buffer_to_send \in Buffers
  BY DEF TypeOK
<1> DEFINE first == IF pc = "transmit" THEN log_buffer[buffer_to_send]
                                         ELSE <<>>
<1>3. first \in Seq(1 .. MaxLines)
  <2>1. CASE pc = "transmit"
    BY <1>1, <2>1
  <2>2. CASE pc # "transmit"
    BY <2>2
  <2> QED
    BY <2>1, <2>2
<1>4. \A i \in DOMAIN first : first[i] \in 1 .. calls
  BY <1>1 DEF LinesCalled
<1>5. \A i \in DOMAIN log_buffer[active_buffer] :
        log_buffer[active_buffer][i] \in 1 .. calls
  BY <1>1 DEF LinesCalled
<1>6. Pending = first \o log_buffer[active_buffer]
  BY DEF Pending
<1>7. ASSUME NEW i \in DOMAIN Pending PROVE Pending[i] \in 1 .. calls
  <2>1. \/ i \in DOMAIN first /\ Pending[i] = first[i]
        \/ \E j \in DOMAIN log_buffer[active_buffer] :
             Pending[i] = log_buffer[active_buffer][j]
    <3> HIDE DEF first
    <3> QED
      BY <1>1, <1>3, <1>6, <1>7
  <2> HIDE DEF first
  <2> QED
    BY <1>4, <1>5, <2>1
<1>8. Pending \in Seq(1 .. MaxLines)
  <2> HIDE DEF first
  <2> QED
    BY <1>1, <1>3, <1>6
<1> QED
  BY <1>1, <1>7, <1>8 DEF LinesCalled

\* A line that is accepted is appended; one that is dropped changes nothing.
LEMMA AddLogStream ==
  ASSUME LoggerInv, NEW size \in LineSizes, add_log(size)
  PROVE  [Stream!Next]_<<Pending, handed>>
<1> USE LoggerAssumption
<1>1. /\ calls \in 0 .. MaxLines /\ calls + 1 \in 1 .. MaxLines
      /\ UNCHANGED <<active_buffer, buffer_to_send, pc, handed>>
  BY DEF add_log, LoggerInv, TypeOK, taskVars
<1>2. /\ active_buffer \in Buffers /\ buffer_to_send \in Buffers
      /\ log_buffer \in [Buffers -> Seq(1 .. MaxLines)]
      /\ pc = "transmit" => buffer_to_send # active_buffer
  BY OtherBuffer DEF LoggerInv, TypeOK, SentBuffer
<1>3. CASE UNCHANGED log_buffer
  BY <1>1, <1>3 DEF Pending
<1>4. CASE log_buffer' = [log_buffer EXCEPT ![active_buffer] =
                            Append(@, calls + 1)]
  <2>1. /\ log_buffer'[active_buffer] =
             Append(log_buffer[active_buffer], calls + 1)
        /\ pc = "transmit" =>
             log_buffer'[buffer_to_send] = log_buffer[buffer_to_send]
    BY <1>2, <1>4
  <2>2. Pending' = Append(Pending, calls + 1)
    <3> DEFINE first == IF pc = "transmit" THEN log_buffer[buffer_to_send]
                                           ELSE <<>>
    <3>1. first \in Seq(1 .. MaxLines)
      <4>1. CASE pc = "transmit"
        BY <1>2, <4>1
      <4>2. CASE pc # "transmit"
        BY <4>2
      <4> QED
        BY <4>1, <4>2
    <3>2. Pending' = first \o log_buffer'[active_buffer]
      BY <1>1, <2>1 DEF Pending
    <3>3. Pending = first \o log_buffer[active_buffer]
      BY DEF Pending
    <3> HIDE DEF first
    <3>4. \A s, u \in Seq(1 .. MaxLines), x \in 1 .. MaxLines :
            s \o Append(u, x) = Append(s \o u, x)
      OBVIOUS
    <3> QED
      BY <1>1, <1>2, <2>1, <3>1, <3>2, <3>3, <3>4
  <2>3. ~ Stream!Seen(calls + 1) /\ ~ Stream!Was(calls + 1)
    BY <1>1, PendingType DEF Stream!Seen, Stream!Was
  <2>4. Stream!Accept(calls + 1)
    BY <1>1, <2>2, <2>3 DEF Stream!Accept
  <2> QED
    BY <1>1, <2>4 DEF Stream!Next
<1> QED
  BY <1>3, <1>4 DEF add_log

\* An exchange of the buffers moves no line past another.
LEMMA SwapStream ==
  ASSUME LoggerInv, Swap
  PROVE  UNCHANGED <<Pending, handed>>
<1>1. /\ pc = "swap" /\ buffer_to_send' = active_buffer /\ handed' = handed
      /\ active_buffer \in Buffers
      /\ log_buffer \in [Buffers -> Seq(1 .. MaxLines)]
  BY DEF Swap, LoggerInv, TypeOK
<1>2. Pending = log_buffer[active_buffer]
  <2>1. log_buffer[active_buffer] \in Seq(1 .. MaxLines)
    BY <1>1
  <2> QED
    BY <1>1, <2>1 DEF Pending
<1>3. CASE buffer_size[active_buffer] > 0
  <2>1. /\ active_buffer' = Other(active_buffer)
        /\ log_buffer' = [log_buffer EXCEPT ![Other(active_buffer)] = <<>>]
        /\ pc' = "transmit"
    BY <1>3 DEF Swap
  <2>2. /\ log_buffer'[active_buffer'] = <<>>
        /\ log_buffer'[buffer_to_send'] = log_buffer[active_buffer]
    BY <1>1, <2>1, OtherBuffer
  <2>3. Pending' = log_buffer[active_buffer] \o <<>>
    BY <2>1, <2>2 DEF Pending
  <2>4. log_buffer[active_buffer] \in Seq(1 .. MaxLines)
    BY <1>1
  <2> QED
    BY <1>1, <1>2, <2>3, <2>4
<1>4. CASE ~ (buffer_size[active_buffer] > 0)
  BY <1>1, <1>4 DEF Swap, Pending
<1> QED
  BY <1>3, <1>4

\* The lines of the exchanged buffer are the oldest that wait.
LEMMA TransmitStream ==
  ASSUME LoggerInv, Transmit
  PROVE  Stream!Next
<1> DEFINE s == log_buffer[buffer_to_send]
           u == log_buffer[active_buffer]
<1>1. /\ pc = "transmit" /\ pc' # "transmit"
      /\ handed' = handed \o s
      /\ UNCHANGED <<log_buffer, active_buffer, buffer_to_send>>
  BY DEF Transmit
<1>2. s \in Seq(1 .. MaxLines) /\ u \in Seq(1 .. MaxLines)
  BY DEF LoggerInv, TypeOK
<1>3. s # <<>>
  BY <1>1 DEF LoggerInv, TypeOK, SentBuffer
<1>4. Pending = s \o u /\ Pending' = <<>> \o u
  BY <1>1 DEF Pending
<1> HIDE DEF s, u
<1>5. /\ Len(s) \in 1 .. Len(Pending)
      /\ SubSeq(Pending, 1, Len(s)) = s
      /\ SubSeq(Pending, Len(s) + 1, Len(Pending)) = u
  BY <1>2, <1>3, <1>4
<1>6. Pending' = u
  BY <1>2, <1>4
<1>7. Stream!Hand(Len(s))
  BY <1>1, <1>5, <1>6 DEF Stream!Hand
<1> QED
  BY <1>5, <1>7 DEF Stream!Next

LEMMA StreamNext ==
  ASSUME LoggerInv, [Next]_vars
  PROVE  [Stream!Next]_<<Pending, handed>>
<1>1. CASE Start
  <2>1. handed = <<>> /\ handed' = handed
    BY <1>1 DEF Start, LoggerInv, LinesCalled
  <2>2. Pending' = <<>>
    BY <1>1 DEF Start, Pending, Buffers
  <2> QED
    BY <2>1, <2>2 DEF Stream!Next, Stream!Erase
<1>2. CASE WaitTrigger \/ Drain \/ WaitDone \/ Abort \/ dma_tx_callback
           \/ DmaError \/ UNCHANGED vars
  <2>1. /\ UNCHANGED <<log_buffer, active_buffer, buffer_to_send, handed>>
        /\ \/ pc' = pc
           \/ pc # "transmit" /\ pc' # "transmit"
    BY <1>2 DEF WaitTrigger, Drain, WaitDone, Abort, dma_tx_callback, DmaError,
                vars, taskVars
  <2> QED
    BY <2>1 DEF Pending
<1> QED
  BY <1>1, <1>2, AddLogStream, SwapStream, TransmitStream DEF Next, logger_task

\* The logger implements its promise to the threads that log.
THEOREM LoggerImplementsStream ==
  ASSUME LateCompletion = FALSE
  PROVE  Spec => ImplementsLogStream
<1>1. LoggerInv /\ [Next]_vars => [Stream!Next]_<<Pending, handed>>
  BY StreamNext
<1> QED
  BY <1>1, StreamInit, LoggerInvariant, PTL
     DEF Spec, ImplementsLogStream, Stream!Spec, Stream!vars

=============================================================================
