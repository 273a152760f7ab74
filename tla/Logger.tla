------------------------------- MODULE Logger -------------------------------
(***************************************************************************)
(* The deferred logger of tasks/logger/src/task_logger.cpp: threads append *)
(* lines to the active one of two buffers with interrupts off, logger_task *)
(* swaps the buffers and sends the full one by DMA, and the UART interrupt *)
(* reports the end of a transmission through a semaphore.                  *)
(*                                                                         *)
(* A line is its number, in the order of the calls of add_log, and its     *)
(* size.  The text is left out.  Timeouts are choices of the environment.  *)
(***************************************************************************)
EXTENDS Integers, Sequences

CONSTANTS
  LOG_BUFFER_SIZE,       \* capacity of a buffer
  LOG_BUFFER_THRESHOLD,  \* fill level that wakes logger_task
  LineSizes,             \* sizes of formatted lines
  MaxLines,              \* bound on the calls of add_log
  LateCompletion         \* can a transmission outlast the timeout of 200 ticks?

ASSUME LoggerAssumption ==
  /\ LOG_BUFFER_SIZE \in Nat
  /\ LOG_BUFFER_THRESHOLD \in 1 .. LOG_BUFFER_SIZE
  /\ LineSizes \subseteq Nat \ {0}
  /\ MaxLines \in Nat
  /\ LateCompletion \in BOOLEAN

VARIABLES
  log_buffer,      \* the lines in the first buffer_size bytes of each buffer
  buffer_size,
  active_buffer,
  buffer_to_send,
  dma_trigger,     \* semaphore: the active buffer passed the threshold
  dma_tx_done,     \* semaphore: a transmission finished
  uart,            \* HAL state of huart3: "ready", or "busy" reading
  dma_buffer,      \* the buffer of the last transmission
  pc,              \* where logger_task is
  calls,           \* number of calls of add_log so far
  handed           \* history: lines given to HAL_UART_Transmit_DMA, in order

taskVars == <<active_buffer, buffer_to_send, pc>>
uartVars == <<uart, dma_buffer, dma_tx_done>>
vars == <<log_buffer, buffer_size, dma_trigger, taskVars, uartVars,
          calls, handed>>

Buffers == {0, 1}
Other(b) == 1 - b

Init ==
  /\ log_buffer = [b \in Buffers |-> <<>>]
  /\ buffer_size = [b \in Buffers |-> 0]
  /\ active_buffer = 0
  /\ buffer_to_send = 0
  /\ dma_trigger = 0
  /\ dma_tx_done = 0
  /\ uart = "ready"
  /\ dma_buffer = 0
  /\ pc = "start"
  /\ calls = 0
  /\ handed = <<>>

-----------------------------------------------------------------------------
\* add_log, in the thread that logs.

\* Mutant: the crossing is missed when the buffer lands on the threshold.
CrossesAbove(before, after) ==
  before < LOG_BUFFER_THRESHOLD /\ after > LOG_BUFFER_THRESHOLD

Crosses(before, after) ==
  before < LOG_BUFFER_THRESHOLD /\ after >= LOG_BUFFER_THRESHOLD

\* Mutant: a buffer may be filled to the last byte.
FitsExactly(after) == after <= LOG_BUFFER_SIZE

Fits(after) == after < LOG_BUFFER_SIZE

\* The section with interrupts off: the line is appended, and the task is
\* woken when the buffer crosses the threshold, or the line is dropped.
add_log(size) ==
  /\ calls < MaxLines
  /\ calls' = calls + 1
  /\ LET b     == active_buffer
         after == buffer_size[b] + size
     IN  IF Fits(after)
         THEN /\ log_buffer' = [log_buffer EXCEPT ![b] = Append(@, calls + 1)]
              /\ buffer_size' = [buffer_size EXCEPT ![b] = after]
              /\ dma_trigger' = IF Crosses(buffer_size[b], after)
                                THEN dma_trigger + 1 ELSE dma_trigger
         ELSE UNCHANGED <<log_buffer, buffer_size, dma_trigger>>
  /\ UNCHANGED <<taskVars, uartVars, handed>>

-----------------------------------------------------------------------------
\* logger_task

\* Both buffers are cleared when the thread is scheduled for the first time.
Start ==
  /\ pc = "start"
  /\ log_buffer' = [b \in Buffers |-> <<>>]
  /\ buffer_size' = [b \in Buffers |-> 0]
  /\ active_buffer' = 0
  /\ pc' = "wait"
  /\ UNCHANGED <<buffer_to_send, dma_trigger, uartVars, calls, handed>>

\* Mutant: the wait has no timeout.
WaitTriggerForever ==
  /\ pc = "wait"
  /\ dma_trigger > 0
  /\ dma_trigger' = dma_trigger - 1
  /\ pc' = "drain"
  /\ UNCHANGED <<log_buffer, buffer_size, active_buffer, buffer_to_send,
                 uartVars, calls, handed>>

\* Woken by add_log, or after 25 ticks.
WaitTrigger ==
  /\ pc = "wait"
  /\ dma_trigger' = IF dma_trigger > 0 THEN dma_trigger - 1 ELSE 0
  /\ pc' = "drain"
  /\ UNCHANGED <<log_buffer, buffer_size, active_buffer, buffer_to_send,
                 uartVars, calls, handed>>

Drain ==
  /\ pc = "drain"
  /\ IF dma_trigger > 0
     THEN dma_trigger' = dma_trigger - 1 /\ pc' = "drain"
     ELSE dma_trigger' = dma_trigger /\ pc' = "swap"
  /\ UNCHANGED <<log_buffer, buffer_size, active_buffer, buffer_to_send,
                 uartVars, calls, handed>>

\* Mutant: the buffer that becomes active keeps its former lines.
SwapKeeps ==
  /\ pc = "swap"
  /\ active_buffer' = Other(active_buffer)
  /\ buffer_to_send' = active_buffer
  /\ pc' = IF buffer_size[active_buffer] > 0 THEN "transmit" ELSE "wait"
  /\ UNCHANGED <<log_buffer, buffer_size, dma_trigger, uartVars, calls, handed>>

\* The section with interrupts off: exchange the buffers if there is something
\* to send.
Swap ==
  /\ pc = "swap"
  /\ buffer_to_send' = active_buffer
  /\ IF buffer_size[active_buffer] > 0
     THEN LET next == Other(active_buffer)
          IN  /\ active_buffer' = next
              /\ log_buffer' = [log_buffer EXCEPT ![next] = <<>>]
              /\ buffer_size' = [buffer_size EXCEPT ![next] = 0]
              /\ pc' = "transmit"
     ELSE /\ pc' = "wait"
          /\ UNCHANGED <<log_buffer, buffer_size, active_buffer>>
  /\ UNCHANGED <<dma_trigger, uartVars, calls, handed>>

\* HAL_UART_Transmit_DMA starts, or refuses: the UART is busy or the DMA does
\* not start.
Transmit ==
  /\ pc = "transmit"
  /\ handed' = handed \o log_buffer[buffer_to_send]
  /\ \/ /\ uart = "ready"
        /\ uart' = "busy"
        /\ dma_buffer' = buffer_to_send
        /\ pc' = "wait_done"
     \/ pc' = "abort" /\ UNCHANGED <<uart, dma_buffer>>
  /\ UNCHANGED <<log_buffer, buffer_size, active_buffer, buffer_to_send,
                 dma_trigger, dma_tx_done, calls>>

\* Mutant: the end of the transmission is not awaited.
WaitDoneSkips ==
  /\ pc = "wait_done"
  /\ pc' = "wait"
  /\ UNCHANGED <<log_buffer, buffer_size, active_buffer, buffer_to_send,
                 dma_trigger, uartVars, calls, handed>>

\* A token of dma_tx_done, or the timeout.  At 115200 baud a buffer takes
\* 89 ms and 200 ticks take 2 s: unless LateCompletion, the timeout means that
\* the transmission stopped.
WaitDone ==
  /\ pc = "wait_done"
  /\ \/ /\ dma_tx_done > 0
        /\ dma_tx_done' = dma_tx_done - 1
        /\ pc' = "wait"
     \/ /\ dma_tx_done = 0
        /\ uart = "ready" \/ LateCompletion
        /\ pc' = "abort"
        /\ UNCHANGED dma_tx_done
  /\ UNCHANGED <<log_buffer, buffer_size, active_buffer, buffer_to_send,
                 dma_trigger, uart, dma_buffer, calls, handed>>

Abort ==
  /\ pc = "abort"
  /\ uart' = "ready"
  /\ pc' = "wait"
  /\ UNCHANGED <<log_buffer, buffer_size, active_buffer, buffer_to_send,
                 dma_trigger, dma_buffer, dma_tx_done, calls, handed>>

logger_task ==
  \/ Start \/ WaitTrigger \/ Drain \/ Swap \/ Transmit \/ WaitDone \/ Abort

-----------------------------------------------------------------------------
\* The interrupt: dma_tx_callback at the end of a transmission, nothing when
\* the DMA reports an error.
dma_tx_callback ==
  /\ uart = "busy"
  /\ uart' = "ready"
  /\ dma_tx_done' = dma_tx_done + 1
  /\ UNCHANGED <<log_buffer, buffer_size, dma_trigger, taskVars, dma_buffer,
                 calls, handed>>

DmaError ==
  /\ uart = "busy"
  /\ uart' = "ready"
  /\ UNCHANGED <<log_buffer, buffer_size, dma_trigger, taskVars, dma_buffer,
                 dma_tx_done, calls, handed>>

Next ==
  \/ \E size \in LineSizes : add_log(size)
  \/ logger_task
  \/ dma_tx_callback
  \/ DmaError

\* The logger has the lowest priority of launcher.c, so it runs as long as the
\* other threads block now and then; a transmission ends one way or the other.
Fairness == WF_vars(logger_task) /\ WF_vars(dma_tx_callback \/ DmaError)

Spec == Init /\ [][Next]_vars
FairSpec == Spec /\ Fairness

-----------------------------------------------------------------------------
TypeOK ==
  /\ log_buffer \in [Buffers -> Seq(1 .. MaxLines)]
  /\ buffer_size \in [Buffers -> 0 .. LOG_BUFFER_SIZE - 1]
  /\ active_buffer \in Buffers
  /\ buffer_to_send \in Buffers
  /\ dma_trigger \in Nat
  /\ dma_tx_done \in Nat
  /\ uart \in {"ready", "busy"}
  /\ dma_buffer \in Buffers
  /\ pc \in {"start", "wait", "drain", "swap", "transmit", "wait_done",
             "abort"}
  /\ calls \in 0 .. MaxLines
  /\ handed \in Seq(1 .. MaxLines)

\* No thread writes the buffer the DMA is reading: add_log only appends to the
\* active one, and logger_task does not exchange the buffers before the end of
\* the transmission.
DmaBufferQuiet == uart = "busy" => dma_buffer # active_buffer

\* Every token of dma_tx_done is the one of the transmission logger_task waits
\* for: none is left over when it starts the next one.
NoStaleToken ==
  /\ pc # "wait_done" => dma_tx_done = 0 /\ uart = "ready"
  /\ dma_tx_done > 0 => dma_tx_done = 1 /\ uart = "ready"

\* logger_task does not sleep for its 25 ticks while the active buffer is past
\* the threshold: no token that announced it was drained without a swap.
ThresholdWakes ==
  pc = "wait" /\ buffer_size[active_buffer] >= LOG_BUFFER_THRESHOLD
    => dma_trigger > 0

\* The lines that were accepted and not given to the UART yet.
Pending ==
  (IF pc = "transmit" THEN log_buffer[buffer_to_send] ELSE <<>>)
    \o log_buffer[active_buffer]

Stream == INSTANCE LogStream WITH Lines <- 1 .. MaxLines, pending <- Pending

\* Accepted lines reach the UART in the order of the calls, none twice and,
\* once logger_task runs, none left behind by an exchange of the buffers.
ImplementsLogStream == Stream!Spec

\* Once logger_task runs, a line it finds in a buffer is given to the UART,
\* even if the buffer never passes the threshold.
LinesLeave ==
  \A line \in 1 .. MaxLines :
    pc # "start" /\ Stream!Seen(line) ~> Stream!Was(line)

-----------------------------------------------------------------------------
\* The inductive invariant behind these properties (module LoggerProofs).

\* The buffer that was exchanged is not empty, and is not the active one.
SentBuffer ==
  /\ pc \in {"transmit", "wait_done", "abort"} =>
       buffer_to_send = Other(active_buffer)
  /\ pc = "transmit" => buffer_size[buffer_to_send] > 0
  /\ uart = "busy" => dma_buffer = buffer_to_send
  /\ \A b \in Buffers : buffer_size[b] > 0 => log_buffer[b] # <<>>

\* Past the threshold there is a token, except while logger_task is about to
\* exchange the buffers.
TokenForThreshold ==
  pc \in {"wait", "transmit", "wait_done", "abort"} =>
       \/ buffer_size[active_buffer] < LOG_BUFFER_THRESHOLD
       \/ dma_trigger > 0

\* The lines in the buffers and at the UART were logged before.
LinesCalled ==
  /\ \A b \in Buffers : \A i \in DOMAIN log_buffer[b] :
       log_buffer[b][i] \in 1 .. calls
  /\ \A i \in DOMAIN handed : handed[i] \in 1 .. calls
  /\ pc = "start" => handed = <<>>

LoggerInv ==
  /\ TypeOK
  /\ DmaBufferQuiet
  /\ NoStaleToken
  /\ SentBuffer
  /\ TokenForThreshold
  /\ LinesCalled
=============================================================================
