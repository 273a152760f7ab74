----------------------------- MODULE NandDriver -----------------------------
(***************************************************************************)
(* The driver of the GD5F1GO4UBY1G flash (threadx/levelx/bsp), the HAL     *)
(* handle hospi1 it goes through, and the chip.  LevelX calls it for a     *)
(* sequence of pages; every call waits for the chip through the semaphore  *)
(* flash_wip, and for long transfers through flash_dma_done.               *)
(*                                                                         *)
(* A step of a thread is the HAL calls it makes between two waits: a       *)
(* command, or a command with its data.  A page has a main and a spare     *)
(* part, each erased (FF), holding one value, or garbled.                  *)
(***************************************************************************)
EXTENDS Integers, Sequences

CONSTANTS
  Threads,      \* the threads that call the driver
  Blocks,       \* blocks of the device
  BLOCK_PAGES,  \* GD25_BLOCK_PAGES
  Data,         \* values written to a part of a page
  FF,           \* an erased part
  GARBLED,      \* a part with anything else in it
  Ops,          \* the calls: see Operation
  NULL

Rows == Blocks \X (0 .. BLOCK_PAGES - 1)
Parts == {"main", "spare"}
Value == Data \cup {FF, GARBLED}
Erased == [p \in Parts |-> FF]

\* A call: pages_read, page_read and extra_bytes_get are "read", the matching
\* writes are "write".  A page is read at from and written at to; dma tells
\* whether the transfer is longer than GD25_DMA_THRESHOLD.
Operation == [kind : {"read", "write", "copy", "erase", "verify"},
              steps : Seq([from : Rows, to : Rows, data : [Parts -> Value]]),
              parts : SUBSET Parts, dma : BOOLEAN]

Commands == [kind : {"read", "program", "erase"}, row : Rows]

\* LevelX asks for one page at least, writes each page of a call once, copies
\* from pages it does not write, and erases one block per call.
ASSUME NandAssumption ==
  /\ BLOCK_PAGES \in Nat \ {0}
  /\ FF # GARBLED /\ {FF, GARBLED} \cap Data = {}
  /\ NULL \notin Commands \cup Ops
  /\ Ops \subseteq Operation
  /\ \A o \in Ops :
       /\ o.steps # <<>>
       /\ o.kind \in {"write", "copy"} =>
            \A i, j \in DOMAIN o.steps : o.steps[i].to = o.steps[j].to => i = j
       /\ o.kind = "copy" =>
            \A i, j \in DOMAIN o.steps : o.steps[i].from # o.steps[j].to
       /\ o.kind = "erase" => Len(o.steps) = 1

VARIABLES
  array,           \* the pages of the chip
  cache,           \* its cache register
  busy,            \* what it is doing: NULL or a command
  wel,             \* write enable latch
  failed,          \* P_FAIL or E_FAIL
  hal,             \* hospi1.State: "ready", "polling", "rx" or "tx"
  buffer,          \* the buffer of common.c
  flash_wip,       \* semaphore: the chip is ready
  flash_dma_done,  \* semaphore: the transfer is over
  pc,              \* where each thread is
  op,              \* the call it makes
  step,            \* the index of the page it is at
  after,           \* where it goes on after wait_for_complete
  got,             \* history: what a read call returned, page by page
  before,          \* history: the pages of the chip at the first command of the call
  result           \* what the call returned: "none" while it runs

chipVars == <<array, cache, busy, wel, failed>>
halVars == <<hal, buffer, flash_wip, flash_dma_done>>
threadVars == <<pc, op, step, after, got, before, result>>
vars == <<chipVars, halVars, threadVars>>

\* Programming clears bits and sets none.
And(old, new) == IF old = FF THEN new
                 ELSE IF new \in {FF, old} THEN old
                 ELSE GARBLED

Program(old, new) == [p \in Parts |-> And(old[p], new[p])]

RowsOf(block) == {r \in Rows : r[1] = block}

Init ==
  /\ array = [r \in Rows |-> Erased]
  /\ cache = Erased
  /\ busy = NULL
  /\ wel = FALSE
  /\ failed = FALSE
  /\ hal = "ready"
  /\ buffer = Erased
  /\ flash_wip = 0
  /\ flash_dma_done = 0
  /\ pc = [t \in Threads |-> "idle"]
  /\ op = [t \in Threads |-> NULL]
  /\ step = [t \in Threads |-> 1]
  /\ after = [t \in Threads |-> "next"]
  /\ got = [t \in Threads |-> <<>>]
  /\ before = array
  /\ result = [t \in Threads |-> "none"]

Goto(t, where) == pc' = [pc EXCEPT ![t] = where]

Page(t) == op[t].steps[step[t]]

-----------------------------------------------------------------------------
\* A call begins, goes from page to page, and returns.

FirstStage(kind) == CASE kind = "write" -> "load"
                      [] kind = "erase" -> "enable"
                      [] OTHER -> "to_cache"

Begin(t, o) ==
  /\ pc[t] = "idle"
  /\ op' = [op EXCEPT ![t] = o]
  /\ step' = [step EXCEPT ![t] = 1]
  /\ got' = [got EXCEPT ![t] = <<>>]
  /\ result' = [result EXCEPT ![t] = "none"]
  /\ Goto(t, FirstStage(o.kind))
  /\ UNCHANGED <<chipVars, halVars, after, before>>

Return(t, status) ==
  /\ result' = [result EXCEPT ![t] = status]
  /\ Goto(t, "idle")
  /\ UNCHANGED step

\* The loops of pages_read, pages_write and page_copy, and the two pages of
\* block_erase_verify: on to the next page, or LX_SUCCESS after the last.
NextPage(t) ==
  IF step[t] = Len(op[t].steps)
  THEN Return(t, "success")
  ELSE /\ step' = [step EXCEPT ![t] = @ + 1]
       /\ Goto(t, FirstStage(op[t].kind))
       /\ UNCHANGED result

\* The HAL refuses a command unless it is ready: LX_ERROR.  The buffer was
\* filled before, and the semaphore of the DMA drained.
Refused(t) ==
  /\ hal # "ready"
  /\ pc[t] \in {"to_cache", "poll", "transfer", "load", "enable", "execute"}
  /\ buffer' = CASE pc[t] = "transfer" -> Erased
                 [] pc[t] = "load" -> Page(t).data
                 [] OTHER -> buffer
  /\ flash_dma_done' = IF pc[t] \in {"transfer", "load"} /\ op[t].dma
                       THEN 0 ELSE flash_dma_done
  /\ Return(t, "error")
  /\ UNCHANGED <<chipVars, hal, flash_wip, op, after, got, before>>

-----------------------------------------------------------------------------
\* History: the first command of a call is accepted.
Remember(t) ==
  before' = IF step[t] = 1 /\ pc[t] = FirstStage(op[t].kind) THEN array
                                                             ELSE before

\* Commands without data.  The chip ignores one while it is busy, and one that
\* writes when it is not enabled.
Take(command) ==
  busy' = IF busy = NULL /\ (command.kind = "read" \/ wel) THEN command
                                                           ELSE busy

WaitThen(t, stage) == Goto(t, "drain") /\ after' = [after EXCEPT ![t] = stage]

\* generic_read and page_copy: move the page to the cache register.
ToCache(t) ==
  /\ pc[t] = "to_cache"
  /\ hal = "ready"
  /\ Remember(t)
  /\ Take([kind |-> "read", row |-> Page(t).from])
  /\ WaitThen(t, IF op[t].kind = "copy" THEN "enable" ELSE "transfer")
  /\ UNCHANGED <<array, cache, wel, failed, halVars, op, step, got, result>>

\* write_enable
Enable(t) ==
  /\ pc[t] = "enable"
  /\ hal = "ready"
  /\ Remember(t)
  /\ wel' = (busy = NULL \/ wel)
  /\ Goto(t, "execute")
  /\ UNCHANGED <<array, cache, busy, failed, halVars, op, step, after, got,
                 result>>

\* Program the page, or erase the block.
Execute(t) ==
  /\ pc[t] = "execute"
  /\ hal = "ready"
  /\ Take([kind |-> IF op[t].kind = "erase" THEN "erase" ELSE "program",
           row |-> Page(t).to])
  /\ WaitThen(t, "next")
  /\ UNCHANGED <<array, cache, wel, failed, halVars, op, step, got, before,
                 result>>

-----------------------------------------------------------------------------
\* wait_for_complete

\* Mutant: a token that was left over stays.
DrainSkips(t) ==
  /\ pc[t] = "drain"
  /\ Goto(t, "poll")
  /\ UNCHANGED <<chipVars, halVars, op, step, after, got, before, result>>

Drain(t) ==
  /\ pc[t] = "drain"
  /\ flash_wip' = 0
  /\ Goto(t, "poll")
  /\ UNCHANGED <<chipVars, hal, buffer, flash_dma_done, op, step, after, got,
                 before, result>>

\* Let the HAL poll the status register.
Poll(t) ==
  /\ pc[t] = "poll"
  /\ hal = "ready"
  /\ hal' = "polling"
  /\ Goto(t, "await")
  /\ UNCHANGED <<chipVars, buffer, flash_wip, flash_dma_done, op, step, after,
                 got, before, result>>

\* The semaphore, or its timeout: LX_ERROR, and the HAL goes on polling.
Await(t) ==
  /\ pc[t] = "await"
  /\ \/ /\ flash_wip > 0
        /\ flash_wip' = flash_wip - 1
        /\ Goto(t, "status")
        /\ UNCHANGED <<step, result>>
     \/ /\ flash_wip = 0
        /\ Return(t, "error")
        /\ UNCHANGED flash_wip
  /\ UNCHANGED <<chipVars, hal, buffer, flash_dma_done, op, after, got, before>>

\* Mutant: the status of the operation is not read.
StatusSkips(t) ==
  /\ pc[t] = "status"
  /\ IF after[t] = "next" THEN NextPage(t)
                          ELSE Goto(t, after[t]) /\ UNCHANGED <<step, result>>
  /\ UNCHANGED <<chipVars, halVars, op, after, got, before>>

\* Mutant: a page that fails is tried again.
StatusRetries(t) ==
  /\ pc[t] = "status"
  /\ IF hal = "ready" /\ failed
     THEN /\ failed' = FALSE /\ busy' = NULL
          /\ Goto(t, FirstStage(op[t].kind))
          /\ UNCHANGED <<step, result>>
     ELSE /\ IF after[t] = "next"
             THEN NextPage(t)
             ELSE Goto(t, after[t]) /\ UNCHANGED <<step, result>>
          /\ UNCHANGED <<failed, busy>>
  /\ UNCHANGED <<array, cache, wel, halVars, op, after, got, before>>

\* A failed operation resets the chip and ends the call: LX_ERROR.  A status
\* that cannot be read counts as a success.  The reset is not awaited by the code:
\* here it is over before the next command and leaves the features of the chip
\* as they were, neither of which is certain.
Status(t) ==
  /\ pc[t] = "status"
  /\ IF hal = "ready" /\ failed
     THEN failed' = FALSE /\ busy' = NULL /\ Return(t, "error")
     ELSE /\ IF after[t] = "next"
             THEN NextPage(t)
             ELSE Goto(t, after[t]) /\ UNCHANGED <<step, result>>
          /\ UNCHANGED <<failed, busy>>
  /\ UNCHANGED <<array, cache, wel, halVars, op, after, got, before>>

-----------------------------------------------------------------------------
\* Transfers between the cache register and the buffer.

\* What a transfer leaves in the buffer, which was set to 0xFF before.
Received(parts) == [p \in Parts |-> IF p \in parts THEN cache[p] ELSE FF]

\* generic_read, with the page in the cache register: a DMA transfer, or a
\* polled one.
Transfer(t) ==
  /\ pc[t] = "transfer"
  /\ hal = "ready"
  /\ IF op[t].dma
     THEN /\ flash_dma_done' = 0
          /\ hal' = "rx"
          /\ buffer' = Erased
     ELSE /\ buffer' = Received(op[t].parts)
          /\ UNCHANGED <<hal, flash_dma_done>>
  /\ Goto(t, IF op[t].dma THEN "rx" ELSE "copy_out")
  /\ UNCHANGED <<chipVars, flash_wip, op, step, after, got, before, result>>

\* generic_write: fill the buffer and load the cache register with it.
Load(t) ==
  /\ pc[t] = "load"
  /\ hal = "ready"
  /\ Remember(t)
  /\ buffer' = Page(t).data
  /\ IF op[t].dma
     THEN flash_dma_done' = 0 /\ hal' = "tx" /\ cache' = cache
     ELSE cache' = Page(t).data /\ UNCHANGED <<hal, flash_dma_done>>
  /\ Goto(t, IF op[t].dma THEN "tx" ELSE "enable")
  /\ UNCHANGED <<array, busy, wel, failed, flash_wip, op, step, after, got,
                 result>>

\* Mutant: the end of the transfer is not awaited.
AwaitDmaSkips(t) ==
  /\ pc[t] \in {"rx", "tx"}
  /\ Goto(t, IF pc[t] = "rx" THEN "copy_out" ELSE "enable")
  /\ UNCHANGED <<chipVars, halVars, op, step, after, got, before, result>>

\* The wait for the DMA has no timeout.
AwaitDma(t) ==
  /\ pc[t] \in {"rx", "tx"}
  /\ flash_dma_done > 0
  /\ flash_dma_done' = flash_dma_done - 1
  /\ Goto(t, IF pc[t] = "rx" THEN "copy_out" ELSE "enable")
  /\ UNCHANGED <<chipVars, hal, buffer, flash_wip, op, step, after, got,
                 before, result>>

\* The end of generic_read; page_erase_verify then looks at the main part.
CopyOut(t) ==
  /\ pc[t] = "copy_out"
  /\ got' = [got EXCEPT ![t] = Append(@, buffer)]
  /\ IF op[t].kind = "verify" /\ buffer["main"] # FF THEN Return(t, "error")
                                                     ELSE NextPage(t)
  /\ UNCHANGED <<chipVars, halVars, op, after, before>>

driver(t) ==
  \/ Refused(t) \/ ToCache(t) \/ Enable(t) \/ Execute(t)
  \/ Drain(t) \/ Poll(t) \/ Await(t) \/ Status(t)
  \/ Transfer(t) \/ Load(t) \/ AwaitDma(t) \/ CopyOut(t)

-----------------------------------------------------------------------------
\* The chip and the interrupts.

\* The chip finishes what it was doing; a program or an erase may fail.
Finish ==
  /\ busy # NULL
  /\ busy' = NULL
  /\ \/ /\ busy.kind = "read"
        /\ cache' = array[busy.row]
        /\ UNCHANGED <<array, wel, failed>>
     \/ /\ busy.kind = "program"
        /\ wel' = FALSE
        /\ \/ /\ array' = [array EXCEPT ![busy.row] = Program(@, cache)]
              /\ failed' = FALSE
           \/ /\ array' = [array EXCEPT ![busy.row] =
                             [p \in Parts |-> GARBLED]]
              /\ failed' = TRUE
        /\ UNCHANGED cache
     \/ /\ busy.kind = "erase"
        /\ wel' = FALSE
        /\ \/ /\ array' = [r \in Rows |-> IF r \in RowsOf(busy.row[1])
                                          THEN Erased ELSE array[r]]
              /\ failed' = FALSE
           \/ array' = array /\ failed' = TRUE
        /\ UNCHANGED cache
  /\ UNCHANGED <<halVars, threadVars>>

\* Status match: the chip is ready.
flash_polling_complete ==
  /\ hal = "polling"
  /\ busy = NULL
  /\ hal' = "ready"
  /\ flash_wip' = flash_wip + 1
  /\ UNCHANGED <<chipVars, buffer, flash_dma_done, threadVars>>

\* End of a DMA transfer.
flash_rx_complete ==
  /\ hal = "rx"
  /\ hal' = "ready"
  /\ \E t \in Threads : pc[t] = "rx" /\ buffer' = Received(op[t].parts)
  /\ flash_dma_done' = flash_dma_done + 1
  /\ UNCHANGED <<chipVars, flash_wip, threadVars>>

flash_tx_complete ==
  /\ hal = "tx"
  /\ hal' = "ready"
  /\ cache' = buffer
  /\ flash_dma_done' = flash_dma_done + 1
  /\ UNCHANGED <<array, busy, wel, failed, buffer, flash_wip, threadVars>>

\* A transfer that fails: the HAL gets ready again, and nobody is told.
DmaError ==
  /\ hal \in {"rx", "tx"}
  /\ hal' = "ready"
  /\ UNCHANGED <<chipVars, buffer, flash_wip, flash_dma_done, threadVars>>

environment ==
  Finish \/ flash_polling_complete \/ flash_rx_complete \/ flash_tx_complete
    \/ DmaError

Next ==
  \/ \E t \in Threads : driver(t) \/ \E o \in Ops : Begin(t, o)
  \/ environment

\* Threads run, and a transfer or an operation that started ends.
Fairness ==
  /\ \A t \in Threads : WF_vars(driver(t))
  /\ WF_vars(environment)

Spec == Init /\ [][Next]_vars
FairSpec == Spec /\ Fairness

-----------------------------------------------------------------------------
Waiting == {"drain", "poll", "await", "status"}
Stages == Waiting \cup {"idle", "to_cache", "load", "enable", "execute",
                        "transfer", "rx", "tx", "copy_out"}

TypeOK ==
  /\ array \in [Rows -> [Parts -> Value]]
  /\ cache \in [Parts -> Value]
  /\ busy \in Commands \cup {NULL}
  /\ wel \in BOOLEAN
  /\ failed \in BOOLEAN
  /\ hal \in {"ready", "polling", "rx", "tx"}
  /\ buffer \in [Parts -> Value]
  /\ flash_wip \in 0 .. 1
  /\ flash_dma_done \in 0 .. 1
  /\ pc \in [Threads -> Stages]
  /\ op \in [Threads -> Ops \cup {NULL}]
  /\ step \in [Threads -> Nat]
  /\ after \in [Threads -> {"next", "enable", "transfer"}]
  /\ got \in [Threads -> Seq([Parts -> Value])]
  /\ before \in [Rows -> [Parts -> Value]]
  /\ result \in [Threads -> {"none", "success", "error"}]

\* When wait_for_complete got its token the chip has finished and the HAL is
\* free: the token is the one of this wait, even after waits that timed out
\* and were answered late.
CompleteMeansIdle ==
  \A t \in Threads : pc[t] = "status" => busy = NULL /\ hal = "ready"

\* The content written to page i of a call.
Written(o, i) == IF o.kind = "copy" THEN before[o.steps[i].from]
                                    ELSE o.steps[i].data

Writers(o, k, r) == {i \in 1 .. k : o.steps[i].to = r}

\* The pages of the chip when a call has done its first k pages.
Expected(o, k) ==
  CASE o.kind \in {"write", "copy"} ->
         [r \in Rows |-> IF Writers(o, k, r) = {} THEN before[r]
                         ELSE Program(before[r],
                                Written(o, CHOOSE i \in Writers(o, k, r) : TRUE))]
    [] o.kind = "erase" /\ k = 1 ->
         [r \in Rows |-> IF r \in RowsOf(o.steps[1].to[1]) THEN Erased
                                                           ELSE before[r]]
    [] OTHER -> before

\* What a call reads in page i: the parts it asks for.
Content(o, i) == [p \in Parts |-> IF p \in o.parts THEN array[o.steps[i].from][p]
                                                  ELSE FF]

\* What a read that succeeded returned is what the pages hold.
ReadReturnsPage ==
  \A t \in Threads :
    result[t] = "success" /\ op[t].kind = "read" =>
      got[t] = [i \in 1 .. Len(op[t].steps) |-> Content(op[t], i)]

\* A call that succeeds did all of it and nothing else: each page is written,
\* copied or erased, and the other pages are as they were.  A failure of the
\* chip, or a late end of an operation that timed out, is never taken for a
\* success.
SuccessMeansDone ==
  \A t \in Threads :
    result[t] = "success" => array = Expected(op[t], Len(op[t].steps))

-----------------------------------------------------------------------------
(* The inductive invariant behind these properties, for one thread (module *)
(* DriverProofs).                                                          *)

\* No command of the call was accepted yet: the HAL may still poll for a call
\* that timed out.
Fresh(t) == pc[t] = "idle" \/ (step[t] = 1 /\ pc[t] = FirstStage(op[t].kind))

\* The HAL, the chip and the semaphores are where the thread expects them.
HalFits ==
  \A t \in Threads :
    /\ hal = "polling" => flash_wip = 0 /\ (pc[t] = "await" \/ Fresh(t))
    /\ hal \in {"rx", "tx"} => pc[t] = hal
    /\ busy # NULL => hal = "polling" \/ pc[t] \in {"drain", "poll"}
    /\ pc[t] = "poll" => flash_wip = 0
    /\ pc[t] = "await" => hal = "polling" \/ flash_wip = 1
    /\ flash_dma_done = 1 => hal = "ready" /\ pc[t] \in {"rx", "tx"}

\* Each kind of call has its stages.
KindFits ==
  \A t \in Threads :
    /\ pc[t] # "idle" =>
         op[t] \in Ops /\ step[t] \in 1 .. Len(op[t].steps) /\ result[t] = "none"
    /\ result[t] = "success" => op[t] \in Ops /\ hal = "ready"
    /\ pc[t] \in {"load", "tx"} => op[t].kind = "write"
    /\ pc[t] = "to_cache" => op[t].kind \in {"read", "verify", "copy"}
    /\ pc[t] \in {"transfer", "rx", "copy_out"} => op[t].kind \in {"read", "verify"}
    /\ pc[t] \in {"enable", "execute"} => op[t].kind \in {"write", "copy", "erase"}
    /\ pc[t] \in Waiting =>
         \/ after[t] = "next" /\ op[t].kind \in {"write", "copy", "erase"}
         \/ after[t] = "enable" /\ op[t].kind = "copy"
         \/ after[t] = "transfer" /\ op[t].kind \in {"read", "verify"}

ExecuteOf(o) == IF o.kind = "erase" THEN "erase" ELSE "program"

Executing(t) == pc[t] \in Waiting /\ after[t] = "next"
Caching(t) == pc[t] \in Waiting /\ after[t] \in {"enable", "transfer"}

\* The pages done are those before the one at hand, and that one once the chip
\* has executed the command and reports no failure.
PagesFit ==
  \A t \in Threads :
    /\ ~ Fresh(t) /\ ~ Executing(t) => array = Expected(op[t], step[t] - 1)
    /\ Executing(t) =>
         \/ /\ busy = [kind |-> ExecuteOf(op[t]), row |-> Page(t).to]
            /\ array = Expected(op[t], step[t] - 1)
         \/ /\ busy = NULL
            /\ failed \/ array = Expected(op[t], step[t])
    /\ pc[t] = "execute" => wel

\* The cache register has the page that is read, or the one to be written.
CacheFits ==
  \A t \in Threads :
    /\ Caching(t) => \/ busy = [kind |-> "read", row |-> Page(t).from]
                     \/ busy = NULL /\ cache = array[Page(t).from]
    /\ pc[t] \in {"transfer", "rx"} => cache = array[Page(t).from]
    /\ (pc[t] = "enable" /\ ~ Fresh(t)) \/ pc[t] = "execute"
           \/ (Executing(t) /\ busy # NULL) =>
         op[t].kind = "erase" \/ cache = Written(op[t], step[t])

\* So has the buffer, and a read has returned the pages before the one at hand.
BufferFits ==
  \A t \in Threads :
    /\ pc[t] = "tx" => /\ buffer = Written(op[t], step[t])
                       /\ flash_dma_done = 1 => cache = buffer
    /\ pc[t] = "rx" /\ flash_dma_done = 1 => buffer = Content(op[t], step[t])
    /\ pc[t] = "copy_out" => buffer = Content(op[t], step[t])
    /\ pc[t] # "idle" /\ op[t].kind = "read" =>
         got[t] = [i \in 1 .. step[t] - 1 |-> Content(op[t], i)]

\* The state of the chip, the HAL and the driver fit together.
NandInv ==
  /\ TypeOK /\ CompleteMeansIdle
  /\ HalFits /\ KindFits /\ PagesFit /\ CacheFits /\ BufferFits
  /\ ReadReturnsPage /\ SuccessMeansDone

-----------------------------------------------------------------------------
\* The transfer a thread waits for failed: no token will come.
TransferLost(t) ==
  pc[t] \in {"rx", "tx"} /\ hal = "ready" /\ flash_dma_done = 0

\* Every call returns, with a success or an error, whatever the chip does and
\* whenever it answers, unless a DMA transfer of the call fails: that is the
\* only thing the driver waits for without a timeout.
CallsReturn ==
  \A t \in Threads : pc[t] # "idle" ~> pc[t] = "idle" \/ TransferLost(t)
=============================================================================
