# EtherBench firmware: TLA+ models and proofs

This directory holds a formal model of the EtherBench firmware (STM32H563,
ThreadX, C and C++): TLA+ modules translated from the source, TLC
configurations that check them on small instances, and TLAPS proofs of the
main invariants for every value of the constants. `PROJECT.json` links every
definition to the lines of `src/` it stands for, every property to a mutant of
the code that breaks it, and every hazard of the code to the properties that
watch it, or to the reason why none does. Paths below are relative to `src/`.

## 1. The system

The firmware is a set of ThreadX threads that exchange blocks of memory
through queues and pools, and meet the hardware through HAL callbacks that put
semaphores. Almost every thread switch happens at a kernel call, so a model of
a component is a set of program points between kernel calls, plus the
interrupts.

| component | source | state | operations |
|---|---|---|---|
| Message API | `muxer/src/task_muxer.cpp:64-160` | pools `router_pool` and `router_payloads`; `muxerInput_t` with its atomic `count` | `create_message`, `consume_message`, `create_response_message` |
| Router task | `muxer/src/task_muxer.cpp:165-205` | queue `router_input`, table `outputs` | receive a word, look up each destination bit (sending is "To do") |
| USB bridge senders | `threadx/usbx/app/src/app_usbx_tasks.c`, `app_usbx_status.c` | the message in hand | create a message, queue a word of it, consume it if the queue is full |
| Deferred logger | `tasks/logger/src/task_logger.cpp` | two buffers and their sizes, `active_buffer`, semaphores `dma_trigger` and `dma_tx_done`, the UART | `add_log` from any thread, `logger_task`, `dma_tx_callback` |
| Shell streams | `tasks/shell/src/ShellStream/ShellStreamBase.cpp` | a line per stream | `process` (print, backspace, end of line), `build_request` |
| Command parser | `tasks/parser/src/task_parser.cpp` | pool `parser_pool`, queue `parser_input`, the block in hand | receive, split, look up, run, release |
| NAND driver | `threadx/levelx/bsp/GD5F1GO4UBY1G/src/*.c` | the HAL handle `hospi1`, `buffer`, semaphores `flash_wip` and `flash_dma_done`; the chip | page reads and writes, copies, erases, erase checks; `wait_for_complete` |
| NAND partitions, start of the volumes | `.../src/ll_vfs.c`, `protection.c`, `status.c`, `threadx/levelx/app/src/app_levelx.c` | feature registers, block ranges | offsets, reset, unlock, format, open |
| VFS | `threadx/filex/app/src/vfs.c`, `vfs_syscall.c` | table of files, `vfs_mutex`, `vfs_flash_mutex`, `vfs_sd_mutex` | open, read, write, seek, close |
| FileX thread | `threadx/filex/app/src/app_filex.c` | the two media | mount, format, flush in a loop |
| LEDs | `tasks/leds/src/**` | current and previous effect, tick, progress, timer | `set_effect`, `set_effect_progress`, refresh on a timer |
| USB ports | `threadx/usbx/app/src/*.c`, `ShellStreamCdc.cpp` | pointers to the CDC ports, event flags | activate, deactivate, receive, transmit |
| Network | `threadx/netxduo/app/src/*.c`, `ShellStreamTelnet.cpp` | link, DHCP client and address, Telnet connections, the pool of packets | link, DHCP or fallback, Telnet callbacks, `hw_transmit` |
| Programmer | `tasks/programmer/src/ProbeController/*.cpp` | mode, pins, clocks and registers of two SPI | modes, bus frequency, bus direction; `ioBits` and the task are stubs |
| Command tables | `tasks/parser/scripts/generate_gperf.py` | generated tables | short and long forms of SCPI names |
| Launcher, interrupts, HAL set-up | `launcher/`, `interrupts/`, `hal/`, `main.c` | - | creation of the kernel objects; callbacks |
| Other tasks | `tasks/{hardware,files,sequences,configuration,inet}` | - | empty files |
| Vendored code | ThreadX, FileX, LevelX, NetX Duo, USBX, HAL, CMSIS | - | external: modelled where `src/` relies on it |

How they interact:

* USB and Telnet callbacks feed characters to a **shell stream**. The stream
  sends finished lines to the **parser** through a block of `parser_pool` and
  the queue `parser_input`; the handler answers on the stream that the block
  names.
* Producers allocate a message with the **message API** and queue it for the
  **router**; the destinations are to consume it or answer it. Today only the
  USB bridge produces messages, and the router delivers nothing.
* Every thread **logs**. `add_log` appends with interrupts off, `logger_task`
  exchanges the two buffers and gives the full one to a DMA, whose interrupt
  puts a semaphore.
* The **VFS** takes a mutex per device and goes through FileX or LevelX to the
  **NAND driver**, which waits for the chip and for its DMA on two semaphores
  put from interrupts. The FileX thread flushes on its own.
* **USB** callbacks set and clear the pointers and flags that the threads of the
  terminal and of the bridge read; the **Telnet** server calls back on
  connections, data and ends, and `parser_task` answers on the stream of either.
* `leds_task` and the commands set effects on the **LEDs**; the thread of the
  ThreadX timers refreshes them between any two steps of theirs.
* The **programmer** is to drive the probe; today nothing creates it.

What is hard about it, and what correct means:

* *Message API.* Several clients decrement the same counter and the last one
  frees two blocks in two kernel calls, with switches in between; creation may
  fail half-way. Correct: the count is the number of clients that still have
  the message; nothing is reused while someone has it; nothing is lost.
* *Router.* A queue of 32-bit words is fed by two senders. Correct: a full queue
  loses nothing; nothing is released that was queued; the loop comes back
  whatever the mask is.
* *Logger.* Writers, a task, a DMA and an interrupt share two buffers; a wait
  may time out. Correct: nobody writes under the DMA, no token is taken for
  another, no threshold is missed, lines leave once and in order.
* *Shell and parser.* Streams in several threads compete for blocks and queue
  places; a block changes owner five times. Correct: one owner at a time,
  commands run once, in order, unaltered, for the right stream; blocks come back.
* *NAND driver.* A chip that is slow, may fail, and answers after a timeout; one
  buffer and two semaphores for all calls. Correct: a call that succeeds did
  exactly what it says; every call returns.
* *VFS.* An entry is found without a lock, filled before its file is opened, and
  emptied after the mutex of its volume was given back; the mutex is chosen from
  a type that is read before the wait for it. Correct: a call reaches the file
  of its thread, a device serves one call at a time, no open file is wiped.
* *LEDs.* An effect is copied in pieces under a timer thread of the highest
  priority, which also writes tick and progress back. Correct: no frame mixes
  two requests or reads outside a table, progress does not go back, the last
  effect asked for is shown.
* *Programmer.* Each mode undoes the one before it; registers are locked while a
  peripheral is enabled and dead while it has no clock. Correct would be, in any
  order of modes, that the pins, the clocks, the roles and the rate are the ones
  asked for. The code keeps part of it; the properties say exactly which part, and
  what is in use instead.
* *USB terminal.* The cable and the terminal program come and go between any two
  steps of two threads. Correct: no text through a port that is not there, the
  welcome first, every session read.
* *Network.* A lease comes as the timeout is dealt with; two connections share
  one stream; a failed text must give its packets back, once.

## 2. The modules

| module | models | abstract specification |
|---|---|---|
| `Messages` | the message API, one step per kernel call | |
| `Muxer` (`MCMuxer`, `MuxerProofs`) | threads that use the API as its header asks, with delivery | `MessageLifecycle` |
| `UsbRouter` (`MCUsbRouter`, `UsbRouterProofs`) | `Messages` composed with the two real senders and `muxer_task` | |
| `Logger` (`MCLogger`, `LoggerProofs`) | the deferred logger, its UART and its interrupt | `LogStream` |
| `CommandLine` | what `parser_task` makes of a line, as operators | |
| `ShellParser` (`MCShellParser`, `ShellProofs`) | streams, pool, queue and parser, composed with `CommandLine` | `Requests` |
| `NandDriver` (`MCNandDriver`, `DriverProofs`) | the driver, the HAL handle, the semaphores, the callbacks and the chip | |
| `Vfs` (`MCVfs`, `VfsProofs`) | table of files, mutexes, system calls, FileX's list of open files | |
| `Leds` (`MCLeds`, `LedsProofs`) | the thread that sets effects and the refresh of the timer thread | |
| `Probe` (`MCProbe`, `DriverProofs`) | modes, pins, SPI registers, frequency and direction of the probe | |
| `UsbTerminal` (`MCUsbTerminal`, `ShellProofs`) | callbacks of USBX, the reader of the terminal, `hw_transmit` of its stream | |
| `Network` (`MCNetwork`, `NetworkProofs`) | start of the network, Telnet callbacks, `hw_transmit` and its packets | |

**Messages.** `router_pool` and `router_payloads` are the available blocks,
`msg` the contents of each block: stale when the block is available, as in the
code, where `payload` and `count` are written late. `pc[t]` says between which
two kernel calls a thread is; `cur` is the message it builds or built
(`create_message`'s `msg`), `req` the one it received. `CreateMessage`,
`CreatePayload` and `CreateUndo` are the three sections of `create_message`;
`Decrement` is `__sync_fetch_and_sub` with the test of the *old* value;
`FreePayload` and `FreeMessage` are the two `tx_block_release` with their error
returns; `Return` ends `consume_message` in a consumer or in
`create_response_message`. `type`, `info` and the bytes of the payload are left
out: no step reads them.

**Muxer.** `Deliver` and `Take` are external: `muxer_task` does not deliver, so
they are what `task_muxer.h` describes. Every client consumes or answers what
it takes, once.

**UsbRouter.** The queue holds words, so the model keeps, for each word, the
mask it will be read as, and the message it came from (history). `Word` is the
place where the two senders differ: one passes the message and queues its first
word, the other passes the address of its pointer and queues an address.
`outputs` is the table as it is written. Reading past it is a value of its own.

**Logger.** A line is its number and its size; `LOG_BUFFER_SIZE`, the threshold
and the sizes are constants. `add_log` is one step: it runs with interrupts off.
`WaitTrigger`, `Drain`, `Swap`, `Transmit`, `WaitDone` and `Abort` are the
sections of the loop. A timeout is a choice. The UART ends a transmission with
the callback or with an error, which gives no token. The constant
`LateCompletion` says whether a transmission may outlast the timeout: a buffer
takes 89 ms at 115200 baud and the timeout is 200 ticks of 10 ms, so it is
FALSE in the run and a hypothesis of the theorems.

**ShellParser.** A block is with one stream, in the queue, with `parser_task`,
in the pool, or dropped (`ignored`, a history of the blocks an unknown command
took away). `Receive` lowers and cuts the line in the block, as the code does
in place, so `ImplementsRequests` checks that the parse does not depend on
when. Commands are names in two sets instead of the gperf tables. `Waiting` and
`Running` map the blocks of the queue and of the parser to the requests of
`Requests`; the line of each stream is part of that specification, so it also
says that a stream submits what was typed on it and nothing else.

**NandDriver.** `Operation` describes every call of the driver as a kind and a
list of pages. `Refused` is the common error path: the HAL refuses a command
unless it is ready, which is how a poll left over by a timeout shows. `Drain`,
`Poll`, `Await` and `Status` are `wait_for_complete`. The chip ignores a command
while it is busy and a write that was not enabled; programming clears bits
(`And`); a failed program leaves the page garbled. The reset that follows a failure is
over before the next command and keeps the features of the chip (`Status`). `got` and `before` are
history variables for the properties. `NandAssumption` says what LevelX asks for:
at least one page, each page written once per call, no page copied that the call
writes, one block per erase.

**Vfs.** `table` is `vfs_fd_table` reduced to the type of each entry, `linked`
the list that FileX keeps of the files that are open in each media. `VfsGetFd`
finds a free entry with no lock, `Fill` overwrites it under `vfs_mutex`, `Pick`
chooses the mutex, `Lock` gets it, `Enter` reads the type again and does the
switch, the three `Finish` are the ends of a call and `Clear` is the second part
of `vfs_close`. `Begin` is `_read`, `_write`, `_lseek` or `_close` with its
arithmetic on the descriptor: `Offset` is 3 for these and 0 for callers of
`vfs_open` and `vfs_read` themselves. `owner` and `clashed` are histories; two
opens that find the same entry (`clashed`) end the safety properties, because
nothing prevents it, but not `CallsReturn`.

**Leds.** An effect is its type and the number of the request that set it, which
stands for its colours. `SetEffect`, `CopyType`, `CopyRest` and `StartTimer` are
`set_effect` cut where the timer thread could come between (it does not: the
timer is stopped, which is what `WholeEffect` is about); `ReadProgress` and
`WriteProgress` are `set_effect_progress`, which writes twice. `Refresh` is
`refresh_leds`: `NextTick` and `Reads` are what every animated effect does with
its tick, the latter as the set of all indices that the frame reads, one for each
pixel of a spinning ring. The progress is an `uint8_t` that wraps at `BYTE`.

**Probe.** `InitAs` and `DeinitAs` are the four pairs of `initAs` and
`deinitAs` methods as sequences of `Clock`, `LL_SPI_Set` and `LL_SPI_Init`, in
the order of the code: SWD disables its SPI before it takes the clock away, JTAG
after, when the register does not listen any more. `current_div` and `BestDiv`
are the choice of a prescaler with its `uint32_t` differences, which wrap below
the slowest rate, and `SetBusFrequency` is what both peripherals get. From the
fastest rate on the code reads `dividers[-1]` and, by what it finds there, index
255 of both tables: any prescaler may come of it and any of `Answers` be returned.
Three histories follow what the properties compare: `held`, for each peripheral
the mode that initialised it since it was last disabled and the rate that was
returned for it since; `jtag`, that JTAG was left and neither SWDO nor SPI after
it; `asked` and `rate`, the last call of `setBusFrequency`.

**UsbTerminal.** The callbacks are actions that may come between any two steps
of the reader (`CheckPort` to `Welcome`) and of a text (`TestPort`, `Write`,
`Sent`, `Failed`), which both the reader and `parser_task` transmit in packets.
`WriteNull` is a packet through a `cdc_instance` that the unplug has cleared:
USBX returns an error or the processor faults, by what lies at the address.
`last_dtr` is the `static` variable of `USBX_TerminalChange`.

**Network.** `net` is the program point of `app_network_thread_entry`, `failed`
the two calls of `Tx_Error_Handler`, which does not return. `sock` is
the state of each logical connection; the server thread runs one callback at a
time, and `parser_task` answers in between. `hw_transmit` allocates, appends
(with a second packet for a text that does not fit) and sends; `tcp` counts the
packets that wait for an acknowledgement.

## 3. The runs

| run | instance | distinct states | properties |
|---|---|---|---|
| `muxer` | 1 producer, 2 clients, 2 messages, 1 payload | 10,855 | `MuxerInv NoUseAfterFree ImplementsLifecycle BlocksReturn` |
| `usb_router` | 2 senders, 3 messages, 2 payloads, queue of 1 | 5,395 | `RouterInv RouterReturns` |
| `logger` | buffers of 4 units, threshold 3, lines of 1 and 2, 7 lines | 76,851 | `LoggerInv DmaBufferQuiet ThresholdWakes ImplementsLogStream LinesLeave` |
| `shell` | 2 streams, lines of 2 characters, 3 blocks, queue of 2 | 365,700 | `ShellInv KnownCommandsReturn ImplementsRequests` |
| `nand` | 1 thread, 1 block of 2 pages, 13 calls | 249,395 | `NandInv ReadReturnsPage SuccessMeansDone CallsReturn` |
| `vfs` | 2 threads, 2 entries, 3 mount types | 102,585 | `VfsInv DeviceSerial OwnFile NoWipedFile CallsReturn` |
| `leds` | ring of 2, tables of 2 to 6, 3 requests | 333,354 | `LedsInv WholeEffect ProgressAdvances WantedIsShown` |
| `probe` | 6 modes, frequencies around every rate and outside them | 268,273 | `ProbeInv NearestRate RunsAsHeld SwdStartsTalking` |
| `usb_terminal` | 2 threads, texts of 1 and 2 packets | 6,334 | `TerminalInv OpenIsConnected WelcomeBeforeEcho TextLeaves ShellReads` |
| `network` | 2 connections, 4 packets | 68,904 | `NetInv OpenIsHeard OneAddress ServerStarts` |

The type invariant of each module is a conjunct of the invariant whose name ends
in `Inv`.

What they show:

* `muxer`: at every switch inside the API the count of a delivered message is
  the number of clients that have it, no block is available while one has it,
  two messages never share a payload, no block is lost, and the counters
  implement `MessageLifecycle` (sets of holders, no counters). Every message
  comes back whatever its clients do. One payload block for two messages makes
  the failed allocation and its undo happen; two clients make the race for the
  last decrement; `CountMod = 4` would show a count that wraps.
* `usb_router`: queue and pools smaller than the traffic, so that sends and
  creations fail. What was not queued goes back with its payload, what was
  queued is not released. It does not show that messages come back: they do not.
  Once the pools are empty the run stops, so deadlock is not checked.
* `logger`: lines of 1 and 2 against a threshold of 3 in a buffer of 4 hit the
  threshold, jump over it, fill the buffer and are refused. Seven lines are
  enough for two exchanges with lines on both sides of each.
* `shell`: three blocks for a queue of two, so that the queue is full while a
  stream still gets a block, and all blocks are out while a stream ends a line.
  One stream types `a` and `?` (a shell command, a SCPI command, unknown ones),
  the other an upper case `A`.
* `nand`: sequences of one and two pages, polled and DMA transfers, copy, erase
  and erase check, with failures of the chip and of the transfers and with
  answers later than the timeout. The run may stop, so deadlock is not checked:
  a failed transfer is awaited forever.
* `vfs`: two threads over two entries make every race there is between an open,
  a use and a close: the entry a thread waits for is emptied, filled again for
  another volume, or shared. Three types give both devices, both mutexes and a
  raw partition that calls nothing to open. A failed open loses its entry, so
  the table may fill up and the run may stop.
* `leds`: every effect, two values of tick (0, and 9, past every table), and three
  requests, which is enough for a second request to come before the refresh of
  the first and a third to ask for what the first was. `FULL` and `BYTE` are
  small so that the progress is clamped and would wrap. One thread sets effects, as
  in the code of today: the header lets `set_effect` be called from anywhere, and
  two callers would share the copy of `set_effect`.
* `probe`: all sequences of modes (the state has no counter), and frequencies at,
  beside and between the rates, so that both neighbours win, below the slowest (0
  too) and from the fastest on. Where the code does not do what one expects the
  properties say what it does: `ProbeInv` (`OnlyMisoStays`) has the pins and clocks
  of the mode and MISO from the end of JTAG until SWDO or SPI is left, no more and
  no less; `NearestRate` has the last but one rate below the slowest, and nothing
  from the fastest on; `RunsAsHeld` has the role and the rate that JTAG and SPI
  hand on and that SWD and SWDO do not.
* `usb_terminal`: unbounded sessions; two packets per text, so that an unplug
  falls before, between and in the packets of both threads. `OpenIsConnected` says
  which open terminals are not connected: those of a session that follows one that
  ended open, until DTR falls.
* `network`: two connections, the `NX_TELNET_MAX_CLIENTS` of the code, that open
  and close in any order, and a pool that two texts of two packets can empty. The
  start of the DHCP client or of the server may be refused.

Two runs are expected to find a violation: they compare the code with a sentence
of the repository, which the findings of `PROJECT.json` quote.

| run | property | what the code does |
|---|---|---|
| `nand_two_threads` | `ReadReturnsPage` | two threads in the driver mix their data |
| `vfs_syscalls` | `OwnFile` | `_open` returns an index and the other calls take an index plus 3: the descriptor of the fourth file reaches the first |

`nand_two_threads` is the specification of `nand` with two threads: the flush of
the FileX thread does not take `vfs_flash_mutex`, and the settings and backtrace
sectors, written under it, are on the same chip. `vfs_syscalls` is the one of
`vfs` with `Offset = 3` and one thread.

Seen while modelling and not given a run:

* Router: nobody consumes what the router received, so the pools drain
  (`task_muxer.cpp:191`); `USBX_USARTBridgeChange` queues the address of its
  message, routed as a destination (`app_usbx_status.c:222`); `outputs` is one
  short and shifted (`task_muxer.cpp:48`); a broadcast counts 16 destinations and
  there are 11 (`task_muxer.h:81`), which the theorems exclude with
  `OnlyClients`; the source of a response is the mask of its request, not the
  task that answers (`task_muxer.cpp:149`); `ROUTER_COMMAND_FIFO_SIZE` adds
  where it should multiply (`task_muxer.h:134`).
* Logger: the lines logged before `logger_task` runs are wiped
  (`task_logger.cpp:125`).
* Shell: an unknown command keeps its block (`task_parser.cpp:140`); a line whose
  only token is its first character is not SCPI (`task_parser.cpp:84`); the line
  that a session left unfinished is put before the first command of the next
  (`ShellStreamBase.cpp:115`).
* NAND: `block_erase_verify` looks at the first and the last page only
  (`verify.c:46`); the wait of 10000 ticks "10s" is 100 s (`common.c:109`), which
  the models do not tell apart because a timeout is a choice; the partitions FLASH
  and BACKTRACE share 10 blocks (`ll_vfs.h:30`); a volume that fails to open for
  any reason is formatted (`app_levelx.c:258`).
* VFS: two opens may take the same entry (`vfs.c:113`), and a failed open keeps it
  (`vfs.c:153`): `clashed` and the lost entries of `vfs`.
* LEDs: a request for the effect that was refreshed last is ignored although
  another was set since (`hasty`); the period is converted twice
  (`LedsBase.cpp:59`).
* Probe: `deinitAsJTAG` resets MOSI twice and MISO, which is an output in JTAG,
  never (`ProbeController.cpp:515`); the peripherals of JTAG and SPI are disabled
  when their clock is off (`:529`), so that `LL_SPI_Init` refuses the next mode: SPI
  after JTAG is a slave, JTAG after SPI has two masters; below the slowest rate the
  last but one is chosen (`:183`), from the fastest rate on the divider is read
  before the table (`:179`), and 0, "the bus frequency was incorrect"
  (`ProbeController.hpp:138`), is returned for no frequency below that; `delayus`
  waits 0 ticks below the tick.
* USB terminal: a session that ends open makes the next one unseen until DTR falls
  (`kept`); a terminal that is plugged but closed blocks `parser_task` in a text;
  a packet after an unplug goes through NULL (`fault`).
* Network: a second connection takes the stream of the first, and the end of
  either mutes the other (`rival`).

## 4. Fairness

Fairness is weak, on the steps a thread takes once it is inside a call, and on
interrupts: the scheduler is preemptive by priority, the threads of higher
priority block on queues and timeouts, and hardware that was started ends or
fails. Nothing external is fair: no one has to type, to plug or open a
terminal, to log, to connect or to begin a call.

Strong fairness stands in three places, each for a queue of waiters that is first
in, first out, so that no thread is passed over for ever: `Take` in `Muxer`
(`tx_queue_receive`), `Lock` in `Vfs` (`tx_mutex_get`) and `Write` in
`UsbTerminal` (the mutex of the endpoint). An active timer expires (`Refresh` in
`Leds`), and a wait with a timeout ends (`WaitAddress` in `Network`). The UART and
the XSPI may always end with an error instead of the normal callback. The host of
a terminal reads as long as it is open (`Sent` in `UsbTerminal`): `TextLeaves`
excludes a terminal that is plugged and closed.

## 5. What is proved

Each theorem is for every value of the constants that satisfies the assumptions
its module names. The safety invariants are inductive and proved with one lemma
per action (or group of actions), which the last theorem of the module combines.

`MuxerProofs` (any number of threads, blocks, clients and bits):
`MuxerInvariant`, `CountCorrect`, `NeverFreedInUse`, `BlocksAccounted`. The
properties are not inductive by themselves: that the count is right after a
decrement needs that a client has a message at most once (`OneReference`), that
nobody builds a message that someone has (`OneBuilder`), and that the releases
are done by one thread after all clients left (`OneFreer`); that a release does
not free a payload in use needs `PayloadExclusive` and `PayloadOut`; and counting
needs that masks only name clients (`LiveMasks`). `MuxerInv` is their
conjunction. Assumptions: `MessagesAssumption` (finitely many bits, fewer than
the count can hold), `MuxerAssumption`, and the hypothesis `OnlyClients`: the
destination masks name only clients. The broadcast mask does not satisfy it.

It also proves the refinement `MuxerImplementsLifecycle`, under the same
hypothesis. With `MuxerInv`, a step changes the stage or the holders of one
message at most, the one in the hands of the thread that takes it, so that every
kernel call is one step of `MessageLifecycle` on that message, or a stutter. The
decrement is the case that needs the count: its old value is 1 exactly if the
thread is the last holder.

`UsbRouterProofs` (pools and queues of any size): `RouterInvariant`. That a
failed send returns both blocks, and a good one none, needs that a message is in
one place among the pool, the queue and the hands of one sender (`HeldOnce`),
that a payload belongs to one message (`PayloadsApart`), and that the one
destination was counted as one (`CountedOnce`), so that the sender that consumes
its own message is its last client.

`LoggerProofs` (any sizes, threshold and number of lines): `LoggerInvariant`,
`DmaSafe` (`DmaBufferQuiet` and `NoStaleToken`), `ThresholdNotMissed` and
`LoggerImplementsStream`, the refinement of `LogStream`. The invariant adds to
the properties that the buffer that was exchanged is not the active one and not
empty (`SentBuffer`), that a token exists past the threshold at every program
point where it may still be needed (`TokenForThreshold`), and that lines in
buffers have been called (`LinesCalled`), so that a new line is new.
Hypothesis: `LateCompletion = FALSE`.

`VfsProofs` (any threads, entries and mount types): `VfsInvariant`,
`OneCallPerDevice`, `ReachesOwnFile`, `OpenFileKept`. The argument: an entry that
is not empty has one owner, which holds its descriptor or is about to get it
(`EntriesAccounted`); only the owner's calls change the entry, so the type it read
before the wait for a mutex is still there after it (`CallFits`), and the mutex
it waits for is the one of that type (`MutexHeld`). Hypothesis: `Offset = 0`,
callers of `vfs_open` and `vfs_read`; with the system calls it fails, as
`vfs_syscalls` shows. Everything ends where two opens take one entry (`clashed`).

`LedsProofs` (any ring, tables and number of requests): `LedsInvariant`,
`OneRequestPerFrame`, `ProgressNeverBack`. No frame mixes two requests, because the
timer is off from the first to the last write of `set_effect` (`SetApart`), and no
pixel of one is read outside its table (`IndexInRange`; `Indexes`: the tick of a
spinning ring is at most the number of its pixels, so that one correction brings
`tail_index` back, and never past the last of the intensities). For the progress,
the thread is at most one increment ahead of the last frame, so that what a refresh
clamps has not wrapped, and the effect is never behind its frame (`ProgressKept`).

`DriverProofs`, of `NandDriver` (any device, any calls of any length, every
failure and timeout): `NandInvariant`, `ReadsReturnPages`, `SuccessIsDone`. The
two properties speak of the end of a call and are far from inductive. `NandInv`
says at every stage what the chip and the driver have done: the pages before the
one at hand and no other are as the call wants them, and the one at hand as well
once its command was executed and did not fail (`PagesFit`, with `Expected` for
the pages after k steps); the cache register holds the page read or the data to be
programmed (`CacheFits`); the buffer and `got` hold what was read (`BufferFits`).
The part that a late answer would break is `HalFits`: after a wait that timed out
the HAL may still poll, but then no token is in `flash_wip`, the calls that follow
are refused at their first command until the poll ends, and the token it leaves is
drained before the next wait; so a token that `wait_for_complete` gets is the one
of its own wait (`CompleteMeansIdle`). The hypothesis `OneThread` is there because
without it the property is false (`nand_two_threads`): it holds as long as every
caller has `vfs_flash_mutex`, which all have but the flush of the FileX thread.
Induction over the pages of a call is not needed: `ExpectedNext` relates k steps
to k - 1.

`DriverProofs`, of `Probe` (any clock and frequencies): `ProbeInvariant`,
`MisoStaysWired`, `SettingsOutliveModes`, `RateIsNearest`, `SwdTalks`. That SWD starts as a
talking master also after JTAG, whose peripherals stay enabled so that
`LL_SPI_Init` refuses them, needs `MasterKept`: an enabled SPIM is a master
already, and only SWD and SWDO, which disable it in time, turn its direction.
`SettingsOutliveModes` follows each peripheral through one mode change, with the
three cases it has: disabled in time, and then initialised or not; left enabled,
and then kept. That the nearest rate is returned needs the order of the rates and
that the two differences do not wrap between the slowest and the fastest one; the
case below the slowest is the one in which the second wraps. From the fastest rate
on the theorem claims nothing of the rate, and the other theorems hold whatever it
is.

`NetworkProofs` (any finite number of connections, any pool): `HeardAlone`, by
`HeardInv` (without a rival there is at most one connection); `AddressIsOne`, by
`AddressInv` (what the thread knows of the client at each program point); and
`PacketsKept`, which is `NetInv`. The pool is a counter, so that no packet is lost
says that a sum is constant: what is available, what the two threads hold and what
each connection still has to acknowledge. `CountSplits` and `Recount` take one
connection out of that sum, so that each step changes one term of it, and `InHands`
says how many packets a thread holds at each point of `hw_transmit`.

`ShellProofs`, of `UsbTerminal` (texts of any number of packets):
`TerminalInvariant`, `TerminalConnected`, `WelcomeFirst`. That the welcome is first
needs `WelcomeDue`: as long as it did not leave, it is pending or in the hands of
the reader, and what the reader transmits meanwhile for a key of this session can
only be the welcome, although the callback that sets `welcome_pending` may come at
any step. `TerminalConnected` says which open terminals are connected and which are
not: `last_dtr_state` is only left set by a session that ended open, and as long as
it is the stream has no port (`PortFits`, `kept`).

`ShellProofs`, of `ShellParser` (any streams, blocks, lengths of lines and of the
queue): `BlocksInPlace`, which is `ShellInv`, and `ShellServesRequests`, the
refinement of `Requests`. A block is in one place (`OnePlace`), so that a stream
that fills a block changes none that waits; it holds the line of its stream until
it is sent (`Filled`) and names the stream to answer to until it is released
(`Addressed`). With these, sending a block is submitting the line, receiving it is
serving the first request, and every other step changes one line or nothing. The
case that uses the parser is `Receive`: the line is lowered and cut in the block,
and the command read from it is the one that was asked.

Only model-checked: liveness (`BlocksReturn`, `LinesLeave`, `RouterReturns`,
`KnownCommandsReturn`, the two `CallsReturn`, `WantedIsShown`, `TextLeaves`,
`ShellReads`, `ServerStarts`), which with `ENABLED` is out of the prover's reach.
Every other property of a passing run is a theorem. No module declares a
RECURSIVE operator; induction over data (what a function does for sequences of any
length) is out of reach too, and nothing here depends on it.

## 6. What is not modelled, and why

* *Data.* The contents of log lines, echo and prompts, payload bytes, colours and
  gradients, what command handlers print: no control depends on them.
* *NAND partitions and start of the volumes.* Each function of `ll_vfs.c` adds an
  offset and calls the driver; the start is one sequence of register accesses and
  LevelX calls before any thread uses the volumes. The reset after a failure
  restores the defaults of the chip (`common.c:124`), which nothing sets again, and
  its end is not awaited; `NandDriver` abstracts from the features of the chip and
  takes the reset for instantaneous.
* *FileX thread and media drivers.* One sequence of calls and a loop over
  `fx_media_flush`; its effect on the driver is the second thread of
  `nand_two_threads`.
* *Command tables.* Generated on the host, sets of names in `CommandLine`.
* *Launcher, interrupts.* The creation of the kernel objects is the initial state
  of the modules, the priorities justify the fairness, the HAL callbacks are
  actions of `Logger` and `NandDriver`.
* *Stubs and empty files.* `ioBits`, the programmer task, target power, and the
  tasks for hardware, files, sequences, configuration and inet are not written.
  `LedsBlinker` is never created; CMSIS-DAP and the protocol engines are never
  called.
* *Vendored code* is most of the repository: ThreadX, FileX, LevelX, NetX Duo, USBX,
  HAL and CMSIS. It is external, and modelled where `src/` relies on it.
* *Threads preempted inside a section between two kernel calls*, except where such
  a section touches shared state without protection (the atomic decrement, the
  copy of an effect, the entry found by `vfs_get_fd`, the test of a port).

What could be added next: the conditions under which `HalFits` survives a second
thread in the driver (a flush that takes `vfs_flash_mutex`), and, once the router
delivers, the composition of `Muxer` with the tasks behind its queues.

## 7. Running

    tlc -config MCMuxer.cfg MCMuxer          # any run of PROJECT.json
    tlapm MuxerProofs.tla                    # one to three minutes, the others too
