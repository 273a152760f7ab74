----------------------------- MODULE ShellParser -----------------------------
(***************************************************************************)
(* The shell streams (tasks/shell/src/ShellStream/ShellStreamBase.cpp) and *)
(* the parser (tasks/parser/src/task_parser.cpp): each stream edits a line *)
(* character by character and, at its end, sends it to parser_task through *)
(* a block of parser_pool and the queue parser_input.                      *)
(*                                                                         *)
(* A step lies between two ThreadX calls.  Echo, prompts and what the      *)
(* handlers do are left out.                                               *)
(***************************************************************************)
EXTENDS CommandLine

CONSTANTS
  Streams,     \* the stream objects, each in the thread that calls process
  Alphabet,    \* the printable characters typed on each stream
  Blocks,      \* blocks of parser_pool
  QueueDepth,  \* SHELL_COMMAND_FIFO_DEPTH
  LineMax,     \* SHELL_LINE_LENGTH - 1
  NULL         \* nullptr

ASSUME ShellParserAssumption ==
  /\ QueueDepth \in Nat \ {0}
  /\ LineMax \in Nat
  /\ NULL \notin Blocks \cup Streams

VARIABLES
  line_buffer,   \* the first current_len characters of each stream
  at,            \* where each stream is: "process", "send" or "release"
  response,      \* the block a stream is filling
  parser_pool,   \* available blocks
  parser_input,  \* the queue of blocks
  block,         \* contents of each block: stream and command
  parser,        \* where parser_task is: "receive", "parsed" or "executed"
  cmd,           \* the block parser_task holds
  call,          \* what it read in it
  ignored        \* history: blocks dropped with an unknown command

streamVars == <<line_buffer, at, response>>
parserVars == <<parser, cmd, call, ignored>>
vars == <<streamVars, parser_pool, parser_input, block, parserVars>>

NoCall == [isShell |-> FALSE, name |-> <<>>, args |-> <<>>]

\* What is in an available block: nothing that can be relied on, the kernel
\* links the blocks of the pool through their first word, reply_stream.
Blank == [reply_stream |-> NULL, command |-> <<>>]

Init ==
  /\ line_buffer = [s \in Streams |-> <<>>]
  /\ at = [s \in Streams |-> "process"]
  /\ response = [s \in Streams |-> NULL]
  /\ parser_pool = Blocks
  /\ parser_input = <<>>
  /\ block = [b \in Blocks |-> Blank]
  /\ parser = "receive"
  /\ cmd = NULL
  /\ call = NoCall
  /\ ignored = {}

-----------------------------------------------------------------------------
\* ShellStreamBase::process, for one character.

\* A printable character is kept if there is room for it.
Keep(s, ch) ==
  /\ at[s] = "process"
  /\ Len(line_buffer[s]) < LineMax
  /\ line_buffer' = [line_buffer EXCEPT ![s] = Append(@, ch)]
  /\ UNCHANGED <<at, response, parser_pool, parser_input, block, parserVars>>

Backspace(s) ==
  /\ at[s] = "process"
  /\ line_buffer[s] # <<>>
  /\ line_buffer' = [line_buffer EXCEPT ![s] = SubSeq(@, 1, Len(@) - 1)]
  /\ UNCHANGED <<at, response, parser_pool, parser_input, block, parserVars>>

\* End of a line that is not empty: build_request takes a block and fills it.
\* Without a block the line is dropped.
Enter(s) ==
  /\ at[s] = "process"
  /\ line_buffer[s] # <<>>
  /\ \/ /\ parser_pool = {}
        /\ line_buffer' = [line_buffer EXCEPT ![s] = <<>>]
        /\ UNCHANGED <<at, response, parser_pool, block>>
     \/ \E b \in parser_pool :
          /\ parser_pool' = parser_pool \ {b}
          /\ block' = [block EXCEPT ![b] = [reply_stream |-> s,
                                            command |-> line_buffer[s]]]
          /\ response' = [response EXCEPT ![s] = b]
          /\ at' = [at EXCEPT ![s] = "send"]
          /\ UNCHANGED line_buffer
  /\ UNCHANGED <<parser_input, parserVars>>

\* build_request returns, and process empties the line.
Done(s) ==
  /\ line_buffer' = [line_buffer EXCEPT ![s] = <<>>]
  /\ response' = [response EXCEPT ![s] = NULL]
  /\ at' = [at EXCEPT ![s] = "process"]

\* Mutant: the block goes to the front of the queue (tx_queue_front_send).
SendFront(s) ==
  /\ at[s] = "send"
  /\ Len(parser_input) < QueueDepth
  /\ parser_input' = <<response[s]>> \o parser_input
  /\ Done(s)
  /\ UNCHANGED <<parser_pool, block, parserVars>>

Send(s) ==
  /\ at[s] = "send"
  /\ Len(parser_input) < QueueDepth
  /\ parser_input' = Append(parser_input, response[s])
  /\ Done(s)
  /\ UNCHANGED <<parser_pool, block, parserVars>>

SendFails(s) ==
  /\ at[s] = "send"
  /\ Len(parser_input) = QueueDepth
  /\ at' = [at EXCEPT ![s] = "release"]
  /\ UNCHANGED <<line_buffer, response, parser_pool, parser_input, block,
                 parserVars>>

GiveBack(s) ==
  /\ at[s] = "release"
  /\ parser_pool' = parser_pool \cup {response[s]}
  /\ block' = [block EXCEPT ![response[s]] = Blank]
  /\ Done(s)
  /\ UNCHANGED <<parser_input, parserVars>>

-----------------------------------------------------------------------------
\* parser_task.  Its null checks never fire: build_request queues a block that
\* names its stream.

\* The line is put in lower case and cut after the name where it is, in the
\* block; the arguments are copied.
Receive ==
  /\ parser = "receive"
  /\ parser_input # <<>>
  /\ cmd' = Head(parser_input)
  /\ parser_input' = Tail(parser_input)
  /\ call' = Parsed(block[cmd'].command)
  /\ block' = [block EXCEPT ![cmd'].command = call'.name]
  /\ parser' = "parsed"
  /\ UNCHANGED <<streamVars, parser_pool, ignored>>

\* No such command: the loop continues, with the block.
Ignore ==
  /\ parser = "parsed"
  /\ ~ Known(call)
  /\ ignored' = ignored \cup {cmd}
  /\ cmd' = NULL
  /\ call' = NoCall
  /\ parser' = "receive"
  /\ UNCHANGED <<streamVars, parser_pool, parser_input, block>>

\* Mutant: the block is released before the handler runs.
ExecuteReleased ==
  /\ parser = "parsed"
  /\ Known(call)
  /\ parser' = "executed"
  /\ parser_pool' = parser_pool \cup {cmd}
  /\ block' = [block EXCEPT ![cmd] = Blank]
  /\ UNCHANGED <<streamVars, parser_input, cmd, call, ignored>>

Execute ==
  /\ parser = "parsed"
  /\ Known(call)
  /\ parser' = "executed"
  /\ UNCHANGED <<streamVars, parser_pool, parser_input, block, cmd, call,
                 ignored>>

\* Mutant: the block of a command that ran is not released.
ReleaseSkips ==
  /\ parser = "executed"
  /\ cmd' = NULL
  /\ call' = NoCall
  /\ parser' = "receive"
  /\ UNCHANGED <<streamVars, parser_pool, parser_input, block, ignored>>

Release ==
  /\ parser = "executed"
  /\ parser_pool' = parser_pool \cup {cmd}
  /\ block' = [block EXCEPT ![cmd] = Blank]
  /\ cmd' = NULL
  /\ call' = NoCall
  /\ parser' = "receive"
  /\ UNCHANGED <<streamVars, parser_input, ignored>>

parser_task == Receive \/ Ignore \/ Execute \/ Release

Next ==
  \/ \E s \in Streams :
       \/ \E ch \in Alphabet[s] : Keep(s, ch)
       \/ Backspace(s)
       \/ Enter(s)
       \/ Send(s) \/ SendFails(s) \/ GiveBack(s)
  \/ parser_task

\* Threads run; nobody has to type.
Fairness ==
  /\ \A s \in Streams : WF_vars(Send(s) \/ SendFails(s) \/ GiveBack(s))
  /\ WF_vars(parser_task)

Spec == Init /\ [][Next]_vars
FairSpec == Spec /\ Fairness

-----------------------------------------------------------------------------
\* What a line holds: printable characters, and what tolower makes of them.
Printable == UNION {Alphabet[s] : s \in Streams}
Characters == Printable \cup {Lower[ch] : ch \in DOMAIN Lower}

TypeOK ==
  /\ line_buffer \in [Streams -> Seq(Characters)]
  /\ \A s \in Streams : Len(line_buffer[s]) <= LineMax
  /\ at \in [Streams -> {"process", "send", "release"}]
  /\ response \in [Streams -> Blocks \cup {NULL}]
  /\ parser_pool \in SUBSET Blocks
  /\ parser_input \in Seq(Blocks) /\ Len(parser_input) <= QueueDepth
  /\ block \in [Blocks -> [reply_stream : Streams \cup {NULL},
                           command : Seq(Characters)]]
  /\ parser \in {"receive", "parsed", "executed"}
  /\ cmd \in Blocks \cup {NULL}
  /\ call \in [isShell : BOOLEAN, name : Seq(Characters), args : Seq(Characters)]
  /\ ignored \in SUBSET Blocks

Queued(b) == \E i \in DOMAIN parser_input : parser_input[i] = b
Filling(b) == \E s \in Streams : response[s] = b

Places == {"pool", "stream", "queue", "parser", "ignored"}

In(b, place) ==
  \/ place = "pool" /\ b \in parser_pool
  \/ place = "stream" /\ Filling(b)
  \/ place = "queue" /\ Queued(b)
  \/ place = "parser" /\ b = cmd
  \/ place = "ignored" /\ b \in ignored

\* A block is in one place only: available, filled by one stream, queued once,
\* with parser_task, or dropped with an unknown command.  So a line is neither
\* overwritten before its command ran nor run twice, and no path but the
\* unknown command loses a block.
OnePlace ==
  /\ \A b \in Blocks : \E place \in Places : In(b, place)
  /\ \A b \in Blocks : \A place, other \in Places :
       In(b, place) /\ In(b, other) => place = other
  /\ \A s, t \in Streams :
       response[s] = response[t] /\ response[s] # NULL => s = t
  /\ \A i, j \in DOMAIN parser_input :
       parser_input[i] = parser_input[j] => i = j

\* A stream has a block exactly when it is about to send or release it, and the
\* block then holds its line.
Filled ==
  \A s \in Streams :
    /\ response[s] = NULL <=> at[s] = "process"
    /\ response[s] # NULL =>
         /\ line_buffer[s] # <<>>
         /\ block[response[s]] = [reply_stream |-> s, command |-> line_buffer[s]]

\* A block in the queue or with parser_task names the stream to answer to.
Addressed ==
  /\ cmd = NULL <=> parser = "receive"
  /\ \A b \in Blocks : Queued(b) \/ b = cmd => block[b].reply_stream \in Streams

\* Each block has its type and one place, and carries a line from where it was
\* typed to where it is run.
ShellInv == TypeOK /\ OnePlace /\ Filled /\ Addressed

\* The command a block carries, and where its answer goes.
Request(b) == [stream |-> block[b].reply_stream,
               call |-> Parsed(block[b].command)]

\* The requests in the queue, and the one parser_task has.
Waiting == [i \in DOMAIN parser_input |-> Request(parser_input[i])]
Running == IF cmd = NULL THEN {}
           ELSE {[stream |-> block[cmd].reply_stream, call |-> call]}

Service == INSTANCE Requests
             WITH Capacity <- QueueDepth, Asked <- Parsed,
                  typed <- line_buffer, waiting <- Waiting, running <- Running

\* Streams that type at the same time each keep their own line; their commands
\* run in the order they were sent, each once, unaltered and with the right
\* stream to answer to.
ImplementsRequests == Service!Spec

\* The block of a known command comes back: "Free the command we received".
KnownCommandsReturn ==
  \A b \in Blocks :
    Queued(b) /\ Known(Parsed(block[b].command)) ~> b \in parser_pool
=============================================================================
