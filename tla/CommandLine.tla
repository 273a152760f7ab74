---------------------------- MODULE CommandLine ----------------------------
(***************************************************************************)
(* What parser_task makes of a line: lower case, shell or SCPI, name and   *)
(* arguments (tasks/parser/src/task_parser.cpp).  A line is a sequence of  *)
(* characters; the tables of commands are the ones gperf generates.        *)
(***************************************************************************)
EXTENDS Naturals, Sequences

CONSTANTS
  Lower,          \* upper case characters, and what tolower makes of them
  ShellCommands,  \* names find_shell_command knows
  ScpiCommands    \* names find_scpi_command knows

ToLower(line) ==
  [i \in DOMAIN line |-> IF line[i] \in DOMAIN Lower THEN Lower[line[i]]
                                                     ELSE line[i]]

Has(line, ch) == \E i \in DOMAIN line : line[i] = ch

\* strchr: the index of the first occurrence.
First(line, ch) ==
  CHOOSE i \in DOMAIN line :
    line[i] = ch /\ \A j \in 1 .. i - 1 : line[j] # ch

\* The characters that tell a SCPI command.
Tokens == {"*", ":", "?"}

\* A token counts unless its first occurrence starts the line.
IsScpi(line) == \E ch \in Tokens : Has(line, ch) /\ First(line, ch) # 1

\* The name is what comes before the first space, the arguments what follows.
Name(line) ==
  IF Has(line, " ") THEN SubSeq(line, 1, First(line, " ") - 1) ELSE line

Args(line) ==
  IF Has(line, " ") THEN SubSeq(line, First(line, " ") + 1, Len(line)) ELSE <<>>

\* The command parser_task looks up for a line, and with what arguments.
Parsed(line) ==
  LET lower == ToLower(line)
  IN  [isShell |-> ~ IsScpi(lower), name |-> Name(lower), args |-> Args(lower)]

\* The lookup finds a handler.
Known(call) == call.name \in IF call.isShell THEN ShellCommands
                                             ELSE ScpiCommands
=============================================================================
