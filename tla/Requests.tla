------------------------------ MODULE Requests ------------------------------
(***************************************************************************)
(* What the shell streams and the parser promise together: each stream     *)
(* edits its own line; a line that is submitted is a request, for the      *)
(* command it asks and the stream it was typed on; requests are served one *)
(* at a time, in the order they were submitted, each once.                 *)
(***************************************************************************)
EXTENDS Naturals, Sequences

CONSTANTS
  Streams,
  Capacity,      \* requests that can wait
  Asked(_)       \* the command a line asks

VARIABLES
  typed,      \* the line of each stream
  waiting,    \* the requests submitted, in order
  running     \* the request being served, if there is one

vars == <<typed, waiting, running>>

Init ==
  /\ typed = [s \in Streams |-> <<>>]
  /\ waiting = <<>>
  /\ running = {}

\* A stream changes its line, or drops it: the others keep theirs.
Edit(s) ==
  /\ typed' = [typed EXCEPT ![s] = typed'[s]]
  /\ UNCHANGED <<waiting, running>>

Submit(s) ==
  /\ typed[s] # <<>>
  /\ Len(waiting) < Capacity
  /\ waiting' = Append(waiting, [stream |-> s, call |-> Asked(typed[s])])
  /\ typed' = [typed EXCEPT ![s] = <<>>]
  /\ UNCHANGED running

Serve ==
  /\ running = {}
  /\ waiting # <<>>
  /\ running' = {Head(waiting)}
  /\ waiting' = Tail(waiting)
  /\ UNCHANGED typed

Finish ==
  /\ running # {}
  /\ running' = {}
  /\ UNCHANGED <<typed, waiting>>

Next == (\E s \in Streams : Edit(s) \/ Submit(s)) \/ Serve \/ Finish

Spec == Init /\ [][Next]_vars
=============================================================================
