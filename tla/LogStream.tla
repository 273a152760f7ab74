------------------------------ MODULE LogStream ------------------------------
(***************************************************************************)
(* What the logger promises to a line that add_log accepted: it waits with *)
(* the others in the order of the calls, and is handed to the UART once.   *)
(* Lines may be handed over in groups.  Whatever waits when the logger     *)
(* task starts is erased.                                                  *)
(***************************************************************************)
EXTENDS Naturals, Sequences

CONSTANT Lines   \* the lines that are logged, each by one call

VARIABLES
  pending,   \* accepted lines that wait, in the order of the calls
  handed     \* lines given to the UART, in the order they were

vars == <<pending, handed>>

Seen(line) == \E i \in DOMAIN pending : pending[i] = line

Was(line) == \E i \in DOMAIN handed : handed[i] = line

Init == pending = <<>> /\ handed = <<>>

Accept(line) ==
  /\ ~ Seen(line)
  /\ ~ Was(line)
  /\ pending' = Append(pending, line)
  /\ UNCHANGED handed

Hand(n) ==
  /\ handed' = handed \o SubSeq(pending, 1, n)
  /\ pending' = SubSeq(pending, n + 1, Len(pending))

Erase == handed = <<>> /\ pending' = <<>> /\ UNCHANGED handed

Next ==
  \/ \E line \in Lines : Accept(line)
  \/ \E n \in 1 .. Len(pending) : Hand(n)
  \/ Erase

Spec == Init /\ [][Next]_vars
=============================================================================
