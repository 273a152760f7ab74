-------------------------- MODULE MessageLifecycle --------------------------
(***************************************************************************)
(* What muxer/include/task_muxer.h promises of a message: it is built by   *)
(* one thread, shared by its destinations once delivered, and reclaimed    *)
(* when the last of them is done with it, never before and never twice.    *)
(* There are no counters here: only the set of holders of each message.    *)
(***************************************************************************)
EXTENDS FiniteSets

CONSTANTS Msgs, Clients

VARIABLES
  stage,    \* where each message block is in its life
  holders   \* the destinations that have not consumed it yet

vars == <<stage, holders>>

Stage == {"free", "building", "shared", "dying"}

TypeOK == /\ stage \in [Msgs -> Stage]
          /\ holders \in [Msgs -> SUBSET Clients]

Init == /\ stage = [m \in Msgs |-> "free"]
        /\ holders = [m \in Msgs |-> {}]

Move(m, from, to) == /\ stage[m] = from
                     /\ stage' = [stage EXCEPT ![m] = to]

Claim(m) == Move(m, "free", "building") /\ UNCHANGED holders

\* A message that could not be completed goes back to the pool.
Abandon(m) == Move(m, "building", "free") /\ UNCHANGED holders

Share(m, S) == /\ Move(m, "building", "shared")
               /\ holders' = [holders EXCEPT ![m] = S]

\* A holder leaves; the last one leaves the message to be reclaimed.
Leave(m, c) ==
  /\ stage[m] = "shared"
  /\ c \in holders[m]
  /\ holders' = [holders EXCEPT ![m] = @ \ {c}]
  /\ stage' = IF holders[m] = {c} THEN [stage EXCEPT ![m] = "dying"] ELSE stage

Reclaim(m) == Move(m, "dying", "free") /\ UNCHANGED holders

Next == \E m \in Msgs :
          \/ Claim(m)
          \/ Abandon(m)
          \/ \E S \in (SUBSET Clients) \ {{}} : Share(m, S)
          \/ \E c \in Clients : Leave(m, c)
          \/ Reclaim(m)

Spec == Init /\ [][Next]_vars
=============================================================================
