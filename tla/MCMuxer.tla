------------------------------ MODULE MCMuxer ------------------------------
(***************************************************************************)
(* Module Muxer for TLC: messages go to one client or to several.          *)
(***************************************************************************)
EXTENDS Muxer

CONSTANTS p1, c1, c2, c3  \* c3 is a bit that no task listens to

MCProducers == {p1}
MCClients == {c1, c2}
MCThreads == MCProducers \cup MCClients
MCMasks == {{c1}, {c1, c2}}
MCBits == MCClients \cup {c3}
=============================================================================
