------------------------------- MODULE Stream -------------------------------
(***************************************************************************)
(* What the trace generator promises its analyzers: each of them receives *)
(* every packet handed to the analysis stage, once, in the order in which  *)
(* the packets were handed over, whatever buffers and threads lie between. *)
(***************************************************************************)
EXTENDS Naturals, Sequences

CONSTANTS
    Analyzer,   \* the analyzers registered with the pipeline
    Packet,     \* the packets the analysis stage handles
    First       \* what has been handed over when the application starts

VARIABLES
    pushed,     \* the packets handed over so far, in order
    log         \* log[a]: the packets analyzer a has processed so far

streamVars == <<pushed, log>>

Init ==
    /\ pushed = First
    /\ log = [a \in Analyzer |-> <<>>]

\* A thread hands over one packet.
HandIn ==
    /\ \E p \in Packet : pushed' = Append(pushed, p)
    /\ UNCHANGED log

\* An analyzer processes the packet that follows the last one it processed.
Deliver(a) ==
    /\ Len(log[a]) < Len(pushed)
    /\ log' = [log EXCEPT ![a] = Append(@, pushed[Len(@) + 1])]
    /\ UNCHANGED pushed

\* A packet goes to all analyzers at once, past the buffers: none may be behind.
Bypass ==
    /\ \A a \in Analyzer : log[a] = pushed
    /\ \E p \in Packet : pushed' = Append(pushed, p)
    /\ log' = [a \in Analyzer |-> pushed']

Next ==
    \/ HandIn
    \/ \E a \in Analyzer : Deliver(a)
    \/ Bypass

Spec == Init /\ [][Next]_streamVars
=============================================================================
