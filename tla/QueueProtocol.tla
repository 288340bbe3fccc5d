---------------------------- MODULE QueueProtocol ----------------------------
(***************************************************************************)
(* The analysis queue under the calling protocol its correctness rests on: *)
(* any thread pushes while the pipeline runs; a pause waits, rotates,      *)
(* starts, waits and rotates again with no other producer at work; only    *)
(* then may a packet be handed to the analyzers past the queue, and at     *)
(* most one packet fewer than a buffer holds be pushed before start() lets *)
(* the work threads go.                                                    *)
(*                                                                         *)
(* Generator shows that the handlers of the tool follow this protocol when *)
(* one application thread runs; QueueProofs shows what it guarantees.      *)
(***************************************************************************)
EXTENDS AnalysisQueue

CONSTANTS
    FirstFrame,     \* the packets the constructor pushes
    FirstScene,
    MaxPushed       \* bound: packets handed to the stage

ASSUME ProtocolAssumption ==
    /\ Worker # {}
    /\ MaxPushed \in Nat
    /\ FirstFrame \in Packet
    /\ FirstScene \in Packet

\* Where the producers are: "running", or the next call of a pause
\* (pause_and_drain_buffers(): "drain" is its start() in the middle), or "paused".
VARIABLE mode

protocolVars == <<queueVars, mode>>

Modes == {"running", "rotateBack", "drain", "waitFront", "rotateFront", "paused"}

Init ==
    /\ QueueInit(FirstFrame, FirstScene)
    /\ mode = "running"

MayPush == Len(pushed) < MaxPushed

PushRunning ==
    /\ mode = "running"
    /\ MayPush
    /\ \E t \in Thread, pkt \in Packet : Push(t, pkt)
    /\ UNCHANGED mode

HandOverFull ==
    /\ mode = "running"
    /\ Fills(queue)
    /\ \E t \in Thread : HandOver(t)
    /\ UNCHANGED mode

WaitBack ==
    /\ mode = "running"
    /\ ~ Fills(queue)
    /\ \/ (\E t \in Thread : WaitBegin(t)) /\ UNCHANGED mode
       \/ (\E t \in Thread : WaitEnd(t)) /\ mode' = "rotateBack"

RotateBack == mode = "rotateBack" /\ Rotate /\ mode' = "drain"

StartDrain == mode = "drain" /\ Start /\ mode' = "waitFront"

WaitFront ==
    /\ mode = "waitFront"
    /\ \/ (\E t \in Thread : WaitBegin(t)) /\ UNCHANGED mode
       \/ (\E t \in Thread : WaitEnd(t)) /\ mode' = "rotateFront"

RotateFront == mode = "rotateFront" /\ Rotate /\ mode' = "paused"

PushPaused ==
    /\ mode = "paused"
    /\ MayPush
    /\ Len(queue.fout) + 1 < BufferSize
    /\ \E t \in Thread, pkt \in Packet : Push(t, pkt)
    /\ UNCHANGED mode

BypassPaused ==
    /\ mode = "paused"
    /\ MayPush
    /\ queue.fout = <<>>
    /\ \E pkt \in Packet \ Refused : ProcessAll(pkt)
    /\ UNCHANGED mode

Resume == mode = "paused" /\ Start /\ mode' = "running"

\* The process has ended; that the other threads may go on here only adds behaviours.
Aborted == (\E w \in Worker : Asserts(w)) /\ UNCHANGED protocolVars

Next ==
    \/ \E w \in Worker : WorkerStep(w) /\ UNCHANGED mode
    \/ PushRunning
    \/ HandOverFull
    \/ WaitBack
    \/ RotateBack
    \/ StartDrain
    \/ WaitFront
    \/ RotateFront
    \/ PushPaused
    \/ BypassPaused
    \/ Resume
    \/ Aborted

Spec == Init /\ [][Next]_protocolVars

-----------------------------------------------------------------------------
TypeOK == QueueTypeOK /\ mode \in Modes

\* While a pause has the work threads parked, none of them is awake or about to
\* be: start() writes job_queue without consumer_mtx (analysis_queue.cc:86-92)
\* and is safe only because of this.
Parked == mode \in {"rotateBack", "drain", "rotateFront", "paused"}

StartFindsThreadsParked ==
    Parked =>
        /\ \A w \in Worker : worker[w].pc = "pop" /\ ~ hasWork[w] /\ ~ done[w]
        /\ queue.jobs = <<>>

\* The analysis buffer is swapped only when no work thread is inside the loop
\* that reads it (gltracesim_generator.cc:1668-1675).
BufferStaysUnderReaders ==
    [][queue'.analysis # queue.analysis
          => \A w \in Worker : worker[w].pc # "process"]_protocolVars

\* Each analyzer gets what was pushed, once, in order.
Promise == INSTANCE Stream WITH First <- <<FirstScene>>

DeliversInOrder == Promise!Spec

=============================================================================
