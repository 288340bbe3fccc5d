------------------------- MODULE GeneratorProperties -------------------------
(***************************************************************************)
(* What the trace generator has to get right, stated over Generator.       *)
(***************************************************************************)
EXTENDS Generator, SequencesExt

\* "Drain Gpu and FilterIn buffer" (gltracesim_generator.cc:283), then "Drain
\* FilterOut and Analysis buffers" (295): between a pause and its resume every
\* buffer before the queue is empty, no dirty line is left in a filter cache, and
\* the analyzers have processed all that was pushed before the pause.
PausedMeansDrained ==
    paused # {} =>
        /\ \A t \in App : Gpu(t) = <<>> /\ Fin(t) = <<>> /\ cache[t] = {}
        /\ \A a \in Analyzer : log[a] \o queue.fout = pushed

\* rotate_buffers() empties the buffer it gives to the application thread
\* (filter_queue.cc:66-67): the filter thread has processed all of it by then.
RotationDiscardsNothing ==
    [][\A t \in App : out'[t] # out[t] => Fin(t) = <<>>]_vars

\* A write goes to the trace of ts[fid].job whatever job made its line dirty
\* (gltracesim_generator.cc:1339, 1512, 1556): an access still buffered and a dirty
\* line must belong to the job that runs, which must not be NULL.
AccessesBelongToRunningJob ==
    \A t \in App :
        /\ \A p \in Range(Gpu(t) \o Fin(t)) : p.cmd = "ACCESS" => p.job = job[t]
        /\ \A l \in cache[t] : JobOf(l.job, l.dev) = job[t]

\* Packets the program order of the calls decides: an OpenGL call overtakes what
\* the filter stage still buffers, moves are found by the filter thread, and
\* accesses stay in its stage.
Ordered(p) == p.cmd \notin {"ACCESS", "OPENGL_CALL", "MV_TO_CPU", "MV_TO_GPU"}

\* Those of the packets s, in order.
OrderedOf(s) ==
    LET of[i \in 0 .. Len(s)] ==
            IF i = 0 THEN <<>>
            ELSE IF Ordered(s[i]) THEN Append(of[i - 1], s[i]) ELSE of[i - 1]
    IN  of[Len(s)]

\* Job boundaries travel through two stages, boundary markers are pushed into the
\* second (handle_sync()): the stream still has both in the order of the calls.
StreamKeepsProgramOrder == IsPrefix(OrderedOf(Tail(pushed)), issued)

Complete ==
    /\ \A a \in Analyzer : log[a] = pushed
    /\ \A t \in App : Gpu(t) = <<>> /\ Fin(t) = <<>>
    /\ OrderedOf(Tail(pushed)) = issued

\* The swap that finds stop at zero exits with nothing left behind in a buffer.
StopLosesNothing == exited = "stop" => Complete

\* Every handler a thread enters returns, or the process ends.
HandlersReturn ==
    \A t \in App : todo[t] # <<>> ~> (todo[t] = <<>> \/ exited # "no")

-----------------------------------------------------------------------------
\* The next call of the thread that pauses, as QueueProtocol names it.
NextIs(name, arg) == \E t \in App : todo[t] # <<>> /\ Head(todo[t]) = <<name, arg>>

ProtocolMode ==
    CASE paused # {} -> "paused"
      [] NextIs("queueRotate", "back") -> "rotateBack"
      [] NextIs("queueStart", "drain") -> "drain"
      [] NextIs("queueWait", "front") -> "waitFront"
      [] NextIs("queueRotate", "front") -> "rotateFront"
      [] OTHER -> "running"

\* The stream is never this long within the bound on the calls.
StreamBound == 20 * (MaxCalls + 1)

Protocol == INSTANCE QueueProtocol WITH
    mode <- ProtocolMode,
    FirstFrame <- Marker("NEW_FRAME"),
    FirstScene <- Marker("NEW_SCENE"),
    MaxPushed <- StreamBound

\* The handlers call the analysis queue as its protocol demands, and so every
\* analyzer gets the stream in order (QueueProtocol, Stream).
FollowsProtocol == Protocol!Spec
=============================================================================
