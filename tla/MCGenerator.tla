----------------------------- MODULE MCGenerator -----------------------------
(***************************************************************************)
(* Threads and packets of the trace generator for TLC.                     *)
(***************************************************************************)
EXTENDS GeneratorProperties

MCThread == App \cup {Filter(t) : t \in App}
MCJobs == {JobOf(id, dev) : id \in 1 .. 6, dev \in Dev}
MCPacket ==
    {Pkt(cmd, j) : cmd \in {"NEW_JOB", "END_JOB"}, j \in MCJobs} \cup
    {Marker(cmd) : cmd \in MarkerCommands}

MCRefused == {Marker("OPENGL_CALL")}

AllCalls == [t \in App |-> Handler]

\* One thread only flushes, every other only rasterises tiles.
FlushAndTiles ==
    LET main == CHOOSE t \in App : TRUE
    IN [t \in App |-> IF t = main THEN {"sync"} ELSE {"access", "tile"}]
=============================================================================
