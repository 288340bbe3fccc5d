------------------------------ MODULE MCMemory ------------------------------
(***************************************************************************)
(* Packets and models for TLC: three blocks that compete for the two lines *)
(* of one set, and one in the other set.  The number of job 2 does not     *)
(* fit, and the tracker does not know resource 2.                          *)
(***************************************************************************)
EXTENDS MemoryProperties

Pkt(cmd, addr, job, core, rsc) ==
    [cmd |-> cmd, addr |-> addr, job |-> job, core |-> core, rsc |-> rsc]

MCPackets == {Pkt("READ", 0, 1, 0, 0), Pkt("WRITE", 1, 2, 1, 0), Pkt("WRITE", 4, 1, 1, 1),
              Pkt("READ", 8, 2, 0, 1), Pkt("READ", 2, 1, 0, 2)}

Base(fetch) == [limitStudy |-> FALSE, filters |-> {}, exits |-> FALSE, intel |-> FALSE,
                bypassed |-> {}, fetch |-> fetch]
Intel(bypassed, fetch) == [Base(fetch) EXCEPT !.intel = TRUE, !.bypassed = bypassed]
LimitStudy(filters, exits, fetch) ==
    [Base(fetch) EXCEPT !.limitStudy = TRUE, !.filters = filters, !.exits = exits]

MCConfigs == {Base(TRUE), Intel({1}, FALSE), LimitStudy({"inter"}, TRUE, TRUE),
              LimitStudy({"intra", "task"}, FALSE, FALSE)}

MCMasks == {{}, {0}}
=============================================================================
