------------------------------ MODULE MCReplay ------------------------------
(***************************************************************************)
(* Recordings for TLC.  Two frames; the first has two scenes.  The first   *)
(* scene creates a resource, uses it and destroys it again, so its jobs    *)
(* are replayed after the destruction.  One job has an empty trace file.   *)
(***************************************************************************)
EXTENDS ReplayProperties

MCJobs == 1 .. 8
MCResources == {"r1", "r2"}

Info(dev, type, x, y, ps) ==
  [dev |-> dev, type |-> type, x |-> x, y |-> y, pkts |-> ps]

JobTable ==
  << Info("GPU", "TILE_JOB", 1, 0, <<"r1", "r2">>),
     Info("CPU", "MISC_JOB", 0, 0, <<"r2">>),
     Info("GPU", "DRAW_JOB", 0, 0, <<"r1", "r1">>),
     Info("GPU", "TILE_JOB", 0, 0, <<"r1">>),
     Info("GPU", "MISC_JOB", 0, 0, <<>>),
     Info("GPU", "TILE_JOB", 1, 0, <<"r2">>),
     Info("GPU", "TILE_JOB", 0, 0, <<"r2", "r2", "r2">>),
     Info("CPU", "MISC_JOB", 0, 0, <<"r2", "r2">>) >>

SceneTable ==
  << [frame |-> 0, id |-> 0, width |-> 2, height |-> 1, jobs |-> <<1, 2, 3, 4, 5>>],
     [frame |-> 0, id |-> 1, width |-> 2, height |-> 1, jobs |-> <<6, 7>>],
     [frame |-> 1, id |-> 0, width |-> 1, height |-> 1, jobs |-> <<8>>] >>

Cmd(c) == [cmd |-> c, rsc |-> "r1"]
Rsc(c, r) == [cmd |-> c, rsc |-> r]

Recorded ==
  << Cmd("NEW_SCENE"), Rsc("NEW_RESOURCE", "r1"), Rsc("NEW_RESOURCE", "r2"),
     Cmd("NEW_JOB"), Rsc("MV_TO_GPU", "r1"), Cmd("END_JOB"),
     Rsc("END_RESOURCE", "r1"), Cmd("END_SCENE"),
     Cmd("NEW_SCENE"), Rsc("MV_TO_CPU", "r2"), Cmd("NEW_FRAME"),
     Cmd("NEW_SCENE"), Cmd("SYNC"), Cmd("NEW_FRAME"), Cmd("NEW_SCENE") >>

Count(n, cmds) == Cardinality({i \in 1 .. n : Recorded[i].cmd \in cmds})

(* A recording that ends after n commands; the scene and frame records     *)
(* written up to then are on disk (handle_gpu_scene_end, swap_buffers).    *)
CutAt(n) ==
  [cmds |-> SubSeq(Recorded, 1, n), len |-> [d \in Dev |-> n],
   frames |-> Count(n, {"NEW_FRAME"}),
   scenes |-> SubSeq(SceneTable, 1, Count(n, {"END_SCENE", "NEW_FRAME"})),
   jobs |-> JobTable, policy |-> "fcfs", zWidth |-> 0,
   startFrame |-> 1, stopFrame |-> 7, stopTime |-> FALSE]

(* Stream files cut off before the records the other files refer to, each  *)
(* at a place of its own (the generator died before it flushed them).      *)
LostTail(n, cpu, gpu) == [CutAt(n) EXCEPT !.len = [CPU |-> cpu, GPU |-> gpu]]

Complete == {CutAt(Len(Recorded))}
CleanCuts == {CutAt(n) : n \in 0 .. Len(Recorded)}
LostTails == {LostTail(15, n, 15) : n \in 9 .. 10} \cup {LostTail(15, 15, 9)}
AllLostTails == {LostTail(15, m, n) : m, n \in 0 .. 15}
AllTraces == CleanCuts \cup AllLostTails

(* Stopped by the clock at any time, or after the first frame.             *)
Timed(traces) == {[t EXCEPT !.stopTime = TRUE] : t \in traces}
Short(traces) == {[t EXCEPT !.startFrame = 0, !.stopFrame = 0] : t \in traces}

(* An OpenGL call between the nth command and the next, in both streams or *)
(* in the GPU's alone, the CPU's being cut off before it.                  *)
WithCall(t, n) ==
  [t EXCEPT !.cmds = SubSeq(@, 1, n) \o <<Cmd("OPENGL_CALL")>>
                       \o SubSeq(@, n + 1, Len(@)),
            !.len = [d \in Dev |-> @[d] + 1]]

Called == {WithCall(t, n) : t \in Complete, n \in {0, 3, 7, 11}}
CalledOnGpu == {[t EXCEPT !.len["CPU"] = 3] : t \in {WithCall(t, 3) : t \in Complete}}

Shuffled(traces) == {[t EXCEPT !.policy = "r"] : t \in traces}

(* A scene three tiles wide and two high for the z order: tiles in no      *)
(* order, one coordinate without one, and  the draw job after them.        *)
ZTable(x, y) ==
  << Info("GPU", "TILE_JOB", x, y, <<"r1">>),
     Info("GPU", "TILE_JOB", 0, 1, <<"r2">>),
     Info("GPU", "TILE_JOB", 1, 0, <<>>),
     Info("GPU", "TILE_JOB", 2, 0, <<"r1">>),
     Info("GPU", "TILE_JOB", 0, 0, <<"r1", "r2">>),
     Info("GPU", "DRAW_JOB", 0, 0, <<"r2">>),
     Info("CPU", "MISC_JOB", 0, 0, <<"r2">>),
     Info("CPU", "MISC_JOB", 0, 0, <<>>) >>

ZRecording(x, y, jobs, zWidth) ==
  LET cmds == << Cmd("NEW_SCENE"), Rsc("NEW_RESOURCE", "r1"), Rsc("NEW_RESOURCE", "r2"),
                 Cmd("NEW_FRAME"), Cmd("NEW_SCENE") >>
  IN [cmds |-> cmds, len |-> [d \in Dev |-> Len(cmds)], frames |-> 1,
      scenes |-> << [frame |-> 0, id |-> 0, width |-> 3, height |-> 2,
                     jobs |-> jobs] >>,
      jobs |-> ZTable(x, y), policy |-> "z", zWidth |-> zWidth,
      startFrame |-> 0, stopFrame |-> 7, stopTime |-> FALSE]

(* Squares of one, two, four and as many tiles as the scene needs; squares *)
(* of three, which halve to one; and two tiles at one coordinate.          *)
ZCurves(jobs) == {ZRecording(2, 1, jobs, w) : w \in {0, 1, 2, 4}}
ZMisses(jobs) == {ZRecording(2, 1, jobs, 3)} \cup {ZRecording(0, 1, jobs, w) : w \in {0, 2}}

AllPolicies ==
  AllTraces \cup ZCurves(<<1, 2, 3, 7>>)
  \cup Short(Shuffled(Complete)) \cup Timed(Short(Shuffled(AllTraces)))
  \cup Called \cup CalledOnGpu
  \cup Timed(ZCurves(<<1, 2, 3, 4, 5, 7>>)) \cup ZMisses(<<1, 2, 3, 4, 5, 6, 7>>)
=============================================================================
