------------------------------- MODULE Replay -------------------------------
(***************************************************************************)
(* The replay loop of the analyzer: GlTraceSimAnalyzer::run ticks the CPU  *)
(* and then the GPU until the system is stopped.  Each device walks its    *)
(* own command stream; at every synchronising command the two meet at a    *)
(* barrier kept in the scheduler (system_barrier_id).  Scene and frame     *)
(* commands first drain the job queues through the cores, so the jobs of a *)
(* scene run while the devices are on their way to the barrier that        *)
(* follows it.                                                             *)
(*                                                                         *)
(* One step is one tick of a device, or of one core when the tick walks    *)
(* the GPU cores.  A stop timer thread may stop the system between any two *)
(* steps.                                                                  *)
(***************************************************************************)
EXTENDS ZOrder

CONSTANTS
  Traces,       (* the recordings that may be replayed, with their schedular *)
  Jobs,         (* job identifiers                                           *)
  Resources,    (* resource identifiers                                      *)
  NumGpuCores,  (* num-gpu-cores of config.json                              *)
  Running0,     (* values the uninitialised flag System::running may hold    *)
  NoJob         (* a core without a job                                      *)

(***************************************************************************)
(* A recording: what the generator left on disk.                           *)
(*   cmds       the packets CmdTraceGenerator was given, in order          *)
(*   len        how many records each device's stream file holds           *)
(*   frames     number of records in frames.pb.gz                          *)
(*   scenes     the records of scenes.pb.gz                                *)
(*   jobs       the records of jobs.pb.gz with each job's trace file, as   *)
(*              the sequence of resources its packets touch                *)
(* and what the config.json of its replay asks for:                        *)
(*   policy     the schedular type: "fcfs", "r" (random) or "z"            *)
(*   zWidth     z-width, 0 for none                                        *)
(*   startFrame start-frame: frames to fast forward                        *)
(*   stopFrame  stop-frame: frames after which the replay stops            *)
(*   stopTime   TRUE iff a stop-time is configured                         *)
(***************************************************************************)
Dev == {"CPU", "GPU"}

Commands == {"NEW_FRAME", "NEW_SCENE", "END_SCENE", "NEW_JOB", "END_JOB",
             "NEW_RESOURCE", "END_RESOURCE", "MV_TO_CPU", "MV_TO_GPU", "SYNC",
             "OPENGL_CALL"}

JobInfo == [dev : Dev, type : {"DRAW_JOB", "TILE_JOB", "MISC_JOB"},
            x : Nat, y : Nat, pkts : Seq(Resources)]

SceneInfo == [frame : Nat, id : Nat, width : Nat, height : Nat, jobs : Seq(Jobs)]

Packet == [cmd : Commands, rsc : Resources]

Recording == [cmds   : Seq(Packet),
              len    : [Dev -> Nat],
              frames : Nat,
              scenes : Seq(SceneInfo),
              jobs   : [Jobs -> JobInfo],
              policy : {"fcfs", "r", "z"},
              zWidth : Nat,
              startFrame : Nat,
              stopFrame  : Nat,
              stopTime   : BOOLEAN]

(* Several checks are about what happens after each device ran out of      *)
(* records, so a stream may be any prefix of the recorded commands.        *)
ASSUME TracesAssumption ==
  /\ Traces \subseteq Recording
  /\ \A t \in Traces : \A d \in Dev : t.len[d] <= Len(t.cmds)

(* The commands of a kind among the first n of a recording.                *)
Places(t, n, cmd) == {i \in 1 .. n : t.cmds[i].cmd = cmd}
Seen(t, n, cmd) == Cardinality(Places(t, n, cmd))

(* The scenes of the current frame that ended among the first n commands.  *)
EndedScenes(t, n) ==
  {i \in Places(t, n, "END_SCENE") : \A h \in i .. n : t.cmds[h].cmd # "NEW_FRAME"}

(* A job is numbered, and listed in the current scene, once.               *)
JobsAreListedOnce(t) ==
  \A k, m \in DOMAIN t.scenes :
    \A i \in DOMAIN t.scenes[k].jobs, l \in DOMAIN t.scenes[m].jobs :
      t.scenes[k].jobs[i] = t.scenes[m].jobs[l] => k = m /\ i = l

(* The kth NEW_SCENE opens scene record k, whose frame and id are those of *)
(* the moment; the scenes of every frame that has a record are recorded.   *)
ScenesMatchCommands(t) ==
  \A i \in Places(t, Len(t.cmds), "NEW_SCENE") :
    LET k == Seen(t, i, "NEW_SCENE") IN
    /\ Seen(t, i, "NEW_FRAME") < t.frames => k <= Len(t.scenes)
    /\ k <= Len(t.scenes) =>
         /\ t.scenes[k].frame = Seen(t, i, "NEW_FRAME")
         /\ t.scenes[k].id = Cardinality(EndedScenes(t, i))

(* A resource is destroyed once after it was created.                      *)
DestroyedOnce(t) ==
  \A i \in Places(t, Len(t.cmds), "END_RESOURCE") :
    \E h \in Places(t, i - 1, "NEW_RESOURCE") :
      /\ t.cmds[h].rsc = t.cmds[i].rsc
      /\ \A g \in Places(t, i - 1, "END_RESOURCE") : t.cmds[g].rsc = t.cmds[i].rsc => g < h

(* What the jobs of a scene touch was created before the scene was over,   *)
(* that is before the next scene or frame command.                         *)
CreatedBeforeUse(t) ==
  \A k \in DOMAIN t.scenes : \A j \in ToSet(t.scenes[k].jobs) :
    \A r \in ToSet(t.jobs[j].pkts) : \A i \in 1 .. Len(t.cmds) :
      t.cmds[i].cmd \in {"NEW_SCENE", "END_SCENE", "NEW_FRAME"}
        /\ k <= Seen(t, i - 1, "NEW_SCENE") =>
      \E h \in Places(t, i - 1, "NEW_RESOURCE") : t.cmds[h].rsc = r

(* A scene is as wide and as high as its tiles need: inc_width and         *)
(* inc_height of handle_gpu_tile_begin, which hold for fewer than 2^16     *)
(* tiles a side.                                                           *)
TilesInScene(t) ==
  \A k \in DOMAIN t.scenes : \A j \in ToSet(t.scenes[k].jobs) :
    t.jobs[j].type = "TILE_JOB" =>
      t.jobs[j].x < t.scenes[k].width /\ t.jobs[j].y < t.scenes[k].height

(* What the handlers of the generator write together belongs together: the *)
(* commands, the scene and job records and the job traces.                 *)
ASSUME RecordingsAssumption ==
  \A t \in Traces : /\ JobsAreListedOnce(t) /\ ScenesMatchCommands(t)
                    /\ DestroyedOnce(t) /\ CreatedBeforeUse(t) /\ TilesInScene(t)

ASSUME ConfigAssumption ==
  /\ NumGpuCores \in Nat
  /\ Running0 \subseteq BOOLEAN
  /\ NoJob \notin Jobs

Cores == 0 .. NumGpuCores        \* 0 is the CPU's core

DevOf(c) == IF c = 0 THEN "CPU" ELSE "GPU"

-----------------------------------------------------------------------------
(* CmdTraceGenerator::process writes every command to both files; a move   *)
(* provides on the side it leaves and requires on the side it goes to.  An *)
(* OPENGL_CALL is written only when the assertion of trace.cc:153 is       *)
(* compiled out; a recorder built with it stops there, and len ends.       *)
StreamCmd(d, cmd) ==
  CASE cmd = "MV_TO_CPU" -> IF d = "GPU" THEN "SyncProvides" ELSE "SyncRequires"
    [] cmd = "MV_TO_GPU" -> IF d = "CPU" THEN "SyncProvides" ELSE "SyncRequires"
    [] OTHER -> cmd

(* Mutant of SyncOf: the CPU files END_SCENE under NEW_SCENE as the GPU does. *)
SyncOfOneScene(d, cmd) ==
  CASE cmd \in {"NEW_SCENE", "END_SCENE"} -> "NEW_SCENE_SYNC"
    [] cmd = "NEW_FRAME" -> "FRAME_SYNC"
    [] cmd \in {"NEW_RESOURCE", "END_RESOURCE"} -> "RSC_SYNC"
    [] cmd \in {"SyncProvides", "SyncRequires", "SYNC"} -> "SYNC"
    [] OTHER -> "NONE"

(* The synchronisation a command starts: the suffix of the D_ and W_       *)
(* states.  The GPU files END_SCENE under NEW_SCENE (gpu.cc 166-172).      *)
SyncOf(d, cmd) ==
  CASE cmd = "NEW_SCENE" -> "NEW_SCENE_SYNC"
    [] cmd = "END_SCENE" -> IF d = "CPU" THEN "END_SCENE_SYNC" ELSE "NEW_SCENE_SYNC"
    [] cmd = "NEW_FRAME" -> "FRAME_SYNC"
    [] cmd \in {"NEW_RESOURCE", "END_RESOURCE"} -> "RSC_SYNC"
    [] cmd \in {"SyncProvides", "SyncRequires", "SYNC"} -> "SYNC"
    [] OTHER -> "NONE"           \* NEW_JOB, END_JOB and OPENGL_CALL

(* Mutant of Draining: the cores are not drained before a frame ends.      *)
DrainingScenes == {"NEW_SCENE_SYNC", "END_SCENE_SYNC"}

(* The synchronisations whose D_ state drains the cores first.             *)
Draining == {"NEW_SCENE_SYNC", "END_SCENE_SYNC", "FRAME_SYNC"}

SyncKinds == Draining \cup {"RSC_SYNC", "SYNC", "NONE"}

-----------------------------------------------------------------------------
VARIABLES
  trace,      \* the recording being replayed
  running,    \* System::running
  pc,         \* where run() is
  next,       \* the next core GPU::tick_cores ticks
  state,      \* per device: PROCESS_CMD, or D / W for the D_ and W_ states
  sync,       \* per device: which D_ or W_ state
  pos,        \* per device: records read from its stream
  barrier,    \* per device: CPU::barrier_id and GPU::barrier_id
  ready,      \* Schedular::system_barrier_id
  queue,      \* per device: cpu_queue and gpu_queue
  nextScene,  \* Schedular::next_scene_id
  nextFrame,  \* Schedular::next_frame_id
  job,        \* per core: Core::job
  pkts,       \* per core: the packets left in that job
  coreState,  \* per core: Core::state
  frameNbr,   \* System::frame_nbr
  sceneNbr,   \* System::scene_nbr
  start,      \* sim_ctrl.start
  stop,       \* sim_ctrl.stop
  alive,      \* ResourceTracker::alive_addr_map, by resource
  known,      \* ResourceTracker::id_map, by resource
  sent,       \* history: the packets given to the analyzers
  counted,    \* the packets the analyzers' statistics hold
  dumps,      \* stats.pb.gz of the analyzers
  frames      \* stats.pb.gz of the analyzer: one record per frame

loopVars  == <<trace, running, pc, next>>
devVars   == <<state, sync, pos, barrier, ready>>
schedVars == <<queue, nextScene, nextFrame>>
coreVars  == <<job, pkts, coreState, sent, counted>>
sysVars   == <<frameNbr, sceneNbr, start, stop>>
rscVars   == <<alive, known>>
outVars   == <<dumps, frames>>
vars == <<loopVars, devVars, schedVars, coreVars, sysVars, rscVars, outVars>>

-----------------------------------------------------------------------------
(* The constructor: everything idle, then handle_new_frame for frame 0.    *)
Init ==
  /\ trace \in Traces
  /\ running \in IF trace.frames = 0 THEN {FALSE} ELSE Running0
  /\ pc = "loop"
  /\ next = 1
  /\ state = [d \in Dev |-> "PROCESS_CMD"]
  /\ sync = [d \in Dev |-> "NONE"]
  /\ pos = [d \in Dev |-> 0]
  /\ barrier = [d \in Dev |-> 0]
  /\ ready = [d \in Dev |-> 0]
  /\ queue = [d \in Dev |-> <<>>]
  /\ nextScene = 0
  /\ nextFrame = IF trace.frames = 0 THEN 0 ELSE 1
  /\ job = [c \in Cores |-> NoJob]
  /\ pkts = [c \in Cores |-> <<>>]
  /\ coreState = [c \in Cores |-> "RUNNING"]
  /\ frameNbr = 0 /\ sceneNbr = 0
  /\ start = trace.startFrame /\ stop = trace.stopFrame
  /\ alive = {} /\ known = {}
  /\ sent = <<>> /\ counted = <<>>
  /\ dumps = <<>> /\ frames = <<>>

-----------------------------------------------------------------------------
(* The order start_new_scene puts the jobs of a scene in.  CPU jobs keep   *)
(* the order of the scene.  FCFS: draw jobs, then tiles by y * width + x   *)
(* (ties as std::sort leaves them), then misc jobs.  Z: tiles as the walk  *)
(* over the scene meets them, one per coordinate.  Random: any shuffle.    *)
JobsFor(s, d) == {j \in ToSet(s.jobs) : trace.jobs[j].dev = d}

Index(s, j) == CHOOSE i \in DOMAIN s.jobs : s.jobs[i] = j
TypeRank(j) == [DRAW_JOB |-> 0, TILE_JOB |-> 1, MISC_JOB |-> 2][trace.jobs[j].type]
Coord(j) == <<trace.jobs[j].x, trace.jobs[j].y>>

ZWalk(s) == IF trace.policy = "z" THEN Walk(s.width, s.height, trace.zWidth) ELSE <<>>

TileKey(s, walk, j) ==
  IF trace.policy = "z" THEN CHOOSE i \in DOMAIN walk : walk[i] = Coord(j)
  ELSE trace.jobs[j].y * s.width + trace.jobs[j].x

TypePrecedes(s, walk, j, k) ==
  \/ TypeRank(j) < TypeRank(k)
  \/ TypeRank(j) = 1 /\ TypeRank(k) = 1 /\ TileKey(s, walk, j) <= TileKey(s, walk, k)
  \/ TypeRank(j) = TypeRank(k) /\ TypeRank(j) # 1 /\ Index(s, j) < Index(s, k)

Precedes(s, walk, d, j, k) ==
  CASE d = "CPU"          -> Index(s, j) < Index(s, k)
    [] trace.policy = "r" -> TRUE
    [] OTHER              -> TypePrecedes(s, walk, j, k)

(* Z: a tile the walk does not get to, or with a later job of the scene at *)
(* its coordinate in pending_tile_jobs, is put in no queue.                *)
Missed(s, walk, j) ==
  /\ trace.policy = "z" /\ trace.jobs[j].dev = "GPU" /\ TypeRank(j) = 1
  /\ \/ Coord(j) \notin ToSet(walk)
     \/ \E k \in JobsFor(s, "GPU") :
          TypeRank(k) = 1 /\ Coord(k) = Coord(j) /\ Index(s, j) < Index(s, k)

Arranged(s, walk, d) ==
  {q \in SetToSeqs({j \in JobsFor(s, d) : ~Missed(s, walk, j)}) :
     \A i, k \in DOMAIN q : i < k => Precedes(s, walk, d, q[i], q[k])}

Orders(s, d) == UNION {Arranged(s, walk, d) : walk \in {ZWalk(s)}}

(* ZSchedular::start_new_scene, "Check that everything is scheduled".      *)
EverythingScheduled(s) ==
  \A walk \in {ZWalk(s)} : \A j \in ToSet(s.jobs) : ~Missed(s, walk, j)

QueuesEmpty == \A d \in Dev : queue[d] = <<>>

(* start_new_frame: ZSchedular asserts it of its GPU queues only.          *)
QueuesEmptyAtFrame ==
  queue["GPU"] = <<>> /\ (trace.policy # "z" => queue["CPU"] = <<>>)

(* start_new_scene of the three schedulars.  The asserts and the use of a  *)
(* scene that get_scene did not find end the program.                      *)
StartNewScene ==
  IF /\ QueuesEmpty /\ nextScene < Len(trace.scenes)
     /\ EverythingScheduled(trace.scenes[nextScene + 1])
  THEN LET s == trace.scenes[nextScene + 1] IN
       /\ \E cpu \in Orders(s, "CPU"), gpu \in Orders(s, "GPU") :
            queue' = [d \in Dev |-> IF d = "CPU" THEN cpu ELSE gpu]
       /\ nextScene' = nextScene + 1
       /\ pc' = "gpu"
  ELSE /\ pc' = "abort"
       /\ UNCHANGED <<queue, nextScene>>

-----------------------------------------------------------------------------
(* Core::tick.  A core whose job has no packets left asks the scheduler    *)
(* for another one, loads its trace and, if that is not empty, already     *)
(* sends the first packet in the same tick.                                *)
NeedsJobEager(c) == pkts[c] = <<>> \/ queue[DevOf(c)] # <<>>  \* mutant: pre-empts
NeedsJob(c) == job[c] = NoJob \/ pkts[c] = <<>>

Send(c, j, ps) ==
  LET p == [core |-> c, job |-> j, rsc |-> Head(ps), nth |->
              Len(trace.jobs[j].pkts) - Len(ps) + 1,
            frame |-> frameNbr, scene |-> sceneNbr]
  IN /\ sent' = Append(sent, p)
     /\ counted' = Append(counted, p)
     /\ pkts' = [pkts EXCEPT ![c] = Tail(ps)]

CoreIdle(c) ==
  /\ NeedsJob(c) /\ queue[DevOf(c)] = <<>>
  /\ job' = [job EXCEPT ![c] = NoJob]
  /\ coreState' = [coreState EXCEPT ![c] = "IDLE"]
  /\ UNCHANGED <<queue, pkts, sent, counted>>

CoreNewJob(c) ==
  LET d == DevOf(c)
      j == Head(queue[d])
      loaded == trace.jobs[j].pkts
  IN /\ NeedsJob(c) /\ queue[d] # <<>>
     /\ queue' = [queue EXCEPT ![d] = Tail(@)]
     /\ job' = [job EXCEPT ![c] = j]
     /\ coreState' = [coreState EXCEPT ![c] = "RUNNING"]
     /\ IF loaded = <<>>
        THEN pkts' = [pkts EXCEPT ![c] = <<>>] /\ UNCHANGED <<sent, counted>>
        ELSE Send(c, j, loaded)

CoreSend(c) ==
  /\ ~NeedsJob(c)
  /\ Send(c, job[c], pkts[c])
  /\ coreState' = [coreState EXCEPT ![c] = "RUNNING"]
  /\ UNCHANGED <<queue, job>>

CoreTick(c) == CoreIdle(c) \/ CoreNewJob(c) \/ CoreSend(c)

-----------------------------------------------------------------------------
(* The loop condition of run.  Leaving the loop destroys the jobs, whose   *)
(* destructor asserts that no packet is left.                              *)
LoopTest ==
  /\ pc = "loop"
  /\ pc' = CASE running -> "cpu"
             [] ~running /\ (\A c \in Cores : pkts[c] = <<>>) -> "exit"
             [] OTHER -> "abort"
  /\ UNCHANGED <<trace, running, next, devVars, schedVars, coreVars, sysVars,
                 rscVars, outVars>>

(* Reading the next record of a stream.                                    *)
HasAnotherRecord(d) == pos[d] + 1 < trace.len[d]    \* mutant: drops the last one
HasRecord(d) == pos[d] < trace.len[d]
NextCmd(d) == StreamCmd(d, trace.cmds[pos[d] + 1].cmd)
NextRsc(d) == trace.cmds[pos[d] + 1].rsc

Read(d) ==
  /\ state[d] = "PROCESS_CMD" /\ HasRecord(d)
  /\ pos' = [pos EXCEPT ![d] = @ + 1]
  /\ LET k == SyncOf(d, NextCmd(d)) IN
       IF k = "NONE" THEN UNCHANGED <<state, sync>>
       ELSE /\ state' = [state EXCEPT ![d] = "D"]
            /\ sync' = [sync EXCEPT ![d] = k]
  /\ UNCHANGED <<barrier, ready>>

(* The default case of both switches is assert(0), and OPENGL_CALL has no  *)
(* case of its own.                                                        *)
NoCase(d) == NextCmd(d) = "OPENGL_CALL"

(* Mutant of CpuRead: destroying a resource also forgets its id.           *)
CpuReadForgets ==
  /\ pc = "cpu"
  /\ Read("CPU")
  /\ pc' = IF NoCase("CPU") THEN "abort" ELSE "gpu"
  /\ LET r == NextRsc("CPU") IN
     CASE NextCmd("CPU") = "NEW_RESOURCE" ->
            alive' = alive \cup {r} /\ known' = known \cup {r}
       [] NextCmd("CPU") = "END_RESOURCE" ->
            alive' = alive \ {r} /\ known' = known \ {r}
       [] OTHER -> UNCHANGED rscVars
  /\ UNCHANGED <<trace, running, next, schedVars, coreVars, sysVars, outVars>>

(* CPU::tick, PROCESS_CMD.  Creating or destroying a resource happens as   *)
(* the command is read; destroying an unknown or dead one is an assert.    *)
CpuRead ==
  /\ pc = "cpu"
  /\ Read("CPU")
  /\ LET r == NextRsc("CPU") IN
     CASE NextCmd("CPU") = "NEW_RESOURCE" ->
            /\ pc' = "gpu"
            /\ alive' = alive \cup {r} /\ known' = known \cup {r}
       [] NextCmd("CPU") = "END_RESOURCE" ->
            /\ pc' = IF r \in known /\ r \in alive THEN "gpu" ELSE "abort"
            /\ alive' = alive \ {r}
            /\ UNCHANGED known
       [] OTHER -> /\ pc' = IF NoCase("CPU") THEN "abort" ELSE "gpu"
                   /\ UNCHANGED rscVars
  /\ UNCHANGED <<trace, running, next, schedVars, coreVars, sysVars, outVars>>

(* Nothing left to read: the tick reports it and returns.                  *)
CpuEof ==
  /\ pc = "cpu"
  /\ state["CPU"] = "PROCESS_CMD" /\ ~HasRecord("CPU")
  /\ pc' = "gpu"
  /\ UNCHANGED <<trace, running, next, devVars, schedVars, coreVars, sysVars,
                 rscVars, outVars>>

(* D_SYNC and D_RSC_SYNC.                                                  *)
CpuArrive ==
  /\ pc = "cpu"
  /\ state["CPU"] = "D" /\ sync["CPU"] \notin Draining
  /\ state' = [state EXCEPT !["CPU"] = "W"]
  /\ pc' = "gpu"
  /\ UNCHANGED <<trace, running, next, sync, pos, barrier, ready, schedVars,
                 coreVars, sysVars, rscVars, outVars>>

(* D_NEW_SCENE_SYNC, D_END_SCENE_SYNC and D_FRAME_SYNC: tick the CPU core, *)
(* and arrive at the barrier once it is idle.                              *)
CpuDrain ==
  /\ pc = "cpu"
  /\ state["CPU"] = "D" /\ sync["CPU"] \in Draining
  /\ CoreTick(0)
  /\ state' = [state EXCEPT !["CPU"] =
                 IF coreState'[0] = "RUNNING" THEN "D" ELSE "W"]
  /\ pc' = "gpu"
  /\ UNCHANGED <<trace, running, next, sync, pos, barrier, ready, nextScene,
                 nextFrame, sysVars, rscVars, outVars>>

GpuReadyOffByOne == ready["GPU"] >= barrier["CPU"]    \* mutant of GpuReady

(* W_ states: is_gpu_ready(barrier_id + 1).                                *)
GpuReady == ready["GPU"] >= barrier["CPU"] + 1

CpuWait ==
  /\ pc = "cpu"
  /\ state["CPU"] = "W" /\ ~GpuReady
  /\ pc' = "gpu"
  /\ UNCHANGED <<trace, running, next, devVars, schedVars, coreVars, sysVars,
                 rscVars, outVars>>

CpuPass ==
  /\ pc = "cpu"
  /\ state["CPU"] = "W" /\ GpuReady
  /\ barrier' = [barrier EXCEPT !["CPU"] = @ + 1]
  /\ ready' = [ready EXCEPT !["CPU"] = barrier["CPU"] + 1]
  /\ UNCHANGED <<trace, next, sync, pos, job, pkts, coreState, sent, rscVars>>

CpuPassSync ==
  /\ CpuPass
  /\ sync["CPU"] \in {"SYNC", "RSC_SYNC"}
  /\ state' = [state EXCEPT !["CPU"] = "PROCESS_CMD"]
  /\ pc' = "gpu"
  /\ UNCHANGED <<running, schedVars, counted, sysVars, outVars>>

(* handle_new_scene.                                                       *)
CpuPassNewScene ==
  /\ CpuPass
  /\ sync["CPU"] = "NEW_SCENE_SYNC"
  /\ StartNewScene
  /\ state' = [state EXCEPT !["CPU"] = "PROCESS_CMD"]
  /\ UNCHANGED <<running, nextFrame, counted, sysVars, outVars>>

(* Mutant of CpuPassEndScene: the statistics are dumped but not reset.     *)
CpuPassEndSceneNoReset ==
  /\ CpuPass
  /\ sync["CPU"] = "END_SCENE_SYNC"
  /\ dumps' = Append(dumps, [frame |-> frameNbr, scene |-> sceneNbr, pkts |-> counted])
  /\ sceneNbr' = sceneNbr + 1
  /\ state' = [state EXCEPT !["CPU"] = "PROCESS_CMD"]
  /\ pc' = "gpu"
  /\ UNCHANGED <<running, schedVars, counted, frameNbr, start, stop, frames>>

(* handle_end_scene: the analyzers dump and reset their statistics.        *)
CpuPassEndScene ==
  /\ CpuPass
  /\ sync["CPU"] = "END_SCENE_SYNC"
  /\ dumps' = Append(dumps, [frame |-> frameNbr, scene |-> sceneNbr, pkts |-> counted])
  /\ counted' = <<>>
  /\ sceneNbr' = sceneNbr + 1
  /\ state' = [state EXCEPT !["CPU"] = "PROCESS_CMD"]
  /\ pc' = "gpu"
  /\ UNCHANGED <<running, schedVars, frameNbr, start, stop, frames>>

(* Mutant of EndFrame: the scene number runs on.                           *)
EndFrameKeepsScene ==
  /\ frames' = Append(frames, [id |-> frameNbr, fast_forwarded |-> start > 0])
  /\ frameNbr' = frameNbr + 1
  /\ UNCHANGED sceneNbr
  /\ start' = IF start > 0 THEN start - 1 ELSE 0
  /\ stop' = IF stop = 0 THEN 0 ELSE stop - 1

(* handle_end_frame, and handle_new_frame unless the system was stopped.   *)
(* A stopped CPU stays in W_FRAME_SYNC.  start_new_frame asserts that the  *)
(* queues are empty.                                                       *)
EndFrame ==
  /\ frames' = Append(frames, [id |-> frameNbr, fast_forwarded |-> start > 0])
  /\ frameNbr' = frameNbr + 1
  /\ sceneNbr' = 0
  /\ start' = IF start > 0 THEN start - 1 ELSE 0
  /\ stop' = IF stop = 0 THEN 0 ELSE stop - 1

CpuPassFrame ==
  /\ CpuPass
  /\ sync["CPU"] = "FRAME_SYNC"
  /\ EndFrame
  /\ IF ~running \/ stop = 0
     THEN /\ running' = FALSE
          /\ pc' = "gpu"
          /\ UNCHANGED <<state, nextFrame>>
     ELSE /\ state' = [state EXCEPT !["CPU"] = "PROCESS_CMD"]
          /\ IF frameNbr + 1 < trace.frames
             THEN /\ nextFrame' = nextFrame + 1
                  /\ pc' = IF QueuesEmptyAtFrame /\ nextFrame = frameNbr + 1
                           THEN "gpu" ELSE "abort"
                  /\ UNCHANGED running
             ELSE /\ running' = FALSE
                  /\ pc' = "gpu"
                  /\ UNCHANGED nextFrame
  /\ UNCHANGED <<queue, nextScene, counted, dumps>>

CpuTick == \/ CpuRead \/ CpuEof \/ CpuArrive \/ CpuDrain \/ CpuWait
           \/ CpuPassSync \/ CpuPassNewScene \/ CpuPassEndScene \/ CpuPassFrame

-----------------------------------------------------------------------------
GpuRead ==
  /\ pc = "gpu"
  /\ Read("GPU")
  /\ pc' = IF NoCase("GPU") THEN "abort" ELSE "loop"
  /\ UNCHANGED <<trace, running, next, schedVars, coreVars, sysVars, rscVars,
                 outVars>>

GpuEof ==
  /\ pc = "gpu"
  /\ state["GPU"] = "PROCESS_CMD" /\ ~HasRecord("GPU")
  /\ pc' = "loop"
  /\ UNCHANGED <<trace, running, next, devVars, schedVars, coreVars, sysVars,
                 rscVars, outVars>>

(* set_gpu_ready(++barrier_id) and the move from a D_ to its W_ state.     *)
GpuArrive ==
  /\ barrier' = [barrier EXCEPT !["GPU"] = @ + 1]
  /\ ready' = [ready EXCEPT !["GPU"] = barrier["GPU"] + 1]
  /\ state' = [state EXCEPT !["GPU"] = "W"]
  /\ pc' = "loop"

GpuArriveSync ==
  /\ pc = "gpu"
  /\ state["GPU"] = "D" /\ sync["GPU"] \notin Draining
  /\ GpuArrive
  /\ UNCHANGED <<trace, running, next, sync, pos, schedVars, coreVars, sysVars,
                 rscVars, outVars>>

(* tick_cores: every GPU core once, in order.                              *)
GpuCore ==
  /\ pc = "gpu"
  /\ state["GPU"] = "D" /\ sync["GPU"] \in Draining
  /\ next <= NumGpuCores
  /\ CoreTick(next)
  /\ next' = next + 1
  /\ UNCHANGED <<trace, running, pc, devVars, nextScene, nextFrame, sysVars,
                 rscVars, outVars>>

GpuLastIdle == coreState[NumGpuCores] = "IDLE"    \* mutant: = in place of |=
GpuIdle == \A c \in 1 .. NumGpuCores : coreState[c] = "IDLE"

GpuCoresDone ==
  /\ pc = "gpu"
  /\ state["GPU"] = "D" /\ sync["GPU"] \in Draining
  /\ next > NumGpuCores
  /\ next' = 1
  /\ IF GpuIdle THEN GpuArrive
     ELSE pc' = "loop" /\ UNCHANGED <<state, barrier, ready>>
  /\ UNCHANGED <<trace, running, sync, pos, schedVars, coreVars, sysVars,
                 rscVars, outVars>>

(* Mutant of GpuPass: waits for the barrier after the one it is at.        *)
GpuPassOffByOne ==
  /\ pc = "gpu"
  /\ state["GPU"] = "W"
  /\ state' = IF ready["CPU"] < barrier["GPU"] + 1 THEN state
              ELSE [state EXCEPT !["GPU"] = "PROCESS_CMD"]
  /\ pc' = "loop"
  /\ UNCHANGED <<trace, running, next, sync, pos, barrier, ready, schedVars,
                 coreVars, sysVars, rscVars, outVars>>

(* W_ states: is_cpu_ready(barrier_id).                                    *)
GpuPass ==
  /\ pc = "gpu"
  /\ state["GPU"] = "W"
  /\ state' = IF ready["CPU"] < barrier["GPU"] THEN state
              ELSE [state EXCEPT !["GPU"] = "PROCESS_CMD"]
  /\ pc' = "loop"
  /\ UNCHANGED <<trace, running, next, sync, pos, barrier, ready, schedVars,
                 coreVars, sysVars, rscVars, outVars>>

GpuTick == \/ GpuRead \/ GpuEof \/ GpuArriveSync \/ GpuCore \/ GpuCoresDone
           \/ GpuPass

-----------------------------------------------------------------------------
(* stop_timer_loop, in its own thread.                                     *)
StopTimer ==
  /\ trace.stopTime /\ running
  /\ running' = FALSE
  /\ UNCHANGED <<trace, pc, next, devVars, schedVars, coreVars, sysVars,
                 rscVars, outVars>>

Finished == pc \in {"exit", "abort"} /\ UNCHANGED vars

Loop == LoopTest \/ CpuTick \/ GpuTick

Next == Loop \/ StopTimer \/ Finished

(* The main thread keeps running; nothing forces the timer.                *)
Fairness == WF_vars(Loop)

Spec == Init /\ [][Next]_vars
FairSpec == Spec /\ Fairness
-----------------------------------------------------------------------------
TypeOK ==
  /\ trace \in Traces
  /\ running \in BOOLEAN
  /\ pc \in {"loop", "cpu", "gpu", "exit", "abort"}
  /\ next \in 1 .. NumGpuCores + 1
  /\ state \in [Dev -> {"PROCESS_CMD", "D", "W"}]
  /\ sync \in [Dev -> SyncKinds]
  /\ pos \in [Dev -> Nat]
  /\ barrier \in [Dev -> Nat]
  /\ ready \in [Dev -> Nat]
  /\ queue \in [Dev -> Seq(Jobs)]
  /\ nextScene \in Nat /\ nextFrame \in Nat
  /\ job \in [Cores -> Jobs \cup {NoJob}]
  /\ pkts \in [Cores -> Seq(Resources)]
  /\ coreState \in [Cores -> {"RUNNING", "IDLE"}]
  /\ frameNbr \in Nat /\ sceneNbr \in Nat
  /\ start \in Nat /\ stop \in Nat
  /\ alive \subseteq Resources /\ known \subseteq Resources
=============================================================================
