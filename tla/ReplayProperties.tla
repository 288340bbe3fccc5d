-------------------------- MODULE ReplayProperties --------------------------
(***************************************************************************)
(* What the replay loop has to get right, and what its documentation says  *)
(* of it.                                                                  *)
(***************************************************************************)
EXTENDS Replay

Scene(k) == trace.scenes[k]

(* The position in scenes.pb.gz of the scene that holds a job.             *)
SceneOf(j) == CHOOSE k \in DOMAIN trace.scenes : j \in ToSet(Scene(k).jobs)

Served(j) == Cardinality({i \in DOMAIN sent : sent[i].job = j})

AllServed(k) == \A j \in ToSet(Scene(k).jobs) : Served(j) = Len(trace.jobs[j].pkts)

-----------------------------------------------------------------------------
(* The barrier ids of CPU::tick and GPU::tick implement the barrier: the   *)
(* GPU announces itself with set_gpu_ready and waits, the CPU announces    *)
(* and passes in one step.                                                 *)
GpuPassed == IF state["GPU"] = "W" THEN barrier["GPU"] - 1 ELSE barrier["GPU"]

AbstractBarrier ==
  INSTANCE Barrier
  WITH Party   <- Dev,
       arrived <- ready,
       passed  <- [d \in Dev |-> IF d = "CPU" THEN barrier["CPU"] ELSE GpuPassed]

ImplementsBarrier == AbstractBarrier!Spec

(* The CPU is never ahead of the GPU and at most one barrier behind it,    *)
(* and the ids in the scheduler are the devices' own.                      *)
Lockstep ==
  /\ ready = barrier
  /\ barrier["CPU"] \in {barrier["GPU"], barrier["GPU"] - 1}
  /\ state["GPU"] # "W" => barrier["CPU"] = barrier["GPU"]

(* The two devices meet at the same recorded command: when the CPU passes  *)
(* a barrier the GPU has read exactly as many records and waits there.     *)
(* The barrier ids alone do not say so; it rests on both streams holding   *)
(* the same commands.                                                      *)
MeetAtSameCommand ==
  [][barrier'["CPU"] # barrier["CPU"] =>
       pos["CPU"] = pos["GPU"] /\ state["GPU"] = "W"]_vars

(* The squares of the z order can be halved down to one tile.              *)
Halving == \E i \in 0 .. trace.zWidth : trace.zWidth \in {0, Pow2[i]}

(* The z order can take every scene: its squares have a side that is a     *)
(* power of two, and no two tiles of a scene have the same coordinates.    *)
ZWalkable ==
  /\ Halving
  /\ \A k \in DOMAIN trace.scenes :
       LET tiles == {j \in JobsFor(Scene(k), "GPU") : TypeRank(j) = 1} IN
       \A i, j \in tiles : Coord(i) = Coord(j) => i = j

(* No assert of the scheduler, the resource tracker or a job's destructor  *)
(* fires, and start_new_scene is only called when the scene exists.  The z *)
(* order finds every tile of every scene it can take.  There are two       *)
(* exceptions: the stop timer may stop the loop in the middle of a job,    *)
(* whose destructor then meets packets (job.cc:55), and neither device     *)
(* knows the command of an OpenGL call (cpu.cc:256, gpu.cc:203).           *)
Walkable == trace.policy = "z" => ZWalkable

StoppedInAJob ==
  trace.stopTime /\ ~running /\ \E c \in Cores : pkts[c] # <<>>

ReadOpenGlCall ==
  \E d \in Dev : pos[d] > 0 /\ trace.cmds[pos[d]].cmd = "OPENGL_CALL"

NoAbort == Walkable /\ pc = "abort" => StoppedInAJob \/ ReadOpenGlCall

(* The place of a tile in the z order: the square it lies in, row by row,  *)
(* then the bits of its coordinates interleaved, x above y.                *)
Morton[p \in Nat \X Nat] ==
  IF p = <<0, 0>> THEN 0
  ELSE 4 * Morton[<<p[1] \div 2, p[2] \div 2>>] + 2 * (p[1] % 2) + (p[2] % 2)

ZKey(s, j) ==
  LET x == trace.jobs[j].x
      y == trace.jobs[j].y
      w == IF trace.zWidth > 0 THEN trace.zWidth ELSE Side(s.width, s.height)
  IN <<y \div w, x \div w, Morton[<<x % w, y % w>>]>>

Before(a, b) ==
  \E i \in 1 .. 3 : a[i] < b[i] /\ \A k \in 1 .. i - 1 : a[k] = b[k]

(* What the z order is for: the tiles of a scene wait in their queue in    *)
(* the order of the z curve in each square, so that neighbours run         *)
(* together.  Squares that do not halve down to a tile have no such curve. *)
TilesFollowTheCurve ==
  trace.policy = "z" /\ Halving /\ nextScene > 0 =>
    \A i, k \in DOMAIN queue["GPU"] :
      LET a == queue["GPU"][i]
          b == queue["GPU"][k]
      IN i < k /\ TypeRank(a) = 1 /\ TypeRank(b) = 1 =>
           Before(ZKey(Scene(nextScene), a), ZKey(Scene(nextScene), b))

(* A job runs once, whole, on one core and in the order of its trace file; *)
(* a core takes another job only when it sent the last packet of the one   *)
(* before (Core::tick, "executed non pre-emptively").                      *)
JobsRunWhole ==
  /\ \A i \in DOMAIN sent :
       /\ sent[i].nth = Cardinality({h \in 1 .. i : sent[h].job = sent[i].job})
       /\ sent[i].rsc = trace.jobs[sent[i].job].pkts[sent[i].nth]
       /\ \A h \in 1 .. i : sent[h].job = sent[i].job => sent[h].core = sent[i].core
  /\ \A i, k \in DOMAIN sent :
       (/\ i < k /\ sent[i].core = sent[k].core /\ sent[i].job # sent[k].job
        /\ \A h \in i + 1 .. k - 1 : sent[h].core # sent[i].core) =>
       sent[i].nth = Len(trace.jobs[sent[i].job].pkts)

(* The analyzers see every packet under the frame and scene number of the  *)
(* scene that recorded it, although jobs run only once the devices are on  *)
(* their way to the next scene or frame.                                   *)
RightFrameAndScene ==
  \A i \in DOMAIN sent :
     LET s == Scene(SceneOf(sent[i].job)) IN
     sent[i].frame = s.frame /\ sent[i].scene = s.id

(* A new scene is loaded, statistics are dumped and a frame is closed only *)
(* when every job of every scene loaded so far has been replayed.          *)
BoundariesAreComplete ==
  [][nextScene' # nextScene \/ dumps' # dumps \/ frames' # frames =>
       \A k \in 1 .. nextScene : AllServed(k)]_vars

(* Every packet is in exactly one statistics record, or still counted.     *)
CountedOnce ==
  FlattenSeq([i \in DOMAIN dumps |-> dumps[i].pkts]) \o counted = sent

(* A packet names a resource the tracker can still find by id, even when   *)
(* the resource was destroyed in the middle of its scene, before the jobs  *)
(* of the scene run (IntelCacheModel::bypass asserts it).                  *)
ResourcesAreFound ==
  [][sent' # sent => sent'[Len(sent')].rsc \in known]_vars

(* Both stream files hold every recorded command.                          *)
StreamsWhole == \A d \in Dev : trace.len[d] = Len(trace.cmds)

(* Every replay ends, wherever the recording was cut off, as long as both  *)
(* stream files were written as far as the frame and scene records, and    *)
(* the schedular can take the scenes; an abort is one NoAbort allows.      *)
Terminates == StreamsWhole /\ Walkable => <>(pc \in {"exit", "abort"})

(* No device meets an OpenGL call: none is in the streams of a recorder    *)
(* that stops at the first one (trace.cc:153).                             *)
NoOpenGlCalls == \A p \in ToSet(trace.cmds) : p.cmd # "OPENGL_CALL"

(* A replay that starts running, with no stop timer, both streams whole    *)
(* and no OpenGL call in them, covers every frame of the recording, or the *)
(* first stop-frame + 1 of them, and all the jobs of those frames.         *)
FramesToReplay ==
  IF trace.frames <= trace.stopFrame THEN trace.frames ELSE trace.stopFrame + 1

ReplaysAllFrames ==
  running /\ StreamsWhole /\ Walkable /\ ~ trace.stopTime /\ NoOpenGlCalls =>
  <>(/\ Len(frames) = FramesToReplay
     /\ \A k \in DOMAIN trace.scenes :
          Scene(k).frame < FramesToReplay => AllServed(k))

-----------------------------------------------------------------------------
(* cpu.cc 152: "No more packets, exiting...".                              *)
ExitsAtEndOfStream ==
  (pc = "cpu" /\ state["CPU"] = "PROCESS_CMD" /\ ~HasRecord("CPU")) ~> (pc = "exit")
=============================================================================
