---------------------------- MODULE ReplayProofs ----------------------------
(***************************************************************************)
(* Proofs about the replay loop, for every set of recordings and every     *)
(* configuration.                                                          *)
(***************************************************************************)
EXTENDS ReplayProperties, FiniteSetTheorems, TLAPS

(* A scene's jobs for one device are finitely many.                        *)
LEMMA JobsForFinite ==
  ASSUME NEW s \in SceneInfo, NEW d \in Dev, trace \in Traces
  PROVE  /\ JobsFor(s, d) \subseteq Jobs
         /\ IsFiniteSet(JobsFor(s, d))
<1>1. s.jobs \in Seq(Jobs)
  BY DEF SceneInfo
<1>2. ToSet(s.jobs) \subseteq Jobs
  BY <1>1 DEF ToSet
<1>3. IsFiniteSet(DOMAIN s.jobs)
  BY <1>1, FS_Interval, DOMAIN s.jobs = 1 .. Len(s.jobs), Len(s.jobs) \in Nat
<1>4. \E f : f \in Surjection(DOMAIN s.jobs, ToSet(s.jobs))
  <2> WITNESS s.jobs
  <2> QED BY <1>1 DEF Surjection, ToSet
<1>5. IsFiniteSet(ToSet(s.jobs))
  BY <1>3, <1>4, FS_Surjection
<1> QED
  BY <1>2, <1>5, FS_Subset DEF JobsFor

(* Every order of a scene's jobs is a sequence of jobs.                    *)
LEMMA OrdersType ==
  ASSUME NEW s \in SceneInfo, NEW d \in Dev, trace \in Traces
  PROVE  Orders(s, d) \subseteq Seq(Jobs)
<1> SUFFICES ASSUME NEW walk PROVE Arranged(s, walk, d) \subseteq Seq(Jobs)
  BY DEF Orders
<1> DEFINE queued == {j \in JobsFor(s, d) : ~Missed(s, walk, j)}
<1>1. queued \subseteq JobsFor(s, d)
  OBVIOUS
<1>2. queued \subseteq Jobs /\ IsFiniteSet(queued)
  BY <1>1, JobsForFinite, FS_Subset
<1> HIDE DEF queued
<1>3. Cardinality(queued) \in Nat
  BY <1>2, FS_CardinalityType
<1>4. SetToSeqs(queued) \subseteq Seq(Jobs)
  BY <1>2, <1>3 DEF SetToSeqs
<1> QED BY <1>4 DEF Arranged, queued

(***************************************************************************)
(* Type correctness, one lemma per part of the tick.                       *)
(***************************************************************************)
USE DEF Dev, Cores

LEMMA RecordingTypes ==
  ASSUME trace \in Traces
  PROVE  /\ trace \in Recording
         /\ \A d \in Dev : trace.len[d] \in Nat /\ trace.len[d] <= Len(trace.cmds)
BY TracesAssumption DEF Recording

(* One tick of a core keeps the types of what it touches.                  *)
LEMMA CoreTickTypes ==
  ASSUME TypeOK, NEW c \in Cores, CoreTick(c)
  PROVE  /\ queue' \in [Dev -> Seq(Jobs)]
         /\ job' \in [Cores -> Jobs \cup {NoJob}]
         /\ pkts' \in [Cores -> Seq(Resources)]
         /\ coreState' \in [Cores -> {"RUNNING", "IDLE"}]
<1>1. DevOf(c) \in Dev
  BY DEF DevOf
<1>2. CASE CoreIdle(c)
  BY <1>2 DEF CoreIdle, TypeOK
<1>3. CASE CoreNewJob(c)
  <2> DEFINE j == Head(queue[DevOf(c)])
             loaded == trace.jobs[j].pkts
  <2>1. queue[DevOf(c)] \in Seq(Jobs) /\ queue[DevOf(c)] # <<>>
    BY <1>1, <1>3 DEF CoreNewJob, TypeOK
  <2>2. j \in Jobs /\ Tail(queue[DevOf(c)]) \in Seq(Jobs)
    BY <2>1
  <2>3. loaded \in Seq(Resources)
    BY <2>2, RecordingTypes DEF Recording, JobInfo, TypeOK
  <2>4. \/ pkts' = [pkts EXCEPT ![c] = <<>>]
        \/ loaded # <<>> /\ pkts' = [pkts EXCEPT ![c] = Tail(loaded)]
    BY <1>3 DEF CoreNewJob, Send
  <2>5. pkts' \in [Cores -> Seq(Resources)]
    <3> HIDE DEF loaded
    <3>1. <<>> \in Seq(Resources) /\ (loaded # <<>> => Tail(loaded) \in Seq(Resources))
      BY <2>3
    <3> QED
      BY <2>4, <3>1 DEF TypeOK
  <2> QED
    BY <1>1, <1>3, <2>2, <2>5 DEF CoreNewJob, TypeOK
<1>4. CASE CoreSend(c)
  <2>1. pkts[c] \in Seq(Resources) /\ pkts[c] # <<>>
    BY <1>4 DEF CoreSend, NeedsJob, TypeOK
  <2>2. pkts' = [pkts EXCEPT ![c] = Tail(pkts[c])]
    BY <1>4 DEF CoreSend, Send
  <2> QED
    BY <1>4, <2>1, <2>2 DEF CoreSend, TypeOK
<1> QED
  BY <1>2, <1>3, <1>4 DEF CoreTick

LEMMA ReadTypes ==
  ASSUME TypeOK, NEW d \in Dev, Read(d)
  PROVE  /\ state' \in [Dev -> {"PROCESS_CMD", "D", "W"}]
         /\ sync' \in [Dev -> SyncKinds]
         /\ pos' \in [Dev -> Nat]
<1>1. SyncOf(d, NextCmd(d)) \in SyncKinds
  BY DEF SyncOf, SyncKinds, Draining
<1> QED
  BY <1>1 DEF Read, TypeOK

LEMMA NextRscType ==
  ASSUME TypeOK, NEW d \in Dev, HasRecord(d)
  PROVE  NextRsc(d) \in Resources
<1>2. trace.cmds \in Seq(Packet)
  BY RecordingTypes DEF TypeOK, Recording
<1>1. pos[d] + 1 \in 1 .. Len(trace.cmds)
  <2>1. Len(trace.cmds) \in Nat
    BY <1>2
  <2>2. pos[d] \in Nat /\ trace.len[d] \in Nat /\ trace.len[d] <= Len(trace.cmds)
    BY RecordingTypes DEF TypeOK
  <2> QED
    BY <2>1, <2>2 DEF HasRecord
<1>3. trace.cmds[pos[d] + 1] \in Packet
  BY <1>1, <1>2
<1> QED
  BY <1>3 DEF NextRsc, Packet

LEMMA StartNewSceneTypes ==
  ASSUME TypeOK, StartNewScene
  PROVE  /\ queue' \in [Dev -> Seq(Jobs)]
         /\ nextScene' \in Nat
         /\ pc' \in {"gpu", "abort"}
<1> DEFINE s == trace.scenes[nextScene + 1]
<1> DEFINE ok == /\ QueuesEmpty /\ nextScene < Len(trace.scenes)
                 /\ EverythingScheduled(s)
<1>1. CASE ok
  <2>1. trace.scenes \in Seq(SceneInfo)
    BY RecordingTypes DEF TypeOK, Recording
  <2>2. s \in SceneInfo
    BY <1>1, <2>1 DEF TypeOK
  <2>3. Orders(s, "CPU") \subseteq Seq(Jobs) /\ Orders(s, "GPU") \subseteq Seq(Jobs)
    BY <2>2, OrdersType DEF TypeOK
  <2> QED
    BY <1>1, <2>3 DEF StartNewScene, TypeOK
<1>2. CASE ~ok
  BY <1>2 DEF StartNewScene, TypeOK
<1> QED
  BY <1>1, <1>2

(* What CpuPass leaves alone or counts has the right type afterwards.      *)
LEMMA CpuPassTypes ==
  ASSUME TypeOK, CpuPass
  PROVE  /\ barrier' \in [Dev -> Nat] /\ ready' \in [Dev -> Nat]
         /\ trace' \in Traces /\ next' \in 1 .. NumGpuCores + 1
         /\ sync' \in [Dev -> SyncKinds] /\ pos' \in [Dev -> Nat]
         /\ job' \in [Cores -> Jobs \cup {NoJob}]
         /\ pkts' \in [Cores -> Seq(Resources)]
         /\ coreState' \in [Cores -> {"RUNNING", "IDLE"}]
         /\ alive' \subseteq Resources /\ known' \subseteq Resources
BY DEF CpuPass, TypeOK, rscVars

(* Type correctness: TypeOK is inductive by itself.                        *)
THEOREM TypeCorrect == Spec => []TypeOK
<1> USE DEF loopVars, devVars, schedVars, coreVars, sysVars, rscVars, outVars
<1>1. Init => TypeOK
  <2> SUFFICES ASSUME Init PROVE TypeOK
    OBVIOUS
  <2>1. running \in BOOLEAN
    BY ConfigAssumption DEF Init
  <2>2. next \in 1 .. NumGpuCores + 1
    BY ConfigAssumption DEF Init
  <2>6. start \in Nat /\ stop \in Nat
    BY RecordingTypes DEF Init, Recording
  <2>3. sync \in [Dev -> SyncKinds]
    BY DEF Init, SyncKinds
  <2>4. queue \in [Dev -> Seq(Jobs)] /\ pkts \in [Cores -> Seq(Resources)]
    BY DEF Init
  <2>5. trace \in Traces /\ nextScene \in Nat /\ nextFrame \in Nat
    BY DEF Init
  <2> QED
    BY <2>1, <2>2, <2>3, <2>4, <2>5, <2>6 DEF Init, TypeOK
<1>2. TypeOK /\ [Next]_vars => TypeOK'
  <2> SUFFICES ASSUME TypeOK, [Next]_vars PROVE TypeOK'
    OBVIOUS
  <2>1. CASE UNCHANGED vars
    BY <2>1 DEF TypeOK, vars
  <2>2. CASE LoopTest
    BY <2>2 DEF TypeOK, LoopTest
  <2>3. CASE CpuRead
    <3>1. NextRsc("CPU") \in Resources
      BY <2>3, NextRscType DEF CpuRead, Read
    <3>2. /\ pc' \in {"gpu", "abort"}
          /\ alive' \subseteq Resources /\ known' \subseteq Resources
      BY <2>3, <3>1 DEF CpuRead, TypeOK
    <3>3. barrier' = barrier /\ ready' = ready
      BY <2>3 DEF CpuRead, Read
    <3> QED
      BY <2>3, <3>2, <3>3, ReadTypes DEF TypeOK, CpuRead
  <2>4. CASE CpuEof
    BY <2>4 DEF TypeOK, CpuEof
  <2>5. CASE CpuArrive
    BY <2>5 DEF TypeOK, CpuArrive
  <2>6. CASE CpuDrain
    <3>1. 0 \in Cores
      BY ConfigAssumption
    <3> QED
      BY <2>6, <3>1, CoreTickTypes DEF TypeOK, CpuDrain
  <2>7. CASE CpuWait
    BY <2>7 DEF TypeOK, CpuWait
  <2>8. CASE CpuPassSync
    BY <2>8, CpuPassTypes DEF TypeOK, CpuPassSync
  <2>9. CASE CpuPassNewScene
    BY <2>9, CpuPassTypes, StartNewSceneTypes DEF TypeOK, CpuPassNewScene
  <2>10. CASE CpuPassEndScene
    <3>1. /\ running' \in BOOLEAN /\ pc' = "gpu"
          /\ state' \in [Dev -> {"PROCESS_CMD", "D", "W"}]
          /\ queue' \in [Dev -> Seq(Jobs)]
      BY <2>10 DEF TypeOK, CpuPassEndScene
    <3>2. /\ nextScene' \in Nat /\ nextFrame' \in Nat
          /\ frameNbr' \in Nat /\ sceneNbr' \in Nat
          /\ start' \in Nat /\ stop' \in Nat
      BY <2>10 DEF TypeOK, CpuPassEndScene
    <3> QED
      BY <2>10, <3>1, <3>2, CpuPassTypes DEF TypeOK, CpuPassEndScene
  <2>11. CASE CpuPassFrame
    <3>1. /\ frameNbr' \in Nat /\ sceneNbr' \in Nat
          /\ start' \in Nat /\ stop' \in Nat
      BY <2>11 DEF TypeOK, CpuPassFrame, EndFrame
    <3>2. CASE ~running \/ stop = 0
      <4>1. /\ running' = FALSE /\ pc' = "gpu"
            /\ state' = state /\ nextFrame' = nextFrame
        BY <2>11, <3>2 DEF CpuPassFrame
      <4> QED
        BY <2>11, <3>1, <4>1, CpuPassTypes DEF TypeOK, CpuPassFrame
    <3>3. CASE ~(~running \/ stop = 0)
      <4>1. state' = [state EXCEPT !["CPU"] = "PROCESS_CMD"]
        BY <2>11, <3>3 DEF CpuPassFrame
      <4>2. \/ /\ nextFrame' = nextFrame + 1 /\ pc' \in {"gpu", "abort"}
               /\ running' = running
            \/ running' = FALSE /\ pc' = "gpu" /\ nextFrame' = nextFrame
        BY <2>11, <3>3 DEF CpuPassFrame
      <4>3. running' \in BOOLEAN
        BY <4>2 DEF TypeOK
      <4>4. pc' \in {"gpu", "abort"} /\ nextFrame' \in Nat
        BY <4>2 DEF TypeOK
      <4> QED
        BY <2>11, <3>1, <4>1, <4>3, <4>4, CpuPassTypes DEF TypeOK, CpuPassFrame
    <3> QED
      BY <3>2, <3>3
  <2>12. CASE GpuRead
    <3>1. barrier' = barrier /\ ready' = ready
      BY <2>12 DEF GpuRead, Read
    <3> QED
      BY <2>12, <3>1, ReadTypes DEF TypeOK, GpuRead
  <2>13. CASE GpuEof
    BY <2>13 DEF TypeOK, GpuEof
  <2>14. CASE GpuArriveSync
    BY <2>14 DEF TypeOK, GpuArriveSync, GpuArrive
  <2>15. CASE GpuCore
    <3>1. next \in Cores /\ next' \in 1 .. NumGpuCores + 1
      BY <2>15, ConfigAssumption DEF TypeOK, GpuCore
    <3> QED
      BY <2>15, <3>1, CoreTickTypes DEF TypeOK, GpuCore
  <2>16. CASE GpuCoresDone
    BY <2>16, ConfigAssumption DEF TypeOK, GpuCoresDone, GpuArrive
  <2>17. CASE GpuPass
    BY <2>17 DEF TypeOK, GpuPass
  <2>18. CASE StopTimer
    BY <2>18 DEF TypeOK, StopTimer
  <2>19. CASE Finished
    BY <2>19 DEF TypeOK, Finished, vars
  <2> QED
    BY <2>1, <2>2, <2>3, <2>4, <2>5, <2>6, <2>7, <2>8, <2>9, <2>10, <2>11, <2>12,
       <2>13, <2>14, <2>15, <2>16, <2>17, <2>18, <2>19
    DEF Next, Loop, CpuTick, GpuTick
<1> QED
  BY <1>1, <1>2, PTL DEF Spec
-----------------------------------------------------------------------------
(***************************************************************************)
(* What a step does to the devices and to the barrier ids.  A device reads *)
(* a record, moves on from D, passes a barrier, or is left alone.          *)
(***************************************************************************)
CpuMoves == /\ state["CPU"] = "D"
            /\ \E s \in {"D", "W"} : state' = [state EXCEPT !["CPU"] = s]
            /\ UNCHANGED <<pos, barrier, ready>>

CpuPasses == /\ state["CPU"] = "W" /\ pc = "cpu"
             /\ CpuPass
             /\ \/ state' = [state EXCEPT !["CPU"] = "PROCESS_CMD"]
                \/ state' = state /\ ~running' /\ pc' = "gpu"

GpuArrives == state["GPU"] = "D" /\ GpuArrive /\ UNCHANGED pos

GpuPasses == GpuPass /\ UNCHANGED <<pos, barrier, ready>>

DeviceStep == \/ \E d \in Dev : Read(d)
              \/ CpuMoves \/ CpuPasses \/ GpuArrives \/ GpuPasses
              \/ UNCHANGED <<state, pos, barrier, ready>>

LEMMA DeviceSteps ==
  ASSUME TypeOK, [Next]_vars
  PROVE  /\ DeviceStep
         /\ trace' = trace
         /\ running' \/ pc' = "cpu" => running \/ pc = "cpu"
<1> USE DEF loopVars, devVars, schedVars, coreVars, sysVars, rscVars, outVars
<1>1. CASE UNCHANGED vars
  BY <1>1 DEF vars, DeviceStep
<1>2. CASE LoopTest
  BY <1>2 DEF LoopTest, DeviceStep
<1>3. CASE CpuRead
  BY <1>3 DEF CpuRead, DeviceStep
<1>4. CASE CpuEof
  BY <1>4 DEF CpuEof, DeviceStep
<1>5. CASE CpuArrive
  BY <1>5 DEF CpuArrive, DeviceStep, CpuMoves
<1>6. CASE CpuDrain
  BY <1>6 DEF CpuDrain, DeviceStep, CpuMoves
<1>7. CASE CpuWait
  BY <1>7 DEF CpuWait, DeviceStep
<1>8. CASE CpuPassSync
  BY <1>8 DEF CpuPassSync, CpuPass, DeviceStep, CpuPasses
<1>9. CASE CpuPassNewScene
  BY <1>9 DEF CpuPassNewScene, CpuPass, DeviceStep, CpuPasses
<1>10. CASE CpuPassEndScene
  BY <1>10 DEF CpuPassEndScene, CpuPass, DeviceStep, CpuPasses
<1>11. CASE CpuPassFrame
  <2>1. CASE ~running \/ stop = 0
    BY <1>11, <2>1 DEF CpuPassFrame, CpuPass, DeviceStep, CpuPasses
  <2>2. CASE ~(~running \/ stop = 0)
    BY <1>11, <2>2 DEF CpuPassFrame, CpuPass, DeviceStep, CpuPasses
  <2> QED
    BY <2>1, <2>2
<1>12. CASE GpuRead
  BY <1>12 DEF GpuRead, DeviceStep
<1>13. CASE GpuEof
  BY <1>13 DEF GpuEof, DeviceStep
<1>14. CASE GpuArriveSync
  BY <1>14 DEF GpuArriveSync, GpuArrive, DeviceStep, GpuArrives
<1>15. CASE GpuCore
  BY <1>15 DEF GpuCore, DeviceStep
<1>16. CASE GpuCoresDone
  BY <1>16 DEF GpuCoresDone, GpuArrive, DeviceStep, GpuArrives
<1>17. CASE GpuPass
  BY <1>17 DEF GpuPass, DeviceStep, GpuPasses
<1>18. CASE StopTimer
  BY <1>18 DEF StopTimer, DeviceStep
<1>19. CASE Finished
  BY <1>19 DEF Finished, vars, DeviceStep
<1> QED
  BY <1>1, <1>2, <1>3, <1>4, <1>5, <1>6, <1>7, <1>8, <1>9, <1>10, <1>11, <1>12,
     <1>13, <1>14, <1>15, <1>16, <1>17, <1>18, <1>19
  DEF Next, Loop, CpuTick, GpuTick
-----------------------------------------------------------------------------
(* Lockstep is inductive, given the types.                                 *)
LEMMA LockstepStep ==
  ASSUME TypeOK, Lockstep, DeviceStep
  PROVE  Lockstep'
<1> USE DEF Lockstep, TypeOK
<1>1. CASE \E d \in Dev : Read(d)
  BY <1>1 DEF Read
<1>2. CASE CpuMoves
  BY <1>2 DEF CpuMoves
<1>3. CASE CpuPasses
  BY <1>3 DEF CpuPasses, CpuPass, GpuReady
<1>4. CASE GpuArrives
  BY <1>4 DEF GpuArrives, GpuArrive
<1>5. CASE GpuPasses
  BY <1>5 DEF GpuPasses, GpuPass
<1>6. CASE UNCHANGED <<state, pos, barrier, ready>>
  BY <1>6
<1> QED
  BY <1>1, <1>2, <1>3, <1>4, <1>5, <1>6 DEF DeviceStep

(* The devices never drift apart: the CPU is level with the GPU or one     *)
(* barrier behind it (gpu.cc announces, cpu.cc follows).                   *)
THEOREM LockstepHolds == Spec => []Lockstep
<1>1. Init => Lockstep
  BY DEF Init, Lockstep
<1>2. TypeOK /\ Lockstep /\ [Next]_vars => Lockstep'
  BY DeviceSteps, LockstepStep
<1> QED
  BY <1>1, <1>2, TypeCorrect, PTL DEF Spec

(* The barrier ids of the two devices and of the scheduler implement the   *)
(* abstract barrier (schedular/base.hh 100-137).                           *)
THEOREM BarrierImplemented == Spec => ImplementsBarrier
<1> DEFINE passed == [d \in Dev |-> IF d = "CPU" THEN barrier["CPU"] ELSE GpuPassed]
<1>1. Init => AbstractBarrier!Init
  BY DEF Init, AbstractBarrier!Init, GpuPassed
<1>2. TypeOK /\ Lockstep /\ [Next]_vars => [AbstractBarrier!Next]_<<ready, passed>>
  <2> SUFFICES ASSUME TypeOK, Lockstep, DeviceStep
               PROVE  AbstractBarrier!Next \/ UNCHANGED <<ready, passed>>
    BY DeviceSteps
  <2> USE DEF TypeOK, Lockstep
  <2>1. CASE \E d \in Dev : Read(d)
    BY <2>1 DEF Read, GpuPassed
  <2>2. CASE CpuMoves
    BY <2>2 DEF CpuMoves, GpuPassed
  <2>3. CASE CpuPasses
    <3>1. barrier["GPU"] = barrier["CPU"] + 1 /\ state["GPU"] = "W"
      BY <2>3 DEF CpuPasses, CpuPass, GpuReady
    <3>2. \A q \in Dev \ {"CPU"} : ready[q] > passed["CPU"]
      BY <3>1
    <3>3. GpuPassed' = GpuPassed /\ barrier'["CPU"] = barrier["CPU"] + 1
      BY <2>3 DEF CpuPasses, CpuPass, GpuPassed
    <3>4. passed' = [passed EXCEPT !["CPU"] = @ + 1]
      BY <3>3
    <3>5. ready' = [ready EXCEPT !["CPU"] = passed["CPU"] + 1]
      BY <2>3 DEF CpuPasses, CpuPass
    <3>6. AbstractBarrier!Pass("CPU")
      BY <3>2, <3>4, <3>5 DEF AbstractBarrier!Pass
    <3> QED
      BY <3>6 DEF AbstractBarrier!Next
  <2>4. CASE GpuArrives
    <3>1. AbstractBarrier!Arrive("GPU")
      BY <2>4 DEF GpuArrives, GpuArrive, GpuPassed, AbstractBarrier!Arrive
    <3> QED
      BY <3>1 DEF AbstractBarrier!Next
  <2>5. CASE GpuPasses
    <3>1. CASE ready["CPU"] < barrier["GPU"]
      BY <2>5, <3>1 DEF GpuPasses, GpuPass, GpuPassed
    <3>2. CASE ~(ready["CPU"] < barrier["GPU"])
      <4>1. barrier["CPU"] = barrier["GPU"] /\ state["GPU"] = "W"
        BY <2>5, <3>2 DEF GpuPasses, GpuPass
      <4>2. \A q \in Dev \ {"GPU"} : ready[q] > passed["GPU"]
        BY <4>1 DEF GpuPassed
      <4>3. GpuPassed' = GpuPassed + 1 /\ barrier' = barrier /\ ready' = ready
        BY <2>5, <3>2 DEF GpuPasses, GpuPass, GpuPassed
      <4>4. passed' = [passed EXCEPT !["GPU"] = @ + 1]
        BY <4>3
      <4>5. ready' = [ready EXCEPT !["GPU"] = passed["GPU"] + 1]
        BY <4>1, <4>3 DEF GpuPassed
      <4>6. AbstractBarrier!Pass("GPU")
        BY <4>2, <4>4, <4>5 DEF AbstractBarrier!Pass
      <4> QED
        BY <4>6 DEF AbstractBarrier!Next
    <3> QED
      BY <3>1, <3>2
  <2>6. CASE UNCHANGED <<state, pos, barrier, ready>>
    BY <2>6 DEF GpuPassed
  <2> QED
    BY <2>1, <2>2, <2>3, <2>4, <2>5, <2>6 DEF DeviceStep
<1> QED
  BY <1>1, <1>2, TypeCorrect, LockstepHolds, PTL
  DEF Spec, ImplementsBarrier, AbstractBarrier!Spec
-----------------------------------------------------------------------------
(***************************************************************************)
(* Why the devices meet at the same command.  Both streams hold the same   *)
(* records, and a record that synchronises one device synchronises the     *)
(* other.  Each device counts the synchronising records it has read in its *)
(* barrier id, so level ids mean the same synchronising record.            *)
(***************************************************************************)
Syncs(d, i) == SyncOf(d, StreamCmd(d, trace.cmds[i].cmd)) # "NONE"

SyncsRead(n) == {i \in 1 .. n : Syncs("CPU", i)}

(* A device that is not reading stands at a synchronising record; the GPU  *)
(* counts it when it arrives, the CPU when it passes.  A CPU stopped in    *)
(* W_FRAME_SYNC has counted it already, but does not tick again.           *)
MeetInv ==
  /\ \A d \in Dev : state[d] # "PROCESS_CMD" => pos[d] \in SyncsRead(pos[d])
  /\ Cardinality(SyncsRead(pos["GPU"])) =
       barrier["GPU"] + (IF state["GPU"] = "D" THEN 1 ELSE 0)
  /\ running \/ pc = "cpu" =>
       Cardinality(SyncsRead(pos["CPU"])) =
         barrier["CPU"] + (IF state["CPU"] = "PROCESS_CMD" THEN 0 ELSE 1)

LEMMA SameSyncs ==
  ASSUME NEW d \in Dev, NEW i
  PROVE  Syncs(d, i) <=> Syncs("CPU", i)
BY DEF Syncs, SyncOf, StreamCmd

LEMMA SyncsReadFinite ==
  ASSUME NEW n \in Nat
  PROVE  IsFiniteSet(SyncsRead(n)) /\ Cardinality(SyncsRead(n)) \in Nat
<1>1. IsFiniteSet(1 .. n)
  BY FS_Interval
<1>2. SyncsRead(n) \subseteq 1 .. n
  BY DEF SyncsRead
<1> QED
  BY <1>1, <1>2, FS_Subset, FS_CardinalityType

(* Reading one more record counts it if it synchronises.                   *)
LEMMA SyncsReadNext ==
  ASSUME NEW n \in Nat
  PROVE  /\ Syncs("CPU", n + 1) =>
              /\ n + 1 \in SyncsRead(n + 1)
              /\ Cardinality(SyncsRead(n + 1)) = Cardinality(SyncsRead(n)) + 1
         /\ ~Syncs("CPU", n + 1) =>
              Cardinality(SyncsRead(n + 1)) = Cardinality(SyncsRead(n))
<1>1. 1 .. n + 1 = (1 .. n) \cup {n + 1} /\ n + 1 \notin 1 .. n
  OBVIOUS
<1>2. CASE Syncs("CPU", n + 1)
  <2>1. SyncsRead(n + 1) = SyncsRead(n) \cup {n + 1}
    BY <1>1, <1>2 DEF SyncsRead
  <2>2. n + 1 \notin SyncsRead(n)
    BY <1>1 DEF SyncsRead
  <2> QED
    BY <1>2, <2>1, <2>2, SyncsReadFinite, FS_AddElement
<1>3. CASE ~Syncs("CPU", n + 1)
  <2>1. SyncsRead(n + 1) = SyncsRead(n)
    BY <1>1, <1>3 DEF SyncsRead
  <2> QED
    BY <1>3, <2>1
<1> QED
  BY <1>2, <1>3

(* Two devices at synchronising records with equal counts are at the same  *)
(* record.                                                                 *)
LEMMA SameCountSamePlace ==
  ASSUME NEW m \in Nat, NEW n \in Nat,
         n \in SyncsRead(n),
         Cardinality(SyncsRead(m)) = Cardinality(SyncsRead(n))
  PROVE  ~(m < n)
<1> SUFFICES ASSUME m < n PROVE FALSE
  OBVIOUS
<1>1. SyncsRead(m) \cup {n} \subseteq SyncsRead(n) /\ n \notin SyncsRead(m)
  BY DEF SyncsRead
<1>2. Cardinality(SyncsRead(m) \cup {n}) = Cardinality(SyncsRead(m)) + 1
  BY <1>1, SyncsReadFinite, FS_AddElement
<1>3. Cardinality(SyncsRead(m) \cup {n}) <= Cardinality(SyncsRead(n))
  BY <1>1, SyncsReadFinite, FS_Subset
<1> QED
  BY <1>2, <1>3, SyncsReadFinite

LEMMA MeetInit == Init => MeetInv
<1>1. SyncsRead(0) = {}
  BY DEF SyncsRead
<1>2. Cardinality(SyncsRead(0)) = 0
  BY <1>1, FS_EmptySet
<1> QED
  BY <1>2 DEF Init, MeetInv

LEMMA MeetStep ==
  ASSUME TypeOK, Lockstep, MeetInv, [Next]_vars
  PROVE  MeetInv'
<1>1. trace' = trace /\ DeviceStep /\ (running' \/ pc' = "cpu" => running \/ pc = "cpu")
  BY DeviceSteps
<1>2. \A d \in Dev : SyncsRead(pos[d])' = SyncsRead(pos'[d])
  BY <1>1 DEF SyncsRead, Syncs
<1> DEFINE n(d) == Cardinality(SyncsRead(pos[d]))
<1>3. ASSUME NEW d \in Dev, Read(d)
      PROVE  MeetInv'
  <2> SUFFICES /\ \A e \in Dev : state'[e] # "PROCESS_CMD" =>
                     pos'[e] \in SyncsRead(pos'[e])
               /\ Cardinality(SyncsRead(pos'["GPU"])) =
                    barrier'["GPU"] + (IF state'["GPU"] = "D" THEN 1 ELSE 0)
               /\ running' \/ pc' = "cpu" =>
                    Cardinality(SyncsRead(pos'["CPU"])) =
                      barrier'["CPU"] + (IF state'["CPU"] = "PROCESS_CMD" THEN 0 ELSE 1)
    BY <1>2 DEF MeetInv
  <2>1. /\ state[d] = "PROCESS_CMD" /\ barrier' = barrier
        /\ pos' = [pos EXCEPT ![d] = pos[d] + 1] /\ pos[d] \in Nat
    BY <1>3 DEF Read, TypeOK
  <2>2. CASE Syncs("CPU", pos[d] + 1)
    <3>1. state' = [state EXCEPT ![d] = "D"]
      BY <1>3, <2>2, SameSyncs DEF Read, NextCmd, Syncs
    <3>2. /\ pos[d] + 1 \in SyncsRead(pos[d] + 1)
          /\ Cardinality(SyncsRead(pos[d] + 1)) = n(d) + 1
      BY <2>1, <2>2, SyncsReadNext
    <3>3. /\ pos'[d] = pos[d] + 1 /\ state'[d] = "D"
          /\ \A e \in Dev \ {d} : pos'[e] = pos[e] /\ state'[e] = state[e]
      BY <2>1, <3>1 DEF TypeOK
    <3>4. \A e \in Dev : state'[e] # "PROCESS_CMD" => pos'[e] \in SyncsRead(pos'[e])
      BY <3>2, <3>3 DEF MeetInv
    <3>5. Cardinality(SyncsRead(pos'["GPU"])) =
            barrier'["GPU"] + (IF state'["GPU"] = "D" THEN 1 ELSE 0)
      BY <2>1, <3>2, <3>3 DEF MeetInv, TypeOK
    <3>6. running' \/ pc' = "cpu" =>
            Cardinality(SyncsRead(pos'["CPU"])) =
              barrier'["CPU"] + (IF state'["CPU"] = "PROCESS_CMD" THEN 0 ELSE 1)
      BY <1>1, <2>1, <3>2, <3>3 DEF MeetInv, TypeOK
    <3> QED
      BY <3>4, <3>5, <3>6
  <2>3. CASE ~Syncs("CPU", pos[d] + 1)
    <3>1. state' = state
      BY <1>3, <2>3, SameSyncs DEF Read, NextCmd, Syncs
    <3>2. Cardinality(SyncsRead(pos[d] + 1)) = n(d)
      BY <2>1, <2>3, SyncsReadNext
    <3> QED
      BY <1>1, <2>1, <3>1, <3>2 DEF MeetInv, TypeOK
  <2> QED
    BY <2>2, <2>3
<1>4. CASE CpuMoves
  BY <1>1, <1>2, <1>4 DEF CpuMoves, MeetInv, TypeOK
<1>5. CASE CpuPasses
  <2>1. pos' = pos /\ barrier' = [barrier EXCEPT !["CPU"] = barrier["CPU"] + 1]
    BY <1>5 DEF CpuPasses, CpuPass
  <2>2. CASE state' = [state EXCEPT !["CPU"] = "PROCESS_CMD"]
    BY <1>1, <1>2, <1>5, <2>1, <2>2 DEF CpuPasses, MeetInv, TypeOK
  <2>3. CASE state' = state /\ ~running' /\ pc' = "gpu"
    BY <1>1, <1>2, <1>5, <2>1, <2>3 DEF CpuPasses, MeetInv, TypeOK
  <2> QED
    BY <1>5, <2>2, <2>3 DEF CpuPasses
<1>6. CASE GpuArrives
  BY <1>1, <1>2, <1>6 DEF GpuArrives, GpuArrive, MeetInv, TypeOK
<1>7. CASE GpuPasses
  BY <1>1, <1>2, <1>7 DEF GpuPasses, GpuPass, MeetInv, TypeOK
<1>8. CASE UNCHANGED <<state, pos, barrier, ready>>
  BY <1>1, <1>2, <1>8 DEF MeetInv
<1> QED
  BY <1>1, <1>3, <1>4, <1>5, <1>6, <1>7, <1>8 DEF DeviceStep

(* When the CPU passes a barrier both devices have read the same records.  *)
LEMMA PassTogether ==
  ASSUME TypeOK, Lockstep, MeetInv, CpuPasses
  PROVE  pos["CPU"] = pos["GPU"] /\ state["GPU"] = "W"
<1>1. barrier["GPU"] = barrier["CPU"] + 1 /\ state["GPU"] = "W"
  BY DEF CpuPasses, CpuPass, GpuReady, Lockstep, TypeOK
<1>2. Cardinality(SyncsRead(pos["CPU"])) = Cardinality(SyncsRead(pos["GPU"]))
  BY <1>1 DEF CpuPasses, MeetInv, TypeOK
<1>3. \A d \in Dev : pos[d] \in Nat /\ pos[d] \in SyncsRead(pos[d])
  BY <1>1 DEF CpuPasses, MeetInv, TypeOK
<1>4. ~(pos["CPU"] < pos["GPU"]) /\ ~(pos["GPU"] < pos["CPU"])
  BY <1>2, <1>3, SameCountSamePlace
<1> QED
  BY <1>1, <1>3, <1>4

(* The CPU passes a barrier only while the GPU waits at the same recorded  *)
(* command (cpu.cc 89-140, gpu.cc 123-139).                                *)
THEOREM DevicesMeet == Spec => MeetAtSameCommand
<1>1. TypeOK /\ Lockstep /\ MeetInv /\ [Next]_vars => MeetInv'
  BY MeetStep
<1>2. TypeOK /\ Lockstep /\ MeetInv /\ [Next]_vars =>
        [barrier'["CPU"] # barrier["CPU"] =>
           pos["CPU"] = pos["GPU"] /\ state["GPU"] = "W"]_vars
  <2> SUFFICES ASSUME TypeOK, Lockstep, MeetInv, [Next]_vars,
                      barrier'["CPU"] # barrier["CPU"]
               PROVE  CpuPasses
    BY PassTogether
  <2> QED
    BY DeviceSteps
    DEF DeviceStep, TypeOK, Read, CpuMoves, GpuArrives, GpuArrive, GpuPasses
<1> QED
  BY <1>1, <1>2, MeetInit, TypeCorrect, LockstepHolds, PTL
  DEF Spec, MeetAtSameCommand
=============================================================================
