--------------------------- MODULE ReplayJobProofs ---------------------------
(***************************************************************************)
(* Proofs about the jobs of the replay: no job is lost, run twice or run   *)
(* under the wrong scene, and nothing is left to run when the devices pass *)
(* a scene or frame command.  Then about its counters, resources, aborts   *)
(* and statistics, and about the order the z schedular puts tiles in.      *)
(***************************************************************************)
EXTENDS ReplayProofs, WellFoundedInduction

(* A packet given to the analyzers.                                        *)
SentPacket == [core : Cores, job : Jobs, rsc : Resources, nth : Nat,
               frame : Nat, scene : Nat]

SentOK == sent \in Seq(SentPacket)

Full(j) == trace.jobs[j].pkts
JobsOf(k) == ToSet(Scene(k).jobs)
Loaded == {j \in Jobs : \E k \in 1 .. nextScene : j \in JobsOf(k)}

Queued(j) == \E d \in Dev : \E i \in DOMAIN queue[d] : queue[d][i] = j
OnCore(j) == \E c \in Cores : job[c] = j

(* ps is what a core has left of job j.                                    *)
IsRest(j, ps) ==
  /\ Len(ps) <= Len(Full(j))
  /\ \A i \in 1 .. Len(ps) : ps[i] = Full(j)[Len(Full(j)) - Len(ps) + i]

(* A core holds the rest of a job it has sent the other packets of.        *)
HoldsRest(c) ==
  /\ job[c] \in Loaded
  /\ pkts[c] # <<>> => job[c] \in JobsOf(nextScene)
  /\ IsRest(job[c], pkts[c])
  /\ Served(job[c]) = Len(Full(job[c])) - Len(pkts[c])
  /\ \A b \in Cores : job[b] = job[c] => b = c

CoresInv ==
  \A c \in Cores :
    /\ job[c] = NoJob => pkts[c] = <<>>
    /\ coreState[c] = "IDLE" => job[c] = NoJob
    /\ job[c] # NoJob => HoldsRest(c)

(* A queued job waits in one place, of its scene, and was never started.   *)
Waits(d, i) ==
  /\ queue[d][i] \in JobsOf(nextScene) /\ trace.jobs[queue[d][i]].dev = d
  /\ Served(queue[d][i]) = 0
  /\ \A c \in Cores : job[c] # queue[d][i]
  /\ \A k \in DOMAIN queue[d] : queue[d][k] = queue[d][i] => k = i

QueuesInv ==
  \A d \in Dev : \A i \in DOMAIN queue[d] : nextScene > 0 /\ Waits(d, i)

(* No loaded job is forgotten, and no other job was started.               *)
ServedInv ==
  \A j \in Jobs :
    /\ j \in Loaded => Queued(j) \/ OnCore(j) \/ Served(j) = Len(Full(j))
    /\ j \notin Loaded => Served(j) = 0

(* The last packet of a core, compared with the job the core has now.      *)
LastOn(c, i) == sent[i].core = c /\ \A h \in i + 1 .. Len(sent) : sent[h].core # c

LastInv ==
  \A c \in Cores : \A i \in DOMAIN sent :
    /\ sent[i].job = job[c] => sent[i].core = c
    /\ LastOn(c, i) =>
         sent[i].nth = IF sent[i].job = job[c] THEN Len(Full(job[c])) - Len(pkts[c])
                       ELSE Len(Full(sent[i].job))

ScenesInv == nextScene <= Len(trace.scenes)

JobInv == SentOK /\ ScenesInv /\ CoresInv /\ QueuesInv /\ ServedInv /\ LastInv

-----------------------------------------------------------------------------
(***************************************************************************)
(* The recording's tables and the count of the packets sent.               *)
(***************************************************************************)
LEMMA RecordingTables ==
  ASSUME trace \in Traces
  PROVE  /\ \A j \in Jobs : Full(j) \in Seq(Resources) /\ trace.jobs[j].dev \in Dev
         /\ trace.scenes \in Seq(SceneInfo)
         /\ trace.cmds \in Seq(Packet)
         /\ Len(trace.scenes) \in Nat /\ Len(trace.cmds) \in Nat
         /\ trace.frames \in Nat
         /\ \A k \in 1 .. Len(trace.scenes) :
              Scene(k) \in SceneInfo /\ JobsOf(k) \subseteq Jobs
<1>1. trace \in Recording
  BY RecordingTypes
<1>2. trace.scenes \in Seq(SceneInfo) /\ trace.jobs \in [Jobs -> JobInfo]
  BY <1>1 DEF Recording
<1>3. \A k \in 1 .. Len(trace.scenes) :
        Scene(k) \in SceneInfo /\ JobsOf(k) \subseteq Jobs
  <2> SUFFICES ASSUME NEW k \in 1 .. Len(trace.scenes)
               PROVE  Scene(k) \in SceneInfo /\ JobsOf(k) \subseteq Jobs
    OBVIOUS
  <2>1. Scene(k) \in SceneInfo
    BY <1>2 DEF Scene
  <2>2. Scene(k).jobs \in Seq(Jobs)
    BY <2>1 DEF SceneInfo
  <2> QED
    BY <2>1, <2>2 DEF JobsOf, ToSet
<1> QED
  BY <1>1, <1>2, <1>3 DEF Recording, JobInfo, Full

(* A job is in one scene only.                                             *)
LEMMA OneScene ==
  ASSUME trace \in Traces,
         NEW k \in 1 .. Len(trace.scenes), NEW m \in 1 .. Len(trace.scenes),
         NEW j \in JobsOf(k), j \in JobsOf(m)
  PROVE  k = m
<1>1. JobsAreListedOnce(trace)
  BY RecordingsAssumption
<1>2. trace.scenes \in Seq(SceneInfo)
  BY RecordingTables
<1>3. PICK i \in DOMAIN Scene(k).jobs : Scene(k).jobs[i] = j
  BY DEF JobsOf, ToSet
<1>4. PICK l \in DOMAIN Scene(m).jobs : Scene(m).jobs[l] = j
  BY DEF JobsOf, ToSet
<1> QED
  BY <1>1, <1>2, <1>3, <1>4 DEF JobsAreListedOnce, Scene

LEMMA SentTypes ==
  ASSUME SentOK
  PROVE  /\ DOMAIN sent = 1 .. Len(sent) /\ Len(sent) \in Nat
         /\ \A i \in DOMAIN sent :
              /\ sent[i] \in SentPacket
              /\ sent[i].job \in Jobs /\ sent[i].core \in Cores /\ sent[i].nth \in Nat
<1>1. \A i \in DOMAIN sent : sent[i] \in SentPacket
  BY DEF SentOK
<1>2. \A p \in SentPacket : p.job \in Jobs /\ p.core \in Cores /\ p.nth \in Nat
  BY DEF SentPacket
<1> QED
  BY <1>1, <1>2 DEF SentOK

PlacesOf(j) == {i \in DOMAIN sent : sent[i].job = j}

LEMMA ServedType ==
  ASSUME SentOK, NEW j
  PROVE  /\ IsFiniteSet(PlacesOf(j))
         /\ Served(j) = Cardinality(PlacesOf(j))
         /\ Served(j) \in Nat
         /\ (\A i \in DOMAIN sent : sent[i].job # j) <=> Served(j) = 0
<1>1. DOMAIN sent = 1 .. Len(sent) /\ Len(sent) \in Nat
  BY DEF SentOK
<1>2. IsFiniteSet(DOMAIN sent)
  BY <1>1, FS_Interval
<1>3. PlacesOf(j) \subseteq DOMAIN sent
  BY DEF PlacesOf
<1>4. IsFiniteSet(PlacesOf(j))
  BY <1>2, <1>3, FS_Subset
<1>5. Served(j) = Cardinality(PlacesOf(j))
  BY DEF Served, PlacesOf
<1>6. PlacesOf(j) = {} <=> Cardinality(PlacesOf(j)) = 0
  BY <1>4, FS_EmptySet
<1>7. PlacesOf(j) = {} <=> \A i \in DOMAIN sent : sent[i].job # j
  BY DEF PlacesOf
<1> QED
  BY <1>4, <1>5, <1>6, <1>7, FS_CardinalityType

(* Sending a packet of a job serves that job once more and no other.       *)
LEMMA ServedAppend ==
  ASSUME SentOK, NEW p, sent' = Append(sent, p), NEW j
  PROVE  Served(j)' = IF p.job = j THEN Served(j) + 1 ELSE Served(j)
<1> DEFINE n == Len(sent) + 1
<1>1. /\ DOMAIN sent' = (DOMAIN sent) \cup {n} /\ n \notin DOMAIN sent
      /\ sent'[n] = p /\ \A i \in DOMAIN sent : sent'[i] = sent[i]
  BY DEF SentOK
<1>2. Served(j)' = Cardinality({i \in DOMAIN sent' : sent'[i].job = j})
  BY DEF Served
<1>3. CASE p.job = j
  <2>1. {i \in DOMAIN sent' : sent'[i].job = j} = PlacesOf(j) \cup {n}
    BY <1>1, <1>3 DEF PlacesOf
  <2>2. n \notin PlacesOf(j)
    BY <1>1 DEF PlacesOf
  <2>3. IsFiniteSet(PlacesOf(j)) /\ Served(j) = Cardinality(PlacesOf(j))
    BY ServedType
  <2> HIDE DEF n
  <2>4. Cardinality(PlacesOf(j) \cup {n}) = Cardinality(PlacesOf(j)) + 1
    BY <2>2, <2>3, FS_AddElement
  <2> QED
    BY <1>2, <1>3, <2>1, <2>3, <2>4
<1>4. CASE p.job # j
  <2>1. {i \in DOMAIN sent' : sent'[i].job = j} = PlacesOf(j)
    BY <1>1, <1>4 DEF PlacesOf
  <2> QED
    BY <1>2, <1>4, <2>1, ServedType
<1> QED
  BY <1>3, <1>4

LEMMA ServedSame ==
  ASSUME sent' = sent, NEW j
  PROVE  Served(j)' = Served(j)
BY DEF Served
-----------------------------------------------------------------------------
(***************************************************************************)
(* One tick of a core that has a job, new or not: it sends the next packet *)
(* of the job, unless there is none.                                       *)
(***************************************************************************)
ReadyToRun(c, j, before) ==
  /\ j \in Jobs /\ j \in JobsOf(nextScene) /\ nextScene \in 1 .. Len(trace.scenes)
  /\ before \in Seq(Resources) /\ IsRest(j, before)
  /\ Served(j) = Len(Full(j)) - Len(before)
  /\ \A b \in Cores \ {c} : job[b] # j
  /\ \A i \in DOMAIN sent : sent[i].job = j => sent[i].core = c
  /\ \A i \in DOMAIN sent : LastOn(c, i) =>
       sent[i].nth = IF sent[i].job = j THEN Len(Full(j)) - Len(before)
                     ELSE Len(Full(sent[i].job))

SendsNext(c, j, before) ==
  /\ job' = [job EXCEPT ![c] = j]
  /\ coreState' = [coreState EXCEPT ![c] = "RUNNING"]
  /\ \/ before = <<>> /\ pkts' = [pkts EXCEPT ![c] = <<>>] /\ sent' = sent
     \/ before # <<>> /\ Send(c, j, before)

CoreRuns(c, j, before) == ReadyToRun(c, j, before) /\ SendsNext(c, j, before)

(* A core that takes a job off the queue.                                  *)
LEMMA NewJobRuns ==
  ASSUME TypeOK, JobInv, NEW c \in Cores, CoreNewJob(c)
  PROVE  LET j == Head(queue[DevOf(c)]) IN CoreRuns(c, j, Full(j))
<1> DEFINE d == DevOf(c)
           j == Head(queue[d])
<1>1. d \in Dev /\ queue[d] \in Seq(Jobs) /\ queue[d] # <<>>
  <2>1. d \in Dev
    BY DEF DevOf, Dev
  <2>2. queue[d] # <<>>
    BY DEF CoreNewJob
  <2> QED
    BY <2>1, <2>2 DEF TypeOK
<1>2. 1 \in DOMAIN queue[d] /\ j = queue[d][1] /\ j \in Jobs
  BY <1>1
<1>3. nextScene > 0 /\ Waits(d, 1)
  BY <1>1, <1>2 DEF JobInv, QueuesInv
<1>4. trace \in Traces /\ Len(trace.scenes) \in Nat /\ Full(j) \in Seq(Resources)
  BY <1>2, RecordingTables DEF TypeOK
<1>5. nextScene \in 1 .. Len(trace.scenes)
  BY <1>3, <1>4 DEF JobInv, ScenesInv, TypeOK
<1>6. /\ j \in JobsOf(nextScene) /\ Served(j) = 0
      /\ \A b \in Cores : job[b] # j
  BY <1>2, <1>3 DEF Waits
<1>7. \A i \in DOMAIN sent : sent[i].job # j
  BY <1>6, ServedType DEF JobInv
<1>8. IsRest(j, Full(j))
  BY <1>4 DEF IsRest
<1>9. pkts[c] = <<>>
  BY DEF CoreNewJob, NeedsJob, JobInv, CoresInv
<1>10. \A i \in DOMAIN sent : LastOn(c, i) => sent[i].nth = Len(Full(sent[i].job))
  <2> SUFFICES ASSUME NEW i \in DOMAIN sent, LastOn(c, i)
               PROVE  sent[i].nth = Len(Full(sent[i].job))
    OBVIOUS
  <2>1. sent[i].nth = IF sent[i].job = job[c] THEN Len(Full(job[c])) - Len(pkts[c])
                      ELSE Len(Full(sent[i].job))
    BY DEF JobInv, LastInv
  <2>2. sent[i].job \in Jobs
    BY SentTypes DEF JobInv
  <2>3. Len(Full(sent[i].job)) \in Nat
    BY <1>4, <2>2, RecordingTables
  <2> QED
    BY <1>9, <2>1, <2>3
<1>11. Served(j) = Len(Full(j)) - Len(Full(j))
  BY <1>4, <1>6
<1>12. ReadyToRun(c, j, Full(j))
  BY <1>2, <1>4, <1>5, <1>6, <1>7, <1>8, <1>10, <1>11 DEF ReadyToRun
<1>13. SendsNext(c, j, Full(j))
  BY DEF SendsNext, CoreNewJob, Full
<1> QED
  BY <1>12, <1>13 DEF CoreRuns

(* A core that goes on with its job.                                       *)
LEMMA SendRuns ==
  ASSUME TypeOK, JobInv, NEW c \in Cores, CoreSend(c)
  PROVE  CoreRuns(c, job[c], pkts[c])
<1>1. job[c] # NoJob /\ pkts[c] # <<>>
  BY DEF CoreSend, NeedsJob
<1>2. job[c] \in Jobs /\ pkts[c] \in Seq(Resources)
  BY <1>1 DEF TypeOK
<1>3. HoldsRest(c)
  BY <1>1 DEF JobInv, CoresInv
<1>4. nextScene \in 1 .. Len(trace.scenes)
  <2>1. Len(trace.scenes) \in Nat
    BY RecordingTables DEF TypeOK
  <2>2. nextScene > 0
    BY <1>3 DEF HoldsRest, Loaded, TypeOK
  <2> QED
    BY <2>1, <2>2 DEF JobInv, ScenesInv, TypeOK
<1>5. \A b \in Cores \ {c} : job[b] # job[c]
  BY <1>3 DEF HoldsRest
<1>6. /\ job[c] \in JobsOf(nextScene) /\ IsRest(job[c], pkts[c])
      /\ Served(job[c]) = Len(Full(job[c])) - Len(pkts[c])
  BY <1>1, <1>3 DEF HoldsRest
<1>7. \A i \in DOMAIN sent :
        /\ sent[i].job = job[c] => sent[i].core = c
        /\ LastOn(c, i) =>
             sent[i].nth = IF sent[i].job = job[c] THEN Len(Full(job[c])) - Len(pkts[c])
                           ELSE Len(Full(sent[i].job))
  BY DEF JobInv, LastInv
<1>8. ReadyToRun(c, job[c], pkts[c])
  BY <1>2, <1>4, <1>5, <1>6, <1>7 DEF ReadyToRun
<1>9. SendsNext(c, job[c], pkts[c])
  BY <1>1 DEF SendsNext, CoreSend, TypeOK
<1> QED
  BY <1>8, <1>9 DEF CoreRuns

(* What a running core does to the packets: the next one, in its place.    *)
LEMMA RunsSends ==
  ASSUME TypeOK, SentOK, NEW c \in Cores, NEW j, NEW before, CoreRuns(c, j, before)
  PROVE  \/ before = <<>> /\ sent' = sent /\ pkts'[c] = <<>>
         \/ /\ before # <<>>
            /\ \E p \in SentPacket :
                 /\ sent' = Append(sent, p)
                 /\ p.core = c /\ p.job = j /\ p.nth = Served(j) + 1
                 /\ p.nth \in 1 .. Len(Full(j))
                 /\ p.rsc = Full(j)[p.nth] /\ p.rsc = before[1]
                 /\ p.frame = frameNbr /\ p.scene = sceneNbr
            /\ pkts'[c] = Tail(before)
<1>1. c \in DOMAIN pkts
  BY DEF TypeOK
<1>2. CASE before = <<>>
  BY <1>1, <1>2 DEF CoreRuns, SendsNext
<1>3. CASE before # <<>>
  <2> DEFINE p == [core |-> c, job |-> j, rsc |-> Head(before),
                   nth |-> Len(trace.jobs[j].pkts) - Len(before) + 1,
                   frame |-> frameNbr, scene |-> sceneNbr]
  <2>1. sent' = Append(sent, p) /\ pkts' = [pkts EXCEPT ![c] = Tail(before)]
    BY <1>3 DEF CoreRuns, SendsNext, Send
  <2>2. /\ j \in Jobs /\ before \in Seq(Resources)
        /\ Full(j) \in Seq(Resources)
    BY RecordingTables DEF CoreRuns, ReadyToRun, TypeOK
  <2>3. /\ Len(before) \in Nat /\ Len(before) > 0 /\ Len(Full(j)) \in Nat
        /\ Head(before) = before[1] /\ before[1] \in Resources
    BY <1>3, <2>2
  <2>4. /\ Len(before) <= Len(Full(j)) /\ Served(j) = Len(Full(j)) - Len(before)
        /\ before[1] = Full(j)[Len(Full(j)) - Len(before) + 1]
    BY <2>3 DEF CoreRuns, ReadyToRun, IsRest
  <2>5. p.nth = Served(j) + 1 /\ p.nth \in 1 .. Len(Full(j))
    BY <2>3, <2>4 DEF Full
  <2>6. p.rsc = Full(j)[p.nth] /\ p.rsc = before[1]
    BY <2>3, <2>4, <2>5
  <2>7. frameNbr \in Nat /\ sceneNbr \in Nat
    BY DEF TypeOK
  <2>8. p \in SentPacket
    BY <2>2, <2>3, <2>5, <2>7 DEF SentPacket
  <2>9. p.core = c /\ p.job = j /\ p.frame = frameNbr /\ p.scene = sceneNbr
    OBVIOUS
  <2> HIDE DEF p
  <2> QED
    BY <1>1, <1>3, <2>1, <2>5, <2>6, <2>8, <2>9
<1> QED
  BY <1>2, <1>3
-----------------------------------------------------------------------------
(***************************************************************************)
(* Each part of the job invariant through a tick that runs a job.  What    *)
(* the queues hold is left to the ticks themselves.                        *)
(***************************************************************************)
LEMMA RunsSentOK ==
  ASSUME TypeOK, SentOK, NEW c \in Cores, NEW j, NEW before, CoreRuns(c, j, before)
  PROVE  SentOK'
<1>1. sent' = sent \/ \E p \in SentPacket : sent' = Append(sent, p)
  BY RunsSends
<1>2. sent' \in Seq(SentPacket)
  BY <1>1 DEF SentOK
<1> QED
  BY <1>2 DEF SentOK, SentPacket

(* Only the job that runs is served, once unless nothing is left of it.    *)
LEMMA RunsServed ==
  ASSUME TypeOK, SentOK, NEW c \in Cores, NEW j, NEW before, CoreRuns(c, j, before)
  PROVE  /\ Served(j)' = Len(Full(j)) - Len(pkts'[c])
         /\ pkts'[c] \in Seq(Resources) /\ IsRest(j, pkts'[c])
         /\ \A k : k # j => Served(k)' = Served(k)
<1>1. /\ before \in Seq(Resources) /\ Full(j) \in Seq(Resources) /\ j \in Jobs
      /\ IsRest(j, before) /\ Served(j) = Len(Full(j)) - Len(before)
  BY RecordingTables DEF CoreRuns, ReadyToRun, TypeOK
<1>2. CASE before = <<>> /\ sent' = sent /\ pkts'[c] = <<>>
  BY <1>1, <1>2, ServedSame
<1>3. CASE /\ before # <<>> /\ pkts'[c] = Tail(before)
           /\ \E p \in SentPacket : sent' = Append(sent, p) /\ p.job = j
  <2>1. Served(j)' = Served(j) + 1 /\ \A k : k # j => Served(k)' = Served(k)
    BY <1>3, ServedAppend
  <2>2. /\ Len(Tail(before)) = Len(before) - 1 /\ Tail(before) \in Seq(Resources)
        /\ \A i \in 1 .. Len(Tail(before)) : Tail(before)[i] = before[i + 1]
        /\ Len(before) \in Nat /\ Len(Full(j)) \in Nat
    BY <1>1, <1>3
  <2>3. IsRest(j, Tail(before))
    <3> SUFFICES ASSUME NEW i \in 1 .. Len(Tail(before))
                 PROVE  Tail(before)[i] = Full(j)[Len(Full(j)) - Len(Tail(before)) + i]
      BY <1>1, <2>2 DEF IsRest
    <3>1. Tail(before)[i] = before[i + 1] /\ i + 1 \in 1 .. Len(before)
      BY <2>2
    <3>2. before[i + 1] = Full(j)[Len(Full(j)) - Len(before) + (i + 1)]
      BY <1>1, <3>1 DEF IsRest
    <3>3. Len(Full(j)) - Len(before) + (i + 1) = Len(Full(j)) - Len(Tail(before)) + i
      BY <2>2
    <3> QED
      BY <3>1, <3>2, <3>3
  <2> QED
    BY <1>1, <1>3, <2>1, <2>2, <2>3
<1> QED
  BY <1>2, <1>3, RunsSends

LEMMA RunsCores ==
  ASSUME TypeOK, JobInv, NEW c \in Cores, NEW j, NEW before, CoreRuns(c, j, before),
         trace' = trace, nextScene' = nextScene
  PROVE  CoresInv'
<1> SUFFICES ASSUME NEW b \in Cores
             PROVE  /\ job'[b] = NoJob => pkts'[b] = <<>>
                    /\ coreState'[b] = "IDLE" => job'[b] = NoJob
                    /\ job'[b] # NoJob => HoldsRest(b)'
  BY DEF CoresInv
<1>1. /\ j \in Jobs /\ j # NoJob /\ j \in JobsOf(nextScene) /\ nextScene > 0
      /\ nextScene \in Nat
      /\ \A a \in Cores \ {c} : job[a] # j
  BY ConfigAssumption DEF CoreRuns, ReadyToRun, TypeOK
<1>2. /\ job'[c] = j /\ coreState'[c] = "RUNNING"
      /\ \A a \in Cores \ {c} : /\ job'[a] = job[a] /\ pkts'[a] = pkts[a]
                                /\ coreState'[a] = coreState[a]
  BY DEF CoreRuns, SendsNext, Send, TypeOK
<1>3. /\ Served(j)' = Len(Full(j)) - Len(pkts'[c]) /\ IsRest(j, pkts'[c])
      /\ \A k : k # j => Served(k)' = Served(k)
  BY RunsServed DEF JobInv
<1>4. Loaded' = Loaded /\ \A k : JobsOf(k)' = JobsOf(k) /\ Full(k)' = Full(k)
  BY DEF Loaded, JobsOf, Scene, Full
<1>5. \A k, ps : IsRest(k, ps)' <=> IsRest(k, ps)
  BY <1>4 DEF IsRest
<1>6. CASE b = c
  <2>1. j \in Loaded
    BY <1>1 DEF Loaded
  <2>2. IsRest(job[b], pkts[b])' <=> IsRest(j, pkts'[c])
    BY <1>2, <1>4, <1>6 DEF IsRest
  <2>3. Served(job[b])' = Served(j)' /\ Full(job[b])' = Full(j)
    BY <1>2, <1>4, <1>6 DEF Served, Full
  <2>4. \A a \in Cores : job'[a] = job'[b] => a = b
    BY <1>1, <1>2, <1>6
  <2>5. HoldsRest(b)'
    BY <1>1, <1>2, <1>3, <1>4, <1>6, <2>1, <2>2, <2>3, <2>4 DEF HoldsRest
  <2> QED
    BY <1>1, <1>2, <1>6, <2>5
<1>7. CASE b # c
  <2>1. job'[b] = job[b] /\ pkts'[b] = pkts[b] /\ coreState'[b] = coreState[b]
    BY <1>2, <1>7
  <2>2. ASSUME job[b] # NoJob PROVE HoldsRest(b)'
    <3>1. HoldsRest(b) /\ job[b] # j
      BY <1>1, <1>7, <2>2 DEF JobInv, CoresInv
    <3>2. IsRest(job[b], pkts[b])' <=> IsRest(job[b], pkts[b])
      BY <1>4, <2>1 DEF IsRest
    <3>3. Served(job[b])' = Served(job[b]) /\ Full(job[b])' = Full(job[b])
      <4>1. PICK k : k = job[b]
        OBVIOUS
      <4>2. Served(k)' = Served(k) /\ Full(k)' = Full(k)
        BY <1>3, <1>4, <3>1, <4>1
      <4>3. Served(job[b])' = Served(k)' /\ Full(job[b])' = Full(k)'
        BY <2>1, <4>1 DEF Served, Full
      <4> QED
        BY <4>1, <4>2, <4>3
    <3>4. \A a \in Cores : job'[a] = job'[b] => a = b
      BY <1>2, <2>1, <3>1 DEF HoldsRest
    <3> QED
      BY <1>4, <2>1, <3>1, <3>2, <3>3, <3>4 DEF HoldsRest
  <2> QED
    BY <2>1, <2>2 DEF JobInv, CoresInv
<1> QED
  BY <1>6, <1>7

LEMMA RunsLast ==
  ASSUME TypeOK, JobInv, NEW c \in Cores, NEW j, NEW before, CoreRuns(c, j, before),
         trace' = trace
  PROVE  LastInv'
<1>1. /\ job'[c] = j /\ \A a \in Cores \ {c} : job'[a] = job[a] /\ pkts'[a] = pkts[a]
      /\ \A a \in Cores \ {c} : job[a] # j
      /\ \A k : Full(k)' = Full(k)
      /\ j \in Jobs /\ Full(j) \in Seq(Resources)
  BY RecordingTables DEF CoreRuns, SendsNext, Send, ReadyToRun, TypeOK, Full
<1>2. CASE before = <<>> /\ sent' = sent /\ pkts'[c] = <<>>
  <2> SUFFICES ASSUME NEW a \in Cores, NEW i \in DOMAIN sent
               PROVE  /\ sent[i].job = job'[a] => sent[i].core = a
                      /\ LastOn(a, i) =>
                           sent[i].nth = IF sent[i].job = job'[a]
                                         THEN Len(Full(job'[a])) - Len(pkts'[a])
                                         ELSE Len(Full(sent[i].job))
    BY <1>1, <1>2 DEF LastInv, LastOn
  <2>1. CASE a = c
    BY <1>1, <1>2, <2>1 DEF CoreRuns, ReadyToRun
  <2>2. CASE a # c
    <3>1. job'[a] = job[a] /\ pkts'[a] = pkts[a]
      BY <1>1, <2>2
    <3>2. /\ sent[i].job = job[a] => sent[i].core = a
          /\ LastOn(a, i) =>
               sent[i].nth = IF sent[i].job = job[a] THEN Len(Full(job[a])) - Len(pkts[a])
                             ELSE Len(Full(sent[i].job))
      BY DEF JobInv, LastInv
    <3> QED
      BY <3>1, <3>2
  <2> QED
    BY <2>1, <2>2
<1>3. CASE /\ before # <<>> /\ pkts'[c] = Tail(before)
           /\ \E p \in SentPacket :
                /\ sent' = Append(sent, p)
                /\ p.core = c /\ p.job = j /\ p.nth = Served(j) + 1
  <2>1. PICK p \in SentPacket :
          sent' = Append(sent, p) /\ p.core = c /\ p.job = j /\ p.nth = Served(j) + 1
    BY <1>3
  <2> DEFINE n == Len(sent) + 1
  <2>2. /\ DOMAIN sent' = (DOMAIN sent) \cup {n} /\ n \notin DOMAIN sent
        /\ DOMAIN sent = 1 .. Len(sent) /\ Len(sent) \in Nat /\ Len(sent') = n
        /\ sent'[n] = p /\ \A i \in DOMAIN sent : sent'[i] = sent[i]
    BY <2>1 DEF JobInv, SentOK
  <2>3. Served(j) = Len(Full(j)) - Len(before) /\ before \in Seq(Resources)
    BY DEF CoreRuns, ReadyToRun
  <2>4. p.nth = Len(Full(j)) - Len(Tail(before))
    BY <1>1, <1>3, <2>1, <2>3
  <2> SUFFICES ASSUME NEW a \in Cores, NEW i \in DOMAIN sent'
               PROVE  /\ sent'[i].job = job'[a] => sent'[i].core = a
                      /\ LastOn(a, i)' =>
                           sent'[i].nth = IF sent'[i].job = job'[a]
                                          THEN Len(Full(job'[a])) - Len(pkts'[a])
                                          ELSE Len(Full(sent'[i].job))
    BY <1>1 DEF LastInv
  <2>5. CASE i = n
    <3>1. sent'[i] = p
      BY <2>2, <2>5
    <3>2. CASE a = c
      BY <1>1, <1>3, <2>1, <2>4, <3>1, <3>2
    <3>3. CASE a # c
      BY <1>1, <2>1, <3>1, <3>3 DEF LastOn
    <3> QED
      BY <3>2, <3>3
  <2>6. CASE i # n
    <3>1. i \in DOMAIN sent /\ sent'[i] = sent[i] /\ n \in i + 1 .. n
      BY <2>2, <2>6
    <3>2. LastOn(a, i)' => p.core # a
      BY <2>2, <3>1 DEF LastOn
    <3>3. LastOn(a, i)' => LastOn(a, i)
      BY <2>2, <3>1 DEF LastOn
    <3>4. CASE a = c
      BY <1>1, <2>1, <3>1, <3>2, <3>4 DEF CoreRuns, ReadyToRun
    <3>5. CASE a # c
      <4>1. /\ sent[i].job = job[a] => sent[i].core = a
            /\ LastOn(a, i) =>
                 sent[i].nth = IF sent[i].job = job[a] THEN Len(Full(job[a])) - Len(pkts[a])
                               ELSE Len(Full(sent[i].job))
        BY <3>1 DEF JobInv, LastInv
      <4>2. job'[a] = job[a] /\ pkts'[a] = pkts[a]
        BY <1>1, <3>5
      <4> QED
        BY <3>1, <3>3, <4>1, <4>2
    <3> QED
      BY <3>4, <3>5
  <2> QED
    BY <2>5, <2>6
<1> QED
  BY <1>2, <1>3, RunsSends DEF JobInv
-----------------------------------------------------------------------------
(***************************************************************************)
(* A tick of a core keeps the job invariant.                               *)
(***************************************************************************)
LEMMA SameScenes ==
  ASSUME trace' = trace, nextScene' = nextScene
  PROVE  /\ Loaded' = Loaded
         /\ \A k : JobsOf(k)' = JobsOf(k) /\ Full(k)' = Full(k)
BY DEF Loaded, JobsOf, Scene, Full

LEMMA IdleKeepsJobs ==
  ASSUME TypeOK, JobInv, NEW c \in Cores, CoreIdle(c), trace' = trace, nextScene' = nextScene
  PROVE  JobInv'
<1>1. /\ queue' = queue /\ pkts' = pkts /\ sent' = sent
      /\ job'[c] = NoJob /\ coreState'[c] = "IDLE" /\ pkts[c] = <<>>
      /\ \A b \in Cores \ {c} : job'[b] = job[b] /\ coreState'[b] = coreState[b]
  BY DEF CoreIdle, NeedsJob, TypeOK, JobInv, CoresInv
<1>2. /\ \A k : Served(k)' = Served(k) /\ JobsOf(k)' = JobsOf(k) /\ Full(k)' = Full(k)
      /\ Loaded' = Loaded
  BY <1>1, ServedSame, SameScenes
<1>3. SentOK' /\ ScenesInv'
  BY <1>1 DEF JobInv, SentOK, SentPacket, ScenesInv
<1>4. CoresInv'
  <2> SUFFICES ASSUME NEW b \in Cores, job'[b] # NoJob
               PROVE  HoldsRest(b)' /\ coreState'[b] # "IDLE"
    BY <1>1 DEF CoresInv, JobInv
  <2>1. b # c /\ job'[b] = job[b] /\ coreState'[b] = coreState[b] /\ HoldsRest(b)
    BY <1>1 DEF JobInv, CoresInv
  <2>2. PICK k : k = job[b]
    OBVIOUS
  <2>3. Served(job[b])' = Served(k)' /\ Full(job[b])' = Full(k)'
    BY <2>1, <2>2 DEF Served, Full
  <2>4. IsRest(job[b], pkts[b])' <=> IsRest(job[b], pkts[b])
    BY <1>1, <1>2, <2>1 DEF IsRest
  <2>5. \A a \in Cores : job'[a] = job'[b] => a = b
    BY <1>1, <2>1 DEF HoldsRest
  <2>6. HoldsRest(b)'
    BY <1>1, <1>2, <2>1, <2>2, <2>3, <2>4, <2>5 DEF HoldsRest
  <2> QED
    BY <2>1, <2>6 DEF JobInv, CoresInv
<1>5. QueuesInv'
  <2> SUFFICES ASSUME NEW d \in Dev, NEW i \in DOMAIN queue[d]
               PROVE  nextScene' > 0 /\ Waits(d, i)'
    BY <1>1 DEF QueuesInv
  <2>1. nextScene > 0 /\ Waits(d, i) /\ queue[d][i] \in Jobs
    BY DEF JobInv, QueuesInv, TypeOK
  <2>2. PICK k : k = queue[d][i]
    OBVIOUS
  <2>3. Served(queue[d][i])' = Served(k)'
    BY <1>1, <2>2 DEF Served
  <2>4. \A b \in Cores : job'[b] # queue[d][i]
    BY <1>1, <2>1, ConfigAssumption DEF Waits
  <2> QED
    BY <1>1, <1>2, <2>1, <2>2, <2>3, <2>4 DEF Waits
<1>6. ServedInv'
  <2> SUFFICES ASSUME NEW j \in Jobs
               PROVE  /\ j \in Loaded => Queued(j)' \/ OnCore(j)' \/ Served(j)' = Len(Full(j)')
                      /\ j \notin Loaded => Served(j)' = 0
    BY <1>2 DEF ServedInv
  <2>1. Queued(j)' <=> Queued(j)
    BY <1>1 DEF Queued
  <2>2. CASE job[c] = j
    <3>1. HoldsRest(c) /\ Full(j) \in Seq(Resources)
      BY <2>2, ConfigAssumption, RecordingTables DEF JobInv, CoresInv, TypeOK
    <3>2. Served(j) = Len(Full(j)) /\ j \in Loaded
      BY <1>1, <2>2, <3>1 DEF HoldsRest
    <3> QED
      BY <1>2, <3>2
  <2>3. CASE job[c] # j
    <3>1. OnCore(j) => OnCore(j)'
      BY <1>1, <2>3 DEF OnCore
    <3> QED
      BY <1>2, <2>1, <3>1 DEF JobInv, ServedInv
  <2> QED
    BY <2>2, <2>3
<1>7. LastInv'
  <2> SUFFICES ASSUME NEW b \in Cores, NEW i \in DOMAIN sent
               PROVE  /\ sent[i].job = job'[b] => sent[i].core = b
                      /\ LastOn(b, i) =>
                           sent[i].nth = IF sent[i].job = job'[b]
                                         THEN Len(Full(job'[b])) - Len(pkts[b])
                                         ELSE Len(Full(sent[i].job))
    BY <1>1, <1>2 DEF LastInv, LastOn
  <2>1. sent[i].job \in Jobs /\ sent[i].job # NoJob
    BY SentTypes, ConfigAssumption DEF JobInv
  <2>2. Len(Full(sent[i].job)) \in Nat
    BY <2>1, RecordingTables DEF TypeOK
  <2>3. /\ sent[i].job = job[b] => sent[i].core = b
        /\ LastOn(b, i) =>
             sent[i].nth = IF sent[i].job = job[b] THEN Len(Full(job[b])) - Len(pkts[b])
                           ELSE Len(Full(sent[i].job))
    BY DEF JobInv, LastInv
  <2>4. CASE b = c
    <3>1. job'[b] = NoJob /\ Len(pkts[b]) = 0
      BY <1>1, <2>4
    <3>2. LastOn(b, i) => sent[i].nth = Len(Full(sent[i].job))
      BY <2>2, <2>3, <3>1
    <3> QED
      BY <2>1, <3>1, <3>2
  <2>5. CASE b # c
    <3>1. job'[b] = job[b]
      BY <1>1, <2>5
    <3> QED
      BY <2>3, <3>1
  <2> QED
    BY <2>4, <2>5
<1> QED
  BY <1>3, <1>4, <1>5, <1>6, <1>7 DEF JobInv

(* A job that runs leaves the jobs still queued alone.                     *)
LEMMA RunsQueues ==
  ASSUME TypeOK, JobInv, NEW c \in Cores, NEW j, NEW before, CoreRuns(c, j, before),
         trace' = trace, nextScene' = nextScene,
         NEW d \in Dev, NEW i \in DOMAIN queue[d], queue[d][i] # j,
         NEW k \in DOMAIN queue'[d], queue'[d][k] = queue[d][i],
         \A l \in DOMAIN queue'[d] : queue'[d][l] = queue'[d][k] => l = k
  PROVE  nextScene' > 0 /\ Waits(d, k)'
<1>1. nextScene > 0 /\ Waits(d, i)
  BY DEF JobInv, QueuesInv
<1>2. PICK q : q = queue[d][i]
  OBVIOUS
<1>3. Served(q)' = Served(q)
  BY <1>2, RunsServed DEF JobInv
<1>4. Served(queue[d][k])' = Served(q)'
  BY <1>2 DEF Served
<1>5. \A b \in Cores : job'[b] # q
  BY <1>1, <1>2 DEF CoreRuns, SendsNext, Waits, TypeOK
<1> QED
  BY <1>1, <1>2, <1>3, <1>4, <1>5, SameScenes DEF Waits

LEMMA RunKeepsJobs ==
  ASSUME TypeOK, JobInv, NEW c \in Cores, CoreNewJob(c) \/ CoreSend(c),
         trace' = trace, nextScene' = nextScene
  PROVE  JobInv'
<1> DEFINE d == DevOf(c)
           j == IF NeedsJob(c) THEN Head(queue[d]) ELSE job[c]
           before == IF NeedsJob(c) THEN Full(j) ELSE pkts[c]
<1>1. CoreRuns(c, j, before)
  <2>1. CASE CoreNewJob(c)
    <3>1. NeedsJob(c)
      BY <2>1 DEF CoreNewJob
    <3> QED
      BY <2>1, <3>1, NewJobRuns
  <2>2. CASE CoreSend(c)
    <3>1. ~NeedsJob(c)
      BY <2>2 DEF CoreSend
    <3> QED
      BY <2>2, <3>1, SendRuns
  <2> QED
    BY <2>1, <2>2
<1>2. d \in Dev /\ \A e \in Dev : queue[e] \in Seq(Jobs)
  BY DEF DevOf, Dev, TypeOK
<1>3. j \in Jobs /\ j \in JobsOf(nextScene) /\ nextScene \in 1 .. Len(trace.scenes)
  BY <1>1 DEF CoreRuns, ReadyToRun
<1>4. \/ /\ NeedsJob(c) /\ queue[d] # <<>> /\ j = queue[d][1]
         /\ \A e \in Dev \ {d} : queue'[e] = queue[e]
         /\ queue'[d] = Tail(queue[d])
      \/ /\ ~NeedsJob(c) /\ job[c] = j /\ queue' = queue
  <2>1. CASE CoreNewJob(c)
    <3>1. /\ NeedsJob(c) /\ queue[d] # <<>>
          /\ queue' = [queue EXCEPT ![d] = Tail(queue[d])]
      BY <2>1 DEF CoreNewJob
    <3>2. j = queue[d][1]
      BY <1>2, <3>1
    <3>3. queue' = [queue EXCEPT ![d] = Tail(queue[d])] /\ DOMAIN queue = Dev
      BY <3>1 DEF TypeOK
    <3> HIDE DEF d
    <3> QED
      BY <1>2, <3>1, <3>2, <3>3
  <2>2. CASE CoreSend(c)
    BY <2>2 DEF CoreSend
  <2> QED
    BY <2>1, <2>2
<1>5. /\ job'[c] = j
      /\ \A b \in Cores \ {c} : job'[b] = job[b]
      /\ SentOK'
  BY <1>1, RunsSentOK DEF CoreRuns, SendsNext, TypeOK, JobInv
<1> HIDE DEF d, j, before
<1>6. \A e \in Dev : \A i \in DOMAIN queue[e] :
        queue[e][i] = j => NeedsJob(c) /\ e = d /\ i = 1
  <2> SUFFICES ASSUME NEW e \in Dev, NEW i \in DOMAIN queue[e], queue[e][i] = j
               PROVE  NeedsJob(c) /\ e = d /\ i = 1
    OBVIOUS
  <2>1. Waits(e, i)
    BY DEF JobInv, QueuesInv
  <2>2. job[c] # j
    BY <2>1 DEF Waits
  <2>3. NeedsJob(c) /\ queue[d] # <<>> /\ j = queue[d][1]
    BY <1>4, <2>2
  <2>4. 1 \in DOMAIN queue[d]
    BY <1>2, <2>3
  <2>5. Waits(d, 1)
    BY <1>2, <2>4 DEF JobInv, QueuesInv
  <2>6. e = d
    BY <2>1, <2>3, <2>5 DEF Waits
  <2> QED
    BY <2>1, <2>3, <2>4, <2>6 DEF Waits
<1>7. \A e \in Dev : \A k \in DOMAIN queue'[e] :
        \E i \in DOMAIN queue[e] :
          /\ queue'[e][k] = queue[e][i] /\ queue[e][i] # j
          /\ \A l \in DOMAIN queue'[e] : queue'[e][l] = queue'[e][k] => l = k
  <2> SUFFICES ASSUME NEW e \in Dev, NEW k \in DOMAIN queue'[e]
               PROVE  \E i \in DOMAIN queue[e] :
                        /\ queue'[e][k] = queue[e][i] /\ queue[e][i] # j
                        /\ \A l \in DOMAIN queue'[e] : queue'[e][l] = queue'[e][k] => l = k
    OBVIOUS
  <2>1. \A i \in DOMAIN queue[e] : \A l \in DOMAIN queue[e] :
          queue[e][l] = queue[e][i] => l = i
    BY DEF JobInv, QueuesInv, Waits
  <2>2. CASE NeedsJob(c) /\ e = d
    <3>1. queue'[e] = Tail(queue[e]) /\ queue[e] \in Seq(Jobs) /\ queue[e] # <<>>
      BY <1>2, <1>4, <2>2
    <3>2. /\ \A l \in DOMAIN queue'[e] :
               l + 1 \in DOMAIN queue[e] /\ queue'[e][l] = queue[e][l + 1] /\ l \in Nat /\ l # 0
      BY <3>1
    <3>3. queue[e][k + 1] # j
      BY <1>6, <3>2
    <3> QED
      BY <2>1, <3>2, <3>3
  <2>3. CASE ~(NeedsJob(c) /\ e = d)
    <3>1. queue'[e] = queue[e]
      BY <1>4, <2>3
    <3> QED
      BY <1>6, <2>1, <2>3, <3>1
  <2> QED
    BY <2>2, <2>3
<1>8. QueuesInv'
  <2> SUFFICES ASSUME NEW e \in Dev, NEW k \in DOMAIN queue'[e]
               PROVE  nextScene' > 0 /\ Waits(e, k)'
    BY DEF QueuesInv
  <2>1. PICK i \in DOMAIN queue[e] :
          /\ queue'[e][k] = queue[e][i] /\ queue[e][i] # j
          /\ \A l \in DOMAIN queue'[e] : queue'[e][l] = queue'[e][k] => l = k
    BY <1>7
  <2> QED
    BY <1>1, <2>1, RunsQueues
<1>9. ServedInv'
  <2> SUFFICES ASSUME NEW k \in Jobs
               PROVE  /\ k \in Loaded => Queued(k)' \/ OnCore(k)' \/ Served(k)' = Len(Full(k))
                      /\ k \notin Loaded => Served(k)' = 0
    BY SameScenes DEF ServedInv
  <2>1. j \in Loaded
    BY <1>3 DEF Loaded
  <2>2. CASE k = j
    BY <1>5, <2>1, <2>2 DEF OnCore
  <2>3. CASE k # j
    <3>1. Served(k)' = Served(k)
      BY <1>1, <2>3, RunsServed DEF JobInv
    <3>2. CASE Queued(k)
      <4>1. PICK e \in Dev : \E i \in DOMAIN queue[e] : queue[e][i] = k
        BY <3>2 DEF Queued
      <4>2. PICK i \in DOMAIN queue[e] : queue[e][i] = k
        BY <4>1
      <4>3. \E l \in DOMAIN queue'[e] : queue'[e][l] = k
        <5>1. CASE NeedsJob(c) /\ e = d
          <6>1. queue'[e] = Tail(queue[e]) /\ queue[e] \in Seq(Jobs) /\ queue[e] # <<>>
                /\ j = queue[e][1]
            BY <1>2, <1>4, <5>1
          <6>2. i # 1
            BY <2>3, <4>2, <6>1
          <6>3. i - 1 \in DOMAIN queue'[e] /\ queue'[e][i - 1] = queue[e][i]
            BY <6>1, <6>2
          <6> QED
            BY <4>2, <6>3
        <5>2. CASE ~(NeedsJob(c) /\ e = d)
          <6>1. queue'[e] = queue[e]
            BY <1>4, <5>2
          <6> QED
            BY <4>2, <6>1
        <5> QED
          BY <5>1, <5>2
      <4>4. Queued(k)'
        BY <4>3 DEF Queued
      <4>5. k \in Loaded
        <5>1. k \in JobsOf(nextScene)
          BY <4>2 DEF JobInv, QueuesInv, Waits
        <5> QED
          BY <1>3, <5>1 DEF Loaded
      <4> QED
        BY <4>4, <4>5
    <3>3. CASE OnCore(k)
      <4>1. PICK b \in Cores : job[b] = k
        BY <3>3 DEF OnCore
      <4>2. k # NoJob /\ HoldsRest(b)
        BY <4>1, ConfigAssumption DEF JobInv, CoresInv
      <4>3. k \in Loaded
        BY <4>1, <4>2 DEF HoldsRest
      <4>4. CASE b # c
        BY <1>5, <4>1, <4>3, <4>4 DEF OnCore
      <4>5. CASE b = c
        <5>1. NeedsJob(c)
          BY <1>4, <2>3, <4>1, <4>5
        <5>2. pkts[c] = <<>>
          BY <4>1, <4>2, <4>5, <5>1 DEF NeedsJob
        <5>3. Full(k) \in Seq(Resources)
          BY RecordingTables DEF TypeOK
        <5>4. Served(k) = Len(Full(k))
          BY <4>1, <4>2, <4>5, <5>2, <5>3 DEF HoldsRest
        <5> QED
          BY <3>1, <4>3, <5>4
      <4> QED
        BY <4>4, <4>5
    <3>4. CASE ~Queued(k) /\ ~OnCore(k)
      BY <3>1, <3>4 DEF JobInv, ServedInv
    <3> QED
      BY <3>2, <3>3, <3>4
  <2> QED
    BY <2>2, <2>3
<1>10. CoresInv' /\ LastInv' /\ ScenesInv'
  BY <1>1, RunsCores, RunsLast DEF JobInv, ScenesInv
<1> QED
  BY <1>5, <1>8, <1>9, <1>10 DEF JobInv

LEMMA TickKeepsJobs ==
  ASSUME TypeOK, JobInv, NEW c \in Cores, CoreTick(c), trace' = trace, nextScene' = nextScene
  PROVE  JobInv'
BY IdleKeepsJobs, RunKeepsJobs DEF CoreTick
-----------------------------------------------------------------------------
(***************************************************************************)
(* Loading a scene.  It is queued whole, and only once nothing of the      *)
(* scenes before it is left.                                               *)
(***************************************************************************)
Drained(d) == queue[d] = <<>> /\ \A c \in Cores : DevOf(c) = d => pkts[c] = <<>>

AllDrained == \A d \in Dev : Drained(d)

LEMMA DrainedMeansServed ==
  ASSUME TypeOK, JobInv, AllDrained
  PROVE  /\ \A j \in Loaded : Served(j) = Len(Full(j))
         /\ \A c \in Cores : pkts[c] = <<>>
<1>1. \A d \in Dev : queue[d] = <<>>
  BY DEF AllDrained, Drained
<1>2. \A c \in Cores : pkts[c] = <<>>
  BY DEF AllDrained, Drained, DevOf, Dev
<1>3. \A j \in Jobs : ~Queued(j)
  BY <1>1 DEF Queued
<1>4. ASSUME NEW j \in Loaded PROVE Served(j) = Len(Full(j))
  <2>1. j \in Jobs /\ j # NoJob /\ Full(j) \in Seq(Resources)
    BY ConfigAssumption, RecordingTables DEF Loaded, TypeOK
  <2>2. CASE OnCore(j)
    <3>1. PICK c \in Cores : job[c] = j
      BY <2>2 DEF OnCore
    <3>2. HoldsRest(c)
      BY <2>1, <3>1 DEF JobInv, CoresInv
    <3> QED
      BY <1>2, <2>1, <3>1, <3>2 DEF HoldsRest
  <2>3. CASE ~OnCore(j)
    BY <1>3, <2>1, <2>3 DEF JobInv, ServedInv
  <2> QED
    BY <2>2, <2>3
<1> QED
  BY <1>2, <1>4

(* An order of the jobs of a scene for a device holds each of them once,   *)
(* unless the z order misses some.                                         *)
LEMMA OrdersHold ==
  ASSUME NEW s \in SceneInfo, NEW d \in Dev, trace \in Traces, NEW q \in Orders(s, d)
  PROVE  /\ \A i, k \in DOMAIN q : q[i] = q[k] => i = k
         /\ \A i \in DOMAIN q : q[i] \in ToSet(s.jobs) /\ trace.jobs[q[i]].dev = d
         /\ EverythingScheduled(s) =>
              \A j \in ToSet(s.jobs) :
                trace.jobs[j].dev = d => \E i \in DOMAIN q : q[i] = j
<1> DEFINE walk == ZWalk(s)
           S == {j \in JobsFor(s, d) : ~Missed(s, walk, j)}
<1>1. q \in SetToSeqs(S)
  BY DEF Orders, Arranged
<1>2. IsFiniteSet(S)
  <2>1. S \subseteq JobsFor(s, d)
    OBVIOUS
  <2> HIDE DEF S
  <2> QED
    BY <2>1, JobsForFinite, FS_Subset
<1>3. EverythingScheduled(s) => S = JobsFor(s, d)
  BY DEF EverythingScheduled, JobsFor
<1>4. S \subseteq JobsFor(s, d)
  OBVIOUS
<1> HIDE DEF S, walk
<1>5. Cardinality(S) \in Nat
  BY <1>2, FS_CardinalityType
<1>6. /\ q \in [1 .. Cardinality(S) -> S]
      /\ \A i, k \in 1 .. Cardinality(S) : i # k => q[i] # q[k]
  BY <1>1 DEF SetToSeqs
<1>7. IsFiniteSet(1 .. Cardinality(S)) /\ Cardinality(1 .. Cardinality(S)) = Cardinality(S)
  BY <1>5, FS_Interval
<1>8. q \in Injection(1 .. Cardinality(S), S)
  BY <1>6 DEF Injection, IsInjective
<1>9. q \in Surjection(1 .. Cardinality(S), S)
  BY <1>2, <1>7, <1>8, FS_Injection
<1>10. \A j \in S : \E i \in DOMAIN q : q[i] = j
  BY <1>6, <1>9 DEF Surjection
<1>11. \A i \in DOMAIN q : q[i] \in ToSet(s.jobs) /\ trace.jobs[q[i]].dev = d
  BY <1>4, <1>6 DEF JobsFor
<1>12. \A j \in ToSet(s.jobs) : trace.jobs[j].dev = d => j \in JobsFor(s, d)
  BY DEF JobsFor
<1> QED
  BY <1>3, <1>6, <1>10, <1>11, <1>12

LEMMA SameLast ==
  ASSUME LastInv, UNCHANGED <<trace, job, pkts, sent>>
  PROVE  LastInv'
<1> SUFFICES ASSUME NEW c \in Cores, NEW i \in DOMAIN sent
             PROVE  (/\ sent[i].job = job[c] => sent[i].core = c
                     /\ LastOn(c, i) =>
                          sent[i].nth = IF sent[i].job = job[c]
                                        THEN Len(Full(job[c])) - Len(pkts[c])
                                        ELSE Len(Full(sent[i].job)))'
  BY DEF LastInv
<1>1. LastOn(c, i)' <=> LastOn(c, i)
  BY DEF LastOn
<1>2. Full(job[c])' = Full(job[c]) /\ Full(sent[i].job)' = Full(sent[i].job)
  BY DEF Full
<1>3. /\ sent[i].job = job[c] => sent[i].core = c
      /\ LastOn(c, i) =>
           sent[i].nth = IF sent[i].job = job[c] THEN Len(Full(job[c])) - Len(pkts[c])
                         ELSE Len(Full(sent[i].job))
  BY DEF LastInv
<1> QED
  BY <1>1, <1>2, <1>3

LEMMA SameJobs ==
  ASSUME JobInv,
         UNCHANGED <<trace, queue, nextScene, job, pkts, coreState, sent>>
  PROVE  JobInv'
<1>1. SentOK' /\ ScenesInv'
  BY DEF JobInv, SentOK, SentPacket, ScenesInv
<1>2. CoresInv'
  <2>1. \A c \in Cores : HoldsRest(c)' <=> HoldsRest(c)
    <3> SUFFICES ASSUME NEW c \in Cores PROVE HoldsRest(c)' <=> HoldsRest(c)
      OBVIOUS
    <3>1. IsRest(job[c], pkts[c])' <=> IsRest(job[c], pkts[c])
      BY DEF IsRest, Full
    <3>2. Served(job[c])' = Served(job[c]) /\ Full(job[c])' = Full(job[c])
      BY DEF Served, Full
    <3>3. Loaded' = Loaded /\ JobsOf(nextScene)' = JobsOf(nextScene)
      BY DEF Loaded, JobsOf, Scene
    <3> QED
      BY <3>1, <3>2, <3>3 DEF HoldsRest
  <2> QED
    BY <2>1 DEF JobInv, CoresInv
<1>3. QueuesInv'
  <2> SUFFICES ASSUME NEW d \in Dev, NEW i \in DOMAIN queue[d]
               PROVE  nextScene > 0 /\ Waits(d, i)'
    BY DEF QueuesInv
  <2>1. nextScene > 0 /\ Waits(d, i)
    BY DEF JobInv, QueuesInv
  <2>2. Served(queue[d][i])' = Served(queue[d][i])
    BY DEF Served
  <2>3. JobsOf(nextScene)' = JobsOf(nextScene)
    BY DEF JobsOf, Scene
  <2> QED
    BY <2>1, <2>2, <2>3 DEF Waits
<1>4. ServedInv'
  <2>1. Loaded' = Loaded
    BY DEF Loaded, JobsOf, Scene
  <2> SUFFICES ASSUME NEW j \in Jobs
               PROVE  /\ j \in Loaded => Queued(j)' \/ OnCore(j)' \/ Served(j)' = Len(Full(j)')
                      /\ j \notin Loaded => Served(j)' = 0
    BY <2>1 DEF ServedInv
  <2>2. Queued(j) => Queued(j)'
    BY DEF Queued
  <2>3. OnCore(j) => OnCore(j)'
    BY DEF OnCore
  <2>4. Served(j)' = Served(j) /\ Full(j)' = Full(j)
    BY DEF Served, Full
  <2> QED
    BY <2>2, <2>3, <2>4 DEF JobInv, ServedInv
<1> QED
  BY <1>1, <1>2, <1>3, <1>4, SameLast DEF JobInv

Loads ==
  /\ nextScene < Len(trace.scenes) /\ nextScene' = nextScene + 1
  /\ EverythingScheduled(Scene(nextScene + 1))
  /\ \A d \in Dev : queue'[d] \in Orders(Scene(nextScene + 1), d)

LEMMA LoadKeepsJobs ==
  ASSUME TypeOK, JobInv, AllDrained, Loads, UNCHANGED <<trace, job, pkts, coreState, sent>>
  PROVE  JobInv'
<1> DEFINE n == nextScene + 1
<1>1. /\ nextScene \in Nat /\ n \in 1 .. Len(trace.scenes) /\ Len(trace.scenes) \in Nat
      /\ Scene(n) \in SceneInfo /\ JobsOf(n) \subseteq Jobs
      /\ trace \in Traces
      /\ 1 .. n = (1 .. nextScene) \cup {n}
      /\ 1 .. nextScene \subseteq 1 .. Len(trace.scenes) /\ n \notin 1 .. nextScene
  BY RecordingTables DEF Loads, TypeOK
<1>2. \A k : JobsOf(k)' = JobsOf(k) /\ Full(k)' = Full(k) /\ Served(k)' = Served(k)
  BY DEF JobsOf, Scene, Full, Served
<1>3. nextScene' = n
  BY DEF Loads
<1>4. Loaded' = Loaded \cup JobsOf(n)
  BY <1>1, <1>2, <1>3 DEF Loaded
<1>5. \A j \in JobsOf(n) : j \notin Loaded
  BY <1>1, OneScene DEF Loaded
<1>6. \A c \in Cores : pkts[c] = <<>> /\ (job[c] # NoJob => job[c] \in Loaded)
  BY DrainedMeansServed DEF JobInv, CoresInv, HoldsRest
<1>7. /\ \A d \in Dev : /\ \A i, k \in DOMAIN queue'[d] : queue'[d][i] = queue'[d][k] => i = k
                        /\ \A i \in DOMAIN queue'[d] :
                             queue'[d][i] \in JobsOf(n) /\ trace.jobs[queue'[d][i]].dev = d
      /\ \A j \in JobsOf(n) : \E d \in Dev : \E i \in DOMAIN queue'[d] : queue'[d][i] = j
  <2>1. ASSUME NEW d \in Dev
        PROVE  /\ \A i, k \in DOMAIN queue'[d] : queue'[d][i] = queue'[d][k] => i = k
               /\ \A i \in DOMAIN queue'[d] :
                    queue'[d][i] \in JobsOf(n) /\ trace.jobs[queue'[d][i]].dev = d
               /\ \A j \in JobsOf(n) : trace.jobs[j].dev = d =>
                    \E i \in DOMAIN queue'[d] : queue'[d][i] = j
    <3>1. queue'[d] \in Orders(Scene(n), d) /\ EverythingScheduled(Scene(n))
      BY DEF Loads
    <3> QED
      BY <1>1, <3>1, OrdersHold DEF JobsOf
  <2>2. \A j \in JobsOf(n) : trace.jobs[j].dev \in Dev
    BY <1>1, RecordingTables
  <2> QED
    BY <2>1, <2>2
<1> HIDE DEF n
<1>8. SentOK' /\ ScenesInv'
  BY <1>1, <1>3 DEF JobInv, SentOK, SentPacket, ScenesInv
<1>9. CoresInv'
  <2> SUFFICES ASSUME NEW c \in Cores, job[c] # NoJob PROVE HoldsRest(c)'
    BY DEF JobInv, CoresInv
  <2>1. HoldsRest(c)
    BY DEF JobInv, CoresInv
  <2>2. IsRest(job[c], pkts[c])' <=> IsRest(job[c], pkts[c])
    BY DEF IsRest, Full
  <2>3. Served(job[c])' = Served(job[c]) /\ Full(job[c])' = Full(job[c])
    BY DEF Served, Full
  <2> QED
    BY <1>4, <1>6, <2>1, <2>2, <2>3 DEF HoldsRest
<1>10. QueuesInv'
  <2> SUFFICES ASSUME NEW d \in Dev, NEW i \in DOMAIN queue'[d]
               PROVE  nextScene' > 0 /\ Waits(d, i)'
    BY DEF QueuesInv
  <2>1. PICK j : j = queue'[d][i]
    OBVIOUS
  <2>2. j \in JobsOf(n) /\ trace.jobs[j].dev = d /\ j \in Jobs /\ j \notin Loaded /\ j # NoJob
    BY <1>1, <1>5, <1>7, <2>1, ConfigAssumption
  <2>3. Served(j) = 0
    BY <2>2 DEF JobInv, ServedInv
  <2>4. Served(queue[d][i])' = Served(j)'
    BY <2>1 DEF Served
  <2>5. \A c \in Cores : job[c] # j
    BY <1>6, <2>2
  <2>6. JobsOf(nextScene)' = JobsOf(n)
    BY <1>3 DEF JobsOf, Scene
  <2> QED
    BY <1>1, <1>2, <1>3, <1>7, <2>1, <2>2, <2>3, <2>4, <2>5, <2>6 DEF Waits
<1>11. ServedInv'
  <2> SUFFICES ASSUME NEW j \in Jobs
               PROVE  /\ j \in Loaded' => Queued(j)' \/ Served(j) = Len(Full(j))
                      /\ j \notin Loaded' => Served(j) = 0
    BY <1>2 DEF ServedInv
  <2>1. j \in JobsOf(n) => Queued(j)'
    BY <1>7 DEF Queued
  <2> QED
    BY <1>4, <2>1, DrainedMeansServed DEF JobInv, ServedInv
<1>12. LastInv'
  BY SameLast DEF JobInv
<1> QED
  BY <1>8, <1>9, <1>10, <1>11, <1>12 DEF JobInv
-----------------------------------------------------------------------------
(***************************************************************************)
(* When the queues are drained.  A device that waits at the barrier of a   *)
(* scene or frame command has nothing left to run, until the CPU has       *)
(* passed that barrier.  The GPU's cores are ticked one by one: once one   *)
(* of this round found no job, there is none for the others.               *)
(***************************************************************************)
SyncInv ==
  \A d \in Dev : state[d] # "PROCESS_CMD" =>
    /\ pos[d] \in 1 .. Len(trace.cmds)
    /\ sync[d] = SyncOf(d, StreamCmd(d, trace.cmds[pos[d]].cmd))

AtBoundary(d) == sync[d] \in Draining

DrainInv ==
  /\ state["CPU"] = "W" /\ AtBoundary("CPU") => Drained("CPU")
  /\ state["GPU"] = "W" /\ AtBoundary("GPU") /\ ready["CPU"] < barrier["GPU"] =>
       Drained("GPU")
  /\ next > 1 => pc = "gpu" /\ state["GPU"] = "D" /\ AtBoundary("GPU")
  /\ \A c \in 1 .. next - 1 : coreState[c] = "IDLE" => queue["GPU"] = <<>>

(* A step that changes neither the devices nor what they work on.          *)
Quiet ==
  /\ UNCHANGED <<trace, next, devVars, schedVars, coreVars, sysVars, rscVars, outVars>>
  /\ pc' = pc \/ pc # "gpu" \/ state["GPU"] = "PROCESS_CMD"

CpuPassAny == CpuPassSync \/ CpuPassNewScene \/ CpuPassEndScene \/ CpuPassFrame

LEMMA Steps ==
  ASSUME [Next]_vars
  PROVE  \/ Quiet \/ CpuRead \/ GpuRead \/ CpuArrive \/ CpuDrain \/ CpuPassAny
         \/ GpuArriveSync \/ GpuCore \/ GpuCoresDone \/ GpuPass
<1>1. CASE UNCHANGED vars
  BY <1>1 DEF vars, Quiet, loopVars
<1>2. CASE LoopTest
  BY <1>2 DEF LoopTest, Quiet
<1>3. CASE CpuEof \/ CpuWait
  BY <1>3 DEF CpuEof, CpuWait, Quiet
<1>4. CASE GpuEof
  BY <1>4 DEF GpuEof, Quiet
<1>5. CASE StopTimer
  BY <1>5 DEF StopTimer, Quiet
<1>6. CASE Finished
  BY <1>1, <1>6 DEF Finished
<1> QED
  BY <1>1, <1>2, <1>3, <1>4, <1>5, <1>6
  DEF Next, Loop, CpuTick, GpuTick, CpuPassAny

LEMMA AnyPasses ==
  ASSUME CpuPassAny
  PROVE  CpuPasses
<1>1. CASE CpuPassSync
  BY <1>1 DEF CpuPassSync, CpuPass, CpuPasses
<1>2. CASE CpuPassNewScene
  BY <1>2 DEF CpuPassNewScene, CpuPass, CpuPasses
<1>3. CASE CpuPassEndScene
  BY <1>3 DEF CpuPassEndScene, CpuPass, CpuPasses
<1>4. CASE CpuPassFrame
  <2>1. CASE ~running \/ stop = 0
    BY <1>4, <2>1 DEF CpuPassFrame, CpuPass, CpuPasses
  <2>2. CASE ~(~running \/ stop = 0)
    BY <1>4, <2>2 DEF CpuPassFrame, CpuPass, CpuPasses
  <2> QED
    BY <2>1, <2>2
<1> QED
  BY <1>1, <1>2, <1>3, <1>4 DEF CpuPassAny

(* At the barrier of a scene or frame command nothing is left to run.      *)
LEMMA PassDrained ==
  ASSUME TypeOK, Lockstep, MeetInv, SyncInv, DrainInv, CpuPasses, AtBoundary("CPU")
  PROVE  AllDrained
<1>1. pos["CPU"] = pos["GPU"] /\ state["GPU"] = "W" /\ state["CPU"] = "W"
  BY PassTogether DEF CpuPasses
<1>2. /\ sync["CPU"] = SyncOf("CPU", StreamCmd("CPU", trace.cmds[pos["CPU"]].cmd))
      /\ sync["GPU"] = SyncOf("GPU", StreamCmd("GPU", trace.cmds[pos["CPU"]].cmd))
  BY <1>1 DEF SyncInv, Dev
<1>3. AtBoundary("GPU")
  BY <1>2 DEF AtBoundary, Draining, SyncOf, StreamCmd
<1>4. ready["CPU"] < barrier["GPU"]
  BY DEF CpuPasses, CpuPass, GpuReady, Lockstep, TypeOK, Dev
<1> QED
  BY <1>1, <1>3, <1>4 DEF DrainInv, AllDrained, Dev

LEMMA SceneLoads ==
  ASSUME TypeOK, StartNewScene, nextScene' # nextScene
  PROVE  Loads /\ pc' = "gpu"
<1> DEFINE s == trace.scenes[nextScene + 1]
           ok == /\ QueuesEmpty /\ nextScene < Len(trace.scenes)
                 /\ EverythingScheduled(s)
<1>1. ok /\ nextScene' = nextScene + 1 /\ pc' = "gpu"
  BY DEF StartNewScene
<1>2. PICK cpu \in Orders(s, "CPU"), gpu \in Orders(s, "GPU") :
        queue' = [d \in Dev |-> IF d = "CPU" THEN cpu ELSE gpu]
  BY <1>1 DEF StartNewScene
<1>3. \A d \in Dev : queue'[d] \in Orders(s, d)
  BY <1>2 DEF Dev
<1> QED
  BY <1>1, <1>3 DEF Loads, Scene

LEMMA JobStep ==
  ASSUME TypeOK, Lockstep, MeetInv, JobInv, SyncInv, DrainInv, [Next]_vars
  PROVE  JobInv'
<1> USE DEF devVars, schedVars, coreVars, sysVars, rscVars, outVars
<1>1. CASE Quiet
  BY <1>1, SameJobs DEF Quiet
<1>2. CASE CpuRead \/ GpuRead
  BY <1>2, SameJobs DEF CpuRead, GpuRead
<1>3. CASE CpuArrive
  BY <1>3, SameJobs DEF CpuArrive
<1>4. CASE CpuDrain
  <2>1. 0 \in Cores /\ CoreTick(0) /\ trace' = trace /\ nextScene' = nextScene
    BY <1>4, ConfigAssumption DEF CpuDrain, Cores
  <2> QED
    BY <2>1, TickKeepsJobs
<1>5. CASE CpuPassAny
  <2>1. UNCHANGED <<trace, job, pkts, coreState, sent>> /\ CpuPasses
    BY <1>5, AnyPasses DEF CpuPassAny, CpuPassSync, CpuPassNewScene, CpuPassEndScene,
                           CpuPassFrame, CpuPass
  <2>2. CASE CpuPassNewScene /\ nextScene' # nextScene
    <3>1. Loads /\ AtBoundary("CPU")
      BY <2>2, SceneLoads DEF CpuPassNewScene, AtBoundary, Draining
    <3> QED
      BY <2>1, <3>1, PassDrained, LoadKeepsJobs
  <2>3. CASE CpuPassNewScene /\ nextScene' = nextScene
    <3>1. queue' = queue
      BY <2>3 DEF CpuPassNewScene, StartNewScene, TypeOK
    <3> QED
      BY <2>1, <2>3, <3>1, SameJobs
  <2>4. CASE ~CpuPassNewScene
    <3>1. queue' = queue /\ nextScene' = nextScene
      BY <1>5, <2>4 DEF CpuPassAny, CpuPassSync, CpuPassEndScene, CpuPassFrame
    <3> QED
      BY <2>1, <3>1, SameJobs
  <2> QED
    BY <2>2, <2>3, <2>4
<1>6. CASE GpuArriveSync \/ GpuPass
  BY <1>6, SameJobs DEF GpuArriveSync, GpuPass
<1>7. CASE GpuCore
  <2>1. next \in Cores /\ CoreTick(next) /\ trace' = trace /\ nextScene' = nextScene
    BY <1>7, ConfigAssumption DEF GpuCore, Cores, TypeOK
  <2> QED
    BY <2>1, TickKeepsJobs
<1>8. CASE GpuCoresDone
  BY <1>8, SameJobs DEF GpuCoresDone
<1> QED
  BY <1>1, <1>2, <1>3, <1>4, <1>5, <1>6, <1>7, <1>8, Steps

LEMMA SyncStep ==
  ASSUME TypeOK, SyncInv, [Next]_vars
  PROVE  SyncInv'
<1> USE DEF devVars, schedVars, coreVars, sysVars, rscVars, outVars, Dev
<1>1. trace' = trace
  BY DeviceSteps
<1>2. ASSUME NEW d \in Dev, Read(d) PROVE SyncInv'
  <2>1. pos[d] + 1 \in 1 .. Len(trace.cmds)
    <3>1. pos[d] \in Nat /\ trace \in Traces
      BY DEF TypeOK
    <3>2. pos[d] < trace.len[d]
      BY <1>2 DEF Read, HasRecord
    <3>3. /\ trace.len[d] \in Nat /\ trace.len[d] <= Len(trace.cmds)
          /\ Len(trace.cmds) \in Nat
      BY <3>1, RecordingTypes, RecordingTables
    <3> QED
      BY <3>1, <3>2, <3>3
  <2>2. \A e \in Dev \ {d} : state'[e] = state[e] /\ pos'[e] = pos[e] /\ sync'[e] = sync[e]
    BY <1>2 DEF Read, TypeOK
  <2>3. \/ state'[d] = "PROCESS_CMD"
        \/ /\ pos'[d] = pos[d] + 1
           /\ sync'[d] = SyncOf(d, StreamCmd(d, trace.cmds[pos[d] + 1].cmd))
    BY <1>2 DEF Read, TypeOK, NextCmd
  <2> QED
    BY <1>1, <2>1, <2>2, <2>3 DEF SyncInv
<1>3. ASSUME UNCHANGED <<sync, pos>>,
             \A d \in Dev : state[d] = "PROCESS_CMD" => state'[d] = "PROCESS_CMD"
      PROVE  SyncInv'
  BY <1>1, <1>3 DEF SyncInv
<1>4. CASE Quiet
  BY <1>3, <1>4 DEF Quiet
<1>5. CASE CpuRead \/ GpuRead
  BY <1>2, <1>5 DEF CpuRead, GpuRead
<1>6. CASE CpuArrive \/ CpuDrain
  BY <1>3, <1>6 DEF CpuArrive, CpuDrain, TypeOK
<1>7. CASE CpuPassAny
  <2>1. UNCHANGED <<sync, pos>>
    BY <1>7, AnyPasses DEF CpuPasses, CpuPass
  <2>2. \/ state' = [state EXCEPT !["CPU"] = "PROCESS_CMD"]
        \/ state' = state
    BY <1>7, AnyPasses DEF CpuPasses
  <2> QED
    BY <1>3, <2>1, <2>2 DEF TypeOK
<1>8. CASE GpuArriveSync \/ GpuPass
  BY <1>3, <1>8 DEF GpuArriveSync, GpuArrive, GpuPass, TypeOK
<1>9. CASE GpuCore
  BY <1>3, <1>9 DEF GpuCore
<1>10. CASE GpuCoresDone
  BY <1>3, <1>10 DEF GpuCoresDone, GpuArrive, TypeOK
<1> QED
  BY <1>4, <1>5, <1>6, <1>7, <1>8, <1>9, <1>10, Steps

(* A tick of a core touches its own queue and no other core; it goes idle  *)
(* only when it has nothing left and finds nothing queued.                 *)
LEMMA TickTouches ==
  ASSUME TypeOK, JobInv, NEW c \in Cores, CoreTick(c)
  PROVE  /\ \A e \in Dev : e # DevOf(c) => queue'[e] = queue[e]
         /\ queue[DevOf(c)] = <<>> => queue' = queue
         /\ \A b \in Cores \ {c} : pkts'[b] = pkts[b] /\ coreState'[b] = coreState[b]
         /\ coreState'[c] \in {"RUNNING", "IDLE"}
         /\ coreState'[c] = "IDLE" =>
              queue[DevOf(c)] = <<>> /\ queue' = queue /\ pkts'[c] = <<>> /\ pkts' = pkts
<1>0. DevOf(c) \in Dev
  BY DEF DevOf, Dev
<1>1. CASE CoreIdle(c)
  BY <1>1 DEF CoreIdle, NeedsJob, TypeOK, JobInv, CoresInv
<1>2. CASE CoreNewJob(c)
  <2>1. /\ queue[DevOf(c)] # <<>>
        /\ queue' = [queue EXCEPT ![DevOf(c)] = Tail(@)]
        /\ coreState' = [coreState EXCEPT ![c] = "RUNNING"]
        /\ \E ps : pkts' = [pkts EXCEPT ![c] = ps]
    BY <1>2 DEF CoreNewJob, Send
  <2> QED
    BY <1>0, <2>1 DEF TypeOK
<1>3. CASE CoreSend(c)
  BY <1>3 DEF CoreSend, Send, TypeOK
<1> QED
  BY <1>1, <1>2, <1>3 DEF CoreTick

LEMMA DrainStep ==
  ASSUME NumGpuCores > 0, TypeOK, Lockstep, JobInv, DrainInv, [Next]_vars
  PROVE  DrainInv'
<1> USE DEF devVars, schedVars, coreVars, sysVars, rscVars, outVars, Dev
<1>1. \A c \in Cores : DevOf(c) = "CPU" <=> c = 0
  BY ConfigAssumption DEF DevOf
<1>2. next # 1 => next > 1
  BY DEF TypeOK
<1>3. CASE Quiet
  <2>1. UNCHANGED <<state, sync, ready, barrier, queue, pkts, coreState, next>>
    BY <1>3 DEF Quiet
  <2>2. \A d \in Dev : Drained(d) => Drained(d)'
    BY <2>1 DEF Drained
  <2>3. next > 1 => pc' = "gpu"
    BY <1>3 DEF Quiet, DrainInv
  <2> QED
    BY <2>1, <2>2, <2>3 DEF DrainInv, AtBoundary
<1>4. CASE CpuRead \/ GpuRead
  <2>1. PICK d \in Dev : Read(d)
    BY <1>4 DEF CpuRead, GpuRead
  <2>2. UNCHANGED <<ready, barrier, queue, pkts, coreState, next>>
    BY <1>4 DEF CpuRead, GpuRead, Read
  <2>3. next = 1
    BY <1>2, <1>4 DEF DrainInv, CpuRead, GpuRead, Read
  <2>4. \A e \in Dev : /\ state'[e] = "W" => state[e] = "W" /\ sync'[e] = sync[e]
                       /\ Drained(e) => Drained(e)'
    BY <2>1, <2>2 DEF Read, TypeOK, Drained
  <2> QED
    BY <2>2, <2>3, <2>4 DEF DrainInv, AtBoundary
<1>5. CASE CpuArrive
  <2>1. UNCHANGED <<ready, barrier, queue, pkts, coreState, next, sync>>
    BY <1>5 DEF CpuArrive
  <2>2. state'["GPU"] = state["GPU"] /\ ~AtBoundary("CPU")
    BY <1>5 DEF CpuArrive, TypeOK, AtBoundary
  <2>3. next = 1
    BY <1>2, <1>5 DEF DrainInv, CpuArrive
  <2>4. Drained("GPU") => Drained("GPU")'
    BY <2>1 DEF Drained
  <2> QED
    BY <2>1, <2>2, <2>3, <2>4 DEF DrainInv, AtBoundary
<1>6. CASE CpuDrain
  <2>1. /\ UNCHANGED <<ready, barrier, next, sync>> /\ CoreTick(0) /\ 0 \in Cores
        /\ state'["GPU"] = state["GPU"]
        /\ state'["CPU"] = "W" => coreState'[0] # "RUNNING"
    BY <1>6, ConfigAssumption DEF CpuDrain, Cores, TypeOK
  <2>2. next = 1
    BY <1>2, <1>6 DEF DrainInv, CpuDrain
  <2>3. Drained("GPU") => Drained("GPU")'
    BY <1>1, <2>1, TickTouches DEF Drained
  <2>4. state'["CPU"] = "W" => Drained("CPU")'
    BY <1>1, <2>1, TickTouches DEF Drained
  <2> QED
    BY <2>1, <2>2, <2>3, <2>4 DEF DrainInv, AtBoundary
<1>7. CASE CpuPassAny
  <2>1. UNCHANGED <<pkts, coreState, next, sync>> /\ CpuPasses
    BY <1>7, AnyPasses DEF CpuPasses, CpuPass
  <2>2. next = 1 /\ ready'["CPU"] = barrier'["GPU"]
    BY <1>2, <2>1 DEF DrainInv, CpuPasses, CpuPass, GpuReady, Lockstep, TypeOK
  <2>3. state'["CPU"] = "W" => queue' = queue /\ state' = state
    <3>1. CASE CpuPassFrame
      BY <3>1, <2>1 DEF CpuPassFrame, CpuPasses, TypeOK
    <3>2. CASE ~CpuPassFrame
      BY <1>7, <3>2 DEF CpuPassAny, CpuPassSync, CpuPassNewScene, CpuPassEndScene, TypeOK
    <3> QED
      BY <3>1, <3>2
  <2>4. state'["CPU"] = "W" => (Drained("CPU") => Drained("CPU")')
    BY <2>1, <2>3 DEF Drained
  <2>5. ready'["CPU"] \in Nat /\ ~(ready'["CPU"] < barrier'["GPU"])
    BY <2>1, <2>2 DEF CpuPasses, CpuPass, TypeOK
  <2> QED
    BY <2>1, <2>2, <2>3, <2>4, <2>5 DEF DrainInv, AtBoundary
<1>8. CASE GpuArriveSync \/ GpuPass
  <2>1. UNCHANGED <<queue, pkts, coreState, next, sync>>
    BY <1>8 DEF GpuArriveSync, GpuPass
  <2>2. /\ state'["CPU"] = state["CPU"]
        /\ state'["GPU"] = "W" /\ AtBoundary("GPU") =>
             state["GPU"] = "W" /\ ready' = ready /\ barrier' = barrier
    BY <1>8 DEF GpuArriveSync, GpuArrive, GpuPass, TypeOK, AtBoundary
  <2>3. next = 1
    BY <1>2, <1>8 DEF DrainInv, GpuArriveSync, GpuPass, AtBoundary
  <2>4. \A d \in Dev : Drained(d) => Drained(d)'
    BY <2>1 DEF Drained
  <2> QED
    BY <2>1, <2>2, <2>3, <2>4 DEF DrainInv, AtBoundary
<1>9. CASE GpuCore
  <2>1. /\ UNCHANGED <<ready, barrier, pc, sync, state>> /\ CoreTick(next)
        /\ next \in Cores /\ next # 0 /\ next' = next + 1 /\ next \in Nat
        /\ state["GPU"] = "D" /\ AtBoundary("GPU") /\ pc = "gpu"
    BY <1>9, ConfigAssumption DEF GpuCore, Cores, TypeOK, AtBoundary
  <2>2. DevOf(next) = "GPU"
    BY <2>1 DEF DevOf
  <2>3. Drained("CPU") => Drained("CPU")'
    BY <1>1, <2>1, <2>2, TickTouches DEF Drained
  <2>4. ASSUME NEW c \in 1 .. next' - 1, coreState'[c] = "IDLE" PROVE queue'["GPU"] = <<>>
    <3>1. CASE c = next
      BY <2>1, <2>2, <2>4, <3>1, TickTouches
    <3>2. CASE c # next
      <4>1. c \in 1 .. next - 1 /\ c \in Cores
        BY <2>1, <3>2, ConfigAssumption DEF Cores
      <4>2. coreState[c] = "IDLE"
        BY <2>1, <2>4, <3>2, <4>1, TickTouches
      <4>3. queue["GPU"] = <<>>
        BY <4>1, <4>2 DEF DrainInv
      <4> QED
        BY <2>1, <2>2, <4>3, TickTouches
    <3> QED
      BY <3>1, <3>2
  <2> QED
    BY <2>1, <2>3, <2>4 DEF DrainInv, AtBoundary
<1>10. CASE GpuCoresDone
  <2>1. UNCHANGED <<queue, pkts, coreState, sync>> /\ next' = 1 /\ next > NumGpuCores
    BY <1>10 DEF GpuCoresDone
  <2>2. state'["CPU"] = state["CPU"]
    BY <1>10 DEF GpuCoresDone, GpuArrive, TypeOK
  <2>3. \A d \in Dev : Drained(d) => Drained(d)'
    BY <2>1 DEF Drained
  <2>4. state'["GPU"] = "W" => Drained("GPU")'
    <3> SUFFICES ASSUME state'["GPU"] = "W" PROVE Drained("GPU")
      BY <2>3
    <3>1. \A c \in 1 .. NumGpuCores : coreState[c] = "IDLE"
      BY <1>10 DEF GpuCoresDone, GpuIdle
    <3>2. NumGpuCores \in 1 .. next - 1 /\ NumGpuCores \in 1 .. NumGpuCores
      BY <2>1, ConfigAssumption DEF TypeOK
    <3>3. queue["GPU"] = <<>>
      BY <3>1, <3>2 DEF DrainInv
    <3>4. ASSUME NEW c \in Cores, DevOf(c) = "GPU" PROVE pkts[c] = <<>>
      <4>1. c \in 1 .. NumGpuCores
        BY <1>1, <3>4, ConfigAssumption DEF Cores
      <4> QED
        BY <3>1, <4>1 DEF JobInv, CoresInv
    <3> QED
      BY <3>3, <3>4 DEF Drained
  <2> QED
    BY <2>1, <2>2, <2>3, <2>4 DEF DrainInv, AtBoundary
<1> QED
  BY <1>3, <1>4, <1>5, <1>6, <1>7, <1>8, <1>9, <1>10, Steps
-----------------------------------------------------------------------------
(***************************************************************************)
(* The first results: nothing is left behind at a boundary, and every job  *)
(* runs whole.                                                             *)
(***************************************************************************)
RunInv == TypeOK /\ Lockstep /\ MeetInv /\ JobInv /\ SyncInv /\ DrainInv

LEMMA RunInit == Init => JobInv /\ SyncInv /\ DrainInv
<1> SUFFICES ASSUME Init PROVE JobInv /\ SyncInv /\ DrainInv
  OBVIOUS
<1>1. /\ sent = <<>> /\ nextScene = 0 /\ trace \in Traces /\ next = 1
      /\ \A d \in Dev : queue[d] = <<>> /\ state[d] = "PROCESS_CMD"
      /\ \A c \in Cores : job[c] = NoJob /\ pkts[c] = <<>> /\ coreState[c] = "RUNNING"
  BY DEF Init
<1>2. SentOK /\ DOMAIN sent = {}
  BY <1>1 DEF SentOK
<1>3. ScenesInv
  BY <1>1, RecordingTables DEF ScenesInv
<1>4. CoresInv /\ QueuesInv /\ LastInv
  BY <1>1, <1>2 DEF CoresInv, QueuesInv, LastInv
<1>5. Loaded = {}
  BY <1>1 DEF Loaded
<1>6. \A j \in Jobs : Served(j) = 0
  BY <1>2, ServedType
<1>7. SyncInv /\ DrainInv
  BY <1>1 DEF SyncInv, DrainInv, Dev
<1> QED
  BY <1>2, <1>3, <1>4, <1>5, <1>6, <1>7 DEF JobInv, ServedInv

LEMMA RunHolds ==
  ASSUME NumGpuCores > 0
  PROVE  Spec => []RunInv
<1>1. Init => JobInv /\ SyncInv /\ DrainInv
  BY RunInit
<1>2. TypeOK /\ Lockstep /\ MeetInv /\ JobInv /\ SyncInv /\ DrainInv /\ [Next]_vars =>
        MeetInv' /\ JobInv' /\ SyncInv' /\ DrainInv'
  BY MeetStep, JobStep, SyncStep, DrainStep
<1> QED
  BY <1>1, <1>2, MeetInit, TypeCorrect, LockstepHolds, PTL DEF Spec, RunInv

(* When the replay loads a scene, dumps statistics or closes a frame,      *)
(* every job of every scene loaded so far has been sent to its last packet *)
(* (cpu.cc D_NEW_SCENE_SYNC to D_FRAME_SYNC, gpu.cc tick_cores).           *)
THEOREM BoundariesHold ==
  ASSUME NumGpuCores > 0
  PROVE  Spec => BoundariesAreComplete
<1>1. RunInv /\ [Next]_vars =>
        [nextScene' # nextScene \/ dumps' # dumps \/ frames' # frames =>
           \A k \in 1 .. nextScene : AllServed(k)]_vars
  <2> SUFFICES ASSUME RunInv, [Next]_vars,
                      nextScene' # nextScene \/ dumps' # dumps \/ frames' # frames,
                      NEW k \in 1 .. nextScene, NEW j \in JobsOf(k)
               PROVE  Served(j) = Len(Full(j))
    BY DEF AllServed, JobsOf, Full
  <2>1. CpuPassNewScene \/ CpuPassEndScene \/ CpuPassFrame
    BY Steps DEF Quiet, CpuRead, GpuRead, CpuArrive, CpuDrain, CpuPassAny, CpuPassSync,
                 GpuArriveSync, GpuCore, GpuCoresDone, GpuPass, schedVars, outVars
  <2>2. CpuPasses /\ AtBoundary("CPU")
    BY <2>1, AnyPasses DEF CpuPassAny, CpuPassNewScene, CpuPassEndScene, CpuPassFrame,
                           AtBoundary, Draining
  <2>3. AllDrained
    BY <2>2, PassDrained DEF RunInv
  <2>4. j \in Loaded
    <3>1. k \in 1 .. Len(trace.scenes)
      BY RecordingTables DEF RunInv, TypeOK, JobInv, ScenesInv
    <3> QED
      BY <3>1, RecordingTables DEF Loaded, RunInv, TypeOK
  <2> QED
    BY <2>3, <2>4, DrainedMeansServed DEF RunInv
<1> QED
  BY <1>1, RunHolds, PTL DEF Spec, BoundariesAreComplete

(* Anything sent is sent by a core that runs a job of the current scene    *)
(* while its device drains.                                                *)
Pending == (\E d \in Dev : queue[d] # <<>>) \/ (\E c \in Cores : pkts[c] # <<>>)

LEMMA SentStep ==
  ASSUME TypeOK, JobInv, [Next]_vars, sent' # sent
  PROVE  /\ \E c \in Cores :
              /\ state[DevOf(c)] = "D" /\ AtBoundary(DevOf(c))
              /\ \E j, before : CoreRuns(c, j, before)
         /\ Pending
         /\ CpuDrain \/ GpuCore
<1>1. CpuDrain \/ GpuCore
  BY Steps DEF Quiet, CpuRead, GpuRead, CpuArrive, CpuPassAny, CpuPassSync, CpuPassNewScene,
               CpuPassEndScene, CpuPassFrame, CpuPass, GpuArriveSync, GpuCoresDone, GpuPass,
               coreVars
<1>2. PICK c \in Cores : CoreTick(c) /\ state[DevOf(c)] = "D" /\ AtBoundary(DevOf(c))
  <2>1. CASE CpuDrain
    <3>1. 0 \in Cores /\ CoreTick(0) /\ DevOf(0) = "CPU"
      BY <2>1, ConfigAssumption DEF CpuDrain, Cores, DevOf
    <3> QED
      BY <2>1, <3>1 DEF CpuDrain, AtBoundary
  <2>2. CASE GpuCore
    <3>1. next \in Cores /\ next # 0 /\ CoreTick(next)
      BY <2>2, ConfigAssumption DEF GpuCore, Cores, TypeOK
    <3>2. DevOf(next) = "GPU"
      BY <3>1 DEF DevOf
    <3> QED
      BY <2>2, <3>1, <3>2 DEF GpuCore, AtBoundary
  <2> QED
    BY <1>1, <2>1, <2>2
<1>3. CASE CoreNewJob(c)
  <2>1. queue[DevOf(c)] # <<>> /\ DevOf(c) \in Dev
    BY <1>3 DEF CoreNewJob, DevOf, Dev
  <2>2. \E j, before : CoreRuns(c, j, before)
    BY <1>3, NewJobRuns
  <2> QED
    BY <1>1, <1>2, <2>1, <2>2 DEF Pending
<1>4. CASE CoreSend(c)
  <2>1. pkts[c] # <<>>
    BY <1>4 DEF CoreSend, NeedsJob
  <2>2. \E j, before : CoreRuns(c, j, before)
    BY <1>4, SendRuns
  <2> QED
    BY <1>1, <1>2, <2>1, <2>2 DEF Pending
<1>5. ~CoreIdle(c)
  BY DEF CoreIdle
<1> QED
  BY <1>2, <1>3, <1>4, <1>5 DEF CoreTick

(* JobsRunWhole in two parts.                                              *)
InOrder(i) ==
  /\ sent[i].nth = Cardinality({h \in 1 .. i : sent[h].job = sent[i].job})
  /\ sent[i].rsc = Full(sent[i].job)[sent[i].nth]
  /\ \A h \in 1 .. i : sent[h].job = sent[i].job => sent[h].core = sent[i].core

FinishedFirst(i, k) ==
  (/\ i < k /\ sent[i].core = sent[k].core /\ sent[i].job # sent[k].job
   /\ \A h \in i + 1 .. k - 1 : sent[h].core # sent[i].core) =>
  sent[i].nth = Len(Full(sent[i].job))

LEMMA WholeStep ==
  ASSUME TypeOK, JobInv, JobsRunWhole, [Next]_vars
  PROVE  JobsRunWhole'
<1>1. trace' = trace /\ \A k : Full(k)' = Full(k)
  BY DeviceSteps DEF Full
<1>2. \A i \in DOMAIN sent : InOrder(i) /\ \A k \in DOMAIN sent : FinishedFirst(i, k)
  BY DEF JobsRunWhole, InOrder, FinishedFirst, Full
<1>3. (\A i \in DOMAIN sent : InOrder(i) /\ \A k \in DOMAIN sent : FinishedFirst(i, k))'
      => JobsRunWhole'
  BY DEF JobsRunWhole, InOrder, FinishedFirst, Full
<1>4. CASE sent' = sent
  <2>1. ASSUME NEW i \in DOMAIN sent PROVE InOrder(i)'
    <3>1. {h \in 1 .. i : sent'[h].job = sent'[i].job} = {h \in 1 .. i : sent[h].job = sent[i].job}
      BY <1>4
    <3>2. sent'[i] = sent[i] /\ InOrder(i)
      BY <1>2, <1>4
    <3>3. sent'[i].nth = Cardinality({h \in 1 .. i : sent'[h].job = sent'[i].job})
      BY <3>1, <3>2 DEF InOrder
    <3>4. Full(sent[i].job)' = Full(sent[i].job)
      BY <1>1, <1>4 DEF Full
    <3> QED
      BY <1>4, <3>2, <3>3, <3>4 DEF InOrder
  <2>2. ASSUME NEW i \in DOMAIN sent, NEW k \in DOMAIN sent PROVE FinishedFirst(i, k)'
    <3>1. Full(sent[i].job)' = Full(sent[i].job)
      BY <1>1, <1>4 DEF Full
    <3> QED
      BY <1>2, <1>4, <3>1 DEF FinishedFirst
  <2> QED
    BY <1>3, <1>4, <2>1, <2>2
<1>5. CASE sent' # sent
  <2>10. PICK c \in Cores : \E j, before : CoreRuns(c, j, before)
    BY <1>5, SentStep
  <2>1. PICK j, before : CoreRuns(c, j, before)
    BY <2>10
  <2>2. PICK p \in SentPacket :
          /\ sent' = Append(sent, p)
          /\ p.core = c /\ p.job = j /\ p.nth = Served(j) + 1
          /\ p.rsc = Full(j)[p.nth]
    BY <1>5, <2>1, RunsSends DEF JobInv
  <2>9. PICK n \in Nat : n = Len(sent) + 1
    BY DEF JobInv, SentOK
  <2>3. /\ DOMAIN sent' = 1 .. n /\ DOMAIN sent = 1 .. (n - 1) /\ n \in Nat
        /\ sent'[n] = p /\ \A i \in DOMAIN sent : sent'[i] = sent[i]
    BY <2>2, <2>9 DEF JobInv, SentOK
  <2>4. Served(j)' = Served(j) + 1
    BY <2>2, ServedAppend DEF JobInv
  <2>5. ASSUME NEW i \in DOMAIN sent PROVE InOrder(i)'
    <3>1. i \in 1 .. (n - 1) /\ \A h \in 1 .. i : sent'[h] = sent[h]
      BY <2>3
    <3>2. {h \in 1 .. i : sent'[h].job = sent'[i].job} = {h \in 1 .. i : sent[h].job = sent[i].job}
      BY <2>3, <3>1
    <3>3. sent'[i] = sent[i] /\ InOrder(i)
      BY <1>2, <2>3
    <3>4. sent'[i].nth = Cardinality({h \in 1 .. i : sent'[h].job = sent'[i].job})
      BY <3>2, <3>3 DEF InOrder
    <3>5. Full(sent[i].job)' = Full(sent[i].job)
      BY <1>1, <3>3 DEF Full
    <3> QED
      BY <3>1, <3>3, <3>4, <3>5 DEF InOrder
  <2>6. InOrder(n)'
    <3>1. Served(j)' = Cardinality({h \in 1 .. n : sent'[h].job = j})
      BY <2>3 DEF Served
    <3>2. sent'[n].nth = Cardinality({h \in 1 .. n : sent'[h].job = sent'[n].job})
      BY <2>2, <2>3, <2>4, <3>1
    <3>3. \A h \in 1 .. n : sent'[h].job = j => sent'[h].core = c
      BY <2>1, <2>2, <2>3 DEF CoreRuns, ReadyToRun
    <3>4. Full(sent[n].job)' = Full(j)
      BY <1>1, <2>2, <2>3 DEF Full
    <3> QED
      BY <2>2, <2>3, <3>2, <3>3, <3>4 DEF InOrder
  <2>7. ASSUME NEW i \in DOMAIN sent', NEW k \in DOMAIN sent' PROVE FinishedFirst(i, k)'
    <3>1. CASE k # n
      <4>1. CASE i < k
        <5>1. i \in DOMAIN sent /\ k \in DOMAIN sent /\ FinishedFirst(i, k)
          BY <1>2, <2>3, <3>1, <4>1
        <5>2. sent'[i] = sent[i] /\ sent'[k] = sent[k]
          BY <2>3, <5>1
        <5>3. \A h \in i + 1 .. k - 1 : sent'[h] = sent[h]
          BY <2>3, <5>1
        <5>4. Full(sent[i].job)' = Full(sent[i].job)
          BY <1>1, <5>2 DEF Full
        <5> QED
          BY <5>1, <5>2, <5>3, <5>4 DEF FinishedFirst
      <4>2. CASE ~(i < k)
        BY <4>2 DEF FinishedFirst
      <4> QED
        BY <4>1, <4>2
    <3>2. CASE k = n
      <4> SUFFICES ASSUME i < n, sent'[i].core = c, sent'[i].job # j,
                          \A h \in i + 1 .. n - 1 : sent'[h].core # sent'[i].core
                   PROVE  sent'[i].nth = Len(Full(sent'[i].job))
        BY <1>1, <2>2, <2>3, <3>2 DEF FinishedFirst, Full
      <4>1. i \in DOMAIN sent /\ sent'[i] = sent[i] /\ n - 1 = Len(sent)
        BY <2>3, <2>9
      <4>2. LastOn(c, i)
        BY <2>3, <4>1 DEF LastOn
      <4> QED
        BY <2>1, <4>1, <4>2 DEF CoreRuns, ReadyToRun
    <3> QED
      BY <3>1, <3>2
  <2>8. \A i \in DOMAIN sent' : InOrder(i)'
    BY <2>3, <2>5, <2>6
  <2> QED
    BY <1>3, <2>7, <2>8
<1> QED
  BY <1>4, <1>5

(* A job runs once, whole, on one core, in the order of its trace file and *)
(* without another job between its packets (core.cc, Core::tick).          *)
THEOREM JobsAreRunWhole ==
  ASSUME NumGpuCores > 0
  PROVE  Spec => []JobsRunWhole
<1>1. Init => JobsRunWhole
  BY DEF Init, JobsRunWhole
<1>2. RunInv /\ JobsRunWhole /\ [Next]_vars => JobsRunWhole'
  BY WholeStep DEF RunInv
<1> QED
  BY <1>1, <1>2, RunHolds, PTL DEF Spec
-----------------------------------------------------------------------------
(***************************************************************************)
(* The replay's counters and the recorded commands.  The CPU has dealt     *)
(* with the first CpuAt commands; scenes and frames are counted as it      *)
(* passes the barriers of their commands.                                  *)
(***************************************************************************)
LEMMA PlacesFinite ==
  ASSUME NEW t, NEW n \in Nat, NEW cmd
  PROVE  Places(t, n, cmd) \subseteq 1 .. n /\ IsFiniteSet(Places(t, n, cmd))
<1>1. Places(t, n, cmd) \subseteq 1 .. n
  BY DEF Places
<1>2. IsFiniteSet(1 .. n)
  BY FS_Interval
<1> QED
  BY <1>1, <1>2, FS_Subset

LEMMA SeenNext ==
  ASSUME NEW t, NEW n \in Nat, NEW cmd
  PROVE  /\ Seen(t, n, cmd) \in Nat
         /\ t.cmds[n + 1].cmd = cmd => Seen(t, n + 1, cmd) = Seen(t, n, cmd) + 1
         /\ t.cmds[n + 1].cmd # cmd => Seen(t, n + 1, cmd) = Seen(t, n, cmd)
<1>1. IsFiniteSet(Places(t, n, cmd)) /\ n + 1 \notin Places(t, n, cmd)
  BY PlacesFinite
<1>2. Seen(t, n, cmd) \in Nat
  BY <1>1, FS_CardinalityType DEF Seen
<1>3. 1 .. n + 1 = (1 .. n) \cup {n + 1}
  OBVIOUS
<1>4. CASE t.cmds[n + 1].cmd = cmd
  <2>1. Places(t, n + 1, cmd) = Places(t, n, cmd) \cup {n + 1}
    BY <1>3, <1>4 DEF Places
  <2>2. Cardinality(Places(t, n + 1, cmd)) = Cardinality(Places(t, n, cmd)) + 1
    BY <1>1, <2>1, FS_AddElement
  <2> QED
    BY <1>2, <1>4, <2>2 DEF Seen
<1>5. CASE t.cmds[n + 1].cmd # cmd
  <2>1. Places(t, n + 1, cmd) = Places(t, n, cmd)
    BY <1>3, <1>5 DEF Places
  <2> QED
    BY <1>2, <1>5, <2>1 DEF Seen
<1> QED
  BY <1>2, <1>4, <1>5

LEMMA SeenNone ==
  ASSUME NEW t, NEW cmd
  PROVE  Seen(t, 0, cmd) = 0 /\ Cardinality(EndedScenes(t, 0)) = 0
<1>1. Places(t, 0, cmd) = {} /\ EndedScenes(t, 0) = {}
  BY DEF Places, EndedScenes
<1> QED
  BY <1>1, FS_EmptySet DEF Seen

LEMMA EndedNext ==
  ASSUME NEW t, NEW n \in Nat
  PROVE  /\ Cardinality(EndedScenes(t, n)) \in Nat
         /\ Cardinality(EndedScenes(t, n + 1)) =
              IF t.cmds[n + 1].cmd = "NEW_FRAME" THEN 0
              ELSE IF t.cmds[n + 1].cmd = "END_SCENE"
                   THEN Cardinality(EndedScenes(t, n)) + 1
                   ELSE Cardinality(EndedScenes(t, n))
<1> DEFINE cmd == t.cmds[n + 1].cmd
<1>1. Places(t, n + 1, "END_SCENE") =
        IF cmd = "END_SCENE" THEN Places(t, n, "END_SCENE") \cup {n + 1}
        ELSE Places(t, n, "END_SCENE")
  <2>1. 1 .. n + 1 = (1 .. n) \cup {n + 1}
    OBVIOUS
  <2> QED
    BY <2>1 DEF Places
<1>2. Places(t, n, "END_SCENE") \subseteq 1 .. n
  BY DEF Places
<1>3. EndedScenes(t, n) \subseteq 1 .. n
  BY <1>2 DEF EndedScenes
<1>4. IsFiniteSet(EndedScenes(t, n)) /\ n + 1 \notin EndedScenes(t, n)
  <2>1. IsFiniteSet(1 .. n)
    BY FS_Interval
  <2> QED
    BY <1>3, <2>1, FS_Subset
<1>5. Cardinality(EndedScenes(t, n)) \in Nat
  BY <1>4, FS_CardinalityType
<1>6. \A i \in 1 .. n : i .. n + 1 = (i .. n) \cup {n + 1}
  OBVIOUS
<1>7. (n + 1) .. n + 1 = {n + 1}
  OBVIOUS
<1>8. CASE cmd = "NEW_FRAME"
  <2>1. \A i \in Places(t, n + 1, "END_SCENE") : i \in 1 .. n
    BY <1>1, <1>2, <1>8
  <2>2. EndedScenes(t, n + 1) = {}
    BY <1>6, <1>8, <2>1 DEF EndedScenes
  <2> QED
    BY <1>5, <1>8, <2>2, FS_EmptySet
<1>9. CASE cmd = "END_SCENE"
  <2>1. EndedScenes(t, n + 1) = EndedScenes(t, n) \cup {n + 1}
    <3>1. \A i \in 1 .. n : (\A h \in i .. n + 1 : t.cmds[h].cmd # "NEW_FRAME")
                        <=> (\A h \in i .. n : t.cmds[h].cmd # "NEW_FRAME")
      BY <1>6, <1>9
    <3>2. \A h \in (n + 1) .. n + 1 : t.cmds[h].cmd # "NEW_FRAME"
      BY <1>7, <1>9
    <3> QED
      BY <1>1, <1>2, <1>9, <3>1, <3>2 DEF EndedScenes
  <2> QED
    BY <1>4, <1>5, <1>9, <2>1, FS_AddElement
<1>10. CASE cmd \notin {"NEW_FRAME", "END_SCENE"}
  <2>1. \A i \in 1 .. n : (\A h \in i .. n + 1 : t.cmds[h].cmd # "NEW_FRAME")
                      <=> (\A h \in i .. n : t.cmds[h].cmd # "NEW_FRAME")
    BY <1>6, <1>10
  <2>2. EndedScenes(t, n + 1) = EndedScenes(t, n)
    BY <1>1, <1>2, <1>10, <2>1 DEF EndedScenes
  <2> QED
    BY <1>5, <1>10, <2>2
<1> QED
  BY <1>5, <1>8, <1>9, <1>10

(* Which command a synchronisation of the CPU stands for.                  *)
LEMMA CpuSyncs ==
  ASSUME NEW cmd, NEW s, s = SyncOf("CPU", StreamCmd("CPU", cmd))
  PROVE  /\ s = "NEW_SCENE_SYNC" <=> cmd = "NEW_SCENE"
         /\ s = "END_SCENE_SYNC" <=> cmd = "END_SCENE"
         /\ s = "FRAME_SYNC" <=> cmd = "NEW_FRAME"
BY DEF SyncOf, StreamCmd

CpuAt == IF state["CPU"] = "PROCESS_CMD" THEN pos["CPU"] ELSE pos["CPU"] - 1

Live == pc # "abort" /\ (running \/ pc = "cpu")

(* frame_nbr and scene_nbr are those the next scene command was recorded   *)
(* under; next_frame_id and next_scene_id keep up with the recording.      *)
CountInv ==
  /\ nextScene <= Seen(trace, CpuAt, "NEW_SCENE")
  /\ pc # "abort" => nextScene = Seen(trace, CpuAt, "NEW_SCENE")
  /\ Live => /\ frameNbr = Seen(trace, CpuAt, "NEW_FRAME")
             /\ sceneNbr = Cardinality(EndedScenes(trace, CpuAt))
             /\ frameNbr < trace.frames
             /\ nextFrame = frameNbr + 1

NumberInv ==
  Pending => /\ nextScene > 0
             /\ frameNbr = Scene(nextScene).frame
             /\ sceneNbr = Scene(nextScene).id

LEMMA CpuAtType ==
  ASSUME TypeOK, SyncInv
  PROVE  /\ CpuAt \in Nat
         /\ state["CPU"] # "PROCESS_CMD" => CpuAt + 1 = pos["CPU"]
<1>1. pos["CPU"] \in Nat
  BY DEF TypeOK, Dev
<1>2. CASE state["CPU"] = "PROCESS_CMD"
  BY <1>1, <1>2 DEF CpuAt
<1>3. CASE state["CPU"] # "PROCESS_CMD"
  <2>1. pos["CPU"] \in 1 .. Len(trace.cmds)
    BY <1>3 DEF SyncInv, Dev
  <2> QED
    BY <1>1, <1>3, <2>1 DEF CpuAt
<1> QED
  BY <1>2, <1>3

LEMMA LiveBefore ==
  ASSUME TypeOK, [Next]_vars
  PROVE  /\ pc = "abort" => pc' = "abort"
         /\ Live' => Live
<1>1. pc = "abort" => pc' = "abort"
  <2> SUFFICES ASSUME pc = "abort" PROVE pc' = "abort"
    OBVIOUS
  <2>1. ~Loop
    BY DEF Loop, LoopTest, CpuTick, GpuTick, CpuRead, CpuEof, CpuArrive, CpuDrain, CpuWait,
           CpuPassSync, CpuPassNewScene, CpuPassEndScene, CpuPassFrame, CpuPass, GpuRead,
           GpuEof, GpuArriveSync, GpuCore, GpuCoresDone, GpuPass
  <2> QED
    BY <2>1 DEF Next, vars, loopVars, StopTimer, Finished
<1> QED
  BY <1>1, DeviceSteps DEF Live

LEMMA CountsAt ==
  ASSUME trace' = trace, NEW n, CpuAt' = n,
         nextScene' <= Seen(trace, n, "NEW_SCENE"),
         pc' # "abort" => nextScene' = Seen(trace, n, "NEW_SCENE"),
         Live' => /\ frameNbr' = Seen(trace, n, "NEW_FRAME")
                  /\ sceneNbr' = Cardinality(EndedScenes(trace, n))
                  /\ frameNbr' < trace.frames
                  /\ nextFrame' = frameNbr' + 1
  PROVE  CountInv'
<1>1. \A cmd : Seen(trace, CpuAt, cmd)' = Seen(trace, n, cmd)
  BY DEF Seen, Places
<1>2. Cardinality(EndedScenes(trace, CpuAt))' = Cardinality(EndedScenes(trace, n))
  BY DEF EndedScenes, Places
<1> QED
  BY <1>1, <1>2 DEF CountInv

(* Commands that are not about scenes and frames leave the counters alone. *)
LEMMA SameCounts ==
  ASSUME TypeOK, SyncInv, CountInv, [Next]_vars, NEW n \in Nat, CpuAt' = n,
         \/ n = CpuAt
         \/ /\ n = CpuAt + 1
            /\ trace.cmds[n].cmd \notin {"NEW_SCENE", "END_SCENE", "NEW_FRAME"},
         UNCHANGED <<frameNbr, sceneNbr, nextScene, nextFrame>>
  PROVE  CountInv'
<1>1. trace' = trace /\ (pc = "abort" => pc' = "abort") /\ (Live' => Live)
  BY DeviceSteps, LiveBefore
<1>2. CpuAt \in Nat
  BY CpuAtType
<1>3. /\ Seen(trace, n, "NEW_SCENE") = Seen(trace, CpuAt, "NEW_SCENE")
      /\ Seen(trace, n, "NEW_FRAME") = Seen(trace, CpuAt, "NEW_FRAME")
      /\ Cardinality(EndedScenes(trace, n)) = Cardinality(EndedScenes(trace, CpuAt))
  <2>1. CASE n = CpuAt
    BY <2>1
  <2>2. CASE /\ n = CpuAt + 1
             /\ trace.cmds[n].cmd \notin {"NEW_SCENE", "END_SCENE", "NEW_FRAME"}
    <3>1. /\ Seen(trace, CpuAt + 1, "NEW_SCENE") = Seen(trace, CpuAt, "NEW_SCENE")
          /\ Seen(trace, CpuAt + 1, "NEW_FRAME") = Seen(trace, CpuAt, "NEW_FRAME")
      <4>1. /\ trace.cmds[CpuAt + 1].cmd # "NEW_SCENE"
            /\ trace.cmds[CpuAt + 1].cmd # "NEW_FRAME"
        BY <2>2
      <4> QED
        BY <1>2, <4>1, SeenNext
    <3>2. Cardinality(EndedScenes(trace, CpuAt + 1)) = Cardinality(EndedScenes(trace, CpuAt))
      BY <1>2, <2>2, EndedNext
    <3> QED
      BY <2>2, <3>1, <3>2
  <2> QED
    BY <2>1, <2>2
<1> QED
  BY <1>1, <1>3, CountsAt DEF CountInv

LEMMA StartsOrAborts ==
  ASSUME StartNewScene
  PROVE  nextScene' = nextScene + 1 \/ (nextScene' = nextScene /\ pc' = "abort")
<1> DEFINE ok == /\ QueuesEmpty /\ nextScene < Len(trace.scenes)
                 /\ EverythingScheduled(trace.scenes[nextScene + 1])
<1>1. IF ok THEN nextScene' = nextScene + 1 ELSE nextScene' = nextScene /\ pc' = "abort"
  BY DEF StartNewScene
<1> QED
  BY <1>1

LEMMA CountStep ==
  ASSUME TypeOK, JobInv, SyncInv, CountInv, [Next]_vars
  PROVE  CountInv'
<1> USE DEF devVars, schedVars, coreVars, sysVars, rscVars, outVars, Dev
<1>1. trace' = trace /\ (pc = "abort" => pc' = "abort") /\ (Live' => Live)
  BY DeviceSteps, LiveBefore
<1>2. CpuAt \in Nat /\ (state["CPU"] # "PROCESS_CMD" => CpuAt + 1 = pos["CPU"])
  BY CpuAtType
<1>3. ASSUME UNCHANGED <<frameNbr, sceneNbr, nextScene, nextFrame>>,
             pos'["CPU"] = pos["CPU"],
             state'["CPU"] = "PROCESS_CMD" <=> state["CPU"] = "PROCESS_CMD"
      PROVE  CountInv'
  <2>1. CpuAt' = CpuAt
    BY <1>3 DEF CpuAt
  <2> QED
    BY <1>2, <1>3, <2>1, SameCounts
<1>4. CASE Quiet
  BY <1>3, <1>4 DEF Quiet
<1>5. CASE CpuRead
  <2>1. /\ UNCHANGED <<frameNbr, sceneNbr, nextScene, nextFrame>>
        /\ state["CPU"] = "PROCESS_CMD" /\ pos'["CPU"] = pos["CPU"] + 1
    BY <1>5 DEF CpuRead, Read, TypeOK
  <2>2. CASE SyncOf("CPU", NextCmd("CPU")) = "NONE"
    <3>1. CpuAt' = CpuAt + 1 /\ CpuAt = pos["CPU"]
      BY <1>5, <2>1, <2>2 DEF CpuRead, Read, CpuAt
    <3>2. trace.cmds[CpuAt + 1].cmd \notin {"NEW_SCENE", "END_SCENE", "NEW_FRAME"}
      BY <2>2, <3>1, CpuSyncs DEF NextCmd
    <3> QED
      BY <1>2, <2>1, <3>1, <3>2, SameCounts
  <2>3. CASE SyncOf("CPU", NextCmd("CPU")) # "NONE"
    <3>1. CpuAt' = CpuAt
      <4>1. state'["CPU"] = "D" /\ pos["CPU"] \in Nat
        BY <1>5, <2>3 DEF CpuRead, Read, TypeOK
      <4> QED
        BY <2>1, <4>1 DEF CpuAt
    <3> QED
      BY <1>2, <2>1, <3>1, SameCounts
  <2> QED
    BY <2>2, <2>3
<1>6. CASE GpuRead
  BY <1>3, <1>6 DEF GpuRead, Read, TypeOK
<1>7. CASE CpuArrive
  BY <1>3, <1>7 DEF CpuArrive, TypeOK
<1>8. CASE CpuDrain
  BY <1>3, <1>8 DEF CpuDrain, TypeOK
<1>9. CASE GpuArriveSync \/ GpuCoresDone
  BY <1>3, <1>9 DEF GpuArriveSync, GpuCoresDone, GpuArrive, TypeOK
<1>10. CASE GpuCore \/ GpuPass
  BY <1>3, <1>10 DEF GpuCore, GpuPass, TypeOK
<1>11. CASE CpuPassAny
  <2>1. /\ state["CPU"] = "W" /\ pos' = pos /\ CpuPass /\ pc = "cpu"
        /\ \/ state' = [state EXCEPT !["CPU"] = "PROCESS_CMD"]
           \/ state' = state /\ ~running' /\ pc' = "gpu"
    BY <1>11, AnyPasses DEF CpuPasses, CpuPass
  <2>2. PICK n \in Nat : n = CpuAt
    BY <1>2
  <2>3. PICK cmd : cmd = trace.cmds[n + 1].cmd
    OBVIOUS
  <2>4. /\ n + 1 = pos["CPU"] /\ sync["CPU"] = SyncOf("CPU", StreamCmd("CPU", cmd))
    BY <1>2, <2>1, <2>2, <2>3 DEF SyncInv
  <2>5. /\ state'["CPU"] = "PROCESS_CMD" => CpuAt' = n + 1
        /\ state'["CPU"] # "PROCESS_CMD" => CpuAt' = n
    BY <2>1, <2>2, <2>4 DEF CpuAt
  <2>6. state'["CPU"] = "PROCESS_CMD" \/ ~Live'
    BY <2>1 DEF Live, TypeOK
  <2>7. CASE CpuPassSync
    <3>1. state'["CPU"] = "PROCESS_CMD"
      BY <2>7 DEF CpuPassSync, TypeOK
    <3>2. cmd \notin {"NEW_SCENE", "END_SCENE", "NEW_FRAME"}
      BY <2>4, <2>7, CpuSyncs DEF CpuPassSync
    <3>3. UNCHANGED <<frameNbr, sceneNbr, nextScene, nextFrame>>
      BY <2>7 DEF CpuPassSync
    <3> QED
      BY <2>2, <2>3, <2>5, <3>1, <3>2, <3>3, SameCounts
  <2>8. /\ Live /\ pc # "abort"
        /\ nextScene = Seen(trace, n, "NEW_SCENE") /\ nextScene \in Nat
        /\ frameNbr = Seen(trace, n, "NEW_FRAME") /\ frameNbr \in Nat
        /\ sceneNbr = Cardinality(EndedScenes(trace, n)) /\ sceneNbr \in Nat
        /\ frameNbr < trace.frames /\ nextFrame = frameNbr + 1
    BY <2>1, <2>2 DEF CountInv, Live, TypeOK
  <2>12. /\ Seen(trace, n + 1, "NEW_SCENE") =
              IF cmd = "NEW_SCENE" THEN Seen(trace, n, "NEW_SCENE") + 1
              ELSE Seen(trace, n, "NEW_SCENE")
         /\ Seen(trace, n + 1, "NEW_FRAME") =
              IF cmd = "NEW_FRAME" THEN Seen(trace, n, "NEW_FRAME") + 1
              ELSE Seen(trace, n, "NEW_FRAME")
    BY <2>3, SeenNext
  <2>13. Cardinality(EndedScenes(trace, n + 1)) =
           IF cmd = "NEW_FRAME" THEN 0
           ELSE IF cmd = "END_SCENE" THEN Cardinality(EndedScenes(trace, n)) + 1
                ELSE Cardinality(EndedScenes(trace, n))
    BY <2>3, EndedNext
  <2>9. CASE CpuPassNewScene
    <3>1. state'["CPU"] = "PROCESS_CMD" /\ UNCHANGED <<frameNbr, sceneNbr, nextFrame>>
      BY <2>9 DEF CpuPassNewScene, TypeOK
    <3>2. cmd = "NEW_SCENE"
      BY <2>4, <2>9, CpuSyncs DEF CpuPassNewScene
    <3>3. nextScene' = nextScene + 1 \/ (nextScene' = nextScene /\ pc' = "abort")
      BY <2>9, StartsOrAborts DEF CpuPassNewScene
    <3>4. /\ Seen(trace, n + 1, "NEW_SCENE") = nextScene + 1
          /\ Seen(trace, n + 1, "NEW_FRAME") = frameNbr
          /\ Cardinality(EndedScenes(trace, n + 1)) = sceneNbr
      BY <2>8, <2>12, <2>13, <3>2
    <3>5. pc' = "abort" => ~Live'
      BY DEF Live
    <3> QED
      BY <1>1, <2>5, <2>8, <3>1, <3>3, <3>4, <3>5, CountsAt
  <2>10. CASE CpuPassEndScene
    <3>1. /\ state'["CPU"] = "PROCESS_CMD" /\ sceneNbr' = sceneNbr + 1
          /\ UNCHANGED <<frameNbr, nextScene, nextFrame>>
      BY <2>10 DEF CpuPassEndScene, TypeOK
    <3>2. cmd = "END_SCENE"
      BY <2>4, <2>10, CpuSyncs DEF CpuPassEndScene
    <3>4. /\ Seen(trace, n + 1, "NEW_SCENE") = nextScene
          /\ Seen(trace, n + 1, "NEW_FRAME") = frameNbr
          /\ Cardinality(EndedScenes(trace, n + 1)) = sceneNbr + 1
      BY <2>8, <2>12, <2>13, <3>2
    <3> QED
      BY <1>1, <2>5, <2>8, <3>1, <3>4, CountsAt
  <2>11. CASE CpuPassFrame
    <3>1. frameNbr' = frameNbr + 1 /\ sceneNbr' = 0 /\ nextScene' = nextScene
      BY <2>11 DEF CpuPassFrame, EndFrame
    <3>2. cmd = "NEW_FRAME"
      BY <2>4, <2>11, CpuSyncs DEF CpuPassFrame
    <3>3. /\ Seen(trace, n + 1, "NEW_SCENE") = nextScene
          /\ Seen(trace, n + 1, "NEW_FRAME") = frameNbr + 1
          /\ Cardinality(EndedScenes(trace, n + 1)) = 0
      BY <2>8, <2>12, <2>13, <3>2
    <3>4. Live' => frameNbr + 1 < trace.frames /\ nextFrame' = nextFrame + 1
      <4>1. CASE ~running \/ stop = 0
        BY <2>11, <4>1 DEF CpuPassFrame, Live
      <4>2. CASE ~(~running \/ stop = 0) /\ frameNbr + 1 < trace.frames
        BY <2>11, <4>2 DEF CpuPassFrame
      <4>3. CASE ~(~running \/ stop = 0) /\ ~(frameNbr + 1 < trace.frames)
        BY <2>11, <4>3 DEF CpuPassFrame, Live
      <4> QED
        BY <4>1, <4>2, <4>3
    <3>5. CASE state'["CPU"] = "PROCESS_CMD"
      BY <1>1, <2>5, <2>8, <3>1, <3>3, <3>4, <3>5, CountsAt
    <3>6. CASE state'["CPU"] # "PROCESS_CMD"
      BY <1>1, <2>5, <2>6, <2>8, <3>1, <3>6, CountsAt
    <3> QED
      BY <3>5, <3>6
  <2> QED
    BY <1>11, <2>7, <2>9, <2>10, <2>11 DEF CpuPassAny
<1> QED
  BY <1>4, <1>5, <1>6, <1>7, <1>8, <1>9, <1>10, <1>11, Steps

LEMMA DrainedNotPending ==
  ASSUME AllDrained
  PROVE  ~Pending
<1>1. \A c \in Cores : DevOf(c) \in Dev
  BY DEF DevOf, Dev
<1> QED
  BY <1>1 DEF AllDrained, Drained, Pending

(* Only loading a scene puts something in the queues.                      *)
LEMMA PendingBefore ==
  ASSUME TypeOK, JobInv, [Next]_vars, nextScene' = nextScene, Pending'
  PROVE  Pending
<1> USE DEF devVars, schedVars, coreVars, sysVars, rscVars, outVars
<1>1. ASSUME UNCHANGED <<queue, pkts>> PROVE Pending
  BY <1>1 DEF Pending
<1>2. ASSUME NEW c \in Cores, CoreTick(c) PROVE Pending
  <2>1. CASE CoreIdle(c)
    BY <1>1, <2>1 DEF CoreIdle
  <2>2. CASE CoreNewJob(c)
    BY <2>2 DEF CoreNewJob, DevOf, Dev, Pending
  <2>3. CASE CoreSend(c)
    BY <2>3 DEF CoreSend, NeedsJob, Pending
  <2> QED
    BY <1>2, <2>1, <2>2, <2>3 DEF CoreTick
<1>3. CASE CpuDrain
  BY <1>2, <1>3, ConfigAssumption DEF CpuDrain, Cores
<1>4. CASE GpuCore
  <2>1. next \in Cores /\ CoreTick(next)
    BY <1>4, ConfigAssumption DEF GpuCore, Cores, TypeOK
  <2> QED
    BY <1>2, <2>1
<1>5. CASE CpuPassAny
  <2>1. queue' = queue /\ pkts' = pkts
    <3>1. CASE CpuPassNewScene
      BY <3>1 DEF CpuPassNewScene, CpuPass, StartNewScene, TypeOK
    <3>2. CASE ~CpuPassNewScene
      BY <1>5, <3>2 DEF CpuPassAny, CpuPassSync, CpuPassEndScene, CpuPassFrame, CpuPass
    <3> QED
      BY <3>1, <3>2
  <2> QED
    BY <1>1, <2>1
<1>6. CASE Quiet \/ CpuRead \/ GpuRead \/ CpuArrive \/ GpuArriveSync \/ GpuCoresDone \/ GpuPass
  BY <1>1, <1>6 DEF Quiet, CpuRead, GpuRead, CpuArrive, GpuArriveSync, GpuCoresDone, GpuPass
<1> QED
  BY <1>3, <1>4, <1>5, <1>6, Steps

LEMMA NumberStep ==
  ASSUME TypeOK, Lockstep, MeetInv, JobInv, SyncInv, DrainInv, CountInv, NumberInv,
         [Next]_vars
  PROVE  NumberInv'
<1> USE DEF devVars, schedVars, coreVars, sysVars, rscVars, outVars
<1>1. trace' = trace
  BY DeviceSteps
<1>2. CASE CpuPassNewScene /\ nextScene' # nextScene
  <2>1. /\ nextScene < Len(trace.scenes) /\ nextScene' = nextScene + 1
        /\ UNCHANGED <<frameNbr, sceneNbr>>
    BY <1>2, SceneLoads DEF CpuPassNewScene, Loads
  <2>2. PICK n \in Nat : n = CpuAt
    BY CpuAtType
  <2>3. /\ state["CPU"] = "W" /\ pc = "cpu" /\ sync["CPU"] = "NEW_SCENE_SYNC"
    BY <1>2 DEF CpuPassNewScene, CpuPass
  <2>4. /\ n + 1 = pos["CPU"] /\ n + 1 \in 1 .. Len(trace.cmds)
        /\ trace.cmds[n + 1].cmd = "NEW_SCENE"
    BY <2>2, <2>3, CpuAtType, CpuSyncs DEF SyncInv, Dev
  <2>5. /\ nextScene = Seen(trace, n, "NEW_SCENE") /\ nextScene \in Nat
        /\ frameNbr = Seen(trace, n, "NEW_FRAME")
        /\ sceneNbr = Cardinality(EndedScenes(trace, n))
    BY <2>2, <2>3 DEF CountInv, Live, TypeOK
  <2>6. /\ Seen(trace, n + 1, "NEW_SCENE") = nextScene + 1
        /\ Seen(trace, n + 1, "NEW_FRAME") = frameNbr
    BY <2>4, <2>5, SeenNext
  <2>7. Cardinality(EndedScenes(trace, n + 1)) = sceneNbr
    BY <2>4, <2>5, EndedNext
  <2>8. ScenesMatchCommands(trace)
    BY RecordingsAssumption DEF TypeOK
  <2>9. n + 1 \in Places(trace, Len(trace.cmds), "NEW_SCENE")
    BY <2>4 DEF Places
  <2>10. nextScene + 1 <= Len(trace.scenes)
    BY <2>1, <2>5, RecordingTables DEF TypeOK
  <2>11. /\ Scene(nextScene + 1).frame = frameNbr
         /\ Scene(nextScene + 1).id = sceneNbr
    BY <2>6, <2>7, <2>8, <2>9, <2>10 DEF ScenesMatchCommands, Scene
  <2> QED
    BY <1>1, <2>1, <2>5, <2>11 DEF NumberInv, Scene
<1>3. CASE CpuPassEndScene \/ CpuPassFrame
  <2>1. CpuPasses /\ AtBoundary("CPU")
    BY <1>3, AnyPasses DEF CpuPassAny, CpuPassEndScene, CpuPassFrame, AtBoundary, Draining
  <2>2. ~Pending
    BY <2>1, PassDrained, DrainedNotPending
  <2>3. nextScene' = nextScene
    BY <1>3 DEF CpuPassEndScene, CpuPassFrame
  <2> QED
    BY <2>2, <2>3, PendingBefore DEF NumberInv
<1>4. CASE ~(CpuPassNewScene /\ nextScene' # nextScene) /\ ~(CpuPassEndScene \/ CpuPassFrame)
  <2>1. UNCHANGED <<nextScene, frameNbr, sceneNbr>>
    BY <1>4, Steps DEF Quiet, CpuRead, GpuRead, CpuArrive, CpuDrain, CpuPassAny, CpuPassSync,
       CpuPassNewScene, GpuArriveSync, GpuCore, GpuCoresDone, GpuPass
  <2> QED
    BY <1>1, <2>1, PendingBefore DEF NumberInv, Scene
<1> QED
  BY <1>2, <1>3, <1>4

CountsHold == CountInv /\ NumberInv

LEMMA CountInit == Init => CountsHold
<1> SUFFICES ASSUME Init PROVE CountsHold
  OBVIOUS
<1>1. /\ CpuAt = 0 /\ nextScene = 0 /\ frameNbr = 0 /\ sceneNbr = 0 /\ trace \in Traces
      /\ pc = "loop"
  BY DEF Init, CpuAt, Dev
<1>2. Live => trace.frames > 0 /\ nextFrame = 1
  <2>1. trace.frames = 0 => ~running
    BY DEF Init
  <2>2. trace.frames # 0 => nextFrame = 1
    BY DEF Init
  <2> QED
    BY <1>1, <2>1, <2>2, RecordingTables DEF Live
<1>3. CountInv
  BY <1>1, <1>2, SeenNone DEF CountInv
<1>4. ~Pending
  BY DEF Init, Pending
<1> QED
  BY <1>3, <1>4 DEF CountsHold, NumberInv

LEMMA CountersHold ==
  ASSUME NumGpuCores > 0
  PROVE  Spec => []CountsHold
<1>1. RunInv /\ CountsHold /\ [Next]_vars => CountsHold'
  BY CountStep, NumberStep DEF RunInv, CountsHold
<1> QED
  BY <1>1, CountInit, RunHolds, PTL DEF Spec

(* The place of a job's scene, once the job is known to be in it.          *)
LEMMA SceneIs ==
  ASSUME trace \in Traces, NEW k \in 1 .. Len(trace.scenes), NEW j \in JobsOf(k)
  PROVE  SceneOf(j) = k
<1>1. DOMAIN trace.scenes = 1 .. Len(trace.scenes)
  BY RecordingTables
<1>2. \A m \in DOMAIN trace.scenes : j \in ToSet(Scene(m).jobs) => m = k
  BY <1>1, OneScene DEF JobsOf
<1>3. k \in DOMAIN trace.scenes /\ j \in ToSet(Scene(k).jobs)
  BY <1>1 DEF JobsOf
<1> QED
  BY <1>2, <1>3 DEF SceneOf

Numbered(i) ==
  /\ sent[i].frame = Scene(SceneOf(sent[i].job)).frame
  /\ sent[i].scene = Scene(SceneOf(sent[i].job)).id

LEMMA RightStep ==
  ASSUME TypeOK, JobInv, NumberInv, RightFrameAndScene, [Next]_vars
  PROVE  RightFrameAndScene'
<1>1. trace' = trace
  BY DeviceSteps
<1>2. \A j : Scene(SceneOf(j))' = Scene(SceneOf(j))
  BY <1>1 DEF Scene, SceneOf
<1>3. \A i \in DOMAIN sent : Numbered(i)
  BY DEF RightFrameAndScene, Numbered
<1>4. (\A i \in DOMAIN sent : Numbered(i))' => RightFrameAndScene'
  BY DEF RightFrameAndScene, Numbered
<1>5. CASE sent' = sent
  BY <1>1, <1>3, <1>4, <1>5 DEF Numbered, Scene, SceneOf
<1>6. CASE sent' # sent
  <2>1. PICK c \in Cores : \E j, before : CoreRuns(c, j, before)
    BY <1>6, SentStep
  <2>2. PICK j, before : CoreRuns(c, j, before)
    BY <2>1
  <2>3. PICK p \in SentPacket :
          sent' = Append(sent, p) /\ p.job = j /\ p.frame = frameNbr /\ p.scene = sceneNbr
    BY <1>6, <2>2, RunsSends DEF JobInv
  <2>4. nextScene \in 1 .. Len(trace.scenes) /\ j \in JobsOf(nextScene)
    BY <2>2 DEF CoreRuns, ReadyToRun
  <2>5. SceneOf(j) = nextScene
    BY <2>4, SceneIs DEF TypeOK
  <2>6. p.frame = Scene(SceneOf(j)).frame /\ p.scene = Scene(SceneOf(j)).id
    BY <1>6, <2>3, <2>5, SentStep DEF NumberInv
  <2>7. /\ DOMAIN sent' = (DOMAIN sent) \cup {Len(sent) + 1}
        /\ sent'[Len(sent) + 1] = p
        /\ \A i \in DOMAIN sent : sent'[i] = sent[i]
    BY <2>3 DEF JobInv, SentOK
  <2> SUFFICES ASSUME NEW i \in DOMAIN sent' PROVE Numbered(i)'
    BY <1>4
  <2>8. PICK m : m = sent'[i].job
    OBVIOUS
  <2>9. sent'[i].frame = Scene(SceneOf(m)).frame /\ sent'[i].scene = Scene(SceneOf(m)).id
    <3>1. CASE i \in DOMAIN sent
      BY <1>3, <2>7, <2>8, <3>1 DEF Numbered
    <3>2. CASE i = Len(sent) + 1
      BY <2>3, <2>6, <2>7, <2>8, <3>2
    <3> QED
      BY <2>7, <3>1, <3>2
  <2> QED
    BY <1>1, <2>8, <2>9 DEF Numbered, Scene, SceneOf
<1> QED
  BY <1>5, <1>6

(* The analyzers see every packet under the frame and scene it was         *)
(* recorded in: the counters of the replay agree with the recording when   *)
(* the scene is loaded, and stay until its last job is done (cpu.cc,       *)
(* handle_end_scene and handle_end_frame).                                 *)
THEOREM FrameAndSceneAreRight ==
  ASSUME NumGpuCores > 0
  PROVE  Spec => []RightFrameAndScene
<1>1. Init => RightFrameAndScene
  BY DEF Init, RightFrameAndScene
<1>2. RunInv /\ CountsHold /\ RightFrameAndScene /\ [Next]_vars => RightFrameAndScene'
  BY RightStep DEF RunInv, CountsHold
<1> QED
  BY <1>1, <1>2, RunHolds, CountersHold, PTL DEF Spec
-----------------------------------------------------------------------------
(***************************************************************************)
(* Resources.  The tracker has met every resource whose creation the CPU   *)
(* read.  The GPU's jobs run while it drains at a command of its own       *)
(* stream; the barrier ids keep the CPU from being a synchronising command *)
(* behind or ahead, so the CPU has read every creation that was recorded   *)
(* before the scene was over.                                              *)
(***************************************************************************)
LEMMA SyncsReadGrows ==
  ASSUME NEW m \in Nat, NEW n \in Nat, m <= n
  PROVE  /\ Cardinality(SyncsRead(m)) <= Cardinality(SyncsRead(n))
         /\ \A i \in SyncsRead(n) : m < i =>
              Cardinality(SyncsRead(m)) + 1 <= Cardinality(SyncsRead(n))
<1>1. /\ IsFiniteSet(SyncsRead(m)) /\ Cardinality(SyncsRead(m)) \in Nat
      /\ IsFiniteSet(SyncsRead(n)) /\ Cardinality(SyncsRead(n)) \in Nat
  BY SyncsReadFinite
<1>2. SyncsRead(m) \subseteq SyncsRead(n)
  BY DEF SyncsRead
<1>3. ASSUME NEW i \in SyncsRead(n), m < i
      PROVE  Cardinality(SyncsRead(m)) + 1 <= Cardinality(SyncsRead(n))
  <2>1. i \notin SyncsRead(m) /\ SyncsRead(m) \cup {i} \subseteq SyncsRead(n)
    BY <1>2, <1>3 DEF SyncsRead
  <2>2. Cardinality(SyncsRead(m) \cup {i}) = Cardinality(SyncsRead(m)) + 1
    BY <1>1, <2>1, FS_AddElement
  <2>3. Cardinality(SyncsRead(m) \cup {i}) <= Cardinality(SyncsRead(n))
    BY <1>1, <2>1, FS_Subset
  <2> QED
    BY <2>2, <2>3
<1> QED
  BY <1>1, <1>2, <1>3, FS_Subset

LEMMA SeenGrows ==
  ASSUME NEW t, NEW cmd, NEW m \in Nat, NEW n \in Nat, m <= n
  PROVE  Seen(t, m, cmd) <= Seen(t, n, cmd)
<1>1. Places(t, m, cmd) \subseteq Places(t, n, cmd)
  BY DEF Places
<1>2. IsFiniteSet(Places(t, n, cmd))
  BY PlacesFinite
<1> QED
  BY <1>1, <1>2, FS_Subset DEF Seen

(* How far the CPU's barrier id can be from what it has read, running or   *)
(* stopped.                                                                *)
PaceInv ==
  /\ Cardinality(SyncsRead(CpuAt)) <= barrier["CPU"]
  /\ barrier["CPU"] <= Cardinality(SyncsRead(pos["CPU"]))

KnownInv ==
  \A h \in Places(trace, pos["CPU"], "NEW_RESOURCE") : trace.cmds[h].rsc \in known

(* A resource created and not destroyed since is alive.                    *)
AliveInv ==
  \A h \in Places(trace, pos["CPU"], "NEW_RESOURCE") :
    (\A g \in Places(trace, pos["CPU"], "END_RESOURCE") :
       trace.cmds[g].rsc = trace.cmds[h].rsc => g < h) =>
    trace.cmds[h].rsc \in alive

ResourceInv == PaceInv /\ KnownInv /\ AliveInv

LEMMA PaceStep ==
  ASSUME TypeOK, Lockstep, MeetInv, SyncInv, PaceInv, [Next]_vars
  PROVE  PaceInv'
<1> USE DEF Dev
<1>1. trace' = trace /\ DeviceStep
  BY DeviceSteps
<1>2. /\ CpuAt \in Nat /\ pos["CPU"] \in Nat /\ barrier["CPU"] \in Nat
      /\ state["CPU"] # "PROCESS_CMD" => CpuAt + 1 = pos["CPU"]
      /\ state["CPU"] = "PROCESS_CMD" => CpuAt = pos["CPU"]
  BY CpuAtType DEF TypeOK, CpuAt
<1>3. /\ Cardinality(SyncsRead(CpuAt)) \in Nat
      /\ Cardinality(SyncsRead(pos["CPU"])) \in Nat
  BY <1>2, SyncsReadFinite
<1>4. ASSUME NEW at \in Nat, NEW p \in Nat, CpuAt' = at, pos'["CPU"] = p,
             Cardinality(SyncsRead(at)) <= barrier'["CPU"],
             barrier'["CPU"] <= Cardinality(SyncsRead(p))
      PROVE  PaceInv'
  <2>1. SyncsRead(CpuAt)' = SyncsRead(at) /\ SyncsRead(pos["CPU"])' = SyncsRead(p)
    BY <1>1, <1>4 DEF SyncsRead, Syncs
  <2> QED
    BY <1>4, <2>1 DEF PaceInv
<1>5. ASSUME state'["CPU"] = "PROCESS_CMD" <=> state["CPU"] = "PROCESS_CMD",
             pos'["CPU"] = pos["CPU"], barrier'["CPU"] = barrier["CPU"]
      PROVE  PaceInv'
  <2>1. CpuAt' = CpuAt
    BY <1>5 DEF CpuAt
  <2> QED
    BY <1>2, <1>4, <1>5, <2>1 DEF PaceInv
<1>6. CASE Read("CPU")
  <2>1. /\ state["CPU"] = "PROCESS_CMD" /\ barrier' = barrier
        /\ pos'["CPU"] = pos["CPU"] + 1
        /\ state' = state \/ state'["CPU"] = "D"
    BY <1>6 DEF Read, TypeOK
  <2>2. Cardinality(SyncsRead(pos["CPU"])) <= Cardinality(SyncsRead(pos["CPU"] + 1))
    BY <1>2, SyncsReadGrows
  <2>3. Cardinality(SyncsRead(pos["CPU"] + 1)) \in Nat
    BY <1>2, SyncsReadFinite
  <2>4. CASE ~Syncs("CPU", pos["CPU"] + 1)
    <3>1. state' = state
      BY <1>6, <2>4 DEF Read, NextCmd, Syncs
    <3>2. CpuAt' = pos["CPU"] + 1
      BY <2>1, <3>1 DEF CpuAt
    <3>3. Cardinality(SyncsRead(pos["CPU"] + 1)) = Cardinality(SyncsRead(pos["CPU"]))
      BY <1>2, <2>4, SyncsReadNext
    <3> QED
      BY <1>2, <1>4, <2>1, <3>2, <3>3 DEF PaceInv
  <2>5. CASE Syncs("CPU", pos["CPU"] + 1)
    <3>1. state'["CPU"] = "D"
      BY <1>6, <2>5 DEF Read, NextCmd, Syncs, TypeOK
    <3>2. CpuAt' = pos["CPU"]
      BY <1>2, <2>1, <3>1 DEF CpuAt
    <3>3. barrier["CPU"] <= Cardinality(SyncsRead(pos["CPU"] + 1))
      BY <1>2, <1>3, <2>2, <2>3 DEF PaceInv
    <3> QED
      BY <1>2, <1>4, <2>1, <3>2, <3>3 DEF PaceInv
  <2> QED
    BY <2>4, <2>5
<1>7. CASE CpuPasses
  <2>1. /\ state["CPU"] = "W" /\ pc = "cpu" /\ pos' = pos
        /\ barrier'["CPU"] = barrier["CPU"] + 1
        /\ state'["CPU"] \in {"PROCESS_CMD", "W"}
    BY <1>7 DEF CpuPasses, CpuPass, TypeOK
  <2>2. Cardinality(SyncsRead(pos["CPU"])) = barrier["CPU"] + 1
    BY <2>1 DEF MeetInv
  <2>3. CASE state'["CPU"] = "PROCESS_CMD"
    <3>1. CpuAt' = pos["CPU"]
      BY <2>1, <2>3 DEF CpuAt
    <3> QED
      BY <1>2, <1>4, <2>1, <2>2, <3>1
  <2>4. CASE state'["CPU"] = "W"
    <3>1. CpuAt' = CpuAt
      BY <2>1, <2>4 DEF CpuAt
    <3>2. Cardinality(SyncsRead(CpuAt)) <= barrier["CPU"] + 1
      BY <1>2, <1>3 DEF PaceInv
    <3> QED
      BY <1>2, <1>4, <2>1, <2>2, <3>1, <3>2
  <2> QED
    BY <2>1, <2>3, <2>4
<1>8. CASE CpuMoves
  BY <1>5, <1>8 DEF CpuMoves, TypeOK
<1>9. CASE Read("GPU")
  BY <1>5, <1>9 DEF Read, TypeOK
<1>10. CASE GpuArrives \/ GpuPasses
  BY <1>5, <1>10 DEF GpuArrives, GpuArrive, GpuPasses, GpuPass, TypeOK
<1>11. CASE UNCHANGED <<state, pos, barrier, ready>>
  BY <1>5, <1>11
<1> QED
  BY <1>1, <1>6, <1>7, <1>8, <1>9, <1>10, <1>11 DEF DeviceStep

(* Which commands the CPU tells the tracker of.                            *)
LEMMA CpuReadResource ==
  ASSUME TypeOK, CpuRead
  PROVE  /\ pos["CPU"] + 1 \in 1 .. Len(trace.cmds) /\ pos["CPU"] \in Nat
         /\ pos'["CPU"] = pos["CPU"] + 1
         /\ LET r == trace.cmds[pos["CPU"] + 1].rsc
                cmd == trace.cmds[pos["CPU"] + 1].cmd
            IN /\ cmd = "NEW_RESOURCE" =>
                    /\ pc' = "gpu"
                    /\ alive' = alive \cup {r} /\ known' = known \cup {r}
               /\ cmd = "END_RESOURCE" =>
                    /\ r \in known /\ r \in alive => pc' = "gpu"
                    /\ alive' = alive \ {r} /\ known' = known
               /\ cmd \notin {"NEW_RESOURCE", "END_RESOURCE"} =>
                    /\ cmd # "OPENGL_CALL" => pc' = "gpu"
                    /\ alive' = alive /\ known' = known
<1>1. pos["CPU"] \in Nat /\ trace \in Traces /\ pos["CPU"] < trace.len["CPU"]
      /\ pos'["CPU"] = pos["CPU"] + 1
  BY DEF CpuRead, Read, HasRecord, TypeOK, Dev
<1>2. /\ trace.len["CPU"] \in Nat /\ trace.len["CPU"] <= Len(trace.cmds)
      /\ Len(trace.cmds) \in Nat
  BY <1>1, RecordingTypes, RecordingTables DEF Dev
<1>3. pos["CPU"] + 1 \in 1 .. Len(trace.cmds)
  BY <1>1, <1>2
<1> DEFINE cmd == trace.cmds[pos["CPU"] + 1].cmd
<1>4. /\ NextCmd("CPU") = "NEW_RESOURCE" <=> cmd = "NEW_RESOURCE"
      /\ NextCmd("CPU") = "END_RESOURCE" <=> cmd = "END_RESOURCE"
      /\ NextCmd("CPU") = "OPENGL_CALL" <=> cmd = "OPENGL_CALL"
  BY DEF NextCmd, StreamCmd
<1> HIDE DEF cmd
<1>5. CASE cmd = "NEW_RESOURCE"
  <2>1. NextCmd("CPU") = "NEW_RESOURCE"
    BY <1>4, <1>5
  <2>2. /\ pc' = "gpu"
        /\ alive' = alive \cup {NextRsc("CPU")} /\ known' = known \cup {NextRsc("CPU")}
    BY <2>1 DEF CpuRead
  <2> QED
    BY <1>1, <1>3, <1>5, <2>2 DEF NextRsc, cmd
<1>6. CASE cmd = "END_RESOURCE"
  <2>1. NextCmd("CPU") = "END_RESOURCE" /\ NextCmd("CPU") # "NEW_RESOURCE"
    BY <1>4, <1>6
  <2>2. /\ pc' = IF NextRsc("CPU") \in known /\ NextRsc("CPU") \in alive THEN "gpu"
                 ELSE "abort"
        /\ alive' = alive \ {NextRsc("CPU")} /\ known' = known
    BY <2>1 DEF CpuRead
  <2> QED
    BY <1>1, <1>3, <1>6, <2>2 DEF NextRsc, cmd
<1>7. CASE cmd \notin {"NEW_RESOURCE", "END_RESOURCE"}
  <2>1. NextCmd("CPU") # "END_RESOURCE" /\ NextCmd("CPU") # "NEW_RESOURCE"
    BY <1>4, <1>7
  <2>2. /\ cmd # "OPENGL_CALL" => pc' = "gpu"
        /\ alive' = alive /\ known' = known
    BY <1>4, <2>1 DEF CpuRead, NoCase, rscVars
  <2> QED
    BY <1>1, <1>3, <1>7, <2>2 DEF cmd
<1> QED
  BY <1>5, <1>6, <1>7

LEMMA ResourceStep ==
  ASSUME TypeOK, Lockstep, MeetInv, SyncInv, ResourceInv, [Next]_vars
  PROVE  ResourceInv'
<1> USE DEF devVars, schedVars, coreVars, sysVars, rscVars, outVars, Dev
<1>1. trace' = trace /\ PaceInv'
  BY DeviceSteps, PaceStep DEF ResourceInv
<1>2. ASSUME pos'["CPU"] = pos["CPU"], alive' = alive, known' = known
      PROVE  KnownInv' /\ AliveInv'
  <2>1. \A cmd : Places(trace, pos["CPU"], cmd)' = Places(trace, pos["CPU"], cmd)
    BY <1>1, <1>2 DEF Places
  <2> QED
    BY <1>1, <1>2, <2>1 DEF ResourceInv, KnownInv, AliveInv
<1>3. CASE CpuRead
  <2>1. PICK n \in Nat : n = pos["CPU"]
    BY DEF TypeOK
  <2>2. PICK cmd, r : cmd = trace.cmds[n + 1].cmd /\ r = trace.cmds[n + 1].rsc
    OBVIOUS
  <2>3. /\ pos'["CPU"] = n + 1
        /\ cmd = "NEW_RESOURCE" => alive' = alive \cup {r} /\ known' = known \cup {r}
        /\ cmd = "END_RESOURCE" => alive' = alive \ {r} /\ known' = known
        /\ cmd \notin {"NEW_RESOURCE", "END_RESOURCE"} => alive' = alive /\ known' = known
    BY <1>3, <2>1, <2>2, CpuReadResource
  <2>4. /\ Places(trace, n + 1, "NEW_RESOURCE") =
             IF cmd = "NEW_RESOURCE" THEN Places(trace, n, "NEW_RESOURCE") \cup {n + 1}
             ELSE Places(trace, n, "NEW_RESOURCE")
        /\ Places(trace, n + 1, "END_RESOURCE") =
             IF cmd = "END_RESOURCE" THEN Places(trace, n, "END_RESOURCE") \cup {n + 1}
             ELSE Places(trace, n, "END_RESOURCE")
        /\ Places(trace, n, "NEW_RESOURCE") \subseteq 1 .. n
    <3>1. 1 .. n + 1 = (1 .. n) \cup {n + 1}
      OBVIOUS
    <3> QED
      BY <2>2, <3>1 DEF Places
  <2>5. \A k : Places(trace, pos["CPU"], k)' = Places(trace, n + 1, k)
    BY <1>1, <2>3 DEF Places
  <2>6. KnownInv'
    <3> SUFFICES ASSUME NEW h \in Places(trace, n + 1, "NEW_RESOURCE")
                 PROVE  trace.cmds[h].rsc \in known'
      BY <1>1, <2>5 DEF KnownInv
    <3>1. CASE h \in Places(trace, n, "NEW_RESOURCE")
      BY <2>1, <2>3, <3>1 DEF ResourceInv, KnownInv
    <3>2. CASE h = n + 1 /\ cmd = "NEW_RESOURCE"
      BY <2>2, <2>3, <3>2
    <3> QED
      BY <2>4, <3>1, <3>2
  <2>7. AliveInv'
    <3> SUFFICES ASSUME NEW h \in Places(trace, n + 1, "NEW_RESOURCE"),
                        \A g \in Places(trace, n + 1, "END_RESOURCE") :
                          trace.cmds[g].rsc = trace.cmds[h].rsc => g < h
                 PROVE  trace.cmds[h].rsc \in alive'
      BY <1>1, <2>5 DEF AliveInv
    <3>1. CASE h \in Places(trace, n, "NEW_RESOURCE")
      <4>1. \A g \in Places(trace, n, "END_RESOURCE") :
              trace.cmds[g].rsc = trace.cmds[h].rsc => g < h
        BY <2>4
      <4>2. trace.cmds[h].rsc \in alive
        BY <2>1, <3>1, <4>1 DEF ResourceInv, AliveInv
      <4>3. cmd = "END_RESOURCE" => trace.cmds[h].rsc # r
        BY <2>2, <2>4, <3>1
      <4> QED
        BY <2>3, <4>2, <4>3
    <3>2. CASE h = n + 1 /\ cmd = "NEW_RESOURCE"
      BY <2>2, <2>3, <3>2
    <3> QED
      BY <2>4, <3>1, <3>2
  <2> QED
    BY <1>1, <2>6, <2>7 DEF ResourceInv
<1>4. CASE GpuRead
  BY <1>1, <1>2, <1>4 DEF GpuRead, Read, TypeOK, ResourceInv
<1>5. CASE CpuPassAny
  <2>1. pos' = pos /\ rscVars' = rscVars
    BY <1>5, AnyPasses DEF CpuPasses, CpuPass
  <2> QED
    BY <1>1, <1>2, <2>1 DEF ResourceInv
<1>6. CASE Quiet \/ CpuArrive \/ CpuDrain \/ GpuArriveSync \/ GpuCore \/ GpuCoresDone \/ GpuPass
  <2>1. pos' = pos /\ rscVars' = rscVars
    BY <1>6 DEF Quiet, CpuArrive, CpuDrain, GpuArriveSync, GpuCore, GpuCoresDone, GpuPass
  <2> QED
    BY <1>1, <1>2, <2>1 DEF ResourceInv
<1> QED
  BY <1>3, <1>4, <1>5, <1>6, Steps

LEMMA ResourceInit == Init => ResourceInv
<1> SUFFICES ASSUME Init PROVE ResourceInv
  OBVIOUS
<1>1. CpuAt = 0 /\ pos["CPU"] = 0 /\ barrier["CPU"] = 0
  BY DEF Init, CpuAt, Dev
<1>2. SyncsRead(0) = {} /\ Places(trace, 0, "NEW_RESOURCE") = {}
  BY DEF SyncsRead, Places
<1>3. Cardinality(SyncsRead(0)) = 0
  BY <1>2, FS_EmptySet
<1> QED
  BY <1>1, <1>2, <1>3 DEF ResourceInv, PaceInv, KnownInv, AliveInv

LEMMA ResourcesHold == Spec => []ResourceInv
<1>1. Init => SyncInv
  BY DEF Init, SyncInv, Dev
<1>2. TypeOK /\ Lockstep /\ MeetInv /\ SyncInv /\ ResourceInv /\ [Next]_vars =>
        MeetInv' /\ SyncInv' /\ ResourceInv'
  BY MeetStep, SyncStep, ResourceStep
<1> QED
  BY <1>1, <1>2, MeetInit, ResourceInit, TypeCorrect, LockstepHolds, PTL DEF Spec

(* A device that drains at a scene or frame command has behind it what was *)
(* recorded before: the scene that was loaded, and the creations, which    *)
(* the CPU has read too.                                                   *)
LEMMA DrainsBehind ==
  ASSUME TypeOK, Lockstep, MeetInv, SyncInv, CountInv, ResourceInv,
         NEW d \in Dev, state[d] = "D", AtBoundary(d)
  PROVE  /\ pos[d] \in 1 .. Len(trace.cmds)
         /\ trace.cmds[pos[d]].cmd \in {"NEW_SCENE", "END_SCENE", "NEW_FRAME"}
         /\ nextScene <= Seen(trace, pos[d] - 1, "NEW_SCENE")
         /\ \A h \in Places(trace, pos[d] - 1, "NEW_RESOURCE") : h <= pos["CPU"]
<1> USE DEF Dev
<1>1. /\ pos[d] \in 1 .. Len(trace.cmds)
      /\ sync[d] = SyncOf(d, StreamCmd(d, trace.cmds[pos[d]].cmd))
  BY DEF SyncInv
<1>2. trace.cmds[pos[d]].cmd \in {"NEW_SCENE", "END_SCENE", "NEW_FRAME"}
  BY <1>1 DEF AtBoundary, Draining, SyncOf, StreamCmd
<1>3. /\ CpuAt \in Nat /\ pos["CPU"] \in Nat /\ pos["GPU"] \in Nat
      /\ state["CPU"] # "PROCESS_CMD" => CpuAt + 1 = pos["CPU"]
      /\ nextScene <= Seen(trace, CpuAt, "NEW_SCENE") /\ nextScene \in Nat
  BY CpuAtType DEF TypeOK, CountInv
<1>4. PICK q \in Nat : q = pos[d] - 1 /\ q + 1 = pos[d]
  <2>1. pos[d] \in Nat
    BY DEF TypeOK
  <2>2. pos[d] - 1 \in Nat /\ (pos[d] - 1) + 1 = pos[d]
    BY <1>1, <2>1
  <2> QED
    BY <2>2
<1>5. CASE d = "CPU"
  <2>1. CpuAt = q
    BY <1>3, <1>4, <1>5
  <2>2. \A h \in Places(trace, q, "NEW_RESOURCE") : h <= pos["CPU"]
    BY <1>4, <1>5 DEF Places
  <2>3. pos[d] - 1 = q
    BY <1>4
  <2> QED
    BY <1>1, <1>2, <1>3, <2>1, <2>2, <2>3
<1>6. CASE d = "GPU"
  <2>1. barrier["CPU"] = barrier["GPU"] /\ barrier["CPU"] \in Nat
    BY <1>6 DEF Lockstep, TypeOK
  <2>2. /\ Cardinality(SyncsRead(q + 1)) = barrier["CPU"] + 1
        /\ q + 1 \in SyncsRead(q + 1)
    BY <1>4, <1>6, <2>1 DEF MeetInv
  <2>3. Cardinality(SyncsRead(q)) = barrier["CPU"]
    <3>1. Syncs("CPU", q + 1)
      BY <2>2 DEF SyncsRead
    <3>2. Cardinality(SyncsRead(q)) \in Nat
      BY SyncsReadFinite
    <3>3. Cardinality(SyncsRead(q + 1)) = Cardinality(SyncsRead(q)) + 1
      BY <3>1, SyncsReadNext
    <3> QED
      BY <2>1, <2>2, <3>2, <3>3
  <2>4. CpuAt <= q
    <3> SUFFICES ASSUME q + 1 <= CpuAt PROVE FALSE
      BY <1>3
    <3>1. Cardinality(SyncsRead(q + 1)) <= Cardinality(SyncsRead(CpuAt))
      BY <1>3, SyncsReadGrows
    <3>2. Cardinality(SyncsRead(CpuAt)) <= barrier["CPU"]
      BY DEF ResourceInv, PaceInv
    <3>3. Cardinality(SyncsRead(CpuAt)) \in Nat
      BY <1>3, SyncsReadFinite
    <3> QED
      BY <2>1, <2>2, <3>1, <3>2, <3>3
  <2>5. nextScene <= Seen(trace, q, "NEW_SCENE")
    <3>1. Seen(trace, CpuAt, "NEW_SCENE") <= Seen(trace, q, "NEW_SCENE")
      BY <1>3, <2>4, SeenGrows
    <3>2. Seen(trace, CpuAt, "NEW_SCENE") \in Nat /\ Seen(trace, q, "NEW_SCENE") \in Nat
      BY <1>3, SeenNext
    <3> QED
      BY <1>3, <3>1, <3>2
  <2>6. ASSUME NEW h \in Places(trace, q, "NEW_RESOURCE") PROVE h <= pos["CPU"]
    <3>1. h \in 1 .. q /\ trace.cmds[h].cmd = "NEW_RESOURCE"
      BY DEF Places
    <3>2. Syncs("CPU", h)
      BY <3>1 DEF Syncs, SyncOf, StreamCmd
    <3>3. h \in SyncsRead(q)
      BY <3>1, <3>2 DEF SyncsRead
    <3> SUFFICES ASSUME pos["CPU"] < h PROVE FALSE
      BY <1>3, <3>1
    <3>4. pos["CPU"] <= q
      BY <1>3, <3>1
    <3>5. Cardinality(SyncsRead(pos["CPU"])) + 1 <= Cardinality(SyncsRead(q))
      BY <1>3, <3>3, <3>4, SyncsReadGrows
    <3>6. barrier["CPU"] <= Cardinality(SyncsRead(pos["CPU"]))
      BY DEF ResourceInv, PaceInv
    <3>7. Cardinality(SyncsRead(pos["CPU"])) \in Nat
      BY <1>3, SyncsReadFinite
    <3> QED
      BY <2>1, <2>3, <3>5, <3>6, <3>7
  <2>7. pos[d] - 1 = q
    BY <1>4
  <2> QED
    BY <1>1, <1>2, <2>5, <2>6, <2>7
<1> QED
  BY <1>5, <1>6

(* A packet names a resource the tracker knows: when a job runs, on either *)
(* device, the CPU has read the creation of everything the job touches     *)
(* (cpu.cc NEW_RESOURCE, resource_tracker.hh get_resource_by_id).          *)
THEOREM ResourcesAreKnown ==
  ASSUME NumGpuCores > 0
  PROVE  Spec => ResourcesAreFound
<1>1. RunInv /\ CountsHold /\ ResourceInv /\ [Next]_vars =>
        [sent' # sent => sent'[Len(sent')].rsc \in known]_vars
  <2> SUFFICES ASSUME RunInv, CountsHold, ResourceInv, [Next]_vars, sent' # sent
               PROVE  sent'[Len(sent')].rsc \in known
    OBVIOUS
  <2> USE DEF RunInv
  <2>1. PICK c \in Cores : /\ state[DevOf(c)] = "D" /\ AtBoundary(DevOf(c))
                           /\ \E j, before : CoreRuns(c, j, before)
    BY SentStep
  <2>2. PICK j, before : CoreRuns(c, j, before)
    BY <2>1
  <2>3. PICK p \in SentPacket :
          /\ sent' = Append(sent, p)
          /\ p.nth \in 1 .. Len(Full(j)) /\ p.rsc = Full(j)[p.nth]
    BY <2>2, RunsSends DEF JobInv
  <2>4. sent'[Len(sent')] = p
    BY <2>3 DEF JobInv, SentOK
  <2>5. /\ j \in Jobs /\ j \in JobsOf(nextScene)
        /\ nextScene \in 1 .. Len(trace.scenes)
    BY <2>2 DEF CoreRuns, ReadyToRun
  <2>6. p.rsc \in ToSet(trace.jobs[j].pkts)
    <3>1. Full(j) \in Seq(Resources)
      BY <2>5, RecordingTables DEF TypeOK
    <3> QED
      BY <2>3, <3>1 DEF Full, ToSet
  <2>7. DevOf(c) \in Dev
    BY DEF DevOf, Dev
  <2>8. PICK i : i = pos[DevOf(c)]
    OBVIOUS
  <2>9. /\ i \in 1 .. Len(trace.cmds)
        /\ trace.cmds[i].cmd \in {"NEW_SCENE", "END_SCENE", "NEW_FRAME"}
        /\ nextScene <= Seen(trace, i - 1, "NEW_SCENE")
        /\ \A h \in Places(trace, i - 1, "NEW_RESOURCE") : h <= pos["CPU"]
    BY <2>1, <2>7, <2>8, DrainsBehind DEF CountsHold
  <2>10. CreatedBeforeUse(trace) /\ DOMAIN trace.scenes = 1 .. Len(trace.scenes)
    BY RecordingsAssumption, RecordingTables DEF TypeOK
  <2>11. PICK h \in Places(trace, i - 1, "NEW_RESOURCE") : trace.cmds[h].rsc = p.rsc
    BY <2>5, <2>6, <2>9, <2>10 DEF CreatedBeforeUse, JobsOf, Scene
  <2>12. h \in Places(trace, pos["CPU"], "NEW_RESOURCE")
    BY <2>9, <2>11 DEF Places, TypeOK, Dev
  <2> QED
    BY <2>4, <2>11, <2>12 DEF ResourceInv, KnownInv
<1> QED
  BY <1>1, RunHolds, CountersHold, ResourcesHold, PTL DEF Spec, ResourcesAreFound
-----------------------------------------------------------------------------
(***************************************************************************)
(* Aborts.  Each assert of the replay is excluded by what is recorded or   *)
(* by what was shown above, except two: the destructor of a job that the   *)
(* stop timer cut short, and a z order that misses a tile.                 *)
(***************************************************************************)
AllScheduled == \A k \in DOMAIN trace.scenes : EverythingScheduled(Scene(k))

(* The z order takes every scene it can walk.                              *)
WalkCovers == Walkable => AllScheduled

(* Unless the stop timer did it, the loop stops with nothing half done.    *)
Stopped ==
  ~running /\ ~trace.stopTime =>
    /\ pc # "cpu"
    /\ \A c \in Cores : pkts[c] = <<>>
    /\ pc = "gpu" => state["GPU"] = "W"

AbortInv == pc = "abort" => StoppedInAJob \/ ~AllScheduled \/ ReadOpenGlCall

EndInv == Stopped /\ AbortInv

LEMMA StoppedStep ==
  ASSUME TypeOK, Lockstep, MeetInv, JobInv, SyncInv, DrainInv, Stopped, [Next]_vars
  PROVE  Stopped'
<1> USE DEF devVars, schedVars, coreVars, sysVars, rscVars, outVars
<1> SUFFICES ASSUME ~running', ~trace.stopTime
             PROVE  /\ pc' # "cpu"
                    /\ \A c \in Cores : pkts'[c] = <<>>
                    /\ pc' = "gpu" => state'["GPU"] = "W"
  BY DeviceSteps DEF Stopped
<1>1. CASE UNCHANGED vars
  BY <1>1 DEF vars, loopVars, Stopped
<1>2. CASE LoopTest
  <2>1. ~running /\ pc' \in {"exit", "abort"}
    BY <1>2 DEF LoopTest
  <2> QED
    BY <1>2, <2>1 DEF LoopTest, Stopped
<1>3. CASE running /\ Loop /\ ~LoopTest
  <2>1. CpuPassFrame
    <3>1. running' = running \/ CpuPassFrame
      BY <1>3 DEF Loop, CpuTick, GpuTick, CpuRead, CpuEof, CpuArrive, CpuDrain, CpuWait,
                  CpuPassSync, CpuPassNewScene, CpuPassEndScene, GpuRead, GpuEof,
                  GpuArriveSync, GpuCore, GpuCoresDone, GpuPass
    <3> QED
      BY <1>3, <3>1
  <2>2. CpuPasses /\ AtBoundary("CPU") /\ UNCHANGED <<pkts>>
    BY <2>1, AnyPasses DEF CpuPassAny, CpuPassFrame, CpuPass, AtBoundary, Draining
  <2>3. AllDrained /\ state["GPU"] = "W"
    BY <2>2, PassDrained, PassTogether
  <2>4. \A c \in Cores : pkts[c] = <<>>
    BY <2>3, DrainedNotPending DEF Pending
  <2>5. state'["GPU"] = "W" /\ pc' # "cpu"
    <3>1. state'["GPU"] = "W"
      BY <2>2, <2>3 DEF CpuPasses, TypeOK, Dev
    <3>2. pc' # "cpu"
      <4>1. CASE ~running \/ stop = 0
        BY <2>1, <4>1 DEF CpuPassFrame
      <4>2. CASE ~(~running \/ stop = 0)
        BY <2>1, <4>2 DEF CpuPassFrame
      <4> QED
        BY <4>1, <4>2
    <3> QED
      BY <3>1, <3>2
  <2> QED
    BY <2>2, <2>4, <2>5
<1>4. CASE ~running /\ Loop /\ ~LoopTest
  <2>1. /\ pc # "cpu" /\ \A c \in Cores : pkts[c] = <<>>
        /\ pc = "gpu" => state["GPU"] = "W"
    BY <1>4 DEF Stopped
  <2>2. GpuTick
    BY <1>4, <2>1 DEF Loop, CpuTick, CpuRead, CpuEof, CpuArrive, CpuDrain, CpuWait, CpuPass,
                      CpuPassSync, CpuPassNewScene, CpuPassEndScene, CpuPassFrame
  <2>3. GpuPass
    BY <2>1, <2>2 DEF GpuTick, GpuRead, GpuEof, GpuArriveSync, GpuCore, GpuCoresDone, Read
  <2> QED
    BY <2>1, <2>3 DEF GpuPass
<1>5. CASE StopTimer
  BY <1>5 DEF StopTimer
<1>6. CASE Finished
  BY <1>1, <1>6 DEF Finished
<1> QED
  BY <1>1, <1>2, <1>3, <1>4, <1>5, <1>6 DEF Next

(* The steps that can end the program.                                     *)
LEMMA AbortsHere ==
  ASSUME TypeOK, [Next]_vars, pc' = "abort", pc # "abort"
  PROVE  LoopTest \/ CpuRead \/ GpuRead \/ CpuPassNewScene \/ CpuPassFrame
BY DEF Next, Loop, CpuTick, GpuTick, CpuEof, CpuArrive, CpuDrain, CpuWait, CpuPassSync,
       CpuPassEndScene, GpuEof, GpuArriveSync, GpuCore, GpuCoresDone, GpuArrive,
       GpuPass, StopTimer, Finished, vars, loopVars

LEMMA DestroyedIsAlive ==
  ASSUME TypeOK, ResourceInv, CpuRead
  PROVE  pc' = "gpu" \/ trace.cmds[pos["CPU"] + 1].cmd = "OPENGL_CALL"
<1>1. PICK n \in Nat : n = pos["CPU"]
  BY DEF TypeOK, Dev
<1>2. PICK r : r = trace.cmds[n + 1].rsc
  OBVIOUS
<1>3. CASE trace.cmds[n + 1].cmd = "END_RESOURCE"
  <2>1. n + 1 \in 1 .. Len(trace.cmds)
    BY <1>1, CpuReadResource
  <2>2. DestroyedOnce(trace)
    BY RecordingsAssumption DEF TypeOK
  <2>3. n + 1 \in Places(trace, Len(trace.cmds), "END_RESOURCE")
    BY <1>3, <2>1 DEF Places
  <2>4. PICK h \in Places(trace, (n + 1) - 1, "NEW_RESOURCE") :
          /\ trace.cmds[h].rsc = r
          /\ \A g \in Places(trace, (n + 1) - 1, "END_RESOURCE") :
               trace.cmds[g].rsc = r => g < h
    BY <1>2, <2>2, <2>3 DEF DestroyedOnce
  <2>5. (n + 1) - 1 = pos["CPU"]
    BY <1>1
  <2>6. r \in known /\ r \in alive
    BY <2>4, <2>5 DEF ResourceInv, KnownInv, AliveInv
  <2> QED
    BY <1>1, <1>2, <1>3, <2>6, CpuReadResource
<1>4. CASE trace.cmds[n + 1].cmd # "END_RESOURCE"
  BY <1>1, <1>4, CpuReadResource
<1> QED
  BY <1>3, <1>4

(* A device that meets an OpenGL call has just read it.                    *)
LEMMA CallIsRead ==
  ASSUME TypeOK, NEW d \in Dev, Read(d), trace' = trace,
         trace.cmds[pos[d] + 1].cmd = "OPENGL_CALL"
  PROVE  ReadOpenGlCall'
<1>1. pos[d] \in Nat /\ pos'[d] = pos[d] + 1
  BY DEF Read, TypeOK
<1> QED
  BY <1>1 DEF ReadOpenGlCall

LEMMA GpuMeetsCall ==
  ASSUME GpuRead, pc' = "abort"
  PROVE  trace.cmds[pos["GPU"] + 1].cmd = "OPENGL_CALL"
BY DEF GpuRead, NoCase, NextCmd, StreamCmd

LEMMA SameSchedule ==
  ASSUME trace' = trace
  PROVE  AllScheduled' => AllScheduled
<1>1. \A j : Coord(j)' = Coord(j) /\ TypeRank(j)' = TypeRank(j)
  BY DEF Coord, TypeRank
<1>2. \A s : JobsFor(s, "GPU")' = JobsFor(s, "GPU")
  BY DEF JobsFor
<1>3. \A s, j : Index(s, j)' = Index(s, j)
  BY DEF Index
<1>4. \A s : ZWalk(s)' = ZWalk(s)
  BY DEF ZWalk
<1>5. ASSUME NEW s, NEW w, NEW j, Missed(s, w, j) PROVE Missed(s, w, j)'
  BY <1>1, <1>2, <1>3, <1>5 DEF Missed
<1>6. ASSUME NEW s, EverythingScheduled(s)' PROVE EverythingScheduled(s)
  <2> SUFFICES ASSUME NEW j \in ToSet(s.jobs), Missed(s, ZWalk(s), j) PROVE FALSE
    BY DEF EverythingScheduled
  <2>1. Missed(s, ZWalk(s), j)'
    BY <1>4, <1>5
  <2> QED
    BY <1>6, <2>1 DEF EverythingScheduled
<1> QED
  BY <1>6 DEF AllScheduled, Scene

LEMMA AbortStep ==
  ASSUME TypeOK, Lockstep, MeetInv, JobInv, SyncInv, DrainInv, CountInv, ResourceInv,
         Stopped, AbortInv, [Next]_vars
  PROVE  AbortInv'
<1> SUFFICES ASSUME pc' = "abort"
             PROVE  StoppedInAJob' \/ ~AllScheduled' \/ ReadOpenGlCall'
  BY DEF AbortInv
<1>0. trace' = trace /\ (AllScheduled' => AllScheduled)
  BY DeviceSteps, SameSchedule
<1>1. CASE pc = "abort"
  <2>1. ~Loop
    BY <1>1 DEF Loop, LoopTest, CpuTick, GpuTick, CpuRead, CpuEof, CpuArrive, CpuDrain,
       CpuWait, CpuPassSync, CpuPassNewScene, CpuPassEndScene, CpuPassFrame, CpuPass, GpuRead,
       GpuEof, GpuArriveSync, GpuCore, GpuCoresDone, GpuPass
  <2>2. pkts' = pkts /\ (running' => running) /\ pos' = pos
    BY <2>1 DEF Next, StopTimer, Finished, vars, loopVars, coreVars, devVars
  <2> QED
    BY <1>0, <1>1, <2>2 DEF AbortInv, StoppedInAJob, ReadOpenGlCall
<1>2. CASE LoopTest
  <2>1. ~running /\ ~(\A c \in Cores : pkts[c] = <<>>) /\ running' = running /\ pkts' = pkts
    BY <1>2 DEF LoopTest, coreVars
  <2>2. trace.stopTime
    BY <2>1 DEF Stopped
  <2> QED
    BY <1>0, <2>1, <2>2 DEF StoppedInAJob
<1>3. CASE CpuRead
  <2>1. trace.cmds[pos["CPU"] + 1].cmd = "OPENGL_CALL" /\ Read("CPU")
    BY <1>3, DestroyedIsAlive DEF CpuRead
  <2> QED
    BY <1>0, <2>1, CallIsRead DEF Dev
<1>6. CASE GpuRead
  <2>1. trace.cmds[pos["GPU"] + 1].cmd = "OPENGL_CALL" /\ Read("GPU")
    BY <1>6, GpuMeetsCall DEF GpuRead
  <2> QED
    BY <1>0, <2>1, CallIsRead DEF Dev
<1>4. CASE CpuPassNewScene
  <2>1. PICK n \in Nat : n = CpuAt
    BY CpuAtType
  <2>2. /\ state["CPU"] = "W" /\ pc = "cpu" /\ sync["CPU"] = "NEW_SCENE_SYNC"
        /\ StartNewScene /\ CpuPasses /\ AtBoundary("CPU")
    BY <1>4, AnyPasses DEF CpuPassNewScene, CpuPass, CpuPassAny, AtBoundary, Draining
  <2>3. /\ n + 1 = pos["CPU"] /\ n + 1 \in 1 .. Len(trace.cmds)
        /\ trace.cmds[n + 1].cmd = "NEW_SCENE"
    BY <2>1, <2>2, CpuAtType, CpuSyncs DEF SyncInv, Dev
  <2>4. /\ nextScene = Seen(trace, n, "NEW_SCENE") /\ nextScene \in Nat
        /\ frameNbr = Seen(trace, n, "NEW_FRAME") /\ frameNbr < trace.frames
    BY <2>1, <2>2 DEF CountInv, Live, TypeOK
  <2>5. /\ Seen(trace, n + 1, "NEW_SCENE") = nextScene + 1
        /\ Seen(trace, n + 1, "NEW_FRAME") = frameNbr
    <3> DEFINE cmd == trace.cmds[n + 1].cmd
    <3>3. cmd = "NEW_SCENE" /\ cmd # "NEW_FRAME"
      BY <2>3
    <3>1. Seen(trace, n + 1, "NEW_SCENE") = Seen(trace, n, "NEW_SCENE") + 1
      BY <3>3, SeenNext
    <3>2. Seen(trace, n + 1, "NEW_FRAME") = Seen(trace, n, "NEW_FRAME")
      BY <3>3, SeenNext
    <3> QED
      BY <2>4, <3>1, <3>2
  <2>6. ScenesMatchCommands(trace) /\ n + 1 \in Places(trace, Len(trace.cmds), "NEW_SCENE")
    BY <2>3, RecordingsAssumption DEF TypeOK, Places
  <2>7. nextScene + 1 <= Len(trace.scenes)
    BY <2>4, <2>5, <2>6 DEF ScenesMatchCommands
  <2>8. nextScene < Len(trace.scenes) /\ nextScene + 1 \in DOMAIN trace.scenes
    BY <2>4, <2>7, RecordingTables DEF TypeOK
  <2>9. QueuesEmpty
    BY <2>2, PassDrained DEF AllDrained, Drained, QueuesEmpty
  <2>10. ~EverythingScheduled(trace.scenes[nextScene + 1])
    BY <2>2, <2>8, <2>9 DEF StartNewScene
  <2> QED
    BY <1>0, <2>8, <2>10 DEF AllScheduled, Scene
<1>5. CASE CpuPassFrame
  <2>1. CpuPasses /\ AtBoundary("CPU") /\ pc = "cpu"
    BY <1>5, AnyPasses DEF CpuPassFrame, CpuPass, CpuPassAny, AtBoundary, Draining
  <2>2. QueuesEmptyAtFrame
    BY <2>1, PassDrained DEF AllDrained, Drained, QueuesEmptyAtFrame, Dev
  <2>3. nextFrame = frameNbr + 1
    BY <2>1 DEF CountInv, Live
  <2>4. pc' = "gpu"
    <3>1. CASE ~running \/ stop = 0
      BY <1>5, <3>1 DEF CpuPassFrame
    <3>2. CASE ~(~running \/ stop = 0)
      BY <1>5, <2>2, <2>3, <3>2 DEF CpuPassFrame
    <3> QED
      BY <3>1, <3>2
  <2> QED
    BY <2>4
<1> QED
  BY <1>1, <1>2, <1>3, <1>4, <1>5, <1>6, AbortsHere

LEMMA EndsHold ==
  ASSUME NumGpuCores > 0
  PROVE  Spec => []EndInv
<1>1. Init => EndInv
  BY DEF Init, EndInv, Stopped, AbortInv
<1>2. RunInv /\ CountsHold /\ ResourceInv /\ EndInv /\ [Next]_vars => EndInv'
  BY StoppedStep, AbortStep DEF RunInv, CountsHold, EndInv
<1> QED
  BY <1>1, <1>2, RunHolds, CountersHold, ResourcesHold, PTL DEF Spec

-----------------------------------------------------------------------------
(***************************************************************************)
(* The statistics.  First what FlattenSeq makes of one sequence more.      *)
(***************************************************************************)
(* A nonempty set of numbers has a smallest one.                           *)
LEMMA LeastOf ==
  ASSUME NEW S, S \subseteq Nat, S # {}
  PROVE  \E n \in S : \A m \in S : n <= m
<1>1. PICK x \in S : \A y \in S : ~ (<<y, x>> \in OpToRel(<, Nat))
  BY NatLessThanWellFounded, WFMin
<1>2. ASSUME NEW y \in S PROVE ~ (<<y, x>> \in {p \in Nat \X Nat : p[1] < p[2]})
  BY <1>1, Zenon DEF OpToRel
<1>3. ASSUME NEW y \in S PROVE x <= y
  <2>1. x \in Nat /\ y \in Nat /\ <<y, x>>[1] = y /\ <<y, x>>[2] = x
    OBVIOUS
  <2>2. ~ (y < x)
    BY <1>2, <2>1
  <2> QED
    BY <2>1, <2>2
<1> QED
  BY <1>3

(* What FlattenSeq computes: f[i] is the concatenation of the first i.     *)
Joins(f, ss, n) ==
  f = [i \in 1 .. n |-> IF i = 1 THEN ss[i] ELSE f[i - 1] \o ss[i]]

LEMMA JoinsExist ==
  ASSUME NEW ss, NEW n \in Nat
  PROVE  \E f : Joins(f, ss, n)
<1> DEFINE None == {k \in Nat : ~ \E f : Joins(f, ss, k)}
<1> SUFFICES ASSUME None # {} PROVE FALSE
  OBVIOUS
<1>1. PICK k \in None : \A m \in None : k <= m
  <2>1. None \subseteq Nat
    OBVIOUS
  <2> HIDE DEF None
  <2> QED
    BY <2>1, LeastOf
<1>2. CASE k = 0
  <2> DEFINE f == [i \in 1 .. 0 |-> ss]
  <2>1. Joins(f, ss, 0)
    BY DEF Joins
  <2> QED
    BY <1>2, <2>1
<1>3. CASE k # 0
  <2>1. k - 1 \in Nat /\ k - 1 \notin None
    BY <1>1, <1>3
  <2>2. PICK f : Joins(f, ss, k - 1)
    BY <2>1
  <2> DEFINE g == [i \in 1 .. k |-> IF i = k THEN IF i = 1 THEN ss[i] ELSE f[i - 1] \o ss[i]
                                    ELSE f[i]]
  <2>3. \A i \in 1 .. k - 1 : f[i] = IF i = 1 THEN ss[i] ELSE f[i - 1] \o ss[i]
    BY <2>2 DEF Joins
  <2>4. \A i \in 1 .. k : g[i] = IF i = 1 THEN ss[i] ELSE g[i - 1] \o ss[i]
    <3> SUFFICES ASSUME NEW i \in 1 .. k PROVE g[i] = IF i = 1 THEN ss[i] ELSE g[i - 1] \o ss[i]
      OBVIOUS
    <3>1. i # 1 => i - 1 \in 1 .. k - 1 /\ g[i - 1] = f[i - 1]
      OBVIOUS
    <3>2. CASE i = k
      BY <3>1, <3>2
    <3>3. CASE i # k
      <4>1. i \in 1 .. k - 1 /\ g[i] = f[i]
        BY <3>3
      <4> QED
        BY <2>3, <3>1, <4>1
    <3> QED
      BY <3>2, <3>3
  <2>5. g = [i \in 1 .. k |-> g[i]]
    OBVIOUS
  <2>6. Joins(g, ss, k)
    <3> HIDE DEF g
    <3> QED
      BY <2>4, <2>5 DEF Joins
  <2> QED
    BY <2>6
<1> QED
  BY <1>2, <1>3

Agree(a, b, n) == \A i \in 1 .. n : a[i] = b[i]

LEMMA JoinsAgree ==
  ASSUME NEW ss, NEW tt, NEW n \in Nat, NEW m \in Nat, n <= m, NEW f, NEW g,
         Joins(f, ss, n), Joins(g, tt, m), Agree(ss, tt, n)
  PROVE  Agree(f, g, n)
<1> USE DEF Agree
<1> DEFINE Differ == {i \in 1 .. n : f[i] # g[i]}
<1> SUFFICES ASSUME Differ # {} PROVE FALSE
  OBVIOUS
<1>1. PICK k \in Differ : \A h \in Differ : k <= h
  <2>1. Differ \subseteq Nat
    OBVIOUS
  <2> HIDE DEF Differ
  <2> QED
    BY <2>1, LeastOf
<1>2. /\ f[k] = IF k = 1 THEN ss[k] ELSE f[k - 1] \o ss[k]
      /\ g[k] = IF k = 1 THEN tt[k] ELSE g[k - 1] \o tt[k]
      /\ ss[k] = tt[k]
  <2>1. k \in 1 .. n /\ k \in 1 .. m
    OBVIOUS
  <2>2. f[k] = IF k = 1 THEN ss[k] ELSE f[k - 1] \o ss[k]
    BY <2>1 DEF Joins
  <2>3. g[k] = IF k = 1 THEN tt[k] ELSE g[k - 1] \o tt[k]
    BY <2>1 DEF Joins
  <2> QED
    BY <2>1, <2>2, <2>3
<1>3. k # 1 => f[k - 1] = g[k - 1]
  <2>1. ASSUME k # 1 PROVE k - 1 \in 1 .. n /\ k - 1 \notin Differ
    BY <1>1, <2>1
  <2> QED
    BY <2>1
<1> QED
  BY <1>2, <1>3

LEMMA FlattenJoins ==
  ASSUME NEW A, NEW ss \in Seq(A), ss # <<>>
  PROVE  \E f : Joins(f, ss, Len(ss)) /\ FlattenSeq(ss) = f[Len(ss)]
<1> DEFINE F == CHOOSE f : f = [i \in 1 .. Len(ss) |-> IF i = 1 THEN ss[i] ELSE f[i - 1] \o ss[i]]
<1>1. Len(ss) \in Nat /\ Len(ss) # 0
  OBVIOUS
<1>2. F = [i \in 1 .. Len(ss) |-> IF i = 1 THEN ss[i] ELSE F[i - 1] \o ss[i]]
  <2>1. \E f : f = [i \in 1 .. Len(ss) |-> IF i = 1 THEN ss[i] ELSE f[i - 1] \o ss[i]]
    BY <1>1, JoinsExist, Zenon DEF Joins
  <2> QED
    BY <2>1, Zenon
<1>3. FlattenSeq(ss) = F[Len(ss)]
  BY <1>1, Zenon DEF FlattenSeq
<1> HIDE DEF F
<1>4. Joins(F, ss, Len(ss))
  BY <1>2, Zenon DEF Joins
<1> QED
  BY <1>3, <1>4

LEMMA FlattenAppend ==
  ASSUME NEW P, NEW ss \in Seq(Seq(P)), NEW s \in Seq(P)
  PROVE  FlattenSeq(Append(ss, s)) = FlattenSeq(ss) \o s
<1> DEFINE tt == Append(ss, s)
           n == Len(ss)
<1>1. /\ tt \in Seq(Seq(P)) /\ tt # <<>> /\ n \in Nat /\ Len(tt) = n + 1 /\ tt[n + 1] = s
      /\ \A i \in 1 .. n : ss[i] = tt[i]
  <2> DEFINE Q == Seq(P)
  <2>1. ss \in Seq(Q) /\ s \in Q
    OBVIOUS
  <2> HIDE DEF Q
  <2>2. /\ tt \in Seq(Q) /\ Len(ss) \in Nat /\ Len(tt) = Len(ss) + 1
        /\ tt[Len(ss) + 1] = s /\ \A i \in 1 .. Len(ss) : ss[i] = tt[i]
    BY <2>1
  <2>3. tt # <<>>
    <3> HIDE DEF tt
    <3> QED
      BY <2>2
  <2> QED
    BY <2>2, <2>3 DEF Q
<1> HIDE DEF tt
<1>2. PICK g : Joins(g, tt, n + 1) /\ FlattenSeq(tt) = g[n + 1]
  BY <1>1, FlattenJoins
<1>3. g[n + 1] = IF n + 1 = 1 THEN s ELSE g[n] \o s
  <2>1. n + 1 \in 1 .. n + 1 /\ (n + 1) - 1 = n
    BY <1>1
  <2> QED
    BY <1>1, <1>2, <2>1 DEF Joins
<1>4. CASE ss = <<>>
  <2>1. n = 0 /\ FlattenSeq(ss) = ss
    BY <1>4 DEF FlattenSeq
  <2>2. <<>> \o s = s
    OBVIOUS
  <2> QED
    BY <1>2, <1>3, <1>4, <2>1, <2>2 DEF tt
<1>5. CASE ss # <<>>
  <2>1. PICK f : Joins(f, ss, n) /\ FlattenSeq(ss) = f[n]
    BY <1>5, FlattenJoins
  <2>2. n \in 1 .. n
    BY <1>1, <1>5
  <2>3. f[n] = g[n]
    <3>1. n + 1 \in Nat /\ n <= n + 1 /\ Agree(ss, tt, n)
      BY <1>1 DEF Agree
    <3>2. Agree(f, g, n)
      BY <1>1, <1>2, <2>1, <3>1, JoinsAgree
    <3> QED
      BY <2>2, <3>2 DEF Agree
  <2> QED
    BY <1>2, <1>3, <1>5, <2>1, <2>2, <2>3 DEF tt
<1> QED
  BY <1>4, <1>5

LEMMA FlattenType ==
  ASSUME NEW P, NEW ss \in Seq(Seq(P))
  PROVE  FlattenSeq(ss) \in Seq(P)
<1>1. CASE ss = <<>>
  BY <1>1 DEF FlattenSeq
<1>2. CASE ss # <<>>
  <2>1. PICK f : Joins(f, ss, Len(ss)) /\ FlattenSeq(ss) = f[Len(ss)]
    BY <1>2, FlattenJoins
  <2> DEFINE Bad == {i \in 1 .. Len(ss) : f[i] \notin Seq(P)}
  <2>2. Len(ss) \in Nat /\ Len(ss) \in 1 .. Len(ss) /\ \A i \in 1 .. Len(ss) : ss[i] \in Seq(P)
    BY <1>2
  <2>3. Bad = {}
    <3> SUFFICES ASSUME Bad # {} PROVE FALSE
      OBVIOUS
    <3>1. PICK k \in Bad : \A h \in Bad : k <= h
      <4>1. Bad \subseteq Nat
        OBVIOUS
      <4> HIDE DEF Bad
      <4> QED
        BY <4>1, LeastOf
    <3>2. f[k] = IF k = 1 THEN ss[k] ELSE f[k - 1] \o ss[k]
      BY <2>1 DEF Joins
    <3>3. k # 1 => f[k - 1] \in Seq(P)
      BY <2>2, <3>1
    <3>4. ss[k] \in Seq(P) /\ f[k] \notin Seq(P)
      BY <2>2
    <3>5. CASE k = 1
      BY <3>2, <3>4, <3>5
    <3>6. CASE k # 1
      <4>1. \A a, b \in Seq(P) : a \o b \in Seq(P)
        OBVIOUS
      <4> QED
        BY <3>2, <3>3, <3>4, <3>6, <4>1
    <3> QED
      BY <3>5, <3>6
  <2> QED
    BY <2>1, <2>2, <2>3
<1> QED
  BY <1>1, <1>2

(* The packets of the records dumped, and what they and the count hold.    *)
Counted == [core : Cores, job : Jobs, rsc : Resources, nth : Int, frame : Nat, scene : Nat]
DumpInfo == [frame : Nat, scene : Nat, pkts : Seq(Counted)]
Dumped == [i \in DOMAIN dumps |-> dumps[i].pkts]

OnceInv ==
  /\ sent \in Seq(Counted) /\ counted \in Seq(Counted) /\ dumps \in Seq(DumpInfo)
  /\ CountedOnce

(* Every step counts the packet it sends, moves the count to a record, or  *)
(* neither sends nor counts.                                               *)
LEMMA CountingStep ==
  ASSUME TypeOK, [Next]_vars
  PROVE  \/ UNCHANGED <<sent, counted, dumps>>
         \/ /\ dumps' = dumps
            /\ \E p \in Counted : sent' = Append(sent, p) /\ counted' = Append(counted, p)
         \/ /\ sent' = sent /\ counted' = <<>>
            /\ \E r \in DumpInfo : r.pkts = counted /\ dumps' = Append(dumps, r)
         \/ counted \notin Seq(Counted)
<1> USE DEF schedVars, coreVars, sysVars, outVars
<1>1. ASSUME NEW c \in Cores, CoreTick(c), UNCHANGED dumps
      PROVE  \/ UNCHANGED <<sent, counted, dumps>>
             \/ /\ dumps' = dumps
                /\ \E p \in Counted : sent' = Append(sent, p) /\ counted' = Append(counted, p)
  <2>0. /\ job[c] \in Jobs \cup {NoJob} /\ pkts[c] \in Seq(Resources)
        /\ queue[DevOf(c)] \in Seq(Jobs) /\ frameNbr \in Nat /\ sceneNbr \in Nat
        /\ \A j \in Jobs : Full(j) \in Seq(Resources)
    BY RecordingTables DEF TypeOK, DevOf, Dev
  <2>1. ASSUME NEW j \in Jobs, NEW ps \in Seq(Resources), ps # <<>>, Send(c, j, ps)
        PROVE  \E p \in Counted : sent' = Append(sent, p) /\ counted' = Append(counted, p)
    <3> DEFINE p == [core |-> c, job |-> j, rsc |-> Head(ps),
                     nth |-> Len(Full(j)) - Len(ps) + 1,
                     frame |-> frameNbr, scene |-> sceneNbr]
    <3>1. Head(ps) \in Resources /\ Len(Full(j)) - Len(ps) + 1 \in Int
      BY <2>0, <2>1
    <3>2. p \in Counted
      BY <2>0, <3>1 DEF Counted
    <3>3. sent' = Append(sent, p) /\ counted' = Append(counted, p)
      BY <2>1 DEF Send, Full
    <3> QED
      BY <3>2, <3>3
  <2>2. CASE CoreIdle(c)
    BY <1>1, <2>2 DEF CoreIdle
  <2>3. CASE CoreNewJob(c)
    <3> DEFINE j == Head(queue[DevOf(c)])
    <3>1. j \in Jobs
      BY <2>0, <2>3 DEF CoreNewJob
    <3>2. UNCHANGED <<sent, counted>> \/ (Full(j) # <<>> /\ Send(c, j, Full(j)))
      BY <2>3 DEF CoreNewJob, Full
    <3> HIDE DEF j
    <3> QED
      BY <1>1, <2>0, <2>1, <3>1, <3>2
  <2>4. CASE CoreSend(c)
    <3>1. job[c] \in Jobs /\ pkts[c] # <<>> /\ Send(c, job[c], pkts[c])
      BY <2>0, <2>4 DEF CoreSend, NeedsJob
    <3> QED
      BY <1>1, <2>0, <2>1, <3>1
  <2> QED
    BY <1>1, <2>2, <2>3, <2>4 DEF CoreTick
<1>2. CASE CpuDrain
  <2>1. 0 \in Cores /\ CoreTick(0) /\ UNCHANGED dumps
    BY <1>2, ConfigAssumption DEF CpuDrain, Cores
  <2> QED
    BY <1>1, <2>1
<1>3. CASE GpuCore
  <2>1. next \in Cores /\ CoreTick(next) /\ UNCHANGED dumps
    BY <1>3, ConfigAssumption DEF GpuCore, Cores, TypeOK
  <2> QED
    BY <1>1, <2>1
<1>4. CASE CpuPassEndScene
  <2> DEFINE r == [frame |-> frameNbr, scene |-> sceneNbr, pkts |-> counted]
  <2>1. sent' = sent /\ counted' = <<>> /\ dumps' = Append(dumps, r) /\ r.pkts = counted
    BY <1>4 DEF CpuPassEndScene, CpuPass
  <2>2. counted \in Seq(Counted) => r \in DumpInfo
    BY DEF DumpInfo, TypeOK
  <2> HIDE DEF r
  <2> QED
    BY <2>1, <2>2
<1> QED
  BY <1>2, <1>3, <1>4, Steps
  DEF Quiet, CpuRead, GpuRead, CpuArrive, CpuPassAny, CpuPassSync, CpuPassNewScene,
      CpuPassFrame, CpuPass, GpuArriveSync, GpuCoresDone, GpuPass

LEMMA OnceStep ==
  ASSUME TypeOK, OnceInv, [Next]_vars
  PROVE  OnceInv'
<1>1. Dumped \in Seq(Seq(Counted)) /\ Len(Dumped) = Len(dumps)
  <2>1. \A i \in DOMAIN dumps : dumps[i].pkts \in Seq(Counted)
    <3>1. \A i \in DOMAIN dumps : dumps[i] \in DumpInfo
      BY DEF OnceInv
    <3> QED
      BY <3>1 DEF DumpInfo
  <2> DEFINE Q == Seq(Counted)
  <2> HIDE DEF Q
  <2>2. DOMAIN dumps = 1 .. Len(dumps) /\ Len(dumps) \in Nat
    BY DEF OnceInv
  <2>3. Dumped \in [1 .. Len(dumps) -> Q]
    BY <2>1, <2>2 DEF Dumped, Q
  <2> QED
    BY <2>2, <2>3 DEF Q
<1>2. FlattenSeq(Dumped) \in Seq(Counted) /\ FlattenSeq(Dumped) \o counted = sent
  BY <1>1, FlattenType DEF OnceInv, CountedOnce, Dumped
<1>3. CASE UNCHANGED <<sent, counted, dumps>>
  BY <1>3 DEF OnceInv, CountedOnce
<1>4. CASE /\ dumps' = dumps
           /\ \E p \in Counted : sent' = Append(sent, p) /\ counted' = Append(counted, p)
  <2>1. PICK p \in Counted : sent' = Append(sent, p) /\ counted' = Append(counted, p)
    BY <1>4
  <2>2. \A a, b \in Seq(Counted) : a \o Append(b, p) = Append(a \o b, p)
    OBVIOUS
  <2>3. FlattenSeq(Dumped) \o counted' = sent'
    BY <1>2, <2>1, <2>2 DEF OnceInv
  <2>4. Dumped' = Dumped
    BY <1>4 DEF Dumped
  <2>5. CountedOnce'
    <3>1. FlattenSeq(Dumped') \o counted' = sent'
      BY <2>3, <2>4
    <3> QED
      BY <3>1 DEF CountedOnce, Dumped
  <2> QED
    BY <1>4, <2>1, <2>5 DEF OnceInv
<1>5. CASE /\ sent' = sent /\ counted' = <<>>
           /\ \E r \in DumpInfo : r.pkts = counted /\ dumps' = Append(dumps, r)
  <2>1. PICK r \in DumpInfo : r.pkts = counted /\ dumps' = Append(dumps, r)
    BY <1>5
  <2>2. Dumped' = Append(Dumped, counted)
    <3>1. dumps \in Seq(DumpInfo) /\ Len(dumps) \in Nat /\ DOMAIN dumps = 1 .. Len(dumps)
      BY DEF OnceInv
    <3>2. /\ DOMAIN dumps' = 1 .. Len(dumps) + 1 /\ dumps'[Len(dumps) + 1] = r
          /\ \A i \in 1 .. Len(dumps) : dumps'[i] = dumps[i]
      BY <2>1, <3>1
    <3>3. Dumped' = [i \in 1 .. Len(dumps) + 1 |-> dumps'[i].pkts]
      BY <3>2 DEF Dumped
    <3>4. \A i \in 1 .. Len(dumps) : Dumped[i] = dumps'[i].pkts
      BY <3>1, <3>2 DEF Dumped
    <3> DEFINE Q == Seq(Counted)
    <3>5. Dumped \in Seq(Q) /\ Len(Dumped) = Len(dumps) /\ counted \in Q
      BY <1>1 DEF OnceInv
    <3> HIDE DEF Q
    <3>6. Append(Dumped, counted) = [i \in 1 .. Len(dumps) + 1 |->
                                       IF i = Len(dumps) + 1 THEN counted ELSE Dumped[i]]
      <4> DEFINE t == Append(Dumped, counted)
      <4>1. /\ t \in Seq(Q) /\ Len(t) = Len(dumps) + 1
            /\ t[Len(dumps) + 1] = counted /\ \A i \in 1 .. Len(dumps) : t[i] = Dumped[i]
        BY <3>5
      <4> HIDE DEF t
      <4>2. t = [i \in 1 .. Len(dumps) + 1 |-> t[i]]
        BY <4>1
      <4>3. \A i \in 1 .. Len(dumps) + 1 : t[i] = IF i = Len(dumps) + 1 THEN counted ELSE Dumped[i]
        BY <3>1, <4>1
      <4> QED
        BY <4>2, <4>3 DEF t
    <3> QED
      BY <2>1, <3>1, <3>2, <3>3, <3>4, <3>6
  <2>3. FlattenSeq(Append(Dumped, counted)) = FlattenSeq(Dumped) \o counted
    BY <1>1, FlattenAppend DEF OnceInv
  <2>4. sent \o <<>> = sent
    BY DEF OnceInv
  <2>5. CountedOnce'
    BY <1>2, <1>5, <2>2, <2>3, <2>4 DEF CountedOnce, Dumped
  <2>6. dumps' \in Seq(DumpInfo) /\ counted' \in Seq(Counted)
    BY <1>5, <2>1 DEF OnceInv
  <2> QED
    BY <1>5, <2>5, <2>6 DEF OnceInv
<1> QED
  BY <1>3, <1>4, <1>5, CountingStep DEF OnceInv

(* Every packet sent is in exactly one statistics record, or still counted *)
(* (analyzer.hh dump and reset): CountedOnce, of every replay.             *)
THEOREM StatisticsCountOnce == Spec => []CountedOnce
<1>1. Init => OnceInv
  <2> SUFFICES ASSUME Init PROVE OnceInv
    OBVIOUS
  <2>1. sent = <<>> /\ counted = <<>> /\ dumps = <<>>
    BY DEF Init
  <2>2. [i \in DOMAIN dumps |-> dumps[i].pkts] = <<>>
    BY <2>1
  <2>3. FlattenSeq(<<>>) = <<>> /\ <<>> \o <<>> = <<>>
    BY DEF FlattenSeq
  <2> QED
    BY <2>1, <2>2, <2>3 DEF OnceInv, CountedOnce
<1> QED
  BY <1>1, OnceStep, TypeCorrect, PTL DEF Spec, OnceInv

-----------------------------------------------------------------------------
(***************************************************************************)
(* The z order.  First, what a recursive function of a module computes: a  *)
(* recursion goes from d to p[d], down a measure m, to where m is 0; there *)
(* it starts from a, and on its way back applies g.                        *)
(***************************************************************************)
(* f satisfies the recursion at d.                                         *)
Recurs(f, m, p, a, g, d) ==
  f[d] = IF m[d] = 0 THEN a[d] ELSE g[<<d, f[p[d]]>>]

(* It does so down to and including measure n.                             *)
Follows(f, D, m, p, a, g, n) == \A d \in D : m[d] <= n => Recurs(f, m, p, a, g, d)

(* The recursion can be followed as far as any measure.                    *)
LEMMA RecursionStarts ==
  ASSUME NEW D, NEW S, NEW m \in [D -> Nat], NEW p \in [D -> D],
         NEW a \in [D -> S], NEW g \in [D \X S -> S],
         \A d \in D : m[d] # 0 => m[p[d]] < m[d], NEW n \in Nat
  PROVE  \E f \in [D -> S] : Follows(f, D, m, p, a, g, n)
<1> USE DEF Follows
<1> DEFINE None == {k \in Nat : ~ \E f \in [D -> S] :
                                    \A d \in D : m[d] <= k => Recurs(f, m, p, a, g, d)}
<1> SUFFICES ASSUME None # {} PROVE FALSE
  OBVIOUS
<1>1. PICK k \in None : \A h \in None : k <= h
  <2>1. None \subseteq Nat
    OBVIOUS
  <2> HIDE DEF None
  <2> QED
    BY <2>1, LeastOf
<1>2. CASE k = 0
  <2>1. \A d \in D : m[d] <= 0 => Recurs(a, m, p, a, g, d)
    BY DEF Recurs
  <2> QED
    BY <1>2, <2>1
<1>3. CASE k # 0
  <2>1. k - 1 \in Nat /\ k - 1 \notin None
    BY <1>1, <1>3
  <2>2. PICK f \in [D -> S] : \A d \in D : m[d] <= k - 1 => Recurs(f, m, p, a, g, d)
    BY <2>1
  <2> DEFINE h == [d \in D |-> IF m[d] = 0 THEN a[d] ELSE g[<<d, f[p[d]]>>]]
  <2>3. h \in [D -> S]
    OBVIOUS
  <2>4. \A d \in D : h[d] = IF m[d] = 0 THEN a[d] ELSE g[<<d, f[p[d]]>>]
    OBVIOUS
  <2> HIDE DEF h
  <2>5. \A d \in D : m[d] <= k - 1 => h[d] = f[d]
    BY <2>2, <2>4 DEF Recurs
  <2>6. \A d \in D : m[d] <= k => Recurs(h, m, p, a, g, d)
    <3> SUFFICES ASSUME NEW d \in D, m[d] <= k, m[d] # 0
                 PROVE  h[d] = g[<<d, h[p[d]]>>]
      BY <2>4 DEF Recurs
    <3>1. p[d] \in D /\ m[p[d]] <= k - 1
      OBVIOUS
    <3>2. h[p[d]] = f[p[d]]
      BY <2>5, <3>1
    <3> QED
      BY <2>4, <3>2
  <2> QED
    BY <2>3, <2>6
<1> QED
  BY <1>2, <1>3

(* As far as two functions follow it they are the same.                    *)
LEMMA RecursionAgrees ==
  ASSUME NEW D, NEW m \in [D -> Nat], NEW p \in [D -> D], NEW a, NEW g,
         \A d \in D : m[d] # 0 => m[p[d]] < m[d], NEW n \in Nat, NEW e, NEW f,
         Follows(e, D, m, p, a, g, n), Follows(f, D, m, p, a, g, n)
  PROVE  \A d \in D : m[d] <= n => e[d] = f[d]
<1> DEFINE Differ == {k \in 0 .. n : \E d \in D : m[d] = k /\ e[d] # f[d]}
<1>1. CASE Differ = {}
  BY <1>1
<1>2. CASE Differ # {}
  <2>1. PICK k \in Differ : \A h \in Differ : k <= h
    <3>1. Differ \subseteq Nat
      OBVIOUS
    <3> HIDE DEF Differ
    <3> QED
      BY <1>2, <3>1, LeastOf
  <2>2. PICK d \in D : m[d] = k /\ e[d] # f[d]
    OBVIOUS
  <2>3. k # 0 => e[p[d]] = f[p[d]]
    <3>1. ASSUME k # 0 PROVE p[d] \in D /\ m[p[d]] \in 0 .. n /\ m[p[d]] \notin Differ
      BY <2>1, <2>2, <3>1
    <3> QED
      BY <3>1
  <2>4. Recurs(e, m, p, a, g, d) /\ Recurs(f, m, p, a, g, d)
    BY <2>2 DEF Follows
  <2> QED
    BY <2>2, <2>3, <2>4 DEF Recurs
<1> QED
  BY <1>1, <1>2

(* So one function follows it all the way.                                 *)
LEMMA RecursionHolds ==
  ASSUME NEW D, NEW S, NEW m \in [D -> Nat], NEW p \in [D -> D],
         NEW a \in [D -> S], NEW g \in [D \X S -> S],
         \A d \in D : m[d] # 0 => m[p[d]] < m[d]
  PROVE  \E f \in [D -> S] : \A d \in D : Recurs(f, m, p, a, g, d)
<1> DEFINE F(n) == CHOOSE f \in [D -> S] : Follows(f, D, m, p, a, g, n)
           f == [d \in D |-> F(m[d])[d]]
<1>1. \A n \in Nat : F(n) \in [D -> S] /\ Follows(F(n), D, m, p, a, g, n)
  <2> SUFFICES ASSUME NEW n \in Nat PROVE F(n) \in [D -> S] /\ Follows(F(n), D, m, p, a, g, n)
    OBVIOUS
  <2>1. \E h \in [D -> S] : Follows(h, D, m, p, a, g, n)
    BY RecursionStarts
  <2> QED
    BY <2>1
<1> HIDE DEF F
<1>2. f \in [D -> S]
  BY <1>1
<1>3. \A d \in D : f[d] = F(m[d])[d]
  OBVIOUS
<1> HIDE DEF f
<1>4. ASSUME NEW d \in D PROVE Recurs(f, m, p, a, g, d)
  <2>1. m[d] \in Nat /\ p[d] \in D /\ m[p[d]] \in Nat
    OBVIOUS
  <2>2. Recurs(F(m[d]), m, p, a, g, d)
    BY <1>1, <2>1 DEF Follows
  <2>3. m[d] # 0 => F(m[p[d]])[p[d]] = F(m[d])[p[d]]
    <3>1. ASSUME m[d] # 0 PROVE F(m[p[d]])[p[d]] = F(m[d])[p[d]]
      <4>1. PICK n \in Nat : n = m[p[d]]
        BY <2>1
      <4> DEFINE e == F(n)
                 h == F(m[d])
      <4>2. Follows(e, D, m, p, a, g, n) /\ Follows(h, D, m, p, a, g, m[d])
        BY <1>1, <2>1, <4>1
      <4> HIDE DEF e, h
      <4>3. Follows(h, D, m, p, a, g, n)
        BY <2>1, <3>1, <4>1, <4>2 DEF Follows
      <4>4. \A c \in D : m[c] <= n => e[c] = h[c]
        BY <4>2, <4>3, RecursionAgrees
      <4> QED
        BY <2>1, <3>1, <4>1, <4>4 DEF e, h
    <3> QED
      BY <3>1
  <2> QED
    BY <1>3, <2>1, <2>2, <2>3 DEF Recurs
<1> QED
  BY <1>2, <1>4

Keeps(e, D, S, m, p) == \A d \in D : (m[d] # 0 => e[p[d]] \in S) => e[d] \in S

(* Whatever follows it as long as its values are in S has its values in S. *)
LEMMA RecursionType ==
  ASSUME NEW D, NEW S, NEW m \in [D -> Nat], NEW p \in [D -> D], NEW e,
         \A d \in D : m[d] # 0 => m[p[d]] < m[d],
         Keeps(e, D, S, m, p)
  PROVE  \A d \in D : e[d] \in S
<1> DEFINE Bad == {k \in Nat : \E d \in D : m[d] = k /\ e[d] \notin S}
<1>1. CASE Bad = {}
  BY <1>1
<1>2. CASE Bad # {}
  <2>1. PICK k \in Bad : \A h \in Bad : k <= h
    <3>1. Bad \subseteq Nat
      OBVIOUS
    <3> HIDE DEF Bad
    <3> QED
      BY <1>2, <3>1, LeastOf
  <2>2. PICK d \in D : m[d] = k /\ e[d] \notin S
    OBVIOUS
  <2>3. ASSUME m[d] # 0 PROVE e[p[d]] \in S
    <3>1. p[d] \in D /\ m[p[d]] \in Nat /\ m[p[d]] \notin Bad
      BY <2>1, <2>2, <2>3
    <3> QED
      BY <3>1
  <2> QED
    BY <2>2, <2>3 DEF Keeps
<1> QED
  BY <1>1, <1>2

(* The functions of this model.                                            *)
LEMMA PowersOfTwo ==
  /\ Pow2[0] = 1
  /\ \A i \in Nat : Pow2[i] \in Nat \ {0} /\ Pow2[i + 1] = 2 * Pow2[i]
<1> DEFINE m == [i \in Nat |-> i]
           p == [i \in Nat |-> IF i = 0 THEN 0 ELSE i - 1]
           a == [i \in Nat |-> 1]
           g == [q \in Nat \X (Nat \ {0}) |-> 2 * q[2]]
           Body(f, i) == IF i = 0 THEN 1 ELSE 2 * f[i - 1]
<1>1. /\ m \in [Nat -> Nat] /\ p \in [Nat -> Nat] /\ a \in [Nat -> Nat \ {0}]
      /\ g \in [Nat \X (Nat \ {0}) -> Nat \ {0}]
      /\ \A i \in Nat : m[i] # 0 => m[p[i]] < m[i]
  OBVIOUS
<1>2. PICK f \in [Nat -> Nat \ {0}] : \A i \in Nat : Recurs(f, m, p, a, g, i)
  <2> HIDE DEF m, p, a, g
  <2> QED
    BY <1>1, RecursionHolds
<1>3. \A i \in Nat : f[i] = Body(f, i)
  <2> SUFFICES ASSUME NEW i \in Nat PROVE f[i] = Body(f, i)
    OBVIOUS
  <2>1. f[i] = IF i = 0 THEN 1 ELSE g[<<i, f[p[i]]>>]
    BY <1>2 DEF Recurs
  <2>2. i # 0 => i - 1 \in Nat /\ p[i] = i - 1 /\ g[<<i, f[i - 1]>>] = 2 * f[i - 1]
    OBVIOUS
  <2> QED
    BY <2>1, <2>2
<1>4. f = [i \in Nat |-> Body(f, i)]
  <2> HIDE DEF Body
  <2> QED
    BY <1>3
<1>5. Pow2 = [i \in Nat |-> Body(Pow2, i)]
  BY <1>4, Zenon DEF Pow2
<1>6. \A i \in Nat : Pow2[i] = Body(Pow2, i)
  <2> HIDE DEF Body
  <2> QED
    BY <1>5
<1>7. \A i \in Nat : Pow2[i] \in Nat \ {0}
  <2> DEFINE S == Nat \ {0}
  <2>1. Keeps(Pow2, Nat, S, m, p)
    BY <1>6 DEF Keeps
  <2>2. PICK D : D = Nat
    OBVIOUS
  <2> HIDE DEF S, m, p, a, g
  <2>3. /\ m \in [D -> Nat] /\ p \in [D -> D] /\ Keeps(Pow2, D, S, m, p)
        /\ \A i \in D : m[i] # 0 => m[p[i]] < m[i]
    BY <1>1, <2>1, <2>2
  <2>4. \A i \in D : Pow2[i] \in S
    BY <2>3, RecursionType
  <2> QED
    BY <2>2, <2>4 DEF S
<1>8. \A i \in Nat : i + 1 # 0 /\ (i + 1) - 1 = i /\ i + 1 \in Nat
  OBVIOUS
<1> QED
  BY <1>6, <1>7, <1>8

Grid == Nat \X Nat

LEMMA ShiftedType ==
  ASSUME NEW q \in Grid, NEW t \in Seq(Grid)
  PROVE  /\ Shifted(q, t) \in Seq(Grid) /\ Len(Shifted(q, t)) = Len(t)
         /\ \A k \in 1 .. Len(t) :
              Shifted(q, t)[k] = <<q[1] + t[k][1], q[2] + t[k][2]>>
<1> DEFINE r == Shifted(q, t)
<1>1. Len(t) \in Nat /\ DOMAIN t = 1 .. Len(t) /\ \A k \in 1 .. Len(t) : t[k] \in Grid
  OBVIOUS
<1>2. \A k \in 1 .. Len(t) : r[k] = <<q[1] + t[k][1], q[2] + t[k][2]>>
  BY <1>1 DEF Shifted
<1>3. \A k \in 1 .. Len(t) : r[k] \in Grid
  <2> SUFFICES ASSUME NEW k \in 1 .. Len(t) PROVE r[k] \in Grid
    OBVIOUS
  <2>1. t[k] \in Nat \X Nat /\ q \in Nat \X Nat
    BY <1>1 DEF Grid
  <2>2. PICK x \in Nat, y \in Nat : x = q[1] + t[k][1] /\ y = q[2] + t[k][2]
    BY <2>1
  <2>3. r[k] = <<x, y>>
    BY <1>2, <2>2
  <2> QED
    BY <2>3 DEF Grid
<1>4. r = [k \in 1 .. Len(t) |-> r[k]]
  BY <1>1, <1>2 DEF Shifted
<1> HIDE DEF r
<1>5. r \in [1 .. Len(t) -> Grid]
  BY <1>3, <1>4
<1>6. r \in Seq(Grid) /\ Len(r) = Len(t)
  BY <1>1, <1>5
<1> QED
  BY <1>2, <1>6 DEF r

(* w is a, b, c and d, of length n each, in this order.                    *)
InTurn(w, a, b, c, d, n) ==
  /\ Len(w) = 4 * n
  /\ \A k \in 1 .. n : /\ w[k] = a[k] /\ w[n + k] = b[k]
                      /\ w[2 * n + k] = c[k] /\ w[3 * n + k] = d[k]

LEMMA TwoParts ==
  ASSUME NEW P, NEW e \in Seq(P), NEW c \in Seq(P)
  PROVE  /\ e \o c \in Seq(P) /\ Len(e \o c) = Len(e) + Len(c)
         /\ \A k \in 1 .. Len(c) : (e \o c)[Len(e) + k] = c[k]
         /\ \A k \in 1 .. Len(e) : (e \o c)[k] = e[k]
OBVIOUS

LEMMA FourParts ==
  ASSUME NEW P, NEW a \in Seq(P), NEW b \in Seq(P), NEW c \in Seq(P), NEW d \in Seq(P),
         NEW n \in Nat, Len(a) = n, Len(b) = n, Len(c) = n, Len(d) = n
  PROVE  a \o b \o c \o d \in Seq(P) /\ InTurn(a \o b \o c \o d, a, b, c, d, n)
<1>0. 2 * n = n + n /\ 3 * n = 2 * n + n /\ 4 * n = 3 * n + n
  OBVIOUS
<1> DEFINE e == a \o b
           f == e \o c
<1>1. e \in Seq(P) /\ Len(e) = n + n
  OBVIOUS
<1>2. \A k \in 1 .. n : e[k] = a[k] /\ e[n + k] = b[k]
  OBVIOUS
<1> HIDE DEF e
<1>3. PICK l, m : l = 2 * n /\ m = 3 * n
  OBVIOUS
<1>4. /\ l \in Nat /\ f \in Seq(P) /\ Len(f) = l + n
      /\ \A k \in 1 .. n : f[l + k] = c[k]
      /\ \A k \in 1 .. l : f[k] = e[k]
  <2>1. l \in Nat /\ Len(e) = l
    BY <1>0, <1>1, <1>3
  <2>2. /\ f \in Seq(P) /\ Len(f) = Len(e) + Len(c)
        /\ \A k \in 1 .. Len(c) : f[Len(e) + k] = c[k]
        /\ \A k \in 1 .. Len(e) : f[k] = e[k]
    BY <1>1, TwoParts
  <2> HIDE DEF f
  <2> QED
    BY <2>1, <2>2
<1> HIDE DEF f
<1> DEFINE g == f \o d
<1>5. m = l + n
  BY <1>0, <1>3
<1>6. /\ m \in Nat /\ g \in Seq(P) /\ Len(g) = m + n
      /\ \A k \in 1 .. n : g[m + k] = d[k]
      /\ \A k \in 1 .. m : g[k] = f[k]
  <2>1. m \in Nat /\ Len(f) = m /\ f \in Seq(P)
    BY <1>4, <1>5
  <2>2. /\ g \in Seq(P) /\ Len(g) = Len(f) + Len(d)
        /\ \A k \in 1 .. Len(d) : g[Len(f) + k] = d[k]
        /\ \A k \in 1 .. Len(f) : g[k] = f[k]
    BY <2>1, TwoParts
  <2> HIDE DEF g
  <2> QED
    BY <2>1, <2>2
<1> HIDE DEF g
<1>7. \A k \in 1 .. n : /\ g[k] = a[k] /\ g[n + k] = b[k]
                       /\ g[2 * n + k] = c[k] /\ g[3 * n + k] = d[k]
  <2> SUFFICES ASSUME NEW k \in 1 .. n
               PROVE  /\ g[k] = a[k] /\ g[n + k] = b[k]
                      /\ g[2 * n + k] = c[k] /\ g[3 * n + k] = d[k]
    OBVIOUS
  <2>1. /\ k \in 1 .. l /\ k \in 1 .. m /\ n + k \in 1 .. l
        /\ n + k \in 1 .. m /\ l + k \in 1 .. m
    BY <1>0, <1>3
  <2>2. g[n + k] = b[k] /\ g[k] = a[k]
    BY <1>2, <1>4, <1>6, <2>1
  <2>3. g[l + k] = c[k]
    BY <1>4, <1>6, <2>1
  <2>4. g[m + k] = d[k]
    BY <1>6
  <2> QED
    BY <1>3, <2>2, <2>3, <2>4
<1>8. Len(g) = 4 * n
  BY <1>0, <1>3, <1>6
<1> QED
  BY <1>6, <1>7, <1>8 DEF e, f, g, InTurn

(* The tour of a square of one tile, and of four squares.                  *)
Quarters(h, t) ==
  Shifted(<<0, 0>>, t) \o Shifted(<<0, h>>, t) \o Shifted(<<h, 0>>, t) \o Shifted(<<h, h>>, t)

LEMMA QuartersType ==
  ASSUME NEW h \in Nat, NEW t \in Seq(Grid)
  PROVE  Quarters(h, t) \in Seq(Grid)
<1>1. /\ <<0, 0>> \in Grid /\ <<0, h>> \in Grid /\ <<h, 0>> \in Grid /\ <<h, h>> \in Grid
      /\ Len(t) \in Nat
  BY DEF Grid
<1> QED
  BY <1>1, ShiftedType, FourParts DEF Quarters

LEMMA Tours ==
  \A n \in Nat : /\ Tour[n] \in Seq(Grid)
                 /\ Tour[n] = IF n <= 1 THEN << <<0, 0>> >> ELSE Quarters(n \div 2, Tour[n \div 2])
<1> DEFINE m == [n \in Nat |-> IF n <= 1 THEN 0 ELSE n]
           p == [n \in Nat |-> n \div 2]
           a == [n \in Nat |-> << <<0, 0>> >>]
           g == [q \in Nat \X Seq(Grid) |-> Quarters(q[1] \div 2, q[2])]
           Body(f, n) == IF n <= 1 THEN << <<0, 0>> >>
                         ELSE LET q == Quadrants(n \div 2)
                                  Part(k) == Shifted(q[k], f[n \div 2])
                              IN Part(1) \o Part(2) \o Part(3) \o Part(4)
<1>0. \A n \in Nat : n \div 2 \in Nat /\ (n > 1 => n \div 2 < n)
  OBVIOUS
<1>1. \A f, n : Body(f, n) = IF n <= 1 THEN << <<0, 0>> >> ELSE Quarters(n \div 2, f[n \div 2])
  BY DEF Quadrants, Quarters
<1> HIDE DEF Body
<1>2. /\ m \in [Nat -> Nat] /\ p \in [Nat -> Nat]
      /\ \A n \in Nat : m[n] # 0 => m[p[n]] < m[n]
  BY <1>0
<1>3. a \in [Nat -> Seq(Grid)]
  BY DEF Grid
<1>4. g \in [Nat \X Seq(Grid) -> Seq(Grid)]
  BY <1>0, QuartersType
<1>5. PICK f \in [Nat -> Seq(Grid)] : \A n \in Nat : Recurs(f, m, p, a, g, n)
  <2> DEFINE S == Seq(Grid)
  <2> HIDE DEF m, p, a, g, S
  <2>1. \E f \in [Nat -> S] : \A n \in Nat : Recurs(f, m, p, a, g, n)
    BY <1>2, <1>3, <1>4, RecursionHolds DEF S
  <2> QED
    BY <2>1 DEF S
<1>6. \A n \in Nat : f[n] = Body(f, n)
  <2> SUFFICES ASSUME NEW n \in Nat PROVE f[n] = Body(f, n)
    OBVIOUS
  <2>1. f[n] = IF m[n] = 0 THEN a[n] ELSE g[<<n, f[p[n]]>>]
    BY <1>5 DEF Recurs
  <2>2. n > 1 => g[<<n, f[n \div 2]>>] = Quarters(n \div 2, f[n \div 2])
    BY <1>0
  <2>3. m[n] = 0 <=> n <= 1
    OBVIOUS
  <2>4. a[n] = << <<0, 0>> >> /\ p[n] = n \div 2
    OBVIOUS
  <2> HIDE DEF a, g, m, p
  <2>5. CASE n <= 1
    BY <1>1, <2>1, <2>3, <2>4, <2>5
  <2>6. CASE ~ (n <= 1)
    <3>1. f[n] = g[<<n, f[n \div 2]>>]
      BY <2>1, <2>3, <2>4, <2>6
    <3>2. n > 1
      BY <2>6
    <3>3. f[n] = Quarters(n \div 2, f[n \div 2])
      BY <2>2, <3>1, <3>2
    <3>4. Body(f, n) = Quarters(n \div 2, f[n \div 2])
      BY <1>1, <2>6
    <3> QED
      BY <3>3, <3>4
  <2> QED
    BY <2>5, <2>6
<1>7. f = [n \in Nat |-> Body(f, n)]
  BY <1>6
<1>8. Tour = [n \in Nat |-> Body(Tour, n)]
  <2>1. Tour = CHOOSE t : t = [n \in Nat |-> Body(t, n)]
    BY Zenon DEF Tour, Body
  <2> QED
    BY <1>7, <2>1, Zenon
<1>9. \A n \in Nat : Tour[n] = IF n <= 1 THEN << <<0, 0>> >>
                                ELSE Quarters(n \div 2, Tour[n \div 2])
  BY <1>1, <1>8
<1>10. \A n \in Nat : Tour[n] \in Seq(Grid)
  <2> DEFINE S == Seq(Grid)
  <2>1. Keeps(Tour, Nat, S, m, p)
    <3> SUFFICES ASSUME NEW n \in Nat, m[n] # 0 => Tour[p[n]] \in S PROVE Tour[n] \in S
      BY DEF Keeps
    <3>1. CASE n <= 1
      BY <1>3, <1>9, <3>1
    <3>2. CASE ~ (n <= 1)
      <4>1. m[n] # 0 /\ p[n] = n \div 2
        BY <3>2
      <4>2. n \div 2 \in Nat /\ Tour[n \div 2] \in Seq(Grid)
        BY <1>0, <4>1
      <4> QED
        BY <1>9, <3>2, <4>2, QuartersType
    <3> QED
      BY <3>1, <3>2
  <2>2. PICK D : D = Nat
    OBVIOUS
  <2> HIDE DEF S, m, p, a, g
  <2>3. /\ m \in [D -> Nat] /\ p \in [D -> D] /\ Keeps(Tour, D, S, m, p)
        /\ \A i \in D : m[i] # 0 => m[p[i]] < m[i]
    BY <1>2, <2>1, <2>2
  <2>4. \A i \in D : Tour[i] \in S
    BY <2>3, RecursionType
  <2> QED
    BY <2>2, <2>4 DEF S
<1> QED
  BY <1>9, <1>10

Half(q) == <<q[1] \div 2, q[2] \div 2>>
LowBits(q) == 2 * (q[1] % 2) + (q[2] % 2)

LEMMA Halves ==
  ASSUME NEW q \in Grid
  PROVE  /\ q[1] \in Nat /\ q[2] \in Nat /\ q = <<q[1], q[2]>>
         /\ Half(q) \in Grid /\ LowBits(q) \in Nat
         /\ q # <<0, 0>> => Half(q)[1] + Half(q)[2] < q[1] + q[2]
<1>1. PICK x \in Nat, y \in Nat : q = <<x, y>>
  BY DEF Grid
<1>2. /\ x \div 2 \in Nat /\ y \div 2 \in Nat /\ x % 2 \in Nat /\ y % 2 \in Nat
      /\ x \div 2 <= x /\ y \div 2 <= y
      /\ x # 0 => x \div 2 < x
      /\ y # 0 => y \div 2 < y
  OBVIOUS
<1>3. Half(q) = <<x \div 2, y \div 2>> /\ LowBits(q) = 2 * (x % 2) + (y % 2)
  BY <1>1 DEF Half, LowBits
<1> QED
  BY <1>1, <1>2, <1>3 DEF Grid

(* The place of a tile on the curve, from its bits.                        *)
LEMMA Mortons ==
  /\ Morton[<<0, 0>>] = 0
  /\ \A q \in Grid : Morton[q] \in Nat /\ Morton[q] = 4 * Morton[Half(q)] + LowBits(q)
<1> DEFINE m == [q \in Grid |-> q[1] + q[2]]
           p == [q \in Grid |-> Half(q)]
           a == [q \in Grid |-> 0]
           g == [r \in Grid \X Nat |-> 4 * r[2] + LowBits(r[1])]
           Body(f, q) == IF q = <<0, 0>> THEN 0
                         ELSE 4 * f[<<q[1] \div 2, q[2] \div 2>>] + 2 * (q[1] % 2) + (q[2] % 2)
<1>1. \A f, q : Body(f, q) = IF q = <<0, 0>> THEN 0 ELSE 4 * f[Half(q)] + 2 * (q[1] % 2) + (q[2] % 2)
  BY DEF Half
<1>2. ASSUME NEW q \in Grid, NEW k \in Nat
      PROVE  /\ 4 * k + 2 * (q[1] % 2) + (q[2] % 2) = 4 * k + LowBits(q)
             /\ 4 * k + LowBits(q) \in Nat
  <2>1. PICK x \in Nat, y \in Nat : x = q[1] % 2 /\ y = q[2] % 2
    BY Halves
  <2>2. LowBits(q) = 2 * x + y
    BY <2>1 DEF LowBits
  <2>3. 4 * k + 2 * x + y = 4 * k + (2 * x + y) /\ 4 * k + (2 * x + y) \in Nat
    OBVIOUS
  <2> QED
    BY <2>1, <2>2, <2>3
<1> HIDE DEF Body
<1>3. \A q \in Grid : m[q] \in Nat /\ p[q] \in Grid /\ (m[q] # 0 => m[p[q]] < m[q])
                    /\ (m[q] = 0 <=> q = <<0, 0>>)
  <2> SUFFICES ASSUME NEW q \in Grid
               PROVE  m[q] \in Nat /\ p[q] \in Grid /\ (m[q] # 0 => m[p[q]] < m[q])
                      /\ (m[q] = 0 <=> q = <<0, 0>>)
    OBVIOUS
  <2>1. PICK x \in Nat, y \in Nat : x = q[1] /\ y = q[2] /\ q = <<x, y>>
    BY Halves
  <2>2. m[q] = x + y /\ p[q] = Half(q) /\ Half(q) \in Grid
    BY <2>1, Halves
  <2>3. m[Half(q)] = Half(q)[1] + Half(q)[2]
    BY <2>2
  <2>4. q # <<0, 0>> <=> x # 0 \/ y # 0
    BY <2>1
  <2> HIDE DEF m, p
  <2> QED
    BY <2>1, <2>2, <2>3, <2>4, Halves
<1>4. /\ m \in [Grid -> Nat] /\ p \in [Grid -> Grid] /\ a \in [Grid -> Nat]
      /\ \A q \in Grid : m[q] # 0 => m[p[q]] < m[q]
  BY <1>3
<1>5. g \in [Grid \X Nat -> Nat]
  BY <1>2
<1>6. PICK f \in [Grid -> Nat] : \A q \in Grid : Recurs(f, m, p, a, g, q)
  <2> HIDE DEF m, p, a, g
  <2> QED
    BY <1>4, <1>5, RecursionHolds
<1>7. \A q \in Grid : f[q] = Body(f, q)
  <2> SUFFICES ASSUME NEW q \in Grid PROVE f[q] = Body(f, q)
    OBVIOUS
  <2>1. f[q] = IF m[q] = 0 THEN a[q] ELSE g[<<q, f[p[q]]>>]
    BY <1>6 DEF Recurs
  <2>2. a[q] = 0 /\ p[q] = Half(q)
    OBVIOUS
  <2>3. PICK k \in Nat : k = f[Half(q)]
    BY Halves
  <2>4. g[<<q, k>>] = 4 * k + LowBits(q)
    OBVIOUS
  <2> HIDE DEF a, p, g, m
  <2>5. CASE q = <<0, 0>>
    BY <1>1, <1>3, <2>1, <2>2, <2>5
  <2>6. CASE q # <<0, 0>>
    <3>1. f[q] = 4 * k + LowBits(q)
      BY <1>3, <2>1, <2>2, <2>3, <2>4, <2>6
    <3>2. Body(f, q) = 4 * k + 2 * (q[1] % 2) + (q[2] % 2)
      BY <1>1, <2>3, <2>6
    <3> QED
      BY <1>2, <3>1, <3>2
  <2> QED
    BY <2>5, <2>6
<1>8. f = [q \in Nat \X Nat |-> Body(f, q)]
  BY <1>7 DEF Grid
<1>9. Morton = [q \in Nat \X Nat |-> Body(Morton, q)]
  <2>1. Morton = CHOOSE t : t = [q \in Nat \X Nat |-> Body(t, q)]
    BY Zenon DEF Morton, Body
  <2> QED
    BY <1>8, <2>1, Zenon
<1>10. \A q \in Grid : Morton[q] = Body(Morton, q)
  BY <1>9 DEF Grid
<1>11. \A q \in Grid : Morton[q] \in Nat
  <2>1. Keeps(Morton, Grid, Nat, m, p)
    <3> SUFFICES ASSUME NEW q \in Grid, m[q] # 0 => Morton[p[q]] \in Nat PROVE Morton[q] \in Nat
      BY DEF Keeps
    <3>1. CASE q = <<0, 0>>
      BY <1>1, <1>10, <3>1
    <3>2. CASE q # <<0, 0>>
      <4>1. PICK k \in Nat : k = Morton[Half(q)]
        <5>1. p[q] = Half(q)
          OBVIOUS
        <5> HIDE DEF p, m
        <5> QED
          BY <1>3, <3>2, <5>1
      <4>2. Morton[q] = 4 * k + 2 * (q[1] % 2) + (q[2] % 2)
        BY <1>1, <1>10, <3>2, <4>1
      <4> QED
        BY <1>2, <4>2
    <3> QED
      BY <3>1, <3>2
  <2>2. PICK S : S = Nat
    OBVIOUS
  <2> HIDE DEF m, p, a, g
  <2>3. Keeps(Morton, Grid, S, m, p)
    BY <2>1, <2>2
  <2>4. \A q \in Grid : Morton[q] \in S
    BY <1>4, <2>3, RecursionType
  <2> QED
    BY <2>2, <2>4
<1>12. <<0, 0>> \in Grid /\ Half(<<0, 0>>) = <<0, 0>> /\ LowBits(<<0, 0>>) = 0
  BY DEF Grid, Half, LowBits
<1>13. Morton[<<0, 0>>] = 0
  BY <1>1, <1>10, <1>12
<1>14. ASSUME NEW q \in Grid PROVE Morton[q] = 4 * Morton[Half(q)] + LowBits(q)
  <2>1. CASE q = <<0, 0>>
    BY <1>12, <1>13, <2>1
  <2>2. CASE q # <<0, 0>>
    <3>1. PICK k \in Nat : k = Morton[Half(q)]
      BY <1>11, Halves
    <3>2. Morton[q] = 4 * k + 2 * (q[1] % 2) + (q[2] % 2)
      BY <1>1, <1>10, <2>2, <3>1
    <3> QED
      BY <1>2, <3>1, <3>2
  <2> QED
    BY <2>1, <2>2
<1> QED
  BY <1>11, <1>13, <1>14

(* In a square of side h = 2^i the quadrants follow along the curve.       *)
InQuadrant(h, x, y) ==
  LET k == Morton[<<x, y>>] IN
  /\ Morton[<<x, h + y>>] = k + h * h
  /\ Morton[<<h + x, y>>] = k + 2 * (h * h)
  /\ Morton[<<h + x, h + y>>] = k + 3 * (h * h)

Below(h) == 0 .. h - 1

LEMMA HalfBelow ==
  ASSUME NEW h \in Nat, NEW x \in Below(2 * h)
  PROVE  /\ x \div 2 \in Below(h) /\ x % 2 \in 0 .. 1
         /\ (2 * h + x) \div 2 = h + x \div 2 /\ (2 * h + x) % 2 = x % 2
BY DEF Below

LEMMA QuadrantsFollow == \A i \in Nat : \A x, y \in Below(Pow2[i]) : InQuadrant(Pow2[i], x, y)
<1> DEFINE Bad == {i \in Nat : ~ \A x, y \in Below(Pow2[i]) : InQuadrant(Pow2[i], x, y)}
<1> SUFFICES ASSUME Bad # {} PROVE FALSE
  OBVIOUS
<1>1. PICK i \in Bad : \A j \in Bad : i <= j
  <2>1. Bad \subseteq Nat
    OBVIOUS
  <2> HIDE DEF Bad
  <2> QED
    BY <2>1, LeastOf
<1>2. PICK x \in Below(Pow2[i]), y \in Below(Pow2[i]) : ~ InQuadrant(Pow2[i], x, y)
  OBVIOUS
<1>3. CASE i = 0
  <2>1. Pow2[i] = 1 /\ x = 0 /\ y = 0
    BY <1>3, PowersOfTwo DEF Below
  <2>2. <<0, 1>> \in Grid /\ <<1, 0>> \in Grid /\ <<1, 1>> \in Grid
    BY DEF Grid
  <2>3. /\ 0 \div 2 = 0 /\ 1 \div 2 = 0 /\ 0 % 2 = 0 /\ 1 % 2 = 1
    OBVIOUS
  <2>4. /\ Half(<<0, 1>>) = <<0, 0>> /\ Half(<<1, 0>>) = <<0, 0>> /\ Half(<<1, 1>>) = <<0, 0>>
        /\ LowBits(<<0, 1>>) = 1 /\ LowBits(<<1, 0>>) = 2 /\ LowBits(<<1, 1>>) = 3
    BY <2>3 DEF Half, LowBits
  <2>5. Morton[<<0, 1>>] = 1 /\ Morton[<<1, 0>>] = 2 /\ Morton[<<1, 1>>] = 3
    BY <2>2, <2>4, Mortons
  <2>6. 1 + 0 = 1 /\ 0 + 1 = 1 /\ 0 + 2 * (1 * 1) = 2 /\ 0 + 3 * (1 * 1) = 3 /\ 0 + 1 * 1 = 1
    OBVIOUS
  <2>7. InQuadrant(1, 0, 0)
    BY <2>5, <2>6, Mortons DEF InQuadrant
  <2> QED
    BY <1>2, <2>1, <2>7
<1>4. CASE i # 0
  <2>1. i - 1 \in Nat /\ i - 1 \notin Bad /\ (i - 1) + 1 = i
    <3>1. i \in Nat
      OBVIOUS
    <3> HIDE DEF Bad
    <3> QED
      BY <1>1, <1>4, <3>1
  <2>2. PICK h \in Nat \ {0} : h = Pow2[i - 1] /\ Pow2[i] = 2 * h
    BY <2>1, PowersOfTwo
  <2>3. PICK u \in Below(h), v \in Below(h) : u = x \div 2 /\ v = y \div 2
    BY <1>2, <2>2, HalfBelow
  <2>4. InQuadrant(h, u, v)
    BY <2>1, <2>2, <2>3
  <2>5. PICK r \in 0 .. 1, s \in 0 .. 1 : r = x % 2 /\ s = y % 2
    BY <1>2, <2>2, HalfBelow
  <2> DEFINE H == 2 * h
  <2>6. x \in Nat /\ y \in Nat /\ u \in Nat /\ v \in Nat /\ H \in Nat
    BY <1>2, <2>2, <2>3 DEF Below
  <2>7. /\ <<x, y>> \in Grid /\ <<x, H + y>> \in Grid /\ <<H + x, y>> \in Grid
        /\ <<H + x, H + y>> \in Grid
        /\ <<u, v>> \in Grid
    BY <2>6 DEF Grid
  <2>8. /\ (H + x) \div 2 = h + u /\ (H + y) \div 2 = h + v
        /\ (H + x) % 2 = r /\ (H + y) % 2 = s
    BY <1>2, <2>2, <2>3, <2>5, HalfBelow
  <2> HIDE DEF H
  <2>9. /\ Half(<<x, y>>) = <<u, v>> /\ Half(<<x, H + y>>) = <<u, h + v>>
        /\ Half(<<H + x, y>>) = <<h + u, v>> /\ Half(<<H + x, H + y>>) = <<h + u, h + v>>
    BY <2>3, <2>8 DEF Half
  <2>10. /\ LowBits(<<x, y>>) = 2 * r + s /\ LowBits(<<x, H + y>>) = 2 * r + s
         /\ LowBits(<<H + x, y>>) = 2 * r + s /\ LowBits(<<H + x, H + y>>) = 2 * r + s
    BY <2>5, <2>8 DEF LowBits
  <2>11. PICK k \in Nat, c \in Nat, q \in Nat :
           k = Morton[<<u, v>>] /\ c = 2 * r + s /\ q = h * h
    BY <2>7, Mortons
  <2>12. /\ Morton[<<x, y>>] = 4 * k + c
         /\ Morton[<<x, H + y>>] = 4 * Morton[<<u, h + v>>] + c
         /\ Morton[<<H + x, y>>] = 4 * Morton[<<h + u, v>>] + c
         /\ Morton[<<H + x, H + y>>] = 4 * Morton[<<h + u, h + v>>] + c
    BY <2>7, <2>9, <2>10, <2>11, Mortons
  <2>13. /\ Morton[<<u, h + v>>] = k + q /\ Morton[<<h + u, v>>] = k + 2 * q
         /\ Morton[<<h + u, h + v>>] = k + 3 * q
    BY <2>4, <2>11 DEF InQuadrant
  <2>14. H * H = 4 * q
    BY <2>11 DEF H
  <2>15. /\ Morton[<<x, H + y>>] = (4 * k + c) + 4 * q
         /\ Morton[<<H + x, y>>] = (4 * k + c) + 2 * (4 * q)
         /\ Morton[<<H + x, H + y>>] = (4 * k + c) + 3 * (4 * q)
    BY <2>12, <2>13
  <2>16. InQuadrant(H, x, y)
    BY <2>12, <2>14, <2>15 DEF InQuadrant
  <2> QED
    BY <1>2, <2>2, <2>16 DEF H
<1> QED
  BY <1>3, <1>4

(* The tour of a square of side h follows the curve: tile by tile, and it  *)
(* gets to all of them.                                                    *)
OnCurve(t, h) ==
  /\ Len(t) = h * h
  /\ \A k \in 1 .. h * h : /\ t[k][1] \in Below(h) /\ t[k][2] \in Below(h)
                          /\ Morton[t[k]] = k - 1
  /\ \A x, y \in Below(h) : \E k \in 1 .. h * h : t[k] = <<x, y>>

(* Of four quarters that follow it, each in its quadrant.                  *)
LEMMA QuartersFollow ==
  ASSUME NEW h \in Nat \ {0}, NEW t \in Seq(Grid), OnCurve(t, h),
         \A x, y \in Below(h) : InQuadrant(h, x, y)
  PROVE  OnCurve(Quarters(h, t), 2 * h)
<1>1. PICK n \in Nat : n = h * h /\ (2 * h) * (2 * h) = 4 * n
  OBVIOUS
<1>2. PICK H \in Nat : H = 2 * h
  OBVIOUS
<1> DEFINE a == Shifted(<<0, 0>>, t)
           b == Shifted(<<0, h>>, t)
           c == Shifted(<<h, 0>>, t)
           d == Shifted(<<h, h>>, t)
           w == Quarters(h, t)
<1>3. /\ a \in Seq(Grid) /\ b \in Seq(Grid) /\ c \in Seq(Grid) /\ d \in Seq(Grid)
      /\ Len(a) = n /\ Len(b) = n /\ Len(c) = n /\ Len(d) = n
      /\ \A k \in 1 .. n : /\ a[k] = <<0 + t[k][1], 0 + t[k][2]>>
                          /\ b[k] = <<0 + t[k][1], h + t[k][2]>>
                          /\ c[k] = <<h + t[k][1], 0 + t[k][2]>>
                          /\ d[k] = <<h + t[k][1], h + t[k][2]>>
  <2>1. /\ <<0, 0>> \in Grid /\ <<0, h>> \in Grid /\ <<h, 0>> \in Grid /\ <<h, h>> \in Grid
    BY DEF Grid
  <2>2. Len(t) = n
    BY <1>1 DEF OnCurve
  <2> QED
    BY ZenonT(60), <2>1, <2>2, ShiftedType
<1> HIDE DEF a, b, c, d
<1>4. /\ Len(w) = 4 * n
      /\ \A k \in 1 .. n : w[k] = a[k] /\ w[n + k] = b[k] /\ w[2 * n + k] = c[k] /\ w[3 * n + k] = d[k]
  <2>1. w = a \o b \o c \o d
    BY DEF Quarters, a, b, c, d
  <2> HIDE DEF w
  <2>2. /\ a \in Seq(Grid) /\ b \in Seq(Grid) /\ c \in Seq(Grid) /\ d \in Seq(Grid)
        /\ Len(a) = n /\ Len(b) = n /\ Len(c) = n /\ Len(d) = n
    BY <1>3
  <2>3. InTurn(w, a, b, c, d, n)
    BY <2>1, <2>2, FourParts
  <2> QED
    BY <2>3 DEF InTurn
<1> HIDE DEF w
<1>5. ASSUME NEW k \in 1 .. n, NEW x \in Below(h), NEW y \in Below(h), t[k] = <<x, y>>
      PROVE  /\ Morton[<<x, y>>] = k - 1
             /\ w[k] = <<x, y>> /\ w[n + k] = <<x, h + y>>
             /\ w[2 * n + k] = <<h + x, y>> /\ w[3 * n + k] = <<h + x, h + y>>
  <2>1. Morton[t[k]] = k - 1
    BY <1>1 DEF OnCurve
  <2>2. 0 + x = x /\ 0 + y = y
    BY DEF Below
  <2>3. t[k][1] = x /\ t[k][2] = y
    BY <1>5
  <2>4. /\ a[k] = <<x, y>> /\ b[k] = <<x, h + y>> /\ c[k] = <<h + x, y>>
        /\ d[k] = <<h + x, h + y>>
    BY <1>3, <2>2, <2>3
  <2> QED
    BY <1>4, <1>5, <2>1, <2>4
<1>6. ASSUME NEW k \in 1 .. n
      PROVE  \E x, y \in Below(h) : t[k] = <<x, y>>
  <2>1. t[k] \in Grid
    BY <1>1 DEF OnCurve
  <2>2. t[k] = <<t[k][1], t[k][2]>>
    BY <2>1 DEF Grid
  <2> QED
    BY <1>1, <2>2 DEF OnCurve
<1>7. ASSUME NEW k \in 1 .. 4 * n
      PROVE  w[k][1] \in Below(H) /\ w[k][2] \in Below(H) /\ Morton[w[k]] = k - 1
  <2>1. PICK j \in 1 .. n : k \in {j, n + j, 2 * n + j, 3 * n + j}
    <3>1. \/ k \in 1 .. n \/ k - n \in 1 .. n \/ k - 2 * n \in 1 .. n \/ k - 3 * n \in 1 .. n
      OBVIOUS
    <3>2. /\ k = n + (k - n) /\ k = 2 * n + (k - 2 * n) /\ k = 3 * n + (k - 3 * n)
      OBVIOUS
    <3> QED
      BY <3>1, <3>2
  <2>2. PICK x \in Below(h), y \in Below(h) : t[j] = <<x, y>>
    BY <1>6
  <2>3. /\ Morton[<<x, y>>] = j - 1
        /\ w[j] = <<x, y>> /\ w[n + j] = <<x, h + y>>
        /\ w[2 * n + j] = <<h + x, y>> /\ w[3 * n + j] = <<h + x, h + y>>
    BY <1>5, <2>2
  <2>4. /\ Morton[<<x, h + y>>] = (j - 1) + n
        /\ Morton[<<h + x, y>>] = (j - 1) + 2 * n
        /\ Morton[<<h + x, h + y>>] = (j - 1) + 3 * n
    BY <1>1, <2>2, <2>3 DEF InQuadrant
  <2>5. x \in Below(H) /\ y \in Below(H) /\ h + x \in Below(H) /\ h + y \in Below(H)
    BY <1>2 DEF Below
  <2>6. /\ (j - 1) + n = (n + j) - 1 /\ (j - 1) + 2 * n = (2 * n + j) - 1
        /\ (j - 1) + 3 * n = (3 * n + j) - 1
    OBVIOUS
  <2>7. w[k] \in {<<x, y>>, <<x, h + y>>, <<h + x, y>>, <<h + x, h + y>>} /\ Morton[w[k]] = k - 1
    BY <2>1, <2>3, <2>4, <2>6
  <2> QED
    BY <2>5, <2>7
<1>8. ASSUME NEW x \in Below(H), NEW y \in Below(H)
      PROVE  \E k \in 1 .. 4 * n : w[k] = <<x, y>>
  <2>1. PICK u \in Below(h), v \in Below(h) : x \in {u, h + u} /\ y \in {v, h + v}
    <3>1. \A z \in Below(H) : z \in Below(h) \/ (z - h \in Below(h) /\ z = h + (z - h))
      BY <1>2 DEF Below
    <3> QED
      BY <3>1
  <2>2. PICK j \in 1 .. n : t[j] = <<u, v>>
    BY <1>1 DEF OnCurve
  <2>3. /\ w[j] = <<u, v>> /\ w[n + j] = <<u, h + v>>
        /\ w[2 * n + j] = <<h + u, v>> /\ w[3 * n + j] = <<h + u, h + v>>
    BY <1>5, <2>2
  <2>4. /\ j \in 1 .. 4 * n /\ n + j \in 1 .. 4 * n
        /\ 2 * n + j \in 1 .. 4 * n /\ 3 * n + j \in 1 .. 4 * n
    OBVIOUS
  <2> QED
    BY <2>1, <2>3, <2>4
<1>9. H * H = 4 * n
  BY <1>1, <1>2
<1>10. OnCurve(w, H)
  BY <1>4, <1>7, <1>8, <1>9 DEF OnCurve
<1> QED
  BY <1>2, <1>10 DEF w

LEMMA TourFollows == \A i \in Nat : OnCurve(Tour[Pow2[i]], Pow2[i])
<1> DEFINE Bad == {i \in Nat : ~ OnCurve(Tour[Pow2[i]], Pow2[i])}
<1> SUFFICES ASSUME Bad # {} PROVE FALSE
  OBVIOUS
<1>1. PICK i \in Bad : \A j \in Bad : i <= j
  <2>1. Bad \subseteq Nat
    OBVIOUS
  <2> HIDE DEF Bad
  <2> QED
    BY <2>1, LeastOf
<1>2. CASE i = 0
  <2>0. 1 \in Nat /\ 1 <= 1
    OBVIOUS
  <2>1. Pow2[i] = 1 /\ Tour[1] = << <<0, 0>> >>
    BY <1>2, <2>0, PowersOfTwo, Tours
  <2>2. 1 * 1 = 1 /\ Below(1) = {0} /\ 1 - 1 = 0
    BY DEF Below
  <2>3. OnCurve(<< <<0, 0>> >>, 1)
    BY <2>2, Mortons DEF OnCurve
  <2> QED
    BY <2>1, <2>3
<1>3. CASE i # 0
  <2>1. i - 1 \in Nat /\ i - 1 \notin Bad /\ (i - 1) + 1 = i
    <3>1. i \in Nat
      OBVIOUS
    <3> HIDE DEF Bad
    <3> QED
      BY <1>1, <1>3, <3>1
  <2>2. PICK h \in Nat \ {0} : h = Pow2[i - 1] /\ Pow2[i] = 2 * h
    BY <2>1, PowersOfTwo
  <2>3. 2 * h \in Nat /\ ~ (2 * h <= 1) /\ (2 * h) \div 2 = h
    OBVIOUS
  <2>4. Tour[2 * h] = Quarters(h, Tour[h]) /\ Tour[h] \in Seq(Grid)
    BY <2>3, Tours
  <2>5. OnCurve(Tour[h], h) /\ \A x, y \in Below(h) : InQuadrant(h, x, y)
    BY <2>1, <2>2, QuadrantsFollow
  <2> QED
    BY <2>2, <2>4, <2>5, QuartersFollow
<1> QED
  BY <1>2, <1>3

-----------------------------------------------------------------------------
(* Multiples, quotients and remainders.                                    *)
LEMMA Multiples ==
  ASSUME NEW k \in Nat, NEW n \in Nat, NEW l \in Nat
  PROVE  /\ n * l \in Nat /\ (k + 1) * l = k * l + l
         /\ k < n => k * l + l <= n * l
<1>1. n * l \in Nat /\ (k + 1) * l = k * l + l
  OBVIOUS
<1>2. ASSUME k < n PROVE k * l + l <= n * l
  <2>1. PICK d \in Nat : n = (k + 1) + d
    <3>1. n - (k + 1) \in Nat /\ n = (k + 1) + (n - (k + 1))
      BY <1>2
    <3> QED
      BY <3>1
  <2>2. n * l = (k * l + l) + d * l /\ d * l \in Nat
    BY <2>1
  <2>3. PICK x \in Nat, y \in Nat : x = k * l + l /\ y = d * l
    BY <2>2
  <2> QED
    BY <2>2, <2>3
<1> QED
  BY <1>1, <1>2

LEMMA Quotients ==
  ASSUME NEW r \in Nat \ {0}, NEW i \in Nat
  PROVE  i \div r \in Nat /\ i % r \in 0 .. r - 1 /\ i = (i \div r) * r + (i % r)
OBVIOUS

LEMMA OneQuotient ==
  ASSUME NEW r \in Nat \ {0}, NEW q \in Nat, NEW m \in 0 .. r - 1
  PROVE  (q * r + m) \div r = q /\ (q * r + m) % r = m
<1>1. PICK i \in Nat : i = q * r + m
  BY Multiples
<1>2. PICK a \in Nat, b \in 0 .. r - 1 : a = i \div r /\ b = i % r /\ i = a * r + b
  BY Quotients
<1>3. PICK x \in Nat, y \in Nat : x = q * r /\ y = a * r
  BY Multiples
<1>4. ~ (a < q) /\ ~ (q < a)
  <2>1. /\ a < q => a * r + r <= q * r
        /\ q < a => q * r + r <= a * r
    BY Multiples
  <2> QED
    BY <1>1, <1>2, <1>3, <2>1
<1>5. a = q
  BY <1>4
<1> QED
  BY <1>1, <1>2, <1>3, <1>5

(* A number orders as its quotient and remainder do.                       *)
LEMMA QuotientsOrder ==
  ASSUME NEW r \in Nat \ {0}, NEW a \in Nat, NEW b \in 0 .. r - 1,
         NEW c \in Nat, NEW d \in 0 .. r - 1, a * r + b < c * r + d
  PROVE  a < c \/ (a = c /\ b < d)
<1>1. PICK x \in Nat, y \in Nat : x = a * r /\ y = c * r
  BY Multiples
<1>2. ~ (c < a)
  BY <1>1, Multiples
<1>3. a = c => b < d
  BY <1>1
<1> QED
  BY <1>2, <1>3

(* The side of the square that covers a scene is a power of two.           *)
LEMMA PowersGrow == \A i \in Nat : i < Pow2[i]
<1> DEFINE Bad == {i \in Nat : ~ (i < Pow2[i])}
<1> SUFFICES ASSUME Bad # {} PROVE FALSE
  OBVIOUS
<1>1. PICK i \in Nat : i \in Bad /\ \A j \in Bad : i <= j
  <2>1. Bad \subseteq Nat
    OBVIOUS
  <2> HIDE DEF Bad
  <2> QED
    BY <2>1, LeastOf
<1>2. CASE i = 0
  BY <1>1, <1>2, PowersOfTwo
<1>3. CASE i # 0
  <2> HIDE DEF Bad
  <2>1. i - 1 \in Nat /\ i - 1 \notin Bad /\ (i - 1) + 1 = i
    BY <1>1, <1>3
  <2>2. PICK h \in Nat : h = Pow2[i - 1] /\ Pow2[i] = 2 * h
    BY <2>1, PowersOfTwo
  <2>3. i - 1 < h
    BY <2>1, <2>2 DEF Bad
  <2>4. i < 2 * h
    BY <1>3, <2>3
  <2> QED
    BY <1>1, <2>2, <2>4 DEF Bad
<1> QED
  BY <1>2, <1>3

LEMMA RoundedUp ==
  ASSUME NEW n \in Nat \ {0}
  PROVE  \E i \in Nat : RoundUp(n) = Pow2[i] /\ n <= Pow2[i]
<1> DEFINE Big == {i \in Nat : n <= Pow2[i]}
<1>1. n \in Big
  <2>1. n < Pow2[n] /\ Pow2[n] \in Nat
    BY PowersGrow, PowersOfTwo
  <2> QED
    BY <2>1
<1>2. PICK i \in Nat : i \in Big /\ \A j \in Big : i <= j
  <2>1. Big \subseteq Nat
    OBVIOUS
  <2> HIDE DEF Big
  <2> QED
    BY <1>1, <2>1, LeastOf
<1>3. Pow2[i] < 2 * n
  <2>1. CASE i = 0
    BY <2>1, PowersOfTwo
  <2>2. CASE i # 0
    <3>1. i - 1 \in Nat /\ ~ (i <= i - 1) /\ (i - 1) + 1 = i
      BY <2>2
    <3>2. PICK h \in Nat : h = Pow2[i - 1] /\ Pow2[i] = 2 * h
      BY <3>1, PowersOfTwo
    <3>3. ~ (n <= h)
      BY <1>2, <3>1, <3>2
    <3> QED
      BY <3>2, <3>3
  <2> QED
    BY <2>1, <2>2
<1>4. i \in 0 .. n /\ n <= Pow2[i]
  BY <1>1, <1>2
<1>5. \E p \in {Pow2[j] : j \in 0 .. n} : n <= p /\ p < 2 * n
  BY <1>3, <1>4
<1>6. RoundUp(n) \in {Pow2[j] : j \in 0 .. n} /\ n <= RoundUp(n)
  BY <1>5 DEF RoundUp
<1> QED
  BY <1>6

LEMMA SideCovers ==
  ASSUME NEW width \in Nat, NEW height \in Nat
  PROVE  /\ Side(width, height) \in Nat
         /\ width <= Side(width, height) /\ height <= Side(width, height)
         /\ Side(width, height) # 0 => \E i \in Nat : Side(width, height) = Pow2[i]
<1>1. PICK n \in Nat : n = IF width >= height THEN width ELSE height
  OBVIOUS
<1>2. Side(width, height) = RoundUp(n) /\ width <= n /\ height <= n
  BY <1>1 DEF Side
<1>3. CASE n = 0
  BY <1>2, <1>3 DEF RoundUp
<1>4. CASE n # 0
  <2>1. PICK i \in Nat : RoundUp(n) = Pow2[i] /\ n <= Pow2[i]
    BY <1>4, RoundedUp
  <2>2. Pow2[i] \in Nat
    BY PowersOfTwo
  <2> QED
    BY <1>2, <2>1, <2>2
<1> QED
  BY <1>3, <1>4

-----------------------------------------------------------------------------
(* A sequence s of n parts of length l each, in the order of ss.           *)
InParts(s, ss, n, l) ==
  /\ Len(s) = n * l
  /\ \A k \in 1 .. n : \A j \in 1 .. l : s[(k - 1) * l + j] = ss[k][j]

LEMMA PartsAppend ==
  ASSUME NEW P, NEW s \in Seq(P), NEW ss, NEW n \in Nat, NEW l \in Nat,
         InParts(s, ss, n, l), ss[n + 1] \in Seq(P), Len(ss[n + 1]) = l
  PROVE  InParts(s \o ss[n + 1], ss, n + 1, l)
<1>1. PICK m \in Nat : m = n * l /\ (n + 1) * l = m + l
  BY Multiples
<1>2. Len(s) = m
  BY <1>1 DEF InParts
<1> DEFINE t == ss[n + 1]
           w == s \o t
<1>3. Len(w) = m + l
  BY <1>2
<1>4. \A i \in 1 .. m : w[i] = s[i]
  BY <1>2
<1>5. \A j \in 1 .. l : w[m + j] = t[j]
  BY <1>2
<1> HIDE DEF w
<1>6. ASSUME NEW k \in 1 .. n + 1, NEW j \in 1 .. l PROVE w[(k - 1) * l + j] = ss[k][j]
  <2>1. CASE k = n + 1
    <3>1. (k - 1) * l = m
      <4>1. k - 1 = n
        BY <2>1
      <4> QED
        BY <1>1, <4>1
    <3> QED
      BY <1>5, <2>1, <3>1
  <2>2. CASE k # n + 1
    <3>1. k - 1 \in Nat /\ k - 1 < n /\ k \in 1 .. n
      BY <2>2
    <3>2. PICK x \in Nat : x = (k - 1) * l /\ x + l <= m
      BY <1>1, <3>1, Multiples
    <3>3. x + j \in 1 .. m
      BY <3>2
    <3>4. s[x + j] = ss[k][j]
      BY <3>1, <3>2 DEF InParts
    <3> QED
      BY <1>4, <3>2, <3>3, <3>4
  <2> QED
    BY <2>1, <2>2
<1> QED
  BY <1>1, <1>3, <1>6 DEF InParts, w

LEMMA FlattenParts ==
  ASSUME NEW P, NEW ss \in Seq(Seq(P)), NEW l \in Nat, \A k \in 1 .. Len(ss) : Len(ss[k]) = l
  PROVE  InParts(FlattenSeq(ss), ss, Len(ss), l)
<1> DEFINE Q == Seq(P)
<1>1. PICK n \in Nat : n = Len(ss) /\ \A k \in 1 .. n : ss[k] \in Q /\ Len(ss[k]) = l
  <2>1. ss \in Seq(Q)
    OBVIOUS
  <2> HIDE DEF Q
  <2> QED
    BY <2>1
<1>2. CASE ss = <<>>
  <2>1. FlattenSeq(ss) = <<>> /\ n = 0
    BY <1>1, <1>2 DEF FlattenSeq
  <2>2. 0 * l = 0
    OBVIOUS
  <2>3. InParts(<<>>, ss, 0, l)
    BY <2>2 DEF InParts
  <2> QED
    BY <1>1, <2>1, <2>3
<1>3. CASE ss # <<>>
  <2>1. PICK f : Joins(f, ss, n) /\ FlattenSeq(ss) = f[n]
    BY <1>1, <1>3, FlattenJoins
  <2> DEFINE Fine(i) == f[i] \in Q /\ InParts(f[i], ss, i, l)
             Bad == {i \in 1 .. n : ~ Fine(i)}
  <2>2. n \in 1 .. n
    BY <1>1, <1>3
  <2>3. Bad = {}
    <3> SUFFICES ASSUME Bad # {} PROVE FALSE
      OBVIOUS
    <3>1. PICK i \in 1 .. n : i \in Bad /\ \A j \in Bad : i <= j
      <4>1. Bad \subseteq Nat
        OBVIOUS
      <4> HIDE DEF Bad
      <4>2. \E i \in Bad : \A j \in Bad : i <= j
        BY <4>1, LeastOf
      <4> QED
        BY <4>2 DEF Bad
    <3>2. f[i] = IF i = 1 THEN ss[i] ELSE f[i - 1] \o ss[i]
      BY <2>1 DEF Joins
    <3>3. CASE i = 1
      <4>1. f[1] = ss[1] /\ ss[1] \in Q /\ Len(ss[1]) = l
        BY <1>1, <3>2, <3>3
      <4>2. 1 * l = l /\ \A j \in 1 .. l : (1 - 1) * l + j = j
        OBVIOUS
      <4>3. InParts(f[1], ss, 1, l)
        BY <4>1, <4>2 DEF InParts
      <4> QED
        BY <3>1, <3>3, <4>1, <4>3
    <3>4. CASE i # 1
      <4>1. PICK h \in Nat : i = h + 1 /\ i - 1 = h /\ h \in 1 .. n /\ ~ (i <= h)
        <5>1. i - 1 \in Nat /\ i = (i - 1) + 1 /\ i - 1 \in 1 .. n /\ ~ (i <= i - 1)
          BY <3>4
        <5> QED
          BY <5>1
      <4>2. Fine(h)
        <5>1. h \notin Bad
          BY <3>1, <4>1
        <5> QED
          BY <4>1, <5>1
      <4>3. ss[h + 1] \in Q /\ Len(ss[h + 1]) = l /\ f[i] = f[h] \o ss[h + 1]
        BY <1>1, <3>2, <3>4, <4>1
      <4>4. f[i] \in Q
        BY <4>2, <4>3
      <4>5. InParts(f[h] \o ss[h + 1], ss, h + 1, l)
        BY <4>2, <4>3, PartsAppend
      <4> QED
        BY <3>1, <4>1, <4>3, <4>4, <4>5
    <3> QED
      BY <3>3, <3>4
  <2>4. Fine(n)
    BY <2>2, <2>3
  <2> QED
    BY <1>1, <2>1, <2>4
<1> QED
  BY <1>2, <1>3

(* The place of a tile in the walk over squares of side h: ZKey.           *)
PlaceOf(q, h) == <<q[2] \div h, q[1] \div h, Morton[<<q[1] % h, q[2] % h>>]>>

(* A walk in the order of these places.                                    *)
AlongTheCurve(w, h) ==
  \A i, k \in DOMAIN w : i < k => Before(PlaceOf(w[i], h), PlaceOf(w[k], h))

Gets(w, width, height) ==
  \A x \in Below(width), y \in Below(height) : \E i \in DOMAIN w : w[i] = <<x, y>>

(* The squares of a walk: r rows of r, of side h.                          *)
SquareAt(k, r, h) == Shifted(<<(k % r) * h, (k \div r) * h>>, Tour[h])
Squares(r, h) == [k \in 1 .. r * r |-> SquareAt(k - 1, r, h)]

(* What q has to be to be the square with number c of r rows.              *)
IsSquare(q, c, r, h) ==
  /\ q \in Seq(Grid) /\ Len(q) = h * h
  /\ \A j \in 1 .. h * h : PlaceOf(q[j], h) = <<c \div r, c % r, j - 1>>
  /\ \A x, y \in Nat : x \div h = c % r /\ y \div h = c \div r =>
                        \E j \in 1 .. h * h : q[j] = <<x, y>>

LEMMA SquareFollows ==
  ASSUME NEW r \in Nat \ {0}, NEW h \in Nat \ {0}, OnCurve(Tour[h], h),
         NEW k \in 1 .. r * r
  PROVE  IsSquare(SquareAt(k - 1, r, h), k - 1, r, h)
<1>0. k - 1 \in Nat /\ r * r \in Nat
  BY Multiples
<1>1. PICK a \in Nat, b \in 0 .. r - 1 : a = (k - 1) \div r /\ b = (k - 1) % r
  BY <1>0, Quotients
<1>2. PICK A \in Nat, B \in Nat : A = a * h /\ B = b * h
  BY <1>1, Multiples
<1> DEFINE t == Tour[h]
           q == <<B, A>>
           w == SquareAt(k - 1, r, h)
<1>3. w = Shifted(q, t) /\ q \in Grid /\ q[1] = B /\ q[2] = A /\ t \in Seq(Grid)
  BY <1>1, <1>2, Tours DEF SquareAt, Grid
<1>4. PICK n \in Nat : n = h * h
  BY Multiples
<1>5. Len(t) = n
  BY <1>4 DEF OnCurve
<1> HIDE DEF w, q, t
<1>6. /\ w \in Seq(Grid) /\ Len(w) = n
      /\ \A j \in 1 .. n : w[j] = <<B + t[j][1], A + t[j][2]>>
  <2>1. /\ Shifted(q, t) \in Seq(Grid) /\ Len(Shifted(q, t)) = Len(t)
        /\ \A j \in 1 .. Len(t) : Shifted(q, t)[j] = <<q[1] + t[j][1], q[2] + t[j][2]>>
    BY <1>3, ShiftedType
  <2> QED
    BY <1>3, <1>5, <2>1
<1>7. ASSUME NEW j \in 1 .. n PROVE PlaceOf(w[j], h) = <<a, b, j - 1>>
  <2>1. PICK x \in 0 .. h - 1, y \in 0 .. h - 1 : x = t[j][1] /\ y = t[j][2]
    BY <1>4 DEF OnCurve, Below, t
  <2>2. t[j] = <<x, y>> /\ Morton[t[j]] = j - 1
    <3>1. t[j] \in Grid
      BY <1>3, <1>5
    <3>2. t[j] = <<x, y>>
      BY <2>1, <3>1 DEF Grid
    <3> QED
      BY <1>4, <3>2 DEF OnCurve, t
  <2>3. PICK u \in Nat, v \in Nat : u = b * h + x /\ v = a * h + y
    BY <1>2
  <2>4. u \div h = b /\ u % h = x /\ v \div h = a /\ v % h = y
    <3>1. b \in Nat
      OBVIOUS
    <3>2. (b * h + x) \div h = b /\ (b * h + x) % h = x
      BY <3>1, OneQuotient
    <3>3. (a * h + y) \div h = a /\ (a * h + y) % h = y
      BY OneQuotient
    <3> QED
      BY <2>3, <3>2, <3>3
  <2>5. w[j] = <<u, v>>
    BY <1>2, <1>6, <2>1, <2>3
  <2> QED
    BY <2>2, <2>4, <2>5 DEF PlaceOf
<1>8. ASSUME NEW x \in Nat, NEW y \in Nat, x \div h = b, y \div h = a
      PROVE  \E j \in 1 .. n : w[j] = <<x, y>>
  <2>1. PICK u \in 0 .. h - 1, v \in 0 .. h - 1 : x = b * h + u /\ y = a * h + v
    BY ZenonT(60), <1>8, Quotients
  <2>2. u \in Below(h) /\ v \in Below(h)
    BY DEF Below
  <2>3. PICK j \in 1 .. n : t[j] = <<u, v>>
    BY <1>4, <2>2 DEF OnCurve, t
  <2>4. w[j] = <<B + u, A + v>>
    BY <1>6, <2>3
  <2> QED
    BY <1>2, <2>1, <2>4
<1> QED
  BY ZenonT(60), <1>1, <1>4, <1>6, <1>7, <1>8 DEF w, IsSquare

(* It gets to every tile of r rows of r squares of side h.                 *)
Covers(w, r, h) ==
  \A x, y \in Nat : x \div h < r /\ y \div h < r => \E i \in DOMAIN w : w[i] = <<x, y>>

LEMMA SquaresFollow ==
  ASSUME NEW r \in Nat, NEW h \in Nat \ {0}, OnCurve(Tour[h], h)
  PROVE  /\ FlattenSeq(Squares(r, h)) \in Seq(Grid)
         /\ AlongTheCurve(FlattenSeq(Squares(r, h)), h)
         /\ Covers(FlattenSeq(Squares(r, h)), r, h)
<1>1. PICK n \in Nat : n = r * r
  BY Multiples
<1>2. PICK l \in Nat \ {0} : l = h * h
  OBVIOUS
<1> DEFINE ss == Squares(r, h)
           w == FlattenSeq(ss)
<1>3. ASSUME NEW k \in 1 .. n
      PROVE  /\ r # 0 /\ k - 1 \in Nat /\ ss[k] = SquareAt(k - 1, r, h)
             /\ ss[k] \in Seq(Grid) /\ Len(ss[k]) = l
             /\ \A j \in 1 .. l : PlaceOf(ss[k][j], h) = <<(k - 1) \div r, (k - 1) % r, j - 1>>
             /\ \A x, y \in Nat : x \div h = (k - 1) % r /\ y \div h = (k - 1) \div r =>
                  \E j \in 1 .. l : ss[k][j] = <<x, y>>
  <2>1. r \in Nat \ {0} /\ k - 1 \in Nat /\ k \in 1 .. r * r
    BY <1>1
  <2>2. ss[k] = SquareAt(k - 1, r, h)
    BY <2>1 DEF Squares
  <2> HIDE DEF ss
  <2>3. IsSquare(ss[k], k - 1, r, h)
    BY <2>1, <2>2, SquareFollows
  <2> QED
    BY <1>2, <2>1, <2>2, <2>3 DEF IsSquare
<1>4. /\ ss \in Seq(Seq(Grid)) /\ Len(ss) = n
  <2> DEFINE Q == Seq(Grid)
  <2>1. ss = [k \in 1 .. n |-> ss[k]]
    BY <1>1 DEF Squares
  <2>2. \A k \in 1 .. n : ss[k] \in Q
    BY <1>3
  <2> HIDE DEF ss, Q
  <2>3. ss \in [1 .. n -> Q]
    BY <2>1, <2>2
  <2>4. ss \in Seq(Q) /\ Len(ss) = n
    BY <2>3
  <2> QED
    BY <2>4 DEF Q
<1>5. w \in Seq(Grid) /\ InParts(w, ss, n, l)
  <2> HIDE DEF ss
  <2>1. \A k \in 1 .. Len(ss) : Len(ss[k]) = l
    BY <1>3, <1>4
  <2> QED
    BY <1>4, <2>1, FlattenType, FlattenParts
<1>6. PICK m \in Nat : m = n * l /\ Len(w) = m /\ DOMAIN w = 1 .. m
  <2>1. n * l \in Nat /\ Len(w) = n * l
    BY <1>5, Multiples DEF InParts
  <2> HIDE DEF w
  <2> QED
    BY <1>5, <2>1
<1> HIDE DEF ss, w
<1>7. ASSUME NEW i \in 1 .. m
      PROVE  \E k \in 1 .. n, j \in 1 .. l : i - 1 = (k - 1) * l + (j - 1) /\ w[i] = ss[k][j]
  <2>1. i - 1 \in Nat
    OBVIOUS
  <2>2. PICK c \in Nat, d \in 0 .. l - 1 : i - 1 = c * l + d
    BY ZenonT(60), <2>1, Quotients
  <2>3. c < n
    <3>1. PICK e \in Nat : e = c * l
      BY Multiples
    <3>2. ASSUME ~ (c < n) PROVE FALSE
      <4>1. m <= e
        <5>1. n = c \/ n < c
          BY <3>2
        <5>2. n < c => m + l <= e
          BY <1>6, <3>1, Multiples
        <5> QED
          BY <1>6, <3>1, <5>1, <5>2
      <4> QED
        BY <2>2, <3>1, <4>1
    <3> QED
      BY <3>2
  <2>4. PICK k \in 1 .. n, j \in 1 .. l : k - 1 = c /\ j - 1 = d
    <3>1. c + 1 \in 1 .. n /\ d + 1 \in 1 .. l /\ (c + 1) - 1 = c /\ (d + 1) - 1 = d
      BY <2>3
    <3> QED
      BY <3>1
  <2>5. w[(k - 1) * l + j] = ss[k][j]
    BY <1>5 DEF InParts
  <2>6. (k - 1) * l + j = i
    <3>1. PICK e \in Nat : e = c * l
      BY Multiples
    <3>2. (k - 1) * l = e
      BY <2>4, <3>1
    <3> QED
      BY <2>2, <2>4, <3>1, <3>2
  <2> QED
    BY <2>2, <2>4, <2>5, <2>6
<1>8. AlongTheCurve(w, h)
  <2> SUFFICES ASSUME NEW i \in 1 .. m, NEW k \in 1 .. m, i < k
               PROVE  Before(PlaceOf(w[i], h), PlaceOf(w[k], h))
    BY <1>6 DEF AlongTheCurve
  <2>1. PICK a \in 1 .. n, b \in 1 .. l : i - 1 = (a - 1) * l + (b - 1) /\ w[i] = ss[a][b]
    BY <1>7
  <2>2. PICK c \in 1 .. n, d \in 1 .. l : k - 1 = (c - 1) * l + (d - 1) /\ w[k] = ss[c][d]
    BY <1>7
  <2>3. a - 1 < c - 1 \/ (a - 1 = c - 1 /\ b - 1 < d - 1)
    <3>1. /\ a - 1 \in Nat /\ c - 1 \in Nat /\ b - 1 \in 0 .. l - 1 /\ d - 1 \in 0 .. l - 1
          /\ i - 1 < k - 1
      OBVIOUS
    <3> QED
      BY <2>1, <2>2, <3>1, QuotientsOrder
  <2>4. r \in Nat \ {0} /\ a - 1 \in Nat /\ c - 1 \in Nat
    BY <1>3
  <2>0. PICK A \in Nat, C \in Nat : A = a - 1 /\ C = c - 1
    BY <2>4
  <2>5. PICK x \in Nat, y \in 0 .. r - 1 :
          x = (a - 1) \div r /\ y = (a - 1) % r /\ a - 1 = x * r + y
    <3>1. A \div r \in Nat /\ A % r \in 0 .. r - 1 /\ A = (A \div r) * r + (A % r)
      BY <2>4, Quotients
    <3> QED
      BY <2>0, <3>1
  <2>6. PICK u \in Nat, v \in 0 .. r - 1 :
          u = (c - 1) \div r /\ v = (c - 1) % r /\ c - 1 = u * r + v
    <3>1. C \div r \in Nat /\ C % r \in 0 .. r - 1 /\ C = (C \div r) * r + (C % r)
      BY <2>4, Quotients
    <3> QED
      BY <2>0, <3>1
  <2>7. /\ PlaceOf(w[i], h) = <<x, y, b - 1>> /\ PlaceOf(w[k], h) = <<u, v, d - 1>>
    BY <1>3, <2>1, <2>2, <2>5, <2>6
  <2>8. x < u \/ (x = u /\ y < v) \/ (x = u /\ y = v /\ b - 1 < d - 1)
    <3>1. CASE a - 1 < c - 1
      BY <2>4, <2>5, <2>6, <3>1, QuotientsOrder
    <3>2. CASE a - 1 = c - 1 /\ b - 1 < d - 1
      BY <2>5, <2>6, <3>2
    <3> QED
      BY <2>3, <3>1, <3>2
  <2> DEFINE e == <<x, y, b - 1>>
             f == <<u, v, d - 1>>
  <2>9. e[1] = x /\ e[2] = y /\ e[3] = b - 1 /\ f[1] = u /\ f[2] = v /\ f[3] = d - 1
    OBVIOUS
  <2> HIDE DEF e, f
  <2>10. Before(e, f)
    <3>1. 1 .. 1 - 1 = {} /\ 1 .. 2 - 1 = {1} /\ 1 .. 3 - 1 = {1, 2}
      OBVIOUS
    <3>2. /\ 1 \in 1 .. 3 /\ 2 \in 1 .. 3 /\ 3 \in 1 .. 3
      OBVIOUS
    <3> QED
      BY <2>8, <2>9, <3>1, <3>2 DEF Before
  <2> QED
    BY <2>7, <2>10 DEF e, f
<1>9. ASSUME NEW x \in Nat, NEW y \in Nat, x \div h < r, y \div h < r
      PROVE  \E i \in DOMAIN w : w[i] = <<x, y>>
  <2>1. PICK a \in Nat, b \in Nat : a = y \div h /\ b = x \div h
    BY Quotients
  <2>2. r \in Nat \ {0} /\ a < r /\ b \in 0 .. r - 1
    BY <1>9, <2>1
  <2>3. PICK c \in Nat : c = a * r + b /\ c < n
    <3>1. PICK e \in Nat : e = a * r /\ e + r <= n
      BY <1>1, <2>2, Multiples
    <3> QED
      BY <2>2, <3>1
  <2>4. c \div r = a /\ c % r = b
    BY <2>2, <2>3, OneQuotient
  <2>5. PICK k \in 1 .. n : k - 1 = c
    <3>1. c + 1 \in 1 .. n /\ (c + 1) - 1 = c
      BY <2>3
    <3> QED
      BY <3>1
  <2>6. PICK j \in 1 .. l : ss[k][j] = <<x, y>>
    <3>1. x \div h = (k - 1) % r /\ y \div h = (k - 1) \div r
      BY <2>1, <2>4, <2>5
    <3>2. \A z, t \in Nat : z \div h = (k - 1) % r /\ t \div h = (k - 1) \div r =>
            \E j \in 1 .. l : ss[k][j] = <<z, t>>
      BY <1>3
    <3> QED
      BY <3>1, <3>2
  <2>7. w[(k - 1) * l + j] = <<x, y>>
    BY <1>5, <2>6 DEF InParts
  <2>8. PICK e \in Nat : e = (k - 1) * l /\ e + l <= m
    <3>1. k - 1 \in Nat /\ k - 1 < n
      BY <2>5
    <3> QED
      BY <1>6, <3>1, Multiples
  <2>9. e + j \in DOMAIN w
    BY <1>6, <2>8
  <2> QED
    BY <2>7, <2>8, <2>9
<1> QED
  BY <1>5, <1>8, <1>9 DEF w, ss, Covers

-----------------------------------------------------------------------------
(* The walk over a scene, in squares that halve to one tile, goes along    *)
(* the curve and gets to every tile of the scene.                          *)
Step(s) == IF trace.zWidth > 0 THEN trace.zWidth ELSE Side(s.width, s.height)

LEMMA EmptyWalk == ASSUME NEW h PROVE FlattenSeq(Squares(0, h)) = <<>>
<1>1. Squares(0, h) = <<>>
  BY DEF Squares
<1> QED
  BY <1>1 DEF FlattenSeq

(* What the walk over a scene in steps of h has to do.                     *)
GoodWalk(w, width, height, h) ==
  w \in Seq(Grid) /\ AlongTheCurve(w, h) /\ Gets(w, width, height)

LEMMA NothingToWalk ==
  ASSUME NEW h PROVE GoodWalk(<<>>, 0, 0, h)
<1>1. Below(0) = {}
  BY DEF Below
<1>2. AlongTheCurve(<<>>, h)
  BY DEF AlongTheCurve
<1> QED
  BY <1>1, <1>2 DEF GoodWalk, Gets

LEMMA EnoughSquares ==
  ASSUME NEW h \in Nat \ {0}, NEW side \in Nat \ {0}, NEW x \in Nat, x < side
  PROVE  x \div h < (side + h - 1) \div h
<1>1. PICK c \in Nat : c = side + h - 1
  <2>1. side + h - 1 \in Nat
    OBVIOUS
  <2> QED
    BY <2>1
<1>2. PICK r \in Nat, m \in 0 .. h - 1 : r = c \div h /\ c = r * h + m
  BY Quotients
<1>3. PICK a \in Nat, b \in 0 .. h - 1 : a = x \div h /\ x = a * h + b
  BY Quotients
<1>4. PICK A \in Nat, R \in Nat : A = a * h /\ R = r * h
  BY <1>2, <1>3, Multiples
<1>5. A < R
  BY <1>1, <1>2, <1>3, <1>4
<1>6. r < a => R + h <= A
  BY <1>2, <1>3, <1>4, Multiples
<1>7. a < r
  <2>1. ~ (r < a)
    BY <1>4, <1>5, <1>6
  <2>2. r # a
    BY <1>4, <1>5
  <2> QED
    BY <1>2, <1>3, <2>1, <2>2
<1> QED
  BY <1>1, <1>2, <1>3, <1>7

IsPower(n) == \E i \in Nat : n = Pow2[i]

LEMMA SideIs ==
  ASSUME NEW width \in Nat, NEW height \in Nat
  PROVE  \E side \in Nat : /\ side = Side(width, height) /\ width <= side /\ height <= side
                           /\ side = 0 \/ IsPower(side)
BY ZenonT(60), SideCovers DEF IsPower

LEMMA BelowSide ==
  ASSUME NEW n \in Nat, NEW side \in Nat, n <= side, NEW x \in Below(n)
  PROVE  x \in Nat /\ x < side
BY DEF Below

LEMMA PowerCurve ==
  ASSUME NEW h, IsPower(h)
  PROVE  h \in Nat \ {0} /\ OnCurve(Tour[h], h)
<1>1. PICK i \in Nat : h = Pow2[i]
  BY DEF IsPower
<1>2. Pow2[i] \in Nat \ {0}
  BY PowersOfTwo
<1>3. OnCurve(Tour[Pow2[i]], Pow2[i])
  BY TourFollows
<1> QED
  BY <1>1, <1>2, <1>3

LEMMA WalkGood ==
  ASSUME NEW width \in Nat, NEW height \in Nat, NEW zWidth \in Nat,
         zWidth = 0 \/ IsPower(zWidth)
  PROVE  GoodWalk(Walk(width, height, zWidth), width, height,
                  IF zWidth > 0 THEN zWidth ELSE Side(width, height))
<1>1. PICK side \in Nat : /\ side = Side(width, height) /\ width <= side /\ height <= side
                          /\ side = 0 \/ IsPower(side)
  BY SideIs
<1>2. PICK h \in Nat : h = IF zWidth > 0 THEN zWidth ELSE side
  OBVIOUS
<1>3. PICK w : w = Walk(width, height, zWidth)
  OBVIOUS
<1>4. w = FlattenSeq(Squares(IF side = 0 THEN 0 ELSE (side + h - 1) \div h, h))
  BY <1>1, <1>2, <1>3 DEF Walk, Squares, SquareAt
<1>5. CASE side = 0
  <2>1. w = <<>> /\ width = 0 /\ height = 0
    BY <1>1, <1>4, <1>5, EmptyWalk
  <2> QED
    BY <1>1, <1>2, <1>3, <2>1, NothingToWalk
<1>6. CASE side # 0
  <2>1. IsPower(h)
    BY <1>1, <1>2, <1>6
  <2>2. h \in Nat \ {0} /\ OnCurve(Tour[h], h)
    BY <2>1, PowerCurve
  <2>3. PICK r \in Nat : r = (side + h - 1) \div h
    <3>1. side + h - 1 \in Nat
      BY <1>6, <2>2
    <3> QED
      BY <2>2, <3>1, Quotients
  <2>4. w = FlattenSeq(Squares(r, h))
    BY <1>4, <1>6, <2>3
  <2>5. w \in Seq(Grid) /\ AlongTheCurve(w, h) /\ Covers(w, r, h)
    BY <2>2, <2>4, SquaresFollow
  <2>6. Gets(w, width, height)
    <3> SUFFICES ASSUME NEW x \in Below(width), NEW y \in Below(height)
                 PROVE  \E j \in DOMAIN w : w[j] = <<x, y>>
      BY DEF Gets
    <3>1. x \in Nat /\ x < side
      BY <1>1, BelowSide
    <3>2. y \in Nat /\ y < side
      BY <1>1, BelowSide
    <3>3. side \in Nat \ {0} /\ h \in Nat \ {0}
      BY <1>6, <2>2
    <3>4. x \div h < r
      BY <2>3, <3>1, <3>3, EnoughSquares
    <3>5. y \div h < r
      BY <2>3, <3>2, <3>3, EnoughSquares
    <3> QED
      BY <2>5, <3>1, <3>2, <3>4, <3>5 DEF Covers
  <2>7. GoodWalk(w, width, height, h)
    BY <2>5, <2>6 DEF GoodWalk
  <2> QED
    BY <1>1, <1>2, <1>3, <2>7
<1> QED
  BY <1>5, <1>6

LEMMA WalkFollows ==
  ASSUME NEW s \in SceneInfo, trace \in Traces, Halving
  PROVE  GoodWalk(Walk(s.width, s.height, trace.zWidth), s.width, s.height, Step(s))
<1>1. s.width \in Nat /\ s.height \in Nat
  BY DEF SceneInfo
<1>2. trace.zWidth \in Nat
  BY RecordingTypes DEF Recording
<1>3. trace.zWidth = 0 \/ IsPower(trace.zWidth)
  BY <1>2 DEF Halving, IsPower
<1> QED
  BY <1>1, <1>2, <1>3, WalkGood DEF Step

-----------------------------------------------------------------------------
(* So the z order misses no tile of a scene it can take.                   *)
LEMMA RankOfTiles ==
  ASSUME trace \in Traces, NEW j \in Jobs
  PROVE  /\ trace.jobs[j].x \in Nat /\ trace.jobs[j].y \in Nat
         /\ TypeRank(j) = 1 => trace.jobs[j].type = "TILE_JOB"
<1>1. trace.jobs[j] \in JobInfo
  BY RecordingTypes DEF Recording
<1> QED
  BY <1>1 DEF JobInfo, TypeRank

LEMMA IndexIs ==
  ASSUME NEW s \in SceneInfo, NEW j \in ToSet(s.jobs)
  PROVE  Index(s, j) \in Nat /\ Index(s, j) \in DOMAIN s.jobs /\ s.jobs[Index(s, j)] = j
<1>1. \E i \in DOMAIN s.jobs : s.jobs[i] = j
  BY DEF ToSet
<1>2. s.jobs \in Seq(Jobs)
  BY DEF SceneInfo
<1> QED
  BY <1>1, <1>2 DEF Index

LEMMA WalkReaches ==
  ASSUME trace \in Traces, NEW k \in DOMAIN trace.scenes, NEW j \in JobsOf(k),
         trace.policy = "z", Halving, TypeRank(j) = 1
  PROVE  Coord(j) \in ToSet(ZWalk(Scene(k)))
<1> DEFINE s == Scene(k)
<1>1. k \in 1 .. Len(trace.scenes) /\ s \in SceneInfo /\ j \in Jobs
  BY RecordingTables
<1>2. PICK x \in Nat, y \in Nat : x = trace.jobs[j].x /\ y = trace.jobs[j].y
  BY <1>1, RankOfTiles
<1>3. x < s.width /\ y < s.height
  BY <1>1, <1>2, RankOfTiles, RecordingsAssumption DEF TilesInScene, JobsOf, Scene
<1>4. PICK width \in Nat, height \in Nat : width = s.width /\ height = s.height
  BY <1>1 DEF SceneInfo
<1>5. x \in Below(width) /\ y \in Below(height)
  BY <1>3, <1>4 DEF Below
<1>6. PICK w : w = ZWalk(s) /\ Gets(w, width, height)
  BY <1>1, <1>4, WalkFollows DEF GoodWalk, ZWalk
<1>7. \E i \in DOMAIN w : w[i] = <<x, y>>
  BY <1>5, <1>6 DEF Gets
<1> QED
  BY <1>2, <1>6, <1>7 DEF Coord, ToSet

LEMMA WalkCoversScenes ==
  ASSUME trace \in Traces
  PROVE  WalkCovers
<1> SUFFICES ASSUME Walkable, NEW k \in DOMAIN trace.scenes, NEW j \in JobsOf(k),
                    Missed(Scene(k), ZWalk(Scene(k)), j)
             PROVE  FALSE
  BY DEF WalkCovers, AllScheduled, EverythingScheduled, JobsOf
<1> DEFINE s == Scene(k)
<1>1. trace.policy = "z" /\ trace.jobs[j].dev = "GPU" /\ TypeRank(j) = 1 /\ ZWalkable
  BY DEF Missed, Walkable
<1>2. Coord(j) \in ToSet(ZWalk(s))
  BY <1>1, WalkReaches DEF ZWalkable
<1>3. PICK i \in JobsFor(s, "GPU") :
        TypeRank(i) = 1 /\ Coord(i) = Coord(j) /\ Index(s, j) < Index(s, i)
  BY <1>2 DEF Missed
<1>4. j \in JobsFor(s, "GPU")
  BY <1>1 DEF JobsFor, JobsOf
<1>5. i = j
  BY <1>1, <1>3, <1>4 DEF ZWalkable
<1>6. Index(s, j) \in Nat
  <2>1. s \in SceneInfo /\ j \in ToSet(s.jobs)
    BY RecordingTables DEF JobsOf
  <2> QED
    BY <2>1, IndexIs
<1> QED
  BY <1>3, <1>5, <1>6

(* The GPU's queue holds tiles of the scene that was loaded last, in its   *)
(* order.                                                                  *)
TilesWait(q, s) ==
  \A i \in DOMAIN q :
    /\ q[i] \in JobsFor(s, "GPU") /\ ~Missed(s, ZWalk(s), q[i])
    /\ \A k \in DOMAIN q : i < k => q[i] # q[k] /\ Precedes(s, ZWalk(s), "GPU", q[i], q[k])

CurveInv ==
  /\ nextScene <= Len(trace.scenes)
  /\ nextScene > 0 => TilesWait(queue["GPU"], Scene(nextScene))

LEMMA SameTiles ==
  ASSUME trace' = trace
  PROVE  \A q, s : TilesWait(q, s)' <=> TilesWait(q, s)
<1>1. \A j : Coord(j)' = Coord(j) /\ TypeRank(j)' = TypeRank(j)
  BY DEF Coord, TypeRank
<1>2. \A s : JobsFor(s, "GPU")' = JobsFor(s, "GPU")
  BY DEF JobsFor
<1>3. \A s, j : Index(s, j)' = Index(s, j)
  BY DEF Index
<1>4. \A s : ZWalk(s)' = ZWalk(s)
  BY DEF ZWalk
<1>5. \A s, w, j : Missed(s, w, j)' <=> Missed(s, w, j)
  BY <1>1, <1>2, <1>3 DEF Missed
<1>6. \A s, w, j : TileKey(s, w, j)' = TileKey(s, w, j)
  BY DEF TileKey, Coord
<1>7. \A s, w, j, k : TypePrecedes(s, w, j, k)' <=> TypePrecedes(s, w, j, k)
  BY <1>1, <1>3, <1>6 DEF TypePrecedes
<1>8. \A s, w, j, k : Precedes(s, w, "GPU", j, k)' <=> Precedes(s, w, "GPU", j, k)
  BY <1>7 DEF Precedes
<1> QED
  BY <1>2, <1>4, <1>5, <1>8 DEF TilesWait

LEMMA OrdersWait ==
  ASSUME NEW s \in SceneInfo, trace \in Traces, NEW q \in Orders(s, "GPU")
  PROVE  TilesWait(q, s)
<1> DEFINE walk == ZWalk(s)
           S == {j \in JobsFor(s, "GPU") : ~Missed(s, walk, j)}
<1>1. /\ q \in SetToSeqs(S)
      /\ \A i, k \in DOMAIN q : i < k => Precedes(s, walk, "GPU", q[i], q[k])
  BY DEF Orders, Arranged
<1>2. \A i, k \in DOMAIN q : q[i] = q[k] => i = k
  BY OrdersHold DEF Dev
<1>3. \A i \in DOMAIN q : q[i] \in S
  <2> HIDE DEF S
  <2> QED
    BY <1>1 DEF SetToSeqs
<1>4. \A i \in DOMAIN q : i \in Nat
  <2> HIDE DEF S
  <2> QED
    BY <1>1 DEF SetToSeqs
<1> QED
  BY <1>1, <1>2, <1>3, <1>4 DEF TilesWait

LEMMA TailWaits ==
  ASSUME NEW q \in Seq(Jobs), NEW s, q # <<>>, TilesWait(q, s)
  PROVE  TilesWait(Tail(q), s)
<1>1. /\ DOMAIN Tail(q) = 1 .. Len(q) - 1 /\ DOMAIN q = 1 .. Len(q) /\ Len(q) \in Nat
      /\ \A i \in DOMAIN Tail(q) : Tail(q)[i] = q[i + 1]
  OBVIOUS
<1>2. \A i \in DOMAIN Tail(q) : i \in Nat /\ i + 1 \in DOMAIN q
  BY <1>1
<1>3. \A i, k \in DOMAIN Tail(q) : i < k => i + 1 < k + 1
  BY <1>2
<1> QED
  BY <1>1, <1>2, <1>3 DEF TilesWait

LEMMA QueueStep ==
  ASSUME TypeOK, [Next]_vars
  PROVE  \/ UNCHANGED <<nextScene, queue>>
         \/ nextScene' = nextScene /\ queue'["GPU"] = queue["GPU"]
         \/ /\ nextScene' = nextScene /\ queue["GPU"] # <<>>
            /\ queue'["GPU"] = Tail(queue["GPU"])
         \/ Loads
<1> USE DEF schedVars
<1>1. ASSUME NEW c \in Cores, CoreTick(c), nextScene' = nextScene
      PROVE  \/ nextScene' = nextScene /\ queue'["GPU"] = queue["GPU"]
             \/ /\ nextScene' = nextScene /\ queue["GPU"] # <<>>
                /\ queue'["GPU"] = Tail(queue["GPU"])
  <2>1. CASE CoreIdle(c) \/ CoreSend(c)
    BY <1>1, <2>1 DEF CoreIdle, CoreSend
  <2>2. CASE CoreNewJob(c)
    <3>1. /\ queue[DevOf(c)] # <<>> /\ queue' = [queue EXCEPT ![DevOf(c)] = Tail(@)]
      BY <2>2 DEF CoreNewJob
    <3>2. DevOf(c) \in {"CPU", "GPU"} /\ DOMAIN queue = {"CPU", "GPU"}
      BY DEF DevOf, TypeOK, Dev
    <3> QED
      BY <1>1, <3>1, <3>2
  <2> QED
    BY <1>1, <2>1, <2>2 DEF CoreTick
<1>2. CASE CpuDrain
  <2>1. 0 \in Cores /\ CoreTick(0) /\ nextScene' = nextScene
    BY <1>2, ConfigAssumption DEF CpuDrain, Cores
  <2> QED
    BY <1>1, <2>1
<1>3. CASE GpuCore
  <2>1. next \in Cores /\ CoreTick(next) /\ nextScene' = nextScene
    BY <1>3, ConfigAssumption DEF GpuCore, Cores, TypeOK
  <2> QED
    BY <1>1, <2>1
<1>4. CASE CpuPassNewScene
  <2>1. StartNewScene
    BY <1>4 DEF CpuPassNewScene
  <2>2. nextScene' # nextScene => Loads
    BY <2>1, SceneLoads
  <2>3. CASE nextScene' = nextScene
    <3>1. nextScene # nextScene + 1
      BY DEF TypeOK
    <3> QED
      BY <2>1, <2>3, <3>1 DEF StartNewScene
  <2> QED
    BY <2>2, <2>3
<1> QED
  BY <1>2, <1>3, <1>4, Steps
  DEF Quiet, CpuRead, GpuRead, CpuArrive, CpuPassAny, CpuPassSync, CpuPassEndScene,
      CpuPassFrame, CpuPass, GpuArriveSync, GpuCoresDone, GpuPass

LEMMA CurveStep ==
  ASSUME TypeOK, CurveInv, [Next]_vars
  PROVE  CurveInv'
<1>0. trace' = trace /\ trace \in Traces /\ nextScene \in Nat /\ queue["GPU"] \in Seq(Jobs)
  BY DeviceSteps DEF TypeOK, Dev
<1>1. ASSUME NEW q, NEW s, TilesWait(q, s) PROVE TilesWait(q, s)'
  BY <1>0, <1>1, SameTiles
<1>2. CASE nextScene' = nextScene /\ queue'["GPU"] = queue["GPU"]
  BY <1>0, <1>1, <1>2 DEF CurveInv, Scene
<1>3. CASE /\ nextScene' = nextScene /\ queue["GPU"] # <<>>
           /\ queue'["GPU"] = Tail(queue["GPU"])
  BY <1>0, <1>1, <1>3, TailWaits DEF CurveInv, Scene
<1>4. CASE Loads
  <2>1. /\ nextScene + 1 \in 1 .. Len(trace.scenes) /\ nextScene' = nextScene + 1
        /\ queue'["GPU"] \in Orders(Scene(nextScene + 1), "GPU")
    BY <1>0, <1>4, RecordingTables DEF Loads, Dev
  <2>2. Scene(nextScene + 1) \in SceneInfo
    BY <1>0, <2>1, RecordingTables
  <2>3. TilesWait(queue'["GPU"], Scene(nextScene + 1))
    BY <1>0, <2>1, <2>2, OrdersWait
  <2> QED
    BY <1>0, <1>1, <2>1, <2>3 DEF CurveInv, Scene
<1> QED
  BY <1>2, <1>3, <1>4, QueueStep

(* Two tiles that wait in the order of the walk lie so along the curve: a  *)
(* later one at the same place would have displaced the other.             *)
LEMMA WaitingFollow ==
  ASSUME trace \in Traces, trace.policy = "z", Halving, NEW s \in SceneInfo, NEW q,
         TilesWait(q, s), NEW i \in DOMAIN q, NEW k \in DOMAIN q, i < k,
         TypeRank(q[i]) = 1, TypeRank(q[k]) = 1
  PROVE  Before(ZKey(s, q[i]), ZKey(s, q[k]))
<1>1. PICK a, b : a = q[i] /\ b = q[k]
  OBVIOUS
<1>2. PICK w : /\ w = ZWalk(s) /\ w \in Seq(Grid) /\ AlongTheCurve(w, Step(s))
  BY WalkFollows DEF GoodWalk, ZWalk
<1>3. /\ a \in JobsFor(s, "GPU") /\ b \in JobsFor(s, "GPU") /\ a # b
      /\ ~Missed(s, w, a) /\ ~Missed(s, w, b) /\ Precedes(s, w, "GPU", a, b)
  BY <1>1, <1>2 DEF TilesWait
<1>4. /\ TypeRank(a) = 1 /\ TypeRank(b) = 1
      /\ trace.jobs[a].dev = "GPU" /\ trace.jobs[b].dev = "GPU"
      /\ a \in ToSet(s.jobs) /\ b \in ToSet(s.jobs)
  BY <1>1, <1>3 DEF JobsFor
<1>5. Coord(a) \in ToSet(w) /\ Coord(b) \in ToSet(w)
  BY <1>3, <1>4 DEF Missed
<1>6. PICK c, d : c = TileKey(s, w, a) /\ d = TileKey(s, w, b)
  OBVIOUS
<1>7. /\ c \in DOMAIN w /\ d \in DOMAIN w /\ w[c] = Coord(a) /\ w[d] = Coord(b)
  BY <1>5, <1>6 DEF TileKey, ToSet
<1>8. c <= d
  BY <1>3, <1>4, <1>6 DEF Precedes, TypePrecedes
<1>9. c # d
  <2> SUFFICES ASSUME c = d PROVE FALSE
    OBVIOUS
  <2>1. Coord(a) = Coord(b)
    BY <1>7
  <2>2. /\ Index(s, a) \in Nat /\ s.jobs[Index(s, a)] = a
        /\ Index(s, b) \in Nat /\ s.jobs[Index(s, b)] = b
    BY <1>4, IndexIs
  <2>3. Index(s, a) < Index(s, b) \/ Index(s, b) < Index(s, a)
    BY <1>3, <2>2
  <2> QED
    BY <1>3, <1>4, <2>1, <2>3 DEF Missed
<1>10. c < d
  BY <1>2, <1>7, <1>8, <1>9
<1>11. Before(PlaceOf(Coord(a), Step(s)), PlaceOf(Coord(b), Step(s)))
  BY <1>2, <1>7, <1>10 DEF AlongTheCurve
<1>12. ZKey(s, a) = PlaceOf(Coord(a), Step(s)) /\ ZKey(s, b) = PlaceOf(Coord(b), Step(s))
  BY DEF ZKey, PlaceOf, Coord, Step
<1> QED
  BY <1>1, <1>11, <1>12

(* What the z order is for, of every replay: the tiles of a scene wait     *)
(* along the z curve (ZSchedular::schedule_tiles).                         *)
THEOREM TilesRunInOrder == Spec => []TilesFollowTheCurve
<1>1. Init => CurveInv
  <2> SUFFICES ASSUME Init PROVE CurveInv
    OBVIOUS
  <2>1. nextScene = 0 /\ Len(trace.scenes) \in Nat
    BY RecordingTables DEF Init
  <2> QED
    BY <2>1 DEF CurveInv
<1>2. TypeOK /\ CurveInv => TilesFollowTheCurve
  <2> SUFFICES ASSUME TypeOK, CurveInv, trace.policy = "z", Halving, nextScene > 0,
                      NEW i \in DOMAIN queue["GPU"], NEW k \in DOMAIN queue["GPU"], i < k,
                      TypeRank(queue["GPU"][i]) = 1, TypeRank(queue["GPU"][k]) = 1
               PROVE  Before(ZKey(Scene(nextScene), queue["GPU"][i]),
                             ZKey(Scene(nextScene), queue["GPU"][k]))
    BY DEF TilesFollowTheCurve
  <2>1. trace \in Traces /\ nextScene \in 1 .. Len(trace.scenes)
    BY RecordingTables DEF CurveInv, TypeOK
  <2>2. Scene(nextScene) \in SceneInfo
    BY <2>1, RecordingTables
  <2>3. TilesWait(queue["GPU"], Scene(nextScene))
    BY DEF CurveInv
  <2> QED
    BY <2>1, <2>2, <2>3, WaitingFollow
<1> QED
  BY <1>1, <1>2, CurveStep, TypeCorrect, PTL DEF Spec

(* No assert of the replay fires, for any recording and any configuration  *)
(* with a GPU core, but in two cases: a job that the stop timer cut short  *)
(* (job.cc 55), and the command of an OpenGL call (cpu.cc 256, gpu.cc      *)
(* 203), which a recorder that stops at its first call never writes.  The  *)
(* z order in particular schedules every tile of a scene it can take       *)
(* (z.cc 245, "Check that everything is scheduled").                       *)
THEOREM AbortsOnlyAsNamed ==
  ASSUME NumGpuCores > 0
  PROVE  Spec => []NoAbort
<1>1. TypeOK /\ EndInv => NoAbort
  <2>1. TypeOK => WalkCovers
    BY WalkCoversScenes DEF TypeOK
  <2> QED
    BY <2>1 DEF EndInv, AbortInv, WalkCovers, NoAbort
<1> QED
  BY <1>1, EndsHold, TypeCorrect, PTL
=============================================================================
