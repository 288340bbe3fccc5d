---------------------------- MODULE RecordProofs ----------------------------
(***************************************************************************)
(* A recording, proved for any number of threads, ids and calls: its types *)
(* and the numbers of its records, orderly or not; in an orderly           *)
(* application, that every job is listed by its scene; and, as long as     *)
(* frames have ids of their own, that the analyzer finds every record it   *)
(* looks up and is given the scenes that were rendered, and that a frame   *)
(* lists its scenes.                                                       *)
(***************************************************************************)
EXTENDS TraceRecords, FiniteSetTheorems, WellFoundedInduction, TLAPS

LEMMA ModType == ASSUME NEW n \in Nat PROVE n % Ids \in FrameIds
  BY WriterAssumption DEF FrameIds

LEMMA HeadTail ==
  ASSUME NEW S, NEW s \in Seq(S), s # <<>>
  PROVE  /\ Len(s) \in Nat /\ Len(s) >= 1 /\ Head(s) = s[1] /\ Head(s) \in S
         /\ Tail(s) \in Seq(S) /\ Len(Tail(s)) = Len(s) - 1
         /\ \A k \in 1 .. Len(s) - 1 : Tail(s)[k] = s[k + 1]
  OBVIOUS

LEMMA JobType ==
  ASSUME jobNbr \in Nat, frameNbr \in Nat, sceneNbr \in Nat,
         NEW type \in {"MISC_JOB", "DRAW_JOB", "TILE_JOB"}, NEW dev \in {"CPU", "GPU"},
         NEW x \in Nat, NEW y \in Nat
  PROVE  /\ NewJob(type, dev, x, y) \in JobInfo
         /\ DoRecord(NewJob(type, dev, x, y)) \in Steps
  <1>1. jobNbr % JobIds \in Nat
    BY WriterAssumption
  <1>2. NewJob(type, dev, x, y) \in JobInfo
    BY <1>1, ModType DEF NewJob, JobInfo
  <1> QED  BY <1>2 DEF DoRecord, Steps

(* A job's number fits its record.                                         *)
LEMMA NewJobId ==
  ASSUME NEW t, NEW type, NEW dev, NEW x, NEW y, jobNbr \in Nat, CreateJob(t, type, dev, x, y)
  PROVE  NewJob(type, dev, x, y).id = jobNbr
  <1>1. jobNbr < JobIds
    BY DEF CreateJob
  <1>2. \A n \in Nat : n < JobIds => n % JobIds = n
    BY WriterAssumption
  <1> QED  BY <1>1, <1>2 DEF NewJob

LEMMA WithSceneType ==
  ASSUME NEW f \in FrameInfo, NEW s \in SceneInfo
  PROVE  WithScene(f, s) \in FrameInfo /\ WithScene(f, s).id = f.id
  <1>1. Append(f.scenes, s.id) \in Seq(FrameIds)
    BY DEF FrameInfo, SceneInfo
  <1> QED  BY <1>1 DEF WithScene, FrameInfo

LEMMA SceneType ==
  ASSUME NEW id \in Nat, NEW f \in Nat
  PROVE  /\ NewScene(id, f) \in SceneInfo
         /\ NewFrame(id) \in FrameInfo
         /\ WithScene(NewFrame(f), NewScene(id, f)) \in FrameInfo
  <1>1. id % Ids \in FrameIds /\ f % Ids \in FrameIds
    BY ModType
  <1>2. NewScene(id, f) \in SceneInfo /\ NewFrame(id) \in FrameInfo /\ NewFrame(f) \in FrameInfo
    <2>1. 0 \in Nat /\ <<>> \in Seq(Nat) /\ <<>> \in Seq(FrameIds)
      OBVIOUS
    <2> QED  BY <1>1, <2>1 DEF NewScene, SceneInfo, NewFrame, FrameInfo
  <1> QED  BY <1>2, WithSceneType

LEMMA WithJobType ==
  ASSUME NEW s \in SceneInfo, NEW j \in JobInfo, NEW x \in Nat, NEW y \in Nat
  PROVE  WithJob(s, j) \in SceneInfo /\ WithTile(WithJob(s, j), x, y) \in SceneInfo
  <1>1. Append(s.jobs, j.id) \in Seq(Nat)
    BY DEF SceneInfo, JobInfo
  <1>2. WithJob(s, j) \in SceneInfo
    BY <1>1 DEF WithJob, SceneInfo
  <1>3. \A t \in SceneInfo : WithTile(t, x, y) \in SceneInfo
    <2> SUFFICES ASSUME NEW t \in SceneInfo PROVE WithTile(t, x, y) \in SceneInfo
      OBVIOUS
    <2>1. Larger(t.width, x + 1) \in Nat /\ Larger(t.height, y + 1) \in Nat
      BY DEF Larger, SceneInfo
    <2> QED  BY <2>1 DEF WithTile, SceneInfo
  <1> QED  BY <1>2, <1>3

-----------------------------------------------------------------------------
(* The types of what the generator writes.                                 *)
WriterType ==
  /\ todo \in [App -> Seq(Steps)]
  /\ jobNbr \in Nat /\ sceneNbr \in Nat /\ frameNbr \in Nat /\ rscNbr \in Nat
  /\ scene \in SceneInfo /\ frame \in FrameInfo
  /\ DOMAIN pb = Files
  /\ pb["frames"] \in Seq(FrameInfo) /\ pb["scenes"] \in Seq(SceneInfo)
  /\ pb["jobs"] \in Seq(JobInfo)

LEMMA WriterTypeInit == Init => WriterType
  <1> SUFFICES ASSUME Init PROVE WriterType
    OBVIOUS
  <1>1. << Do("threadStart") >> \in Seq(Steps)
    BY DEF Do, Steps
  <1>2. scene \in SceneInfo /\ frame \in FrameInfo
    BY SceneType DEF Init, WriterInit
  <1> QED  BY <1>1, <1>2 DEF Init, WriterInit, WriterType, Files

LEMMA CreateJobType ==
  ASSUME WriterType, NEW t \in App, NEW type \in {"MISC_JOB", "DRAW_JOB", "TILE_JOB"},
         NEW dev \in {"CPU", "GPU"}, NEW x \in Nat, NEW y \in Nat,
         CreateJob(t, type, dev, x, y)
  PROVE  WriterType'
  <1> DEFINE j == NewJob(type, dev, x, y)
  <1>1. j \in JobInfo /\ << DoRecord(j) >> \in Seq(Steps)
    BY JobType DEF WriterType
  <1>2. WithJob(scene, j) \in SceneInfo /\ WithTile(WithJob(scene, j), x, y) \in SceneInfo
    BY <1>1, WithJobType DEF WriterType
  <1> QED  BY <1>1, <1>2 DEF CreateJob, WriterType

LEMMA AfterHeadType ==
  ASSUME WriterType, NEW t \in App, todo[t] # <<>>, AfterHead(t)
  PROVE  todo' \in [App -> Seq(Steps)]
  <1>1. Tail(todo[t]) \in Seq(Steps)
    BY HeadTail DEF WriterType
  <1> QED  BY <1>1 DEF AfterHead, WriterType

LEMMA WriterTypeStep ==
  ASSUME WriterType, NEW t \in App, WriterStep(t)
  PROVE  WriterType'
  <1>1. CASE ThreadStart(t)
    BY <1>1, CreateJobType DEF ThreadStart
  <1>2. CASE RecordJob(t)
    <2>1. todo[t] # <<>> /\ Head(todo[t]).step = "recordJob"
      BY <1>2 DEF RecordJob, At, NextStep
    <2>2. Head(todo[t]).job \in JobInfo
      <3>1. Head(todo[t]) \in Steps
        BY <2>1, HeadTail DEF WriterType
      <3> QED  BY <2>1, <3>1 DEF Steps
    <2>3. pb' = [pb EXCEPT !["jobs"] = Append(@, Head(todo[t]).job)]
      BY <1>2 DEF RecordJob, Write
    <2>4. todo' \in [App -> Seq(Steps)]
      BY <1>2, <2>1, AfterHeadType DEF RecordJob
    <2> QED  BY <1>2, <2>2, <2>3, <2>4 DEF RecordJob, WriterType, Files, numberVars, currentVars
  <1>3. CASE DrawBegin(t)
    BY <1>3, CreateJobType DEF DrawBegin
  <1>4. CASE TileBegin(t)
    BY <1>4, CreateJobType, WriterAssumption DEF TileBegin
  <1>5. CASE DrawOrTileEnd(t)
    BY <1>5, CreateJobType DEF DrawOrTileEnd
  <1>6. CASE ResourceCreate(t)
    BY <1>6 DEF ResourceCreate, Write, WriterType, Files, currentVars
  <1>7. CASE SceneEnd(t)
    <2>1. << Do("dumpScene"), Do("incScene"), Do("newScene"), Do("syncScene") >> \in Seq(Steps)
      BY DEF Do, Steps
    <2> QED  BY <1>7, <2>1 DEF SceneEnd, WriterType, numberVars, currentVars
  <1>8. CASE DumpScene(t)
    <2>1. todo' \in [App -> Seq(Steps)]
      BY <1>8, AfterHeadType DEF DumpScene, At, NextStep
    <2>2. pb' = [pb EXCEPT !["scenes"] = Append(@, scene)]
      BY <1>8 DEF DumpScene, Write
    <2> QED  BY <1>8, <2>1, <2>2 DEF DumpScene, WriterType, Files, numberVars, currentVars
  <1>9. CASE IncScene(t)
    <2>1. todo' \in [App -> Seq(Steps)]
      BY <1>9, AfterHeadType DEF IncScene, At, NextStep
    <2> QED  BY <1>9, <2>1 DEF IncScene, WriterType, currentVars
  <1>10. CASE NextScene(t)
    <2>1. todo' \in [App -> Seq(Steps)]
      BY <1>10, AfterHeadType DEF NextScene, At, NextStep
    <2>2. scene' \in SceneInfo /\ frame' \in FrameInfo
      BY <1>10, SceneType, WithSceneType DEF NextScene, WriterType
    <2> QED  BY <1>10, <2>1, <2>2 DEF NextScene, WriterType, numberVars
  <1>11. CASE SwapBuffers(t)
    <2>1. scene' \in SceneInfo /\ frame' \in FrameInfo
      BY <1>11, SceneType DEF SwapBuffers, WriterType
    <2>2. /\ DOMAIN pb' = Files
          /\ pb'["frames"] = Append(pb["frames"], frame)
          /\ pb'["scenes"] = Append(pb["scenes"], scene)
          /\ pb'["jobs"] = pb["jobs"]
      BY <1>11 DEF SwapBuffers, WriterType, Files
    <2>3. pb'["frames"] \in Seq(FrameInfo) /\ pb'["scenes"] \in Seq(SceneInfo)
      BY <2>2 DEF WriterType
    <2>4. /\ todo' = todo /\ jobNbr' = jobNbr /\ rscNbr' = rscNbr
          /\ sceneNbr' = 0 /\ frameNbr' = frameNbr + 1
      BY <1>11 DEF SwapBuffers
    <2> QED  BY <2>1, <2>2, <2>3, <2>4 DEF WriterType
  <1>12. CASE SyncScene(t)
    <2>1. todo' \in [App -> Seq(Steps)]
      BY <1>12, AfterHeadType DEF SyncScene, At, NextStep
    <2> QED  BY <1>12, <2>1 DEF SyncScene, WriterType, numberVars, currentVars
  <1> QED
    BY <1>1, <1>2, <1>3, <1>4, <1>5, <1>6, <1>7, <1>8, <1>9, <1>10, <1>11, <1>12 DEF WriterStep

-----------------------------------------------------------------------------
(* Type correctness.                                                       *)
LEMMA ReaderKeepsRecords ==
  ASSUME [Next]_vars
  PROVE  (\E t \in App : WriterStep(t) /\ UNCHANGED readerVars) \/ UNCHANGED writerVars
  BY DEF Next, WriteRecords, EndApplication, ReadScene, ReadFrame, ReadResource,
         ReadEndScene, Reading, Ended, vars

LEMMA TypeStep == TypeOK /\ [Next]_vars => TypeOK'
  <1> SUFFICES ASSUME TypeOK, [Next]_vars PROVE TypeOK'
    OBVIOUS
  <1>1. WriterType'
    <2>1. WriterType
      BY DEF TypeOK, WriterType
    <2>2. CASE UNCHANGED writerVars
      BY <2>1, <2>2 DEF writerVars, numberVars, currentVars, WriterType
    <2> QED  BY <2>1, <2>2, WriterTypeStep, ReaderKeepsRecords
  <1> DEFINE Reader == /\ mode' \in {"write", "read", "done", "abort"}
                       /\ rpos' \in Nat /\ nextFrame' \in Nat /\ nextScene' \in Nat
  <1>2. Reader
    <2> USE DEF TypeOK
    <2>1. CASE WriteRecords
      BY <2>1 DEF WriteRecords, readerVars
    <2>2. CASE EndApplication
      BY <2>2 DEF EndApplication, HandleNewFrame
    <2>3. CASE ReadScene
      BY <2>3 DEF ReadScene, Reading
    <2>4. CASE ReadFrame
      BY <2>4 DEF ReadFrame, Reading, HandleNewFrame
    <2>5. CASE ReadResource
      BY <2>5 DEF ReadResource, Reading
    <2>6. CASE ReadEndScene
      BY <2>6 DEF ReadEndScene, Reading
    <2>7. CASE Ended \/ UNCHANGED vars
      BY <2>7 DEF Ended, vars, readerVars
    <2> QED  BY <2>1, <2>2, <2>3, <2>4, <2>5, <2>6, <2>7 DEF Next
  <1> QED  BY <1>1, <1>2 DEF TypeOK, WriterType

(* Every record and every step a thread still has to do is well typed:     *)
(* frame and scene ids stay in their 16 bits.                              *)
THEOREM TypeCorrect == Spec => []TypeOK
  <1>1. Init => TypeOK
    BY WriterTypeInit DEF Init, WriterType, TypeOK
  <1> QED  BY <1>1, TypeStep, PTL DEF Spec

-----------------------------------------------------------------------------
(* The numbers.  A job is numbered in one section and recorded in another; *)
(* in between it is at the head of its thread's todo.                      *)
Pending(t) == At(t, "recordJob")
PendingId(t) == Head(todo[t]).job.id
OnlyAtHead == \A t \in App : \A i \in DOMAIN todo[t] : i > 1 => todo[t][i].step # "recordJob"

FramesNumbered ==
  /\ frame.id = frameNbr % Ids
  /\ Len(pb["frames"]) = frameNbr
  /\ \A k \in DOMAIN pb["frames"] : pb["frames"][k].id = (k - 1) % Ids

RecordedDistinct == \A i, k \in DOMAIN pb["jobs"] : pb["jobs"][i].id = pb["jobs"][k].id => i = k
RecordedBelow == \A i \in DOMAIN pb["jobs"] : pb["jobs"][i].id < jobNbr
PendingNew ==
  \A t \in App : Pending(t) =>
     /\ PendingId(t) < jobNbr
     /\ \A i \in DOMAIN pb["jobs"] : pb["jobs"][i].id # PendingId(t)
PendingDistinct ==
  \A t, u \in App : Pending(t) /\ Pending(u) /\ PendingId(t) = PendingId(u) => t = u

JobsNumbered == OnlyAtHead /\ RecordedDistinct /\ RecordedBelow /\ PendingNew /\ PendingDistinct
NumberInv == TypeOK /\ FramesNumbered /\ JobsNumbered

(* A thread that takes up another todo, and does not have a job to record  *)
(* first, leaves the jobs as they are.                                     *)
LEMMA OtherTodo ==
  ASSUME NumberInv, NEW t \in App, NEW rest \in Seq(Steps),
         todo' = [todo EXCEPT ![t] = rest],
         \A i \in DOMAIN rest : rest[i].step # "recordJob",
         jobNbr' = jobNbr, pb'["jobs"] = pb["jobs"]
  PROVE  JobsNumbered'
  <1>1. todo \in [App -> Seq(Steps)]
    BY DEF NumberInv, TypeOK
  <1>2. \A u \in App : todo'[u] = IF u = t THEN rest ELSE todo[u]
    BY <1>1
  <1>3. ~ Pending(t)'
    <2>1. CASE rest = <<>>
      BY <1>2, <2>1 DEF Pending, At, NextStep
    <2>2. CASE rest # <<>>
      <3>1. 1 \in DOMAIN rest /\ Head(rest) = rest[1]
        BY <2>2, HeadTail
      <3> QED  BY <1>2, <2>2, <3>1 DEF Pending, At, NextStep
    <2> QED  BY <2>1, <2>2
  <1>4. \A u \in App : u # t => (Pending(u)' <=> Pending(u)) /\ PendingId(u)' = PendingId(u)
    BY <1>2 DEF Pending, At, NextStep, PendingId
  <1>5. OnlyAtHead'
    BY <1>2 DEF NumberInv, JobsNumbered, OnlyAtHead
  <1>6. PendingNew'
    BY <1>3, <1>4 DEF NumberInv, JobsNumbered, PendingNew
  <1>7. PendingDistinct'
    BY <1>3, <1>4 DEF NumberInv, JobsNumbered, PendingDistinct
  <1> QED
    BY <1>5, <1>6, <1>7 DEF NumberInv, JobsNumbered, RecordedDistinct, RecordedBelow

(* So is the rest of a todo.                                               *)
LEMMA RestHasNoJob ==
  ASSUME NumberInv, NEW t \in App, todo[t] # <<>>
  PROVE  /\ Tail(todo[t]) \in Seq(Steps)
         /\ \A i \in DOMAIN Tail(todo[t]) : Tail(todo[t])[i].step # "recordJob"
  <1>1. todo[t] \in Seq(Steps)
    BY DEF NumberInv, TypeOK
  <1>2. /\ Tail(todo[t]) \in Seq(Steps) /\ DOMAIN Tail(todo[t]) = 1 .. Len(todo[t]) - 1
        /\ DOMAIN todo[t] = 1 .. Len(todo[t]) /\ Len(todo[t]) \in Nat
        /\ \A k \in 1 .. Len(todo[t]) - 1 : Tail(todo[t])[k] = todo[t][k + 1]
    BY <1>1, HeadTail
  <1> SUFFICES ASSUME NEW i \in DOMAIN Tail(todo[t]) PROVE Tail(todo[t])[i].step # "recordJob"
    BY <1>2
  <1>3. i + 1 \in DOMAIN todo[t] /\ i + 1 > 1 /\ Tail(todo[t])[i] = todo[t][i + 1]
    BY <1>2
  <1> QED  BY <1>3 DEF NumberInv, JobsNumbered, OnlyAtHead

LEMMA CreateJobStep ==
  ASSUME NumberInv, NEW t \in App, Pending(t) = FALSE, NEW type, NEW dev, NEW x, NEW y,
         CreateJob(t, type, dev, x, y)
  PROVE  FramesNumbered' /\ JobsNumbered'
  <1> DEFINE j == NewJob(type, dev, x, y)
  <1>1. /\ todo \in [App -> Seq(Steps)] /\ jobNbr \in Nat
        /\ pb["jobs"] \in Seq(JobInfo)
    BY DEF NumberInv, TypeOK
  <1>2. /\ todo' = [todo EXCEPT ![t] = << DoRecord(j) >>] /\ jobNbr' = jobNbr + 1
        /\ UNCHANGED <<frameNbr, frame, pb>>
    BY DEF CreateJob
  <1>3. \A u \in App : todo'[u] = IF u = t THEN << DoRecord(j) >> ELSE todo[u]
    BY <1>1, <1>2
  <1>4. PendingId(t)' = jobNbr
    <2>1. j.id = jobNbr
      BY <1>1, NewJobId
    <2> QED  BY <1>3, <2>1 DEF PendingId, DoRecord
  <1>5. \A u \in App : u # t => (Pending(u)' <=> Pending(u)) /\ PendingId(u)' = PendingId(u)
    BY <1>3 DEF Pending, At, NextStep, PendingId
  <1>6. \A i \in DOMAIN pb["jobs"] : pb["jobs"][i].id \in Nat /\ pb["jobs"][i].id < jobNbr
    <2> SUFFICES ASSUME NEW i \in DOMAIN pb["jobs"]
                 PROVE  pb["jobs"][i].id \in Nat /\ pb["jobs"][i].id < jobNbr
      OBVIOUS
    <2>1. pb["jobs"][i] \in JobInfo
      BY <1>1
    <2> QED  BY <2>1 DEF JobInfo, NumberInv, JobsNumbered, RecordedBelow
  <1>7. \A u \in App : Pending(u) => PendingId(u) \in Nat /\ PendingId(u) < jobNbr
    <2> SUFFICES ASSUME NEW u \in App, Pending(u) PROVE PendingId(u) \in Nat /\ PendingId(u) < jobNbr
      OBVIOUS
    <2>1. todo[u] # <<>> /\ Head(todo[u]).step = "recordJob" /\ todo[u] \in Seq(Steps)
      BY <1>1 DEF Pending, At, NextStep
    <2>2. Head(todo[u]) \in Steps
      BY <2>1, HeadTail
    <2> QED  BY <2>1, <2>2 DEF Steps, JobInfo, PendingId, NumberInv, JobsNumbered, PendingNew
  <1>8. OnlyAtHead'
    BY <1>3 DEF NumberInv, JobsNumbered, OnlyAtHead
  <1>9. RecordedBelow'
    BY <1>1, <1>2, <1>6 DEF RecordedBelow
  <1>10. PendingNew'
    <2> SUFFICES ASSUME NEW u \in App, Pending(u)'
                 PROVE  /\ PendingId(u)' < jobNbr'
                        /\ \A i \in DOMAIN pb["jobs"] : pb["jobs"][i].id # PendingId(u)'
      BY <1>2 DEF PendingNew
    <2>1. CASE u = t
      BY <1>1, <1>2, <1>4, <1>6, <2>1
    <2>2. CASE u # t
      BY <1>1, <1>2, <1>5, <1>7, <2>2 DEF NumberInv, JobsNumbered, PendingNew
    <2> QED  BY <2>1, <2>2
  <1>11. PendingDistinct'
    <2>1. \A u \in App : u # t /\ Pending(u)' => PendingId(u)' # PendingId(t)'
      BY <1>1, <1>4, <1>5, <1>7
    <2> QED  BY <1>5, <2>1 DEF NumberInv, JobsNumbered, PendingDistinct
  <1>12. RecordedDistinct'
    BY <1>2 DEF NumberInv, JobsNumbered, RecordedDistinct
  <1>13. FramesNumbered'
    BY <1>2 DEF NumberInv, FramesNumbered
  <1> QED  BY <1>8, <1>9, <1>10, <1>11, <1>12, <1>13 DEF JobsNumbered

LEMMA RecordJobStep ==
  ASSUME NumberInv, NEW t \in App, RecordJob(t)
  PROVE  FramesNumbered' /\ JobsNumbered'
  <1> DEFINE j == Head(todo[t]).job
             jobs == pb["jobs"]
  <1>1. /\ todo \in [App -> Seq(Steps)] /\ DOMAIN pb = Files /\ jobs \in Seq(JobInfo)
        /\ Pending(t) /\ todo[t] # <<>>
    BY DEF NumberInv, TypeOK, RecordJob, Pending, At, NextStep
  <1>2. /\ todo' = [todo EXCEPT ![t] = Tail(@)]
        /\ pb' = [pb EXCEPT !["jobs"] = Append(@, j)]
        /\ UNCHANGED <<jobNbr, frameNbr, frame>>
    BY DEF RecordJob, AfterHead, Write, numberVars, currentVars
  <1>3. pb'["jobs"] = Append(jobs, j) /\ pb'["frames"] = pb["frames"]
    BY <1>1, <1>2 DEF Files
  <1>4. /\ DOMAIN pb'["jobs"] = (DOMAIN jobs) \cup {Len(jobs) + 1}
        /\ \A i \in DOMAIN jobs : pb'["jobs"][i] = jobs[i]
        /\ pb'["jobs"][Len(jobs) + 1] = j
    BY <1>1, <1>3
  <1>5. j.id < jobNbr /\ \A i \in DOMAIN jobs : jobs[i].id # j.id
    BY <1>1 DEF NumberInv, JobsNumbered, PendingNew, PendingId
  <1>6. \A u \in App : u # t /\ Pending(u) => PendingId(u) # j.id
    BY <1>1 DEF NumberInv, JobsNumbered, PendingDistinct, PendingId
  <1>7. \A u \in App : todo'[u] = IF u = t THEN Tail(todo[t]) ELSE todo[u]
    BY <1>1, <1>2
  <1>8. ~ Pending(t)'
    <2>1. CASE Tail(todo[t]) = <<>>
      BY <1>7, <2>1 DEF Pending, At, NextStep
    <2>2. CASE Tail(todo[t]) # <<>>
      <3>1. 1 \in DOMAIN Tail(todo[t]) /\ Head(Tail(todo[t])) = Tail(todo[t])[1]
        BY <1>1, <2>2, RestHasNoJob, HeadTail
      <3> QED  BY <1>1, <1>7, <2>2, <3>1, RestHasNoJob DEF Pending, At, NextStep
    <2> QED  BY <2>1, <2>2
  <1>9. \A u \in App : u # t => (Pending(u)' <=> Pending(u)) /\ PendingId(u)' = PendingId(u)
    BY <1>7 DEF Pending, At, NextStep, PendingId
  <1>10. OnlyAtHead'
    <2>1. \A i \in DOMAIN Tail(todo[t]) : Tail(todo[t])[i].step # "recordJob"
      BY <1>1, RestHasNoJob
    <2> QED  BY <1>7, <2>1 DEF NumberInv, JobsNumbered, OnlyAtHead
  <1>11. RecordedDistinct'
    BY <1>4, <1>5 DEF NumberInv, JobsNumbered, RecordedDistinct
  <1>12. RecordedBelow'
    BY <1>2, <1>4, <1>5 DEF NumberInv, JobsNumbered, RecordedBelow
  <1>13. PendingNew'
    BY <1>2, <1>4, <1>6, <1>8, <1>9 DEF NumberInv, JobsNumbered, PendingNew
  <1>14. PendingDistinct'
    BY <1>8, <1>9 DEF NumberInv, JobsNumbered, PendingDistinct
  <1>15. FramesNumbered'
    BY <1>2, <1>3 DEF NumberInv, FramesNumbered
  <1> QED  BY <1>10, <1>11, <1>12, <1>13, <1>14, <1>15 DEF JobsNumbered

LEMMA SwapStep ==
  ASSUME NumberInv, NEW t \in App, SwapBuffers(t)
  PROVE  FramesNumbered' /\ JobsNumbered'
  <1> DEFINE recs == pb["frames"]
  <1>1. /\ DOMAIN pb = Files /\ recs \in Seq(FrameInfo) /\ frameNbr \in Nat
        /\ Len(recs) = frameNbr /\ frame.id = frameNbr % Ids
    BY DEF NumberInv, TypeOK, FramesNumbered
  <1>2. /\ pb'["frames"] = Append(recs, frame) /\ pb'["jobs"] = pb["jobs"]
        /\ frameNbr' = frameNbr + 1 /\ UNCHANGED <<todo, jobNbr>>
        /\ frame' = WithScene(NewFrame(frameNbr + 1), NewScene(0, frameNbr + 1))
    BY <1>1 DEF SwapBuffers, Files
  <1>3. frame'.id = (frameNbr + 1) % Ids
    BY <1>2 DEF WithScene, NewFrame
  <1>4. /\ Len(pb'["frames"]) = frameNbr + 1
        /\ \A k \in DOMAIN pb'["frames"] :
             pb'["frames"][k] = IF k = frameNbr + 1 THEN frame ELSE recs[k]
        /\ \A k \in DOMAIN pb'["frames"] : k # frameNbr + 1 => k \in DOMAIN recs
    BY <1>1, <1>2
  <1>5. frameNbr + 1 - 1 = frameNbr
    BY <1>1
  <1>6. FramesNumbered'
    BY <1>1, <1>2, <1>3, <1>4, <1>5 DEF NumberInv, FramesNumbered
  <1>7. JobsNumbered'
    BY <1>2 DEF NumberInv, JobsNumbered, OnlyAtHead, RecordedDistinct, RecordedBelow,
                PendingNew, PendingDistinct, Pending, PendingId, At, NextStep
  <1> QED  BY <1>6, <1>7

LEMMA NumberStep == NumberInv /\ [Next]_vars => FramesNumbered' /\ JobsNumbered'
  <1> SUFFICES ASSUME NumberInv, [Next]_vars PROVE FramesNumbered' /\ JobsNumbered'
    OBVIOUS
  <1>0. /\ DOMAIN pb = Files /\ frame \in FrameInfo /\ FramesNumbered /\ JobsNumbered
    BY DEF NumberInv, TypeOK
  <1>a. ASSUME frame' = frame, frameNbr' = frameNbr, pb'["frames"] = pb["frames"]
        PROVE  FramesNumbered'
    BY <1>0, <1>a DEF FramesNumbered
  <1>b. ASSUME todo' = todo, jobNbr' = jobNbr, pb'["jobs"] = pb["jobs"]
        PROVE  JobsNumbered'
    BY <1>0, <1>b DEF JobsNumbered, OnlyAtHead, RecordedDistinct, RecordedBelow,
                      PendingNew, PendingDistinct, Pending, PendingId, At, NextStep
  <1>c. ASSUME NEW t \in App, todo[t] # <<>>, AfterHead(t), jobNbr' = jobNbr,
               pb'["jobs"] = pb["jobs"]
        PROVE  JobsNumbered'
    BY <1>c, RestHasNoJob, OtherTodo DEF AfterHead
  <1>1. CASE UNCHANGED writerVars
    BY <1>1, <1>a, <1>b DEF writerVars, numberVars, currentVars
  <1>2. ASSUME NEW t \in App, WriterStep(t) PROVE FramesNumbered' /\ JobsNumbered'
    <2>1. CASE ThreadStart(t)
      <3>1. Pending(t) = FALSE
        BY <2>1 DEF ThreadStart, At, Pending
      <3> QED  BY <2>1, <3>1, CreateJobStep DEF ThreadStart
    <2>2. CASE RecordJob(t)
      BY <2>2, RecordJobStep
    <2>3. CASE DrawBegin(t) \/ TileBegin(t) \/ DrawOrTileEnd(t)
      <3>1. Pending(t) = FALSE
        BY <2>3 DEF DrawBegin, TileBegin, DrawOrTileEnd, Idle, At, Pending
      <3> QED  BY <2>3, <3>1, CreateJobStep DEF DrawBegin, TileBegin, DrawOrTileEnd
    <2>4. CASE ResourceCreate(t)
      BY <2>4, <1>0, <1>a, <1>b DEF ResourceCreate, Write, Files, currentVars
    <2>5. CASE SceneEnd(t)
      <3> DEFINE rest == << Do("dumpScene"), Do("incScene"), Do("newScene"), Do("syncScene") >>
      <3>1. rest \in Seq(Steps) /\ \A i \in DOMAIN rest : rest[i].step # "recordJob"
        BY DEF Do, Steps
      <3>2. JobsNumbered'
        BY <2>5, <3>1, OtherTodo DEF SceneEnd, numberVars
      <3> QED  BY <2>5, <3>2, <1>a DEF SceneEnd, numberVars, currentVars
    <2>6. CASE DumpScene(t) \/ IncScene(t) \/ SyncScene(t)
      <3>1. /\ todo[t] # <<>> /\ AfterHead(t) /\ jobNbr' = jobNbr /\ pb'["jobs"] = pb["jobs"]
            /\ frame' = frame /\ frameNbr' = frameNbr /\ pb'["frames"] = pb["frames"]
        BY <2>6, <1>0 DEF DumpScene, IncScene, SyncScene, At, NextStep, Write, Files,
                          numberVars, currentVars
      <3> QED  BY <3>1, <1>a, <1>c
    <2>7. CASE NextScene(t)
      <3>1. todo[t] # <<>> /\ AfterHead(t) /\ jobNbr' = jobNbr /\ pb' = pb /\ frameNbr' = frameNbr
        BY <2>7 DEF NextScene, At, NextStep, numberVars
      <3>2. frame'.id = frame.id
        BY <2>7, <1>0 DEF NextScene, WithScene, FrameInfo
      <3> QED  BY <3>1, <3>2, <1>0, <1>c DEF FramesNumbered
    <2>8. CASE SwapBuffers(t)
      BY <2>8, SwapStep
    <2> QED  BY <1>2, <2>1, <2>2, <2>3, <2>4, <2>5, <2>6, <2>7, <2>8 DEF WriterStep
  <1> QED  BY <1>1, <1>2, ReaderKeepsRecords

LEMMA NumberInit == Init => NumberInv
  <1> SUFFICES ASSUME Init PROVE NumberInv
    OBVIOUS
  <1>1. TypeOK
    BY WriterTypeInit DEF Init, WriterType, TypeOK
  <1>2. /\ todo = [t \in App |-> << Do("threadStart") >>] /\ jobNbr = 0 /\ frameNbr = 0
        /\ pb["frames"] = <<>> /\ pb["jobs"] = <<>>
        /\ frame = WithScene(NewFrame(0), NewScene(0, 0))
    BY DEF Init, WriterInit, Files
  <1>3. frame.id = 0 % Ids
    BY <1>2 DEF WithScene, NewFrame
  <1>4. \A t \in App : ~ Pending(t)
    BY <1>2 DEF Pending, At, NextStep, Do
  <1>5. FramesNumbered
    BY <1>2, <1>3 DEF FramesNumbered
  <1>6. JobsNumbered
    BY <1>2, <1>4 DEF JobsNumbered, OnlyAtHead, RecordedDistinct, RecordedBelow,
                      PendingNew, PendingDistinct
  <1> QED  BY <1>1, <1>5, <1>6 DEF NumberInv

LEMMA NumberInvStep == NumberInv /\ [Next]_vars => NumberInv'
  BY TypeStep, NumberStep DEF NumberInv

(* Frame records are numbered one by one and no two job records have one   *)
(* id, in whatever order threads call the handlers: RecordsAreNumbered.    *)
THEOREM NumbersHold == Spec => []RecordsAreNumbered
  <1>1. NumberInv => RecordsAreNumbered
    BY DEF NumberInv, FramesNumbered, JobsNumbered, RecordedDistinct, RecordsAreNumbered
  <1> QED  BY <1>1, NumberInit, NumberInvStep, PTL DEF Spec

-----------------------------------------------------------------------------
(* The jobs of the scenes.  In an orderly application the thread that ends *)
(* a scene is alone in a handler, so a scene that is written is complete.  *)
SceneEndings ==
  { << Do("dumpScene"), Do("incScene"), Do("newScene"), Do("syncScene") >>,
    << Do("incScene"), Do("newScene"), Do("syncScene") >>,
    << Do("newScene"), Do("syncScene") >>, << Do("syncScene") >> }

TodoShape ==
  \A t \in App :
    \/ todo[t] \in {<<>>, << Do("threadStart") >>} \cup SceneEndings
    \/ \E j : todo[t] = << DoRecord(j) >>

Ending(t) == NextStep(t) \in {"dumpScene", "incScene", "newScene", "syncScene"}
EndsAlone ==
  \A t, u \in App : Ending(t) /\ u # t => NextStep(u) \in {"none", "threadStart"}

SceneNumbered ==
  /\ scene.frame = frameNbr % Ids
  /\ (\A t \in App : ~ At(t, "newScene")) => scene.id = sceneNbr % Ids

(* A scene lists fewer jobs than there are, whose numbers were given, and  *)
(* no number is listed twice.                                              *)
ListedBelow ==
  \A k \in DOMAIN Scenes :
    /\ Len(Scenes[k].jobs) <= jobNbr
    /\ \A i \in DOMAIN Scenes[k].jobs : Scenes[k].jobs[i] < jobNbr

ListedOnce ==
  \A k, m \in DOMAIN Scenes :
    \A i \in DOMAIN Scenes[k].jobs, l \in DOMAIN Scenes[m].jobs :
      Scenes[k].jobs[i] = Scenes[m].jobs[l] => k = m /\ i = l

Suits(s, j) ==
  /\ s.frame = j.frame /\ s.id = j.scene
  /\ j.type = "TILE_JOB" => j.x < s.width /\ j.y < s.height

HasPlace(j) ==
  \E k \in DOMAIN Scenes :
    Suits(Scenes[k], j) /\ \E i \in DOMAIN Scenes[k].jobs : Scenes[k].jobs[i] = j.id

JobsPlaced ==
  /\ \A i \in DOMAIN pb["jobs"] : HasPlace(pb["jobs"][i])
  /\ \A t \in App : Pending(t) => HasPlace(Head(todo[t]).job)

OrderInv == TodoShape /\ EndsAlone
PlaceInv == SceneNumbered /\ ListedBelow /\ ListedOnce /\ JobsPlaced

StepOf(steps) == IF steps = <<>> THEN "none" ELSE Head(steps).step

(* What a todo of a known shape has next, and then.                        *)
LEMMA Shapes ==
  /\ StepOf(<<>>) = "none"
  /\ StepOf(<< Do("threadStart") >>) = "threadStart"
  /\ \A j : /\ StepOf(<< DoRecord(j) >>) = "recordJob"
            /\ Head(<< DoRecord(j) >>).job = j /\ Tail(<< DoRecord(j) >>) = <<>>
  /\ StepOf(<< Do("dumpScene"), Do("incScene"), Do("newScene"), Do("syncScene") >>) = "dumpScene"
  /\ Tail(<< Do("dumpScene"), Do("incScene"), Do("newScene"), Do("syncScene") >>) =
       << Do("incScene"), Do("newScene"), Do("syncScene") >>
  /\ StepOf(<< Do("incScene"), Do("newScene"), Do("syncScene") >>) = "incScene"
  /\ Tail(<< Do("incScene"), Do("newScene"), Do("syncScene") >>) =
       << Do("newScene"), Do("syncScene") >>
  /\ StepOf(<< Do("newScene"), Do("syncScene") >>) = "newScene"
  /\ Tail(<< Do("newScene"), Do("syncScene") >>) = << Do("syncScene") >>
  /\ StepOf(<< Do("syncScene") >>) = "syncScene" /\ Tail(<< Do("syncScene") >>) = <<>>
  <1>1. /\ \A a : << a >> # <<>> /\ Head(<< a >>) = a /\ Tail(<< a >>) = <<>>
        /\ \A a, b : << a, b >> # <<>> /\ Head(<< a, b >>) = a /\ Tail(<< a, b >>) = << b >>
        /\ \A a, b, c : << a, b, c >> # <<>> /\ Head(<< a, b, c >>) = a
                         /\ Tail(<< a, b, c >>) = << b, c >>
        /\ \A a, b, c, d : << a, b, c, d >> # <<>> /\ Head(<< a, b, c, d >>) = a
                            /\ Tail(<< a, b, c, d >>) = << b, c, d >>
    OBVIOUS
  <1>2. /\ Do("threadStart").step = "threadStart" /\ Do("dumpScene").step = "dumpScene"
        /\ Do("incScene").step = "incScene" /\ Do("newScene").step = "newScene"
        /\ Do("syncScene").step = "syncScene"
        /\ \A j : DoRecord(j).step = "recordJob" /\ DoRecord(j).job = j
    BY DEF Do, DoRecord
  <1> QED
    BY <1>1, <1>2 DEF StepOf

LEMMA ShapeOfStep ==
  ASSUME TodoShape, NEW t \in App
  PROVE  /\ NextStep(t) = StepOf(todo[t])
         /\ NextStep(t) \in {"none", "threadStart", "recordJob", "dumpScene", "incScene",
                             "newScene", "syncScene"}
         /\ At(t, "none") => todo[t] = <<>>
         /\ At(t, "recordJob") => Tail(todo[t]) = <<>>
         /\ At(t, "dumpScene") =>
              Tail(todo[t]) = << Do("incScene"), Do("newScene"), Do("syncScene") >>
         /\ At(t, "incScene") => Tail(todo[t]) = << Do("newScene"), Do("syncScene") >>
         /\ At(t, "newScene") => Tail(todo[t]) = << Do("syncScene") >>
         /\ At(t, "syncScene") => Tail(todo[t]) = <<>>
  <1>1. NextStep(t) = StepOf(todo[t])
    BY DEF NextStep, StepOf
  <1>2. \/ todo[t] = <<>> \/ todo[t] = << Do("threadStart") >>
        \/ todo[t] = << Do("dumpScene"), Do("incScene"), Do("newScene"), Do("syncScene") >>
        \/ todo[t] = << Do("incScene"), Do("newScene"), Do("syncScene") >>
        \/ todo[t] = << Do("newScene"), Do("syncScene") >>
        \/ todo[t] = << Do("syncScene") >>
        \/ \E j : todo[t] = << DoRecord(j) >>
    BY DEF TodoShape, SceneEndings
  <1> QED
    BY <1>1, <1>2, Shapes DEF At

(* One thread takes up another todo.                                       *)
LEMMA TakesUp ==
  ASSUME todo \in [App -> Seq(Steps)], OrderInv, NEW t \in App, NEW rest,
         todo' = [todo EXCEPT ![t] = rest],
         \/ rest = <<>>
         \/ (\E j : rest = << DoRecord(j) >>) /\ \A u \in App : ~ Ending(u)
         \/ rest \in SceneEndings /\ (Ending(t) \/ \A u \in App : NextStep(u) \in {"none", "threadStart"})
  PROVE  /\ OrderInv'
         /\ \A u \in App : u # t => NextStep(u)' = NextStep(u) /\ todo'[u] = todo[u]
         /\ NextStep(t)' = StepOf(rest) /\ todo'[t] = rest
  <1>1. \A u \in App : todo'[u] = IF u = t THEN rest ELSE todo[u]
    OBVIOUS
  <1>2. \A u \in App : u # t => NextStep(u)' = NextStep(u)
    BY <1>1 DEF NextStep
  <1>3. NextStep(t)' = StepOf(rest)
    BY <1>1 DEF NextStep, StepOf
  <1>4. TodoShape'
    BY <1>1 DEF OrderInv, TodoShape
  <1>5. CASE rest = <<>>
    <2>1. NextStep(t)' = "none"
      BY <1>3, <1>5, Shapes
    <2> QED
      BY <1>1, <1>2, <1>3, <1>4, <2>1 DEF OrderInv, EndsAlone, Ending
  <1>6. CASE (\E j : rest = << DoRecord(j) >>) /\ \A u \in App : ~ Ending(u)
    <2>1. NextStep(t)' = "recordJob"
      BY <1>3, <1>6, Shapes
    <2> QED
      BY <1>1, <1>2, <1>3, <1>4, <1>6, <2>1 DEF OrderInv, EndsAlone, Ending
  <1>7. CASE rest \in SceneEndings /\ (Ending(t) \/ \A u \in App : NextStep(u) \in {"none", "threadStart"})
    <2>1. \A u \in App : u # t => NextStep(u) \in {"none", "threadStart"}
      BY <1>7 DEF OrderInv, EndsAlone
    <2> QED
      BY <1>1, <1>2, <1>3, <1>4, <2>1 DEF OrderInv, EndsAlone, Ending
  <1> QED
    BY <1>5, <1>6, <1>7

LEMMA OrderStep ==
  ASSUME WriterType, OrderInv, Orderly, NEW t \in App, WriterStep(t)
  PROVE  OrderInv'
  <1>0. todo \in [App -> Seq(Steps)]
    BY DEF WriterType
  <1>1. ASSUME NEW type, NEW dev, NEW x, NEW y, CreateJob(t, type, dev, x, y), MayBegin
        PROVE  OrderInv'
    <2>1. \A u \in App : ~ Ending(u)
      BY <1>1 DEF MayBegin, Ending
    <2>2. todo' = [todo EXCEPT ![t] = << DoRecord(NewJob(type, dev, x, y)) >>]
      BY <1>1 DEF CreateJob
    <2> QED
      BY <1>0, <2>1, <2>2, TakesUp
  <1>2. CASE ThreadStart(t) \/ DrawBegin(t) \/ TileBegin(t) \/ DrawOrTileEnd(t)
    BY <1>1, <1>2 DEF ThreadStart, DrawBegin, TileBegin, DrawOrTileEnd
  <1>3. ASSUME AfterHead(t),
               NextStep(t) \in {"recordJob", "dumpScene", "incScene", "newScene", "syncScene"}
        PROVE  OrderInv'
    <2>1. todo' = [todo EXCEPT ![t] = Tail(todo[t])]
      BY <1>3 DEF AfterHead
    <2>2. Tail(todo[t]) = <<>> \/ (Ending(t) /\ Tail(todo[t]) \in SceneEndings)
      BY <1>3, ShapeOfStep DEF OrderInv, Ending, SceneEndings, At
    <2> QED
      BY <1>0, <2>1, <2>2, TakesUp
  <1>4. CASE RecordJob(t) \/ DumpScene(t) \/ IncScene(t) \/ NextScene(t) \/ SyncScene(t)
    <2>1. /\ AfterHead(t)
          /\ NextStep(t) \in {"recordJob", "dumpScene", "incScene", "newScene", "syncScene"}
      BY <1>4 DEF RecordJob, DumpScene, IncScene, NextScene, SyncScene, At
    <2> QED
      BY <2>1, <1>3
  <1>5. CASE SceneEnd(t)
    <2>1. \A u \in App : NextStep(u) \in {"none", "threadStart"}
      BY <1>5 DEF SceneEnd, MayEnd
    <2>2. todo' = [todo EXCEPT ![t] = << Do("dumpScene"), Do("incScene"), Do("newScene"),
                                         Do("syncScene") >>]
      BY <1>5 DEF SceneEnd
    <2> QED
      BY <1>0, <2>1, <2>2, TakesUp DEF SceneEndings
  <1>6. CASE ResourceCreate(t) \/ SwapBuffers(t)
    <2>1. todo' = todo
      BY <1>6 DEF ResourceCreate, SwapBuffers
    <2> QED
      BY <2>1 DEF OrderInv, TodoShape, EndsAlone, Ending, NextStep
  <1> QED
    BY <1>2, <1>4, <1>5, <1>6 DEF WriterStep

(* The list of scenes: it stays, a new scene without a job comes last, or  *)
(* the last scene gets the next job.                                       *)
LEMMA ScenesType ==
  ASSUME WriterType
  PROVE  /\ Scenes \in Seq(SceneInfo) /\ Len(Scenes) \in Nat /\ DOMAIN Scenes = 1 .. Len(Scenes)
         /\ \A k \in DOMAIN Scenes : Scenes[k].jobs \in Seq(Nat)
  <1>1. Scenes \in Seq(SceneInfo)
    BY DEF WriterType, Scenes
  <1>2. \A k \in DOMAIN Scenes : Scenes[k] \in SceneInfo
    BY <1>1
  <1>3. \A k \in DOMAIN Scenes : Scenes[k].jobs \in Seq(Nat)
    BY <1>2 DEF SceneInfo
  <1> QED
    BY <1>1, <1>3

Listed == ListedBelow /\ ListedOnce

LEMMA ScenesStay ==
  ASSUME Listed, Scenes' = Scenes, jobNbr' = jobNbr
  PROVE  Listed' /\ \A j : HasPlace(j) => HasPlace(j)'
  BY DEF Listed, ListedBelow, ListedOnce, HasPlace

LEMMA SceneAdded ==
  ASSUME WriterType, Listed, NEW s, s.jobs = <<>>, Scenes' = Append(Scenes, s), jobNbr' = jobNbr
  PROVE  Listed' /\ \A j : HasPlace(j) => HasPlace(j)'
  <1>1. /\ DOMAIN Scenes' = 1 .. Len(Scenes) + 1
        /\ \A k \in DOMAIN Scenes : k \in DOMAIN Scenes' /\ Scenes'[k] = Scenes[k]
        /\ Scenes'[Len(Scenes) + 1] = s
        /\ \A k \in DOMAIN Scenes' : k \in DOMAIN Scenes \/ k = Len(Scenes) + 1
    BY ScenesType
  <1>2. Len(s.jobs) = 0 /\ DOMAIN s.jobs = {} /\ jobNbr \in Nat
    BY DEF WriterType
  <1>3. ListedBelow'
    BY <1>1, <1>2 DEF Listed, ListedBelow
  <1>4. ListedOnce'
    BY <1>1, <1>2 DEF Listed, ListedOnce
  <1>5. \A j : HasPlace(j) => HasPlace(j)'
    BY <1>1 DEF HasPlace
  <1> QED
    BY <1>3, <1>4, <1>5 DEF Listed

LEMMA JobAdded ==
  ASSUME WriterType, Listed, ~ Dumped, ~ Dumped', NEW s \in SceneInfo,
         scene' = s, pb' = pb, jobNbr' = jobNbr + 1,
         s.jobs = Append(scene.jobs, jobNbr), s.frame = scene.frame, s.id = scene.id,
         s.width >= scene.width, s.height >= scene.height
  PROVE  Listed' /\ \A j \in JobInfo :
           HasPlace(j) \/ (j.id = jobNbr /\ Suits(s, j)) => HasPlace(j)'
  <1> DEFINE n == Len(pb["scenes"]) + 1
  <1>1. /\ pb["scenes"] \in Seq(SceneInfo) /\ Len(pb["scenes"]) \in Nat /\ scene \in SceneInfo
        /\ scene.jobs \in Seq(Nat) /\ Len(scene.jobs) \in Nat /\ jobNbr \in Nat
    BY DEF WriterType, SceneInfo
  <1>2. Scenes = Append(pb["scenes"], scene) /\ Scenes' = Append(pb["scenes"], s)
    BY DEF Scenes
  <1>3. /\ DOMAIN Scenes = 1 .. n /\ DOMAIN Scenes' = 1 .. n /\ n \in 1 .. n
        /\ Scenes[n] = scene /\ Scenes'[n] = s
        /\ \A k \in 1 .. n : k # n => Scenes'[k] = Scenes[k]
    BY <1>1, <1>2
  <1>4. /\ DOMAIN s.jobs = 1 .. Len(scene.jobs) + 1 /\ DOMAIN scene.jobs = 1 .. Len(scene.jobs)
        /\ Len(s.jobs) = Len(scene.jobs) + 1
        /\ s.jobs[Len(scene.jobs) + 1] = jobNbr
        /\ \A i \in DOMAIN scene.jobs : i \in DOMAIN s.jobs /\ s.jobs[i] = scene.jobs[i]
        /\ \A i \in DOMAIN s.jobs : i \in DOMAIN scene.jobs \/ i = Len(scene.jobs) + 1
    BY <1>1
  <1>5. \A k \in DOMAIN Scenes : /\ Len(Scenes[k].jobs) \in Nat /\ Len(Scenes[k].jobs) <= jobNbr
                                 /\ \A i \in DOMAIN Scenes[k].jobs :
                                      Scenes[k].jobs[i] \in Nat /\ Scenes[k].jobs[i] < jobNbr
    BY ScenesType DEF Listed, ListedBelow
  <1>6. ASSUME NEW k \in DOMAIN Scenes', NEW i \in DOMAIN Scenes'[k].jobs
        PROVE  \/ /\ k \in DOMAIN Scenes /\ i \in DOMAIN Scenes[k].jobs
                  /\ Scenes'[k].jobs[i] = Scenes[k].jobs[i]
                  /\ Scenes'[k].jobs[i] \in Nat /\ Scenes'[k].jobs[i] < jobNbr
               \/ k = n /\ i = Len(scene.jobs) + 1 /\ Scenes'[k].jobs[i] = jobNbr
    <2>1. CASE k = n
      <3>1. Scenes'[k] = s /\ Scenes[k] = scene /\ k \in DOMAIN Scenes
        BY <1>3, <2>1
      <3> QED
        BY <1>4, <1>5, <1>6, <2>1, <3>1
    <2>2. CASE k # n
      <3>1. Scenes'[k] = Scenes[k] /\ k \in DOMAIN Scenes
        BY <1>3, <1>6, <2>2
      <3> QED
        BY <1>5, <1>6, <3>1
    <2> QED
      BY <2>1, <2>2
  <1>7. ListedBelow'
    <2>1. ASSUME NEW k \in DOMAIN Scenes' PROVE Len(Scenes'[k].jobs) <= jobNbr + 1
      <3>1. k \in DOMAIN Scenes /\ Len(Scenes[k].jobs) \in Nat /\ Len(Scenes[k].jobs) <= jobNbr
        BY <1>3, <1>5, <2>1
      <3>2. CASE k = n
        BY <1>1, <1>3, <1>4, <3>1, <3>2
      <3>3. CASE k # n
        BY <1>1, <1>3, <2>1, <3>1, <3>3
      <3> QED
        BY <3>2, <3>3
    <2>2. ASSUME NEW k \in DOMAIN Scenes', NEW i \in DOMAIN Scenes'[k].jobs
          PROVE  Scenes'[k].jobs[i] < jobNbr + 1
      <3>1. Scenes'[k].jobs[i] = jobNbr \/ (Scenes'[k].jobs[i] \in Nat /\ Scenes'[k].jobs[i] < jobNbr)
        BY <1>6, <2>2
      <3> QED
        BY <1>1, <3>1
    <2> QED
      BY <2>1, <2>2 DEF ListedBelow
  <1>8. ListedOnce'
    <2> SUFFICES ASSUME NEW k \in DOMAIN Scenes', NEW i \in DOMAIN Scenes'[k].jobs,
                        NEW m \in DOMAIN Scenes', NEW l \in DOMAIN Scenes'[m].jobs,
                        Scenes'[k].jobs[i] = Scenes'[m].jobs[l]
                 PROVE  k = m /\ i = l
      BY DEF ListedOnce
    <2>1. CASE Scenes'[k].jobs[i] < jobNbr
      BY <1>1, <1>6, <2>1 DEF Listed, ListedOnce
    <2>2. CASE ~ (Scenes'[k].jobs[i] < jobNbr)
      BY <1>1, <1>6, <2>2
    <2> QED
      BY <2>1, <2>2
  <1>9. ASSUME NEW j \in JobInfo, HasPlace(j) PROVE HasPlace(j)'
    <2>1. PICK k \in DOMAIN Scenes : /\ Suits(Scenes[k], j)
                                     /\ \E i \in DOMAIN Scenes[k].jobs : Scenes[k].jobs[i] = j.id
      BY <1>9 DEF HasPlace
    <2>2. CASE k # n
      BY <1>3, <2>1, <2>2 DEF HasPlace
    <2>3. CASE k = n
      <3>1. \E i \in DOMAIN s.jobs : s.jobs[i] = j.id
        BY <1>3, <1>4, <2>1, <2>3
      <3>2. /\ scene.width \in Nat /\ scene.height \in Nat /\ s.width \in Nat /\ s.height \in Nat
            /\ j.x \in Nat /\ j.y \in Nat
        BY <1>1 DEF SceneInfo, JobInfo
      <3>3. Suits(s, j)
        <4>1. Suits(scene, j)
          BY <1>3, <2>1, <2>3
        <4>2. ASSUME j.type = "TILE_JOB" PROVE j.x < s.width /\ j.y < s.height
          BY <3>2, <4>1, <4>2 DEF Suits
        <4> QED
          BY <4>1, <4>2 DEF Suits
      <3> QED
        BY <1>3, <3>1, <3>3 DEF HasPlace
    <2> QED
      BY <2>2, <2>3
  <1>10. ASSUME NEW j \in JobInfo, j.id = jobNbr, Suits(s, j) PROVE HasPlace(j)'
    <2>1. Len(scene.jobs) + 1 \in DOMAIN s.jobs /\ s.jobs[Len(scene.jobs) + 1] = j.id
      BY <1>1, <1>4, <1>10
    <2> QED
      BY <1>3, <1>10, <2>1 DEF HasPlace
  <1> QED
    BY <1>7, <1>8, <1>9, <1>10 DEF Listed

(* How each step of an orderly application changes the list of scenes.     *)
LEMMA DumpedShape ==
  ASSUME OrderInv, NEW t \in App
  PROVE  /\ NextStep(t) \in {"recordJob", "dumpScene", "syncScene"} => ~ Dumped
         /\ NextStep(t) \in {"incScene", "newScene"} => Dumped
         /\ (\A u \in App : NextStep(u) \in {"none", "threadStart", "recordJob"}) => ~ Dumped
  BY DEF OrderInv, EndsAlone, Ending, Dumped

(* What a step does to the todos: a thread takes a job to record, or has   *)
(* done what it had next.                                                  *)
LEMMA TakesJob ==
  ASSUME todo \in [App -> Seq(Steps)], NEW t \in App, NEW j,
         todo' = [todo EXCEPT ![t] = << DoRecord(j) >>]
  PROVE  /\ \A u \in App : u # t => NextStep(u)' = NextStep(u) /\ todo'[u] = todo[u]
         /\ NextStep(t)' = "recordJob" /\ Head(todo'[t]).job = j
  <1>1. \A u \in App : todo'[u] = IF u = t THEN << DoRecord(j) >> ELSE todo[u]
    OBVIOUS
  <1>2. NextStep(t)' = StepOf(<< DoRecord(j) >>)
    BY <1>1 DEF NextStep, StepOf
  <1> QED
    BY <1>1, <1>2, Shapes DEF NextStep

LEMMA HeadDone ==
  ASSUME todo \in [App -> Seq(Steps)], TodoShape, NEW t \in App, AfterHead(t),
         NextStep(t) \in {"recordJob", "dumpScene", "incScene", "newScene", "syncScene"}
  PROVE  /\ todo[t] # <<>>
         /\ \A u \in App : u # t => NextStep(u)' = NextStep(u) /\ todo'[u] = todo[u]
         /\ NextStep(t)' = IF NextStep(t) = "dumpScene" THEN "incScene"
                           ELSE IF NextStep(t) = "incScene" THEN "newScene"
                           ELSE IF NextStep(t) = "newScene" THEN "syncScene" ELSE "none"
  <1>1. \A u \in App : todo'[u] = IF u = t THEN Tail(todo[t]) ELSE todo[u]
    BY DEF AfterHead
  <1>2. NextStep(t)' = StepOf(Tail(todo[t]))
    BY <1>1 DEF NextStep, StepOf
  <1> QED
    BY <1>1, <1>2, ShapeOfStep, Shapes DEF NextStep, At

(* The current scene lists the new job and covers its tile.                *)
LEMMA SceneWithJob ==
  ASSUME scene \in SceneInfo, jobNbr \in Nat, NEW t, NEW type, NEW dev, NEW x \in Nat, NEW y \in Nat,
         NewJob(type, dev, x, y) \in JobInfo, CreateJob(t, type, dev, x, y)
  PROVE  /\ scene' \in SceneInfo
         /\ scene'.jobs = Append(scene.jobs, jobNbr)
         /\ scene'.frame = scene.frame /\ scene'.id = scene.id
         /\ scene'.width >= scene.width /\ scene'.height >= scene.height
         /\ type = "TILE_JOB" => x < scene'.width /\ y < scene'.height
  <1> DEFINE j == NewJob(type, dev, x, y)
  <1>1. scene' = IF type = "TILE_JOB" THEN WithTile(WithJob(scene, j), x, y) ELSE WithJob(scene, j)
    BY DEF CreateJob
  <1>2. /\ WithJob(scene, j) \in SceneInfo /\ WithTile(WithJob(scene, j), x, y) \in SceneInfo
        /\ scene.width \in Nat /\ scene.height \in Nat
    BY WithJobType DEF SceneInfo
  <1>3. /\ WithJob(scene, j).jobs = Append(scene.jobs, jobNbr)
        /\ WithJob(scene, j).frame = scene.frame /\ WithJob(scene, j).id = scene.id
        /\ WithJob(scene, j).width = scene.width /\ WithJob(scene, j).height = scene.height
    <2>1. j.id = jobNbr
      BY NewJobId
    <2> HIDE DEF j
    <2> QED
      BY <2>1 DEF WithJob, SceneInfo
  <1>4. ASSUME NEW s \in SceneInfo
        PROVE  /\ WithTile(s, x, y).jobs = s.jobs
               /\ WithTile(s, x, y).frame = s.frame /\ WithTile(s, x, y).id = s.id
               /\ WithTile(s, x, y).width = Larger(s.width, x + 1)
               /\ WithTile(s, x, y).height = Larger(s.height, y + 1)
    BY DEF WithTile, SceneInfo
  <1>5. \A m, n \in Nat : Larger(m, n + 1) >= m /\ n < Larger(m, n + 1)
    BY DEF Larger
  <1> HIDE DEF j
  <1>6. CASE type = "TILE_JOB"
    <2>1. scene' = WithTile(WithJob(scene, j), x, y)
      BY <1>1, <1>6
    <2> QED
      BY <1>2, <1>3, <1>4, <1>5, <2>1
  <1>7. CASE type # "TILE_JOB"
    <2>1. scene' = WithJob(scene, j)
      BY <1>1, <1>7
    <2> QED
      BY <1>2, <1>3, <1>7, <2>1
  <1> QED
    BY <1>6, <1>7

LEMMA CreateJobPlace ==
  ASSUME TypeOK, OrderInv, PlaceInv, NEW t \in App, MayBegin, Orderly,
         NEW type \in {"MISC_JOB", "DRAW_JOB", "TILE_JOB"}, NEW dev \in {"CPU", "GPU"},
         NEW x \in Nat, NEW y \in Nat, ~ Pending(t), CreateJob(t, type, dev, x, y)
  PROVE  PlaceInv'
  <1> DEFINE j == NewJob(type, dev, x, y)
  <1>1. /\ WriterType /\ j \in JobInfo /\ scene \in SceneInfo /\ scene.jobs \in Seq(Nat)
        /\ jobNbr \in Nat /\ todo \in [App -> Seq(Steps)]
    BY JobType DEF TypeOK, WriterType, SceneInfo
  <1>2. /\ \A u \in App : NextStep(u) \in {"none", "threadStart", "recordJob"}
        /\ todo' = [todo EXCEPT ![t] = << DoRecord(j) >>]
        /\ jobNbr' = jobNbr + 1 /\ UNCHANGED <<sceneNbr, frameNbr, pb>>
        /\ scene' = IF type = "TILE_JOB" THEN WithTile(WithJob(scene, j), x, y)
                    ELSE WithJob(scene, j)
    BY DEF MayBegin, CreateJob
  <1>3. /\ \A u \in App : u # t => NextStep(u)' = NextStep(u) /\ todo'[u] = todo[u]
        /\ NextStep(t)' = "recordJob" /\ Head(todo'[t]).job = j
    BY <1>1, <1>2, TakesJob
  <1>4. ~ Dumped /\ ~ Dumped'
    BY <1>2, <1>3 DEF Dumped
  <1>5. /\ j.id = jobNbr /\ j.frame = frameNbr % Ids /\ j.scene = sceneNbr % Ids
        /\ j.type = type /\ j.x = x /\ j.y = y
    <2>1. j.id = jobNbr
      BY NewJobId DEF TypeOK
    <2>2. /\ j.frame = frameNbr % Ids /\ j.scene = sceneNbr % Ids
          /\ j.type = type /\ j.x = x /\ j.y = y
      BY DEF NewJob
    <2> QED
      BY <2>1, <2>2
  <1>6. /\ scene' \in SceneInfo
        /\ scene'.jobs = Append(scene.jobs, jobNbr)
        /\ scene'.frame = scene.frame /\ scene'.id = scene.id
        /\ scene'.width >= scene.width /\ scene'.height >= scene.height
        /\ type = "TILE_JOB" => x < scene'.width /\ y < scene'.height
    BY <1>1, SceneWithJob
  <1>7. SceneNumbered'
    BY <1>2, <1>3, <1>6 DEF PlaceInv, SceneNumbered, At
  <1>8. Suits(scene', j)
    <2>1. \A u \in App : ~ At(u, "newScene")
      BY <1>2 DEF At
    <2> QED
      BY <1>5, <1>6, <2>1 DEF PlaceInv, SceneNumbered, Suits
  <1>9. /\ Listed'
        /\ \A k \in JobInfo : HasPlace(k) \/ (k.id = jobNbr /\ Suits(scene', k)) => HasPlace(k)'
    <2>1. PICK s \in SceneInfo : s = scene'
      BY <1>6
    <2>2. Listed
      BY DEF PlaceInv, Listed
    <2> QED
      BY <1>1, <1>2, <1>4, <1>6, <2>1, <2>2, JobAdded
  <1>10. JobsPlaced'
    <2>1. ASSUME NEW i \in DOMAIN pb["jobs"] PROVE HasPlace(pb["jobs"][i])'
      <3>1. pb["jobs"][i] \in JobInfo /\ HasPlace(pb["jobs"][i])
        BY <1>1 DEF WriterType, PlaceInv, JobsPlaced
      <3>2. pb'["jobs"][i] = pb["jobs"][i]
        BY <1>2
      <3> QED
        BY <1>9, <3>1, <3>2
    <2>2. ASSUME NEW u \in App, Pending(u)' PROVE HasPlace(Head(todo[u]).job)'
      <3>1. CASE u = t
        BY <1>1, <1>3, <1>5, <1>8, <1>9, <3>1
      <3>2. CASE u # t
        <4>1. Pending(u) /\ todo'[u] = todo[u]
          BY <1>3, <2>2, <3>2 DEF Pending, At
        <4>2. Head(todo[u]).job \in JobInfo /\ HasPlace(Head(todo[u]).job)
          <5>1. todo[u] # <<>> /\ Head(todo[u]).step = "recordJob" /\ todo[u] \in Seq(Steps)
            BY <1>1, <4>1 DEF Pending, At, NextStep
          <5>2. Head(todo[u]) \in Steps
            BY <5>1, HeadTail
          <5> QED
            BY <4>1, <5>1, <5>2 DEF Steps, PlaceInv, JobsPlaced
        <4> QED
          BY <1>9, <4>1, <4>2
      <3> QED
        BY <3>1, <3>2
    <2> QED
      BY <1>2, <2>1, <2>2 DEF JobsPlaced
  <1> QED
    BY <1>7, <1>9, <1>10 DEF PlaceInv, Listed

LEMMA PlaceStep ==
  ASSUME TypeOK, OrderInv, PlaceInv, Orderly, NEW t \in App, WriterStep(t)
  PROVE  PlaceInv'
  <1> USE DEF numberVars, currentVars
  <1>1. /\ WriterType /\ TodoShape /\ Listed /\ DOMAIN pb = Files /\ pb["scenes"] \in Seq(SceneInfo)
        /\ pb["jobs"] \in Seq(JobInfo) /\ todo \in [App -> Seq(Steps)]
    BY DEF TypeOK, WriterType, OrderInv, PlaceInv, Listed
  <1>a. ASSUME Listed', \A j : HasPlace(j) => HasPlace(j)', pb'["jobs"] = pb["jobs"],
               \A u \in App : Pending(u)' => Pending(u) /\ todo'[u] = todo[u]
        PROVE  JobsPlaced' /\ Listed'
    BY <1>a DEF PlaceInv, JobsPlaced
  <1>b. ASSUME NextStep(t) \in {"recordJob", "dumpScene", "incScene", "newScene", "syncScene"},
               AfterHead(t)
        PROVE  /\ todo[t] # <<>>
               /\ \A u \in App : u # t => NextStep(u)' = NextStep(u) /\ todo'[u] = todo[u]
               /\ NextStep(t)' = IF NextStep(t) = "dumpScene" THEN "incScene"
                                 ELSE IF NextStep(t) = "incScene" THEN "newScene"
                                 ELSE IF NextStep(t) = "newScene" THEN "syncScene" ELSE "none"
    BY <1>1, <1>b, HeadDone
  <1>2. CASE ThreadStart(t) \/ DrawBegin(t) \/ TileBegin(t) \/ DrawOrTileEnd(t)
    <2>1. MayBegin /\ ~ Pending(t)
      BY <1>2 DEF ThreadStart, DrawBegin, TileBegin, DrawOrTileEnd, Idle, At, Pending
    <2>2. PICK type \in {"MISC_JOB", "DRAW_JOB", "TILE_JOB"}, dev \in {"CPU", "GPU"},
               x \in Nat, y \in Nat : CreateJob(t, type, dev, x, y)
      BY <1>2, WriterAssumption DEF ThreadStart, DrawBegin, TileBegin, DrawOrTileEnd
    <2> QED
      BY <2>1, <2>2, CreateJobPlace
  <1>3. CASE RecordJob(t)
    <2> DEFINE j == Head(todo[t]).job
    <2>1. /\ NextStep(t) = "recordJob" /\ Pending(t) /\ AfterHead(t)
          /\ pb' = [pb EXCEPT !["jobs"] = Append(@, j)]
          /\ UNCHANGED <<jobNbr, sceneNbr, frameNbr, scene>>
      BY <1>3 DEF RecordJob, At, Pending, Write
    <2>2. /\ \A u \in App : u # t => NextStep(u)' = NextStep(u) /\ todo'[u] = todo[u]
          /\ NextStep(t)' = "none"
      BY <1>b, <2>1
    <2>3. pb'["scenes"] = pb["scenes"] /\ pb'["jobs"] = Append(pb["jobs"], j)
      BY <1>1, <2>1 DEF Files
    <2>4. ~ Dumped /\ ~ Dumped'
      BY <2>1, <2>2, DumpedShape DEF Dumped
    <2>5. Listed' /\ \A k : HasPlace(k) => HasPlace(k)'
      BY <1>1, <2>1, <2>3, <2>4, ScenesStay DEF Scenes
    <2>6. JobsPlaced'
      <3>1. HasPlace(j)
        BY <2>1 DEF PlaceInv, JobsPlaced
      <3>2. \A i \in DOMAIN pb'["jobs"] :
              \/ i \in DOMAIN pb["jobs"] /\ pb'["jobs"][i] = pb["jobs"][i]
              \/ pb'["jobs"][i] = j
        BY <1>1, <2>3
      <3>3. \A i \in DOMAIN pb'["jobs"] : HasPlace(pb'["jobs"][i])
        BY <3>1, <3>2 DEF PlaceInv, JobsPlaced
      <3>4. ASSUME NEW i \in DOMAIN pb'["jobs"] PROVE HasPlace(pb["jobs"][i])'
        <4>1. PICK k : k = pb'["jobs"][i]
          OBVIOUS
        <4>2. HasPlace(k)'
          BY <2>5, <3>3, <4>1
        <4> QED
          BY <4>1, <4>2 DEF HasPlace, Suits
      <3>5. ASSUME NEW u \in App, Pending(u)' PROVE HasPlace(Head(todo[u]).job)'
        <4>1. u # t /\ Pending(u) /\ todo'[u] = todo[u]
          BY <2>2, <3>5 DEF Pending, At
        <4>2. PICK k : k = Head(todo[u]).job
          OBVIOUS
        <4>3. HasPlace(k)'
          BY <2>5, <4>1, <4>2 DEF PlaceInv, JobsPlaced
        <4> QED
          BY <4>1, <4>2, <4>3 DEF HasPlace, Suits
      <3> QED
        BY <3>4, <3>5 DEF JobsPlaced
    <2>7. SceneNumbered'
      BY <2>1, <2>2 DEF PlaceInv, SceneNumbered, At
    <2> QED
      BY <2>5, <2>6, <2>7 DEF PlaceInv, Listed
  <1>4. CASE ResourceCreate(t) \/ SceneEnd(t)
    <2>1. /\ pb'["scenes"] = pb["scenes"] /\ pb'["jobs"] = pb["jobs"]
          /\ UNCHANGED <<jobNbr, sceneNbr, frameNbr, scene>>
      BY <1>1, <1>4 DEF ResourceCreate, SceneEnd, Write, Files
    <2>2. /\ \A u \in App : u # t => NextStep(u)' = NextStep(u) /\ todo'[u] = todo[u]
          /\ \/ NextStep(t)' = NextStep(t) /\ todo'[t] = todo[t]
             \/ /\ NextStep(t)' = "dumpScene"
                /\ \A u \in App : NextStep(u) \in {"none", "threadStart"}
      <3>1. CASE ResourceCreate(t)
        BY <3>1 DEF ResourceCreate, NextStep
      <3>2. CASE SceneEnd(t)
        <4> DEFINE rest == << Do("dumpScene"), Do("incScene"), Do("newScene"), Do("syncScene") >>
        <4>1. todo' = [todo EXCEPT ![t] = rest] /\ \A u \in App : NextStep(u) \in {"none", "threadStart"}
          BY <3>2 DEF SceneEnd, MayEnd
        <4>2. \A u \in App : todo'[u] = IF u = t THEN rest ELSE todo[u]
          BY <1>1, <4>1
        <4>3. NextStep(t)' = StepOf(rest)
          BY <4>2 DEF NextStep, StepOf
        <4> QED
          BY <4>1, <4>2, <4>3, Shapes DEF NextStep
      <3> QED
        BY <1>4, <3>1, <3>2
    <2>3. (Dumped <=> Dumped') /\ \A u \in App : Pending(u)' => Pending(u) /\ todo'[u] = todo[u]
      BY <2>2 DEF Dumped, Pending, At
    <2>4. Listed' /\ \A k : HasPlace(k) => HasPlace(k)'
      BY <1>1, <2>1, <2>3, ScenesStay DEF Scenes
    <2>5. SceneNumbered'
      BY <2>1, <2>2 DEF PlaceInv, SceneNumbered, At
    <2> QED
      BY <1>a, <2>1, <2>3, <2>4, <2>5 DEF PlaceInv, Listed
  <1>5. CASE DumpScene(t)
    <2>1. /\ NextStep(t) = "dumpScene" /\ AfterHead(t)
          /\ pb' = [pb EXCEPT !["scenes"] = Append(@, scene)]
          /\ UNCHANGED <<jobNbr, sceneNbr, frameNbr, scene>>
      BY <1>5 DEF DumpScene, At, Write
    <2>2. /\ \A u \in App : u # t => NextStep(u)' = NextStep(u) /\ todo'[u] = todo[u]
          /\ NextStep(t)' = "incScene"
      BY <1>b, <2>1
    <2>3. pb'["scenes"] = Append(pb["scenes"], scene) /\ pb'["jobs"] = pb["jobs"]
      BY <1>1, <2>1 DEF Files
    <2>4. ~ Dumped /\ Dumped'
      BY <2>1, <2>2, DumpedShape DEF Dumped
    <2>5. Listed' /\ \A k : HasPlace(k) => HasPlace(k)'
      BY <1>1, <2>1, <2>3, <2>4, ScenesStay DEF Scenes
    <2>6. SceneNumbered'
      BY <2>1, <2>2 DEF PlaceInv, SceneNumbered, At
    <2>7. \A u \in App : Pending(u)' => Pending(u) /\ todo'[u] = todo[u]
      BY <2>2 DEF Pending, At
    <2> QED
      BY <1>a, <2>3, <2>5, <2>6, <2>7 DEF PlaceInv, Listed
  <1>6. CASE IncScene(t)
    <2>1. /\ NextStep(t) = "incScene" /\ AfterHead(t)
          /\ UNCHANGED <<jobNbr, frameNbr, scene, pb>>
      BY <1>6 DEF IncScene, At
    <2>2. /\ \A u \in App : u # t => NextStep(u)' = NextStep(u) /\ todo'[u] = todo[u]
          /\ NextStep(t)' = "newScene"
      BY <1>b, <2>1
    <2>3. Dumped /\ Dumped'
      BY <2>1, <2>2 DEF Dumped
    <2>4. Listed' /\ \A k : HasPlace(k) => HasPlace(k)'
      BY <1>1, <2>1, <2>3, ScenesStay DEF Scenes
    <2>5. SceneNumbered'
      BY <2>1, <2>2 DEF PlaceInv, SceneNumbered, At
    <2>6. \A u \in App : Pending(u)' => Pending(u) /\ todo'[u] = todo[u]
      BY <2>2 DEF Pending, At
    <2> QED
      BY <1>a, <2>1, <2>4, <2>5, <2>6 DEF PlaceInv, Listed
  <1>7. CASE NextScene(t)
    <2>1. /\ NextStep(t) = "newScene" /\ AfterHead(t)
          /\ scene' = NewScene(sceneNbr, frameNbr)
          /\ UNCHANGED <<jobNbr, sceneNbr, frameNbr, pb>>
      BY <1>7 DEF NextScene, At
    <2>2. /\ \A u \in App : u # t => NextStep(u)' = NextStep(u) /\ todo'[u] = todo[u]
          /\ NextStep(t)' = "syncScene"
      BY <1>b, <2>1
    <2>3. Dumped /\ ~ Dumped'
      BY <2>1, <2>2 DEF Dumped, OrderInv, EndsAlone, Ending
    <2>4. Scenes' = Append(Scenes, scene') /\ scene'.jobs = <<>>
      BY <2>1, <2>3 DEF Scenes, NewScene
    <2>5. Listed' /\ \A k : HasPlace(k) => HasPlace(k)'
      <3>1. PICK s : s = scene'
        OBVIOUS
      <3> QED
        BY <1>1, <2>1, <2>4, <3>1, SceneAdded
    <2>6. SceneNumbered'
      BY <2>1 DEF SceneNumbered, NewScene
    <2>7. \A u \in App : Pending(u)' => Pending(u) /\ todo'[u] = todo[u]
      BY <2>2 DEF Pending, At
    <2> QED
      BY <1>a, <2>1, <2>5, <2>6, <2>7 DEF PlaceInv, Listed
  <1>8. CASE SwapBuffers(t)
    <2>1. /\ \A u \in App : NextStep(u) \in {"none", "threadStart"}
          /\ scene' = NewScene(0, frameNbr + 1) /\ sceneNbr' = 0 /\ frameNbr' = frameNbr + 1
          /\ UNCHANGED <<jobNbr, todo>>
          /\ pb' = [pb EXCEPT !["frames"] = Append(@, frame), !["scenes"] = Append(@, scene)]
      BY <1>8 DEF SwapBuffers, MayEnd
    <2>2. pb'["scenes"] = Append(pb["scenes"], scene) /\ pb'["jobs"] = pb["jobs"]
      BY <1>1, <2>1 DEF Files
    <2>3. ~ Dumped /\ ~ Dumped'
      BY <2>1 DEF Dumped, NextStep
    <2>4. Scenes' = Append(Scenes, scene') /\ scene'.jobs = <<>>
      BY <2>1, <2>2, <2>3 DEF Scenes, NewScene
    <2>5. Listed' /\ \A k : HasPlace(k) => HasPlace(k)'
      <3>1. PICK s : s = scene'
        OBVIOUS
      <3> QED
        BY <1>1, <2>1, <2>4, <3>1, SceneAdded
    <2>6. SceneNumbered'
      BY <2>1 DEF SceneNumbered, NewScene
    <2>7. \A u \in App : Pending(u)' => Pending(u) /\ todo'[u] = todo[u]
      BY <2>1 DEF Pending, At, NextStep
    <2> QED
      BY <1>a, <2>2, <2>5, <2>6, <2>7 DEF PlaceInv, Listed
  <1>9. CASE SyncScene(t)
    <2>1. /\ NextStep(t) = "syncScene" /\ AfterHead(t)
          /\ UNCHANGED <<jobNbr, sceneNbr, frameNbr, scene, pb>>
      BY <1>9 DEF SyncScene, At, numberVars, currentVars
    <2>2. /\ \A u \in App : u # t => NextStep(u)' = NextStep(u) /\ todo'[u] = todo[u]
          /\ NextStep(t)' = "none"
      BY <1>b, <2>1
    <2>3. ~ Dumped /\ ~ Dumped'
      BY <2>1, <2>2, DumpedShape DEF Dumped
    <2>4. Listed' /\ \A k : HasPlace(k) => HasPlace(k)'
      BY <1>1, <2>1, <2>3, ScenesStay DEF Scenes
    <2>5. SceneNumbered'
      BY <2>1, <2>2 DEF PlaceInv, SceneNumbered, At
    <2>6. \A u \in App : Pending(u)' => Pending(u) /\ todo'[u] = todo[u]
      BY <2>2 DEF Pending, At
    <2> QED
      BY <1>a, <2>1, <2>4, <2>5, <2>6 DEF PlaceInv, Listed
  <1> QED
    BY <1>2, <1>3, <1>4, <1>5, <1>6, <1>7, <1>8, <1>9 DEF WriterStep

LEMMA PlaceInit == Init => OrderInv /\ PlaceInv
  <1> SUFFICES ASSUME Init PROVE OrderInv /\ PlaceInv
    OBVIOUS
  <1>1. /\ todo = [t \in App |-> << Do("threadStart") >>]
        /\ jobNbr = 0 /\ sceneNbr = 0 /\ frameNbr = 0 /\ scene = NewScene(0, 0)
        /\ pb["scenes"] = <<>> /\ pb["jobs"] = <<>>
    BY DEF Init, WriterInit, Files
  <1>2. \A t \in App : NextStep(t) = "threadStart"
    BY <1>1, Shapes DEF NextStep, StepOf
  <1>3. OrderInv
    BY <1>1, <1>2 DEF OrderInv, TodoShape, EndsAlone
  <1>4. Scenes = << scene >> /\ scene.jobs = <<>>
    BY <1>1, <1>2 DEF Scenes, Dumped, NewScene
  <1>5. Listed
    BY <1>1, <1>4 DEF Listed, ListedBelow, ListedOnce
  <1>6. SceneNumbered /\ JobsPlaced
    BY <1>1, <1>2 DEF SceneNumbered, JobsPlaced, NewScene, Pending, At
  <1> QED
    BY <1>3, <1>5, <1>6 DEF PlaceInv, Listed

LEMMA PlaceInvStep ==
  Orderly /\ TypeOK /\ OrderInv /\ PlaceInv /\ [Next]_vars => OrderInv' /\ PlaceInv'
  <1> SUFFICES ASSUME Orderly, TypeOK, OrderInv, PlaceInv, [Next]_vars PROVE OrderInv' /\ PlaceInv'
    OBVIOUS
  <1>1. CASE UNCHANGED writerVars
    <2>1. OrderInv'
      BY <1>1 DEF writerVars, OrderInv, TodoShape, EndsAlone, Ending, NextStep
    <2>2. /\ Scenes' = Scenes /\ jobNbr' = jobNbr /\ pb' = pb /\ todo' = todo /\ scene' = scene
          /\ sceneNbr' = sceneNbr /\ frameNbr' = frameNbr
      BY <1>1 DEF writerVars, numberVars, currentVars, Scenes, Dumped, NextStep
    <2>3. Listed' /\ \A j : HasPlace(j) => HasPlace(j)'
      BY <2>2, ScenesStay DEF PlaceInv, Listed
    <2>4. SceneNumbered'
      BY <2>2 DEF PlaceInv, SceneNumbered, At, NextStep
    <2>5. JobsPlaced'
      BY <2>2, <2>3 DEF PlaceInv, JobsPlaced, Pending, At, NextStep
    <2> QED
      BY <2>1, <2>3, <2>4, <2>5 DEF PlaceInv, Listed
  <1>2. ASSUME NEW t \in App, WriterStep(t) PROVE OrderInv' /\ PlaceInv'
    <2>1. WriterType
      BY DEF TypeOK, WriterType
    <2> QED
      BY <1>2, <2>1, OrderStep, PlaceStep
  <1> QED
    BY <1>1, <1>2, ReaderKeepsRecords

(* Every recorded job is listed by one scene, once, and under the frame    *)
(* and scene number of its own record and trace file, when no thread ends  *)
(* a scene or frame while another is in a handler: JobsHaveTheirScene.     *)
THEOREM JobsAreListed ==
  ASSUME Orderly
  PROVE  Spec => []JobsHaveTheirScene
  <1>1. TypeOK /\ PlaceInv => JobsHaveTheirScene
    <2> SUFFICES ASSUME TypeOK, PlaceInv, NEW i \in DOMAIN pb["jobs"]
                 PROVE  LET j == pb["jobs"][i]
                            places == {p \in (1 .. Len(Scenes)) \X (1 .. jobNbr) :
                                         /\ p[2] \in DOMAIN Scenes[p[1]].jobs
                                         /\ Scenes[p[1]].jobs[p[2]] = j.id}
                        IN /\ Cardinality(places) = 1
                           /\ \A p \in places :
                                LET s == Scenes[p[1]] IN
                                /\ s.frame = j.frame /\ s.id = j.scene
                                /\ j.type = "TILE_JOB" => j.x < s.width /\ j.y < s.height
      BY DEF JobsHaveTheirScene
    <2> DEFINE j == pb["jobs"][i]
               places == {p \in (1 .. Len(Scenes)) \X (1 .. jobNbr) :
                            /\ p[2] \in DOMAIN Scenes[p[1]].jobs
                            /\ Scenes[p[1]].jobs[p[2]] = j.id}
    <2>1. /\ DOMAIN Scenes = 1 .. Len(Scenes) /\ jobNbr \in Nat
          /\ \A k \in DOMAIN Scenes : Scenes[k].jobs \in Seq(Nat)
      BY ScenesType DEF TypeOK, WriterType
    <2>9. PICK k \in DOMAIN Scenes :
            Suits(Scenes[k], j) /\ \E l \in DOMAIN Scenes[k].jobs : Scenes[k].jobs[l] = j.id
      BY DEF PlaceInv, JobsPlaced, HasPlace
    <2>2. PICK l \in DOMAIN Scenes[k].jobs : Suits(Scenes[k], j) /\ Scenes[k].jobs[l] = j.id
      BY <2>9
    <2>3. l \in 1 .. jobNbr
      <3>1. Len(Scenes[k].jobs) <= jobNbr /\ Len(Scenes[k].jobs) \in Nat
            /\ l \in 1 .. Len(Scenes[k].jobs)
        BY <2>1, <2>2 DEF PlaceInv, ListedBelow
      <3> QED
        BY <2>1, <3>1
    <2>4. places = {<<k, l>>}
      <3>1. <<k, l>> \in places
        BY <2>1, <2>2, <2>3
      <3>2. ASSUME NEW p \in places PROVE p = <<k, l>>
        <4>1. /\ p = <<p[1], p[2]>> /\ p[1] \in DOMAIN Scenes /\ p[2] \in DOMAIN Scenes[p[1]].jobs
              /\ Scenes[p[1]].jobs[p[2]] = Scenes[k].jobs[l]
          BY <2>1, <2>2
        <4>2. p[1] = k /\ p[2] = l
          BY <2>2, <4>1 DEF PlaceInv, ListedOnce
        <4> QED
          BY <4>1, <4>2
      <3> QED
        BY <3>1, <3>2
    <2>5. Cardinality(places) = 1
      BY <2>4, FS_Singleton
    <2> HIDE DEF j
    <2>6. ASSUME NEW p \in places
          PROVE  /\ Scenes[p[1]].frame = j.frame /\ Scenes[p[1]].id = j.scene
                 /\ j.type = "TILE_JOB" => j.x < Scenes[p[1]].width /\ j.y < Scenes[p[1]].height
      <3>1. p[1] = k
        BY <2>4
      <3> QED
        BY <2>2, <3>1 DEF Suits
    <2> QED
      BY <2>5, <2>6 DEF j
  <1> QED
    BY <1>1, PlaceInit, PlaceInvStep, TypeCorrect, PTL DEF Spec

-----------------------------------------------------------------------------
(* A nonempty set of numbers has a smallest one.                           *)
LEMMA LeastOf ==
  ASSUME NEW S, S \subseteq Nat, S # {}
  PROVE  Min(S) \in S /\ \A n \in S : Min(S) <= n
  <1>1. PICK x \in S : \A y \in S : ~ (<<y, x>> \in OpToRel(<, Nat))
    BY NatLessThanWellFounded, WFMin
  <1>2. ASSUME NEW y \in S PROVE ~ (<<y, x>> \in {p \in Nat \X Nat : p[1] < p[2]})
    BY <1>1, Zenon DEF OpToRel
  <1>3. ASSUME NEW y \in S PROVE x <= y
    <2>1. x \in Nat /\ y \in Nat /\ <<y, x>>[1] = y /\ <<y, x>>[2] = x
      OBVIOUS
    <2>2. ~ (y < x)
      BY <1>2, <2>1
    <2> QED
      BY <2>1, <2>2
  <1> QED
    BY <1>3 DEF Min

-----------------------------------------------------------------------------
(* The command stream and the records.  Nbr counts a command in the first  *)
(* p of a stream.                                                          *)
Commands == [cmd : {"NEW_FRAME", "NEW_SCENE", "END_SCENE", "NEW_RESOURCE"}, rsc : Nat]
Nbr(cs, cmd, p) == Cardinality({i \in 1 .. p : cs[i].cmd = cmd})

LEMMA NbrSteps ==
  ASSUME NEW cs, NEW cmd, NEW p \in Nat
  PROVE  /\ Nbr(cs, cmd, p) \in Nat
         /\ Nbr(cs, cmd, 0) = 0
         /\ cs[p + 1].cmd = cmd => Nbr(cs, cmd, p + 1) = Nbr(cs, cmd, p) + 1
         /\ cs[p + 1].cmd # cmd => Nbr(cs, cmd, p + 1) = Nbr(cs, cmd, p)
  <1> DEFINE S(n) == {i \in 1 .. n : cs[i].cmd = cmd}
  <1>1. IsFiniteSet(S(p))
    <2>1. IsFiniteSet(1 .. p)
      BY FS_Interval
    <2> QED
      BY <2>1, FS_Subset
  <1>2. Cardinality(S(p)) \in Nat
    BY <1>1, FS_CardinalityType
  <1>3. S(0) = {} /\ Cardinality({}) = 0
    BY FS_EmptySet
  <1>4. CASE cs[p + 1].cmd = cmd
    <2>1. S(p + 1) = S(p) \cup {p + 1} /\ p + 1 \notin S(p)
      BY <1>4
    <2>2. Cardinality(S(p) \cup {p + 1}) = Cardinality(S(p)) + 1
      BY <1>1, <2>1, FS_AddElement
    <2> QED
      BY <1>2, <1>3, <1>4, <2>1, <2>2 DEF Nbr
  <1>5. CASE cs[p + 1].cmd # cmd
    <2>1. S(p + 1) = S(p)
      BY <1>5
    <2> QED
      BY <1>2, <1>3, <1>5, <2>1 DEF Nbr
  <1> QED
    BY <1>4, <1>5

LEMMA NbrOfPrefix ==
  ASSUME NEW cs, NEW ds, NEW cmd, NEW p \in Nat, \A i \in 1 .. p : cs[i] = ds[i]
  PROVE  Nbr(cs, cmd, p) = Nbr(ds, cmd, p)
  <1>1. {i \in 1 .. p : cs[i].cmd = cmd} = {i \in 1 .. p : ds[i].cmd = cmd}
    OBVIOUS
  <1> QED
    BY <1>1 DEF Nbr

LEMMA NbrAppended ==
  ASSUME NEW cs \in Seq(Commands), NEW a \in Commands, NEW cmd
  PROVE  /\ \A p \in 0 .. Len(cs) : Nbr(Append(cs, a), cmd, p) = Nbr(cs, cmd, p)
         /\ Nbr(Append(cs, a), cmd, Len(cs) + 1) =
              IF a.cmd = cmd THEN Nbr(cs, cmd, Len(cs)) + 1 ELSE Nbr(cs, cmd, Len(cs))
  <1> DEFINE ds == Append(cs, a)
  <1>1. Len(cs) \in Nat /\ \A i \in 1 .. Len(cs) : ds[i] = cs[i]
    OBVIOUS
  <1>2. ds[Len(cs) + 1] = a
    OBVIOUS
  <1>3. ASSUME NEW p \in 0 .. Len(cs) PROVE Nbr(ds, cmd, p) = Nbr(cs, cmd, p)
    <2>1. p \in Nat /\ \A i \in 1 .. p : ds[i] = cs[i]
      BY <1>1
    <2> HIDE DEF ds
    <2> QED
      BY <2>1, NbrOfPrefix
  <1> HIDE DEF ds
  <1>4. /\ ds[Len(cs) + 1].cmd = cmd => Nbr(ds, cmd, Len(cs) + 1) = Nbr(ds, cmd, Len(cs)) + 1
        /\ ds[Len(cs) + 1].cmd # cmd => Nbr(ds, cmd, Len(cs) + 1) = Nbr(ds, cmd, Len(cs))
    BY <1>1, NbrSteps
  <1> QED
    BY <1>1, <1>2, <1>3, <1>4 DEF ds

(* A stream fits the scenes made in md, with fn frames ended and rn        *)
(* resources created: its NEW_SCENEs and NEW_FRAMEs come in the order in   *)
(* which the scenes were begun and the frames ended; for the last due      *)
(* scenes the NEW_SCENE is still to come.                                  *)
Fits(cs, md, fn, rn, due) ==
  /\ cs \in Seq(Commands)
  /\ Nbr(cs, "NEW_SCENE", Len(cs)) + due = Len(md)
  /\ Nbr(cs, "NEW_FRAME", Len(cs)) = fn
  /\ Nbr(cs, "NEW_RESOURCE", Len(cs)) = rn
  /\ \A p \in 0 .. Len(cs) :
       /\ Nbr(cs, "NEW_SCENE", p) <= Len(md)
       /\ Nbr(cs, "NEW_FRAME", p) <= fn
       /\ Nbr(cs, "NEW_RESOURCE", p) <= rn
       /\ \A k \in DOMAIN md :
            /\ k <= Nbr(cs, "NEW_SCENE", p) => md[k].frame <= Nbr(cs, "NEW_FRAME", p)
            /\ k > Nbr(cs, "NEW_SCENE", p) => md[k].frame >= Nbr(cs, "NEW_FRAME", p)
  /\ \A p \in DOMAIN cs :
       cs[p].cmd = "NEW_RESOURCE" => cs[p].rsc + 1 = Nbr(cs, "NEW_RESOURCE", p)

Rendered == [frame : Nat, jobs : Seq(JobInfo)]

(* One command more, with what it announces.                               *)
LEMMA CommandAdded ==
  ASSUME NEW cs, NEW md \in Seq(Rendered), NEW fn \in Nat, NEW rn \in Nat, NEW due \in Nat,
         NEW fn2 \in Nat, NEW rn2 \in Nat, NEW due2 \in Nat,
         Fits(cs, md, fn, rn, due), NEW a \in Commands,
         \/ a.cmd = "END_SCENE" /\ fn2 = fn /\ rn2 = rn /\ due2 = due
         \/ a.cmd = "NEW_RESOURCE" /\ a.rsc = rn /\ fn2 = fn /\ rn2 = rn + 1 /\ due2 = due
         \/ a.cmd = "NEW_FRAME" /\ fn2 = fn + 1 /\ rn2 = rn /\ due = 0 /\ due2 = 0
         \/ /\ a.cmd = "NEW_SCENE" /\ fn2 = fn /\ rn2 = rn /\ due = due2 + 1
            /\ \A k \in DOMAIN md : md[k].frame <= fn
  PROVE  Fits(Append(cs, a), md, fn2, rn2, due2)
  <1> DEFINE ds == Append(cs, a)
             n == Len(cs)
             NS(p) == Nbr(cs, "NEW_SCENE", p)
             NF(p) == Nbr(cs, "NEW_FRAME", p)
             NR(p) == Nbr(cs, "NEW_RESOURCE", p)
  <1>1. cs \in Seq(Commands) /\ n \in Nat /\ ds \in Seq(Commands) /\ Len(ds) = n + 1
    BY DEF Fits
  <1>2. /\ \A p \in 0 .. n : /\ Nbr(ds, "NEW_SCENE", p) = NS(p) /\ NS(p) \in Nat
                             /\ Nbr(ds, "NEW_FRAME", p) = NF(p) /\ NF(p) \in Nat
                             /\ Nbr(ds, "NEW_RESOURCE", p) = NR(p) /\ NR(p) \in Nat
    <2>1. \A p \in 0 .. n : p \in Nat
      BY <1>1
    <2>2. \A c : \A p \in 0 .. n : Nbr(ds, c, p) = Nbr(cs, c, p)
      BY <1>1, NbrAppended
    <2>3. \A c : \A p \in 0 .. n : Nbr(cs, c, p) \in Nat
      BY <2>1, NbrSteps
    <2> HIDE DEF ds, n
    <2> QED
      BY <2>2, <2>3
  <1>3. /\ NS(n) + due = Len(md) /\ NF(n) = fn /\ NR(n) = rn /\ n \in 0 .. n
        /\ \A p \in 0 .. n : NS(p) <= Len(md) /\ NF(p) <= fn /\ NR(p) <= rn
        /\ \A p \in 0 .. n : \A k \in DOMAIN md : /\ k <= NS(p) => md[k].frame <= NF(p)
                                                  /\ k > NS(p) => md[k].frame >= NF(p)
    BY <1>1 DEF Fits
  <1>4. /\ Len(md) \in Nat
        /\ \A k \in DOMAIN md : k \in Nat /\ k <= Len(md) /\ md[k].frame \in Nat
    <2>1. \A m \in Rendered : m.frame \in Nat
      BY DEF Rendered
    <2>2. \A k \in DOMAIN md : k \in Nat /\ k <= Len(md) /\ md[k] \in Rendered
      OBVIOUS
    <2> QED
      BY <2>1, <2>2
  <1>5. /\ Nbr(ds, "NEW_SCENE", n + 1) = IF a.cmd = "NEW_SCENE" THEN NS(n) + 1 ELSE NS(n)
        /\ Nbr(ds, "NEW_FRAME", n + 1) = IF a.cmd = "NEW_FRAME" THEN NF(n) + 1 ELSE NF(n)
        /\ Nbr(ds, "NEW_RESOURCE", n + 1) = IF a.cmd = "NEW_RESOURCE" THEN NR(n) + 1 ELSE NR(n)
    BY <1>1, NbrAppended
  <1> HIDE DEF ds, NS, NF, NR, n
  <1>6. NS(n) \in Nat /\ NF(n) \in Nat /\ NR(n) \in Nat
    BY <1>2, <1>3
  <1>7. /\ Nbr(ds, "NEW_SCENE", n + 1) + due2 = Len(md)
        /\ Nbr(ds, "NEW_SCENE", n + 1) <= Len(md)
        /\ Nbr(ds, "NEW_FRAME", n + 1) = fn2
        /\ Nbr(ds, "NEW_RESOURCE", n + 1) = rn2
        /\ fn <= fn2 /\ rn <= rn2
    BY <1>3, <1>4, <1>5, <1>6
  <1>8. ASSUME NEW p \in 0 .. n
        PROVE  /\ Nbr(ds, "NEW_SCENE", p) <= Len(md) /\ Nbr(ds, "NEW_FRAME", p) <= fn2
               /\ Nbr(ds, "NEW_RESOURCE", p) <= rn2
               /\ \A k \in DOMAIN md :
                    /\ k <= Nbr(ds, "NEW_SCENE", p) => md[k].frame <= Nbr(ds, "NEW_FRAME", p)
                    /\ k > Nbr(ds, "NEW_SCENE", p) => md[k].frame >= Nbr(ds, "NEW_FRAME", p)
    <2>1. /\ NS(p) \in Nat /\ NF(p) \in Nat /\ NR(p) \in Nat
          /\ NS(p) <= Len(md) /\ NF(p) <= fn /\ NR(p) <= rn
      BY <1>2, <1>3
    <2>2. NF(p) <= fn2 /\ NR(p) <= rn2
      BY <1>7, <2>1
    <2> QED
      BY <1>2, <1>3, <2>1, <2>2
  <1>9. ASSUME NEW k \in DOMAIN md
        PROVE  /\ k <= Nbr(ds, "NEW_SCENE", n + 1) => md[k].frame <= fn2
               /\ k > Nbr(ds, "NEW_SCENE", n + 1) => md[k].frame >= fn2
    <2>1. /\ k \in Nat /\ k <= Len(md) /\ md[k].frame \in Nat
          /\ k <= NS(n) => md[k].frame <= fn
          /\ k > NS(n) => md[k].frame >= fn
      BY <1>3, <1>4
    <2>2. CASE a.cmd = "NEW_SCENE"
      <3>1. md[k].frame <= fn /\ fn2 = fn
        BY <2>2
      <3> QED
        BY <1>5, <1>6, <2>1, <2>2, <3>1
    <2>3. CASE a.cmd = "NEW_FRAME"
      <3>1. NS(n) = Len(md) /\ Nbr(ds, "NEW_SCENE", n + 1) = NS(n)
        BY <1>3, <1>4, <1>5, <1>6, <2>3
      <3> QED
        BY <1>7, <2>1, <3>1
    <2>4. CASE a.cmd \in {"END_SCENE", "NEW_RESOURCE"}
      <3>1. Nbr(ds, "NEW_SCENE", n + 1) = NS(n) /\ fn2 = fn
        BY <1>5, <2>4
      <3> QED
        BY <2>1, <3>1
    <2> QED
      BY <2>2, <2>3, <2>4
  <1>10. ASSUME NEW p \in 1 .. n + 1, ds[p].cmd = "NEW_RESOURCE"
         PROVE  ds[p].rsc + 1 = Nbr(ds, "NEW_RESOURCE", p)
    <2>1. CASE p = n + 1
      <3>1. ds[p] = a
        BY <1>1, <2>1 DEF ds, n
      <3> QED
        BY <1>7, <1>10, <2>1, <3>1
    <2>2. CASE p # n + 1
      <3>1. p \in 1 .. n /\ p \in 0 .. n /\ ds[p] = cs[p] /\ DOMAIN cs = 1 .. n
        BY <1>1, <2>2 DEF ds, n
      <3> QED
        BY <1>2, <1>10, <3>1 DEF Fits, NR
    <2> QED
      BY <2>1, <2>2
  <1>11. \A p \in 0 .. n + 1 : p \in 0 .. n \/ p = n + 1
    BY <1>1
  <1>12. DOMAIN ds = 1 .. n + 1
    BY <1>1
  <1>13. ASSUME NEW p \in 0 .. n + 1
         PROVE  /\ Nbr(ds, "NEW_SCENE", p) <= Len(md) /\ Nbr(ds, "NEW_FRAME", p) <= fn2
                /\ Nbr(ds, "NEW_RESOURCE", p) <= rn2
                /\ \A k \in DOMAIN md :
                     /\ k <= Nbr(ds, "NEW_SCENE", p) => md[k].frame <= Nbr(ds, "NEW_FRAME", p)
                     /\ k > Nbr(ds, "NEW_SCENE", p) => md[k].frame >= Nbr(ds, "NEW_FRAME", p)
    <2>1. CASE p \in 0 .. n
      BY <1>8, <2>1
    <2>2. CASE p = n + 1
      <3>1. fn2 <= fn2 /\ rn2 <= rn2
        OBVIOUS
      <3> QED
        BY <1>7, <1>9, <2>2, <3>1
    <2> QED
      BY <1>11, <2>1, <2>2
  <1> QED
    BY <1>1, <1>7, <1>10, <1>12, <1>13 DEF Fits, ds

(* One scene more, of the current frame, whose NEW_SCENE is due.           *)
LEMMA SceneDue ==
  ASSUME NEW cs, NEW md \in Seq(Rendered), NEW fn \in Nat, NEW rn \in Nat, NEW due \in Nat,
         Fits(cs, md, fn, rn, due), NEW m \in Rendered, m.frame = fn
  PROVE  Fits(cs, Append(md, m), fn, rn, due + 1)
  <1> DEFINE md2 == Append(md, m)
  <1>1. /\ Len(md) \in Nat /\ Len(md2) = Len(md) + 1 /\ DOMAIN md = 1 .. Len(md)
        /\ DOMAIN md2 = 1 .. Len(md) + 1
        /\ \A k \in DOMAIN md : md2[k] = md[k]
        /\ md2[Len(md) + 1] = m
    OBVIOUS
  <1>2. cs \in Seq(Commands) /\ Len(cs) \in Nat
    BY DEF Fits
  <1>3. ASSUME NEW c, NEW p \in 0 .. Len(cs) PROVE Nbr(cs, c, p) \in Nat
    <2>1. p \in Nat
      BY <1>2
    <2> QED
      BY <2>1, NbrSteps
  <1> HIDE DEF md2
  <1>4. Nbr(cs, "NEW_SCENE", Len(cs)) + (due + 1) = Len(md2)
    <2>1. Len(cs) \in 0 .. Len(cs)
      BY <1>2
    <2>2. Nbr(cs, "NEW_SCENE", Len(cs)) \in Nat
      BY <1>3, <2>1
    <2>3. Nbr(cs, "NEW_SCENE", Len(cs)) + due = Len(md)
      BY DEF Fits
    <2>4. PICK n \in Nat : n = Nbr(cs, "NEW_SCENE", Len(cs))
      BY <2>2
    <2> QED
      BY <1>1, <2>3, <2>4
  <1>5. ASSUME NEW p \in 0 .. Len(cs)
        PROVE  /\ Nbr(cs, "NEW_SCENE", p) <= Len(md2)
               /\ \A k \in DOMAIN md2 :
                    /\ k <= Nbr(cs, "NEW_SCENE", p) => md2[k].frame <= Nbr(cs, "NEW_FRAME", p)
                    /\ k > Nbr(cs, "NEW_SCENE", p) => md2[k].frame >= Nbr(cs, "NEW_FRAME", p)
    <2>1. /\ Nbr(cs, "NEW_SCENE", p) <= Len(md) /\ Nbr(cs, "NEW_FRAME", p) <= fn
          /\ \A k \in DOMAIN md :
               /\ k <= Nbr(cs, "NEW_SCENE", p) => md[k].frame <= Nbr(cs, "NEW_FRAME", p)
               /\ k > Nbr(cs, "NEW_SCENE", p) => md[k].frame >= Nbr(cs, "NEW_FRAME", p)
      BY DEF Fits
    <2>2. Nbr(cs, "NEW_SCENE", p) \in Nat /\ Nbr(cs, "NEW_FRAME", p) \in Nat
      BY <1>3
    <2>3. ASSUME NEW k \in DOMAIN md2
          PROVE  /\ k <= Nbr(cs, "NEW_SCENE", p) => md2[k].frame <= Nbr(cs, "NEW_FRAME", p)
                 /\ k > Nbr(cs, "NEW_SCENE", p) => md2[k].frame >= Nbr(cs, "NEW_FRAME", p)
      <3>1. CASE k \in DOMAIN md
        BY <1>1, <2>1, <3>1
      <3>2. CASE k = Len(md) + 1
        <4>1. ~ (k <= Nbr(cs, "NEW_SCENE", p)) /\ md2[k].frame = fn
          BY <1>1, <2>1, <2>2, <3>2
        <4> QED
          BY <2>1, <2>2, <4>1
      <3> QED
        BY <1>1, <3>1, <3>2
    <2> QED
      BY <1>1, <2>1, <2>2, <2>3
  <1>6. /\ Nbr(cs, "NEW_FRAME", Len(cs)) = fn /\ Nbr(cs, "NEW_RESOURCE", Len(cs)) = rn
        /\ \A p \in 0 .. Len(cs) : Nbr(cs, "NEW_FRAME", p) <= fn /\ Nbr(cs, "NEW_RESOURCE", p) <= rn
        /\ \A p \in DOMAIN cs :
             cs[p].cmd = "NEW_RESOURCE" => cs[p].rsc + 1 = Nbr(cs, "NEW_RESOURCE", p)
    BY DEF Fits
  <1>7. Fits(cs, md2, fn, rn, due + 1)
    BY <1>2, <1>4, <1>5, <1>6 DEF Fits
  <1> QED
    BY <1>7 DEF md2

(* A scene gets a job: what the stream has to fit is the same.             *)
LEMMA SameScenesFit ==
  ASSUME NEW cs, NEW md \in Seq(Rendered), NEW md2 \in Seq(Rendered), NEW fn, NEW rn, NEW due,
         Fits(cs, md, fn, rn, due), Len(md2) = Len(md),
         \A k \in DOMAIN md : md2[k].frame = md[k].frame
  PROVE  Fits(cs, md2, fn, rn, due)
  <1>1. DOMAIN md2 = DOMAIN md
    OBVIOUS
  <1> QED
    BY <1>1 DEF Fits

-----------------------------------------------------------------------------
(* What the scenes, jobs and resources on disk say, as far as the lookups  *)
(* of the analyzer need it.  A recording has fewer frames than there are   *)
(* frame ids, so an id is that of one frame.                               *)
FewFrames == MaxFrames < Ids

Recorded(j) ==
  \/ \E i \in DOMAIN pb["jobs"] : pb["jobs"][i] = j
  \/ \E t \in App : Pending(t) /\ Head(todo[t]).job = j

ResourcesNumbered ==
  /\ pb["resources"] \in Seq([id : Nat]) /\ Len(pb["resources"]) = rscNbr
  /\ \A k \in 1 .. rscNbr : pb["resources"][k].id = k - 1

JobsSorted ==
  /\ \A i, k \in DOMAIN pb["jobs"] : i <= k => pb["jobs"][i].frame <= pb["jobs"][k].frame
  /\ \A i \in DOMAIN pb["jobs"] : pb["jobs"][i].frame <= frameNbr
  /\ \A t \in App : Pending(t) => Head(todo[t]).job.frame = frameNbr

SceneIdsBelow ==
  /\ \A k \in DOMAIN Scenes : Scenes[k].id < k
  /\ sceneNbr <= Len(Scenes)
  /\ (\A t \in App : ~ At(t, "newScene")) => sceneNbr < Len(Scenes)

Shows(s, m) ==
  /\ s.frame = m.frame
  /\ Len(s.jobs) = Len(m.jobs)
  /\ \A i \in DOMAIN m.jobs :
       s.jobs[i] = m.jobs[i].id /\ m.jobs[i].frame = m.frame /\ Recorded(m.jobs[i])

ScenesShown ==
  /\ made \in Seq(Rendered)
  /\ Len(made) = Len(Scenes)
  /\ \A k \in DOMAIN made : made[k].frame <= frameNbr /\ Shows(Scenes[k], made[k])

(* In an orderly application at most one NEW_SCENE is due.                 *)
Due == IF \E t \in App : At(t, "syncScene") THEN 1 ELSE 0
StreamFits == Fits(cmds, made, frameNbr, rscNbr, Due)

BookInv ==
  /\ frameNbr <= MaxFrames
  /\ ResourcesNumbered /\ JobsSorted /\ SceneIdsBelow /\ ScenesShown /\ StreamFits

LEMMA DueShape ==
  ASSUME OrderInv, NEW t \in App
  PROVE  /\ NextStep(t) \in {"recordJob", "dumpScene", "incScene", "newScene"} => Due = 0
         /\ NextStep(t) = "syncScene" => Due = 1
         /\ (\A u \in App : NextStep(u) \in {"none", "threadStart", "recordJob"}) => Due = 0
         /\ Due \in Nat
  BY DEF OrderInv, EndsAlone, Ending, Due, At

LEMMA SmallMod ==
  ASSUME NEW n \in Nat
  PROVE  n % Ids \in Nat /\ n % Ids <= n /\ (n < Ids => n % Ids = n)
  BY WriterAssumption

LEMMA RecordedStays ==
  ASSUME pb'["jobs"] = pb["jobs"], \A u \in App : Pending(u) => Pending(u)' /\ todo'[u] = todo[u]
  PROVE  \A j : Recorded(j) => Recorded(j)'
  BY DEF Recorded

LEMMA JobsStaySorted ==
  ASSUME JobsSorted, pb'["jobs"] = pb["jobs"], frameNbr' = frameNbr,
         \A u \in App : Pending(u)' => Pending(u) /\ todo'[u] = todo[u]
  PROVE  JobsSorted'
  BY DEF JobsSorted

LEMMA ScenesStayShown ==
  ASSUME ScenesShown, Scenes' = Scenes, made' = made, frameNbr' = frameNbr,
         \A j : Recorded(j) => Recorded(j)'
  PROVE  ScenesShown'
  <1>1. ASSUME NEW k \in DOMAIN made PROVE Shows(Scenes[k], made[k])'
    <2>1. Shows(Scenes[k], made[k])
      BY DEF ScenesShown
    <2> QED
      BY <2>1 DEF Shows
  <1> QED
    BY <1>1 DEF ScenesShown

(* Every step that neither begins a job nor a scene.                       *)
LEMMA BookStays ==
  ASSUME BookInv, pb'["jobs"] = pb["jobs"], frameNbr' = frameNbr, made' = made, Scenes' = Scenes,
         \A u \in App : (Pending(u) <=> Pending(u)') /\ (Pending(u) => todo'[u] = todo[u])
  PROVE  frameNbr' <= MaxFrames /\ JobsSorted' /\ ScenesShown'
  <1>1. \A j : Recorded(j) => Recorded(j)'
    BY RecordedStays
  <1> QED
    BY <1>1, JobsStaySorted, ScenesStayShown DEF BookInv

(* A new job: it is the last of the current scene, and to be recorded.     *)
LEMMA BookJob ==
  ASSUME WriterType, OrderInv, PlaceInv, BookInv, NEW t \in App, MayBegin, Orderly, FewFrames,
         NEW type \in {"MISC_JOB", "DRAW_JOB", "TILE_JOB"}, NEW dev \in {"CPU", "GPU"},
         NEW x \in Nat, NEW y \in Nat, ~ Pending(t), CreateJob(t, type, dev, x, y)
  PROVE  BookInv'
  <1> DEFINE j == NewJob(type, dev, x, y)
  <1>0. PICK n \in Nat : n = Len(pb["scenes"]) + 1
    BY DEF WriterType
  <1>1. /\ j \in JobInfo /\ j.id = jobNbr /\ j.frame = frameNbr % Ids
        /\ frameNbr \in Nat /\ scene \in SceneInfo /\ todo \in [App -> Seq(Steps)]
        /\ pb["scenes"] \in Seq(SceneInfo) /\ n \in Nat /\ pb["jobs"] \in Seq(JobInfo)
    <2>1. j \in JobInfo
      BY JobType DEF WriterType
    <2>2. j.id = jobNbr
      BY NewJobId DEF WriterType
    <2>3. j.frame = frameNbr % Ids
      BY DEF NewJob
    <2> QED
      BY <1>0, <2>1, <2>2, <2>3 DEF WriterType
  <1>2. /\ \A u \in App : NextStep(u) \in {"none", "threadStart", "recordJob"}
        /\ todo' = [todo EXCEPT ![t] = << DoRecord(j) >>]
        /\ UNCHANGED <<sceneNbr, frameNbr, rscNbr, frame, pb, cmds>>
        /\ made' = [made EXCEPT ![Len(made)].jobs = Append(@, j)]
    BY DEF MayBegin, CreateJob
  <1>3. /\ scene' \in SceneInfo /\ scene'.jobs = Append(scene.jobs, jobNbr)
        /\ scene'.frame = scene.frame /\ scene'.id = scene.id
    BY <1>1, SceneWithJob DEF WriterType
  <1> HIDE DEF j
  <1>4. /\ \A u \in App : u # t => NextStep(u)' = NextStep(u) /\ todo'[u] = todo[u]
        /\ NextStep(t)' = "recordJob" /\ Head(todo'[t]).job = j
    BY <1>1, <1>2, TakesJob
  <1>5. Scenes = Append(pb["scenes"], scene) /\ Scenes' = Append(pb["scenes"], scene')
    <2>1. ~ Dumped /\ ~ Dumped'
      BY <1>2, <1>4 DEF Dumped
    <2> QED
      BY <1>2, <2>1 DEF Scenes
  <1>6. /\ Len(Scenes) = n /\ Len(Scenes') = n /\ DOMAIN Scenes = 1 .. n /\ DOMAIN Scenes' = 1 .. n
        /\ Scenes[n] = scene /\ Scenes'[n] = scene' /\ n \in 1 .. n
        /\ \A k \in 1 .. n : k # n => Scenes'[k] = Scenes[k]
    <2>1. \A s \in SceneInfo :
            LET all == Append(pb["scenes"], s) IN
            /\ Len(all) = n /\ DOMAIN all = 1 .. n /\ all[n] = s /\ n \in 1 .. n
            /\ \A k \in 1 .. n : k # n => all[k] = pb["scenes"][k]
      BY <1>0, <1>1
    <2> QED
      BY <1>1, <1>3, <1>5, <2>1
  <1>7. j.frame = frameNbr /\ scene.frame = frameNbr
    <2>1. \A u \in App : ~ At(u, "newScene")
      BY <1>2 DEF At
    <2>2. frameNbr < Ids
      BY <1>1, WriterAssumption DEF FewFrames, BookInv
    <2> QED
      BY <1>1, <2>2, SmallMod DEF PlaceInv, SceneNumbered
  <1>8. made \in Seq(Rendered) /\ Len(made) = n /\ DOMAIN made = 1 .. n /\ made[n] \in Rendered
    BY <1>6 DEF BookInv, ScenesShown
  <1>9. /\ made' \in Seq(Rendered) /\ Len(made') = n /\ DOMAIN made' = 1 .. n
        /\ \A k \in 1 .. n : made'[k].frame = made[k].frame
        /\ \A k \in 1 .. n : k # n => made'[k] = made[k]
        /\ made'[n].jobs = Append(made[n].jobs, j) /\ made[n].jobs \in Seq(JobInfo)
    <2>1. made[n].jobs \in Seq(JobInfo) /\ Append(made[n].jobs, j) \in Seq(JobInfo)
      BY <1>1, <1>8 DEF Rendered
    <2>2. made' = [made EXCEPT ![n] = [made[n] EXCEPT !.jobs = Append(made[n].jobs, j)]]
      BY <1>2, <1>8
    <2>3. PICK m : m = [made[n] EXCEPT !.jobs = Append(made[n].jobs, j)]
      OBVIOUS
    <2>4. m \in Rendered /\ m.frame = made[n].frame /\ m.jobs = Append(made[n].jobs, j)
      BY <1>8, <2>1, <2>3 DEF Rendered
    <2>5. made' = [made EXCEPT ![n] = m]
      BY <2>2, <2>3
    <2>6. made' \in Seq(Rendered) /\ Len(made') = n /\ DOMAIN made' = 1 .. n
      BY <1>6, <1>8, <2>4, <2>5
    <2>7. \A k \in 1 .. n : made'[k] = IF k = n THEN m ELSE made[k]
      BY <1>8, <2>5
    <2> QED
      BY <1>6, <2>1, <2>4, <2>6, <2>7
  <1>10. (\A i : Recorded(i) => Recorded(i)') /\ \A i : i = j => Recorded(i)'
    <2>1. \A u \in App : Pending(u) => Pending(u)' /\ todo'[u] = todo[u]
      BY <1>4 DEF Pending, At
    <2>2. Pending(t)' /\ Head(todo'[t]).job = j
      BY <1>4 DEF Pending, At
    <2> QED
      BY <1>2, <2>1, <2>2, RecordedStays DEF Recorded
  <1>11. JobsSorted'
    <2>1. \A u \in App : Pending(u)' => Head(todo'[u]).job.frame = frameNbr
      BY <1>4, <1>7 DEF Pending, At, BookInv, JobsSorted
    <2> QED
      BY <1>2, <2>1 DEF BookInv, JobsSorted
  <1>12. SceneIdsBelow'
    <2>1. \A k \in 1 .. n : Scenes'[k].id = Scenes[k].id
      BY <1>3, <1>6
    <2>2. (\A u \in App : ~ At(u, "newScene")) /\ sceneNbr' = sceneNbr
      BY <1>2 DEF At
    <2> QED
      BY <1>6, <2>1, <2>2 DEF BookInv, SceneIdsBelow
  <1>13. ScenesShown'
    <2>1. ASSUME NEW k \in 1 .. n PROVE made'[k].frame <= frameNbr' /\ Shows(Scenes[k], made[k])'
      <3>1. made[k].frame <= frameNbr /\ Shows(Scenes[k], made[k])
        BY <1>8 DEF BookInv, ScenesShown
      <3>2. CASE k # n
        <4>1. Scenes'[k] = Scenes[k] /\ made'[k] = made[k]
          BY <1>6, <1>9, <3>2
        <4> QED
          BY <1>2, <1>10, <3>1, <4>1 DEF Shows
      <3>3. CASE k = n
        <4> DEFINE old == made[n].jobs
        <4>0. PICK new : new = made'[n].jobs
          OBVIOUS
        <4>1. /\ scene.frame = made[n].frame /\ Len(scene.jobs) = Len(old)
              /\ \A i \in DOMAIN old : /\ scene.jobs[i] = old[i].id
                                       /\ old[i].frame = made[n].frame /\ Recorded(old[i])
          BY <1>6, <3>1, <3>3 DEF Shows
        <4>2. /\ old \in Seq(JobInfo) /\ new = Append(old, j) /\ scene.jobs \in Seq(Nat)
              /\ jobNbr \in Nat
          BY <1>1, <1>9, <4>0 DEF SceneInfo, WriterType
        <4> HIDE DEF old
        <4>3. /\ Len(scene'.jobs) = Len(new)
              /\ \A i \in DOMAIN new :
                   \/ i \in DOMAIN old /\ new[i] = old[i] /\ scene'.jobs[i] = scene.jobs[i]
                   \/ new[i] = j /\ scene'.jobs[i] = jobNbr
          <5>1. scene'.jobs = Append(scene.jobs, jobNbr) /\ Len(scene.jobs) = Len(old)
            BY <1>3, <4>1
          <5>2. Len(old) \in Nat /\ Len(new) = Len(old) + 1 /\ Len(scene'.jobs) = Len(old) + 1
            BY <1>1, <4>2, <5>1
          <5>3. ASSUME NEW i \in DOMAIN new
                PROVE  \/ i \in DOMAIN old /\ new[i] = old[i] /\ scene'.jobs[i] = scene.jobs[i]
                       \/ new[i] = j /\ scene'.jobs[i] = jobNbr
            BY <1>1, <4>2, <5>1, <5>2
          <5> QED
            BY <5>2, <5>3
        <4>4. ASSUME NEW i \in DOMAIN new
              PROVE  /\ scene'.jobs[i] = new[i].id /\ new[i].frame = made'[n].frame
                     /\ Recorded(new[i])'
          <5>1. made'[n].frame = frameNbr /\ made[n].frame = frameNbr
            BY <1>6, <1>7, <1>9, <4>1
          <5>2. CASE i \in DOMAIN old /\ new[i] = old[i] /\ scene'.jobs[i] = scene.jobs[i]
            BY <1>10, <4>1, <5>1, <5>2
          <5>3. CASE new[i] = j /\ scene'.jobs[i] = jobNbr
            BY <1>1, <1>7, <1>10, <5>1, <5>3
          <5> QED
            BY <4>3, <5>2, <5>3
        <4>5. scene'.frame = made'[n].frame
          BY <1>3, <1>6, <1>9, <4>1
        <4>6. Shows(Scenes[n], made[n])'
          BY <1>6, <4>0, <4>3, <4>4, <4>5 DEF Shows
        <4> QED
          BY <1>2, <1>6, <1>9, <3>1, <3>3, <4>6
      <3> QED
        BY <3>2, <3>3
    <2> QED
      BY <1>6, <1>9, <2>1 DEF ScenesShown
  <1>14. StreamFits'
    <2>0. Due = 0 /\ Due' = 0
      BY <1>2, <1>4 DEF Due, At
    <2>1. Fits(cmds, made, frameNbr, rscNbr, 0)
      BY <2>0 DEF BookInv, StreamFits
    <2>2. Fits(cmds, made', frameNbr, rscNbr, 0)
      BY <1>8, <1>9, <2>1, SameScenesFit
    <2> QED
      BY <1>2, <2>0, <2>2 DEF StreamFits
  <1>15. ResourcesNumbered'
    BY <1>2 DEF BookInv, ResourcesNumbered
  <1> QED
    BY <1>2, <1>11, <1>12, <1>13, <1>14, <1>15 DEF BookInv

(* Its record comes after those of no later frame.                         *)
LEMMA BookRecordJob ==
  ASSUME WriterType, OrderInv, BookInv, NEW t \in App, RecordJob(t)
  PROVE  BookInv'
  <1> DEFINE j == Head(todo[t]).job
  <1>1. /\ NextStep(t) = "recordJob" /\ Pending(t) /\ AfterHead(t)
        /\ pb' = [pb EXCEPT !["jobs"] = Append(@, j)]
        /\ UNCHANGED <<jobNbr, sceneNbr, frameNbr, rscNbr, scene, cmds, made>>
    BY DEF RecordJob, At, Pending, Write, numberVars, currentVars
  <1>2. TodoShape /\ todo \in [App -> Seq(Steps)] /\ DOMAIN pb = Files /\ pb["jobs"] \in Seq(JobInfo)
    BY DEF WriterType, OrderInv
  <1>3. /\ \A u \in App : u # t => NextStep(u)' = NextStep(u) /\ todo'[u] = todo[u]
        /\ NextStep(t)' = "none"
    BY <1>1, <1>2, HeadDone
  <1>4. /\ pb'["scenes"] = pb["scenes"] /\ pb'["resources"] = pb["resources"]
        /\ pb'["jobs"] = Append(pb["jobs"], j)
    BY <1>1, <1>2 DEF Files
  <1> HIDE DEF j
  <1>5. /\ DOMAIN pb'["jobs"] = 1 .. Len(pb["jobs"]) + 1 /\ Len(pb["jobs"]) \in Nat
        /\ \A i \in DOMAIN pb["jobs"] : i \in DOMAIN pb'["jobs"] /\ pb'["jobs"][i] = pb["jobs"][i]
        /\ Len(pb["jobs"]) + 1 \in DOMAIN pb'["jobs"] /\ pb'["jobs"][Len(pb["jobs"]) + 1] = j
        /\ \A i \in DOMAIN pb'["jobs"] : i \in DOMAIN pb["jobs"] \/ i = Len(pb["jobs"]) + 1
    BY <1>2, <1>4
  <1>6. Scenes' = Scenes
    <2>1. ~ Dumped /\ ~ Dumped'
      BY <1>1, <1>3, DumpedShape DEF Dumped
    <2> QED
      BY <1>1, <1>4, <2>1 DEF Scenes
  <1>7. ASSUME NEW i, Recorded(i) PROVE Recorded(i)'
    <2>1. CASE \E k \in DOMAIN pb["jobs"] : pb["jobs"][k] = i
      BY <1>5, <2>1 DEF Recorded
    <2>2. CASE \E u \in App : Pending(u) /\ Head(todo[u]).job = i
      <3>1. PICK u \in App : Pending(u) /\ Head(todo[u]).job = i
        BY <2>2
      <3>2. CASE u = t
        BY <1>5, <3>1, <3>2 DEF Recorded, j
      <3>3. CASE u # t
        BY <1>3, <3>1, <3>3 DEF Recorded, Pending, At
      <3> QED
        BY <3>2, <3>3
    <2> QED
      BY <1>7, <2>1, <2>2 DEF Recorded
  <1>8. JobsSorted'
    <2>1. /\ j.frame = frameNbr /\ frameNbr \in Nat
          /\ \A i \in DOMAIN pb["jobs"] : pb["jobs"][i].frame <= frameNbr /\ i <= Len(pb["jobs"])
          /\ \A u \in App : Pending(u)' => Pending(u) /\ todo'[u] = todo[u]
      BY <1>1, <1>2, <1>3 DEF BookInv, JobsSorted, WriterType, Pending, At, j
    <2>2. \A i \in DOMAIN pb'["jobs"] : pb'["jobs"][i].frame <= frameNbr
      BY <1>5, <2>1
    <2>3. ASSUME NEW i \in DOMAIN pb'["jobs"], NEW k \in DOMAIN pb'["jobs"], i <= k
          PROVE  pb'["jobs"][i].frame <= pb'["jobs"][k].frame
      <3>1. CASE k = Len(pb["jobs"]) + 1
        BY <1>5, <2>1, <2>2, <3>1
      <3>2. CASE k \in DOMAIN pb["jobs"]
        <4>1. i \in DOMAIN pb["jobs"]
          BY <1>5, <2>1, <2>3, <3>2
        <4> QED
          BY <1>5, <2>3, <3>2, <4>1 DEF BookInv, JobsSorted
      <3> QED
        BY <1>5, <3>1, <3>2
    <2> QED
      BY <1>1, <2>1, <2>2, <2>3 DEF BookInv, JobsSorted
  <1>9. ScenesShown'
    BY <1>1, <1>6, <1>7, ScenesStayShown DEF BookInv
  <1>10. SceneIdsBelow'
    BY <1>1, <1>3, <1>6 DEF BookInv, SceneIdsBelow, At
  <1>11. ResourcesNumbered' /\ StreamFits'
    <2>1. Due' = Due
      BY <1>1, <1>3 DEF Due, At
    <2> QED
      BY <1>1, <1>4, <2>1 DEF BookInv, ResourcesNumbered, StreamFits
  <1> QED
    BY <1>1, <1>8, <1>9, <1>10, <1>11 DEF BookInv

LEMMA RecordType ==
  ASSUME NEW c \in {"NEW_FRAME", "NEW_SCENE", "END_SCENE", "NEW_RESOURCE"}, NEW r \in Nat
  PROVE  Record(c, r) \in Commands /\ Record(c, r).cmd = c /\ Record(c, r).rsc = r
  BY DEF Record, Commands

LEMMA NoJobYet ==
  ASSUME NEW n \in Nat
  PROVE  LET m == [frame |-> n, jobs |-> <<>>] IN m \in Rendered /\ m.frame = n /\ m.jobs = <<>>
  <1>1. <<>> \in Seq(JobInfo)
    OBVIOUS
  <1> QED
    BY <1>1 DEF Rendered

(* A scene begins, without jobs, in the current frame or a later one.      *)
LEMMA BookScene ==
  ASSUME WriterType, ScenesShown, SceneIdsBelow, NEW s \in SceneInfo, NEW m \in Rendered,
         Scenes' = Append(Scenes, s), made' = Append(made, m),
         s.jobs = <<>>, m.jobs = <<>>, s.frame = m.frame, s.id <= Len(Scenes),
         m.frame <= frameNbr', frameNbr <= frameNbr', frameNbr' \in Nat,
         \A j : Recorded(j) => Recorded(j)'
  PROVE  ScenesShown' /\ (\A k \in DOMAIN Scenes' : Scenes'[k].id < k)
  <1>0. PICK n \in Nat : n = Len(Scenes)
    BY ScenesType
  <1>1. /\ Len(Scenes') = n + 1 /\ DOMAIN Scenes' = 1 .. n + 1 /\ Scenes'[n + 1] = s
        /\ \A k \in 1 .. n : Scenes'[k] = Scenes[k]
        /\ DOMAIN Scenes = 1 .. n
    BY <1>0, ScenesType
  <1>2. /\ made \in Seq(Rendered) /\ Len(made) = n /\ DOMAIN made = 1 .. n
    BY <1>0 DEF ScenesShown
  <1>3. /\ made' \in Seq(Rendered) /\ Len(made') = n + 1 /\ DOMAIN made' = 1 .. n + 1
        /\ made'[n + 1] = m /\ \A k \in 1 .. n : made'[k] = made[k]
    BY <1>2
  <1>4. \A k \in 1 .. n + 1 : k \in 1 .. n \/ k = n + 1
    OBVIOUS
  <1>5. ASSUME NEW k \in 1 .. n + 1 PROVE made'[k].frame <= frameNbr' /\ Shows(Scenes[k], made[k])'
    <2>1. CASE k \in 1 .. n
      <3>1. made[k].frame <= frameNbr /\ Shows(Scenes[k], made[k])
        BY <1>2, <2>1 DEF ScenesShown
      <3>2. made[k].frame \in Nat /\ frameNbr \in Nat
        <4>1. made[k] \in Rendered
          BY <1>2, <2>1
        <4> QED
          BY <4>1 DEF Rendered, WriterType
      <3>3. Scenes'[k] = Scenes[k] /\ made'[k] = made[k]
        BY <1>1, <1>3, <2>1
      <3>4. Shows(Scenes[k], made[k])'
        BY <3>1, <3>3 DEF Shows
      <3> QED
        BY <3>1, <3>2, <3>3, <3>4
    <2>2. CASE k = n + 1
      <3>1. Scenes'[k] = s /\ made'[k] = m
        BY <1>1, <1>3, <2>2
      <3> QED
        BY <3>1 DEF Shows
    <2> QED
      BY <1>4, <2>1, <2>2
  <1>6. ASSUME NEW k \in DOMAIN Scenes' PROVE Scenes'[k].id < k
    <2>1. CASE k \in 1 .. n
      BY <1>1, <2>1 DEF SceneIdsBelow
    <2>2. CASE k = n + 1
      <3>1. s.id \in Nat /\ s.id <= n
        BY <1>0 DEF SceneInfo, FrameIds
      <3> QED
        BY <1>1, <2>2, <3>1
    <2> QED
      BY <1>1, <1>4, <1>6, <2>1, <2>2
  <1> QED
    BY <1>1, <1>3, <1>5, <1>6 DEF ScenesShown

LEMMA BookResource ==
  ASSUME WriterType, OrderInv, BookInv, NEW t \in App, ResourceCreate(t)
  PROVE  BookInv'
  <1>1. /\ pb' = [pb EXCEPT !["resources"] = Append(@, [id |-> rscNbr])]
        /\ cmds' = Append(cmds, Record("NEW_RESOURCE", rscNbr)) /\ rscNbr' = rscNbr + 1
        /\ UNCHANGED <<todo, sceneNbr, frameNbr, scene, made>>
    BY DEF ResourceCreate, Write, currentVars
  <1>2. /\ DOMAIN pb = Files /\ frameNbr \in Nat /\ rscNbr \in Nat
        /\ pb["resources"] \in Seq([id : Nat]) /\ Len(pb["resources"]) = rscNbr
        /\ made \in Seq(Rendered)
    BY DEF WriterType, BookInv, ResourcesNumbered, ScenesShown
  <1>3. /\ pb'["scenes"] = pb["scenes"] /\ pb'["jobs"] = pb["jobs"]
        /\ pb'["resources"] = Append(pb["resources"], [id |-> rscNbr])
    BY <1>1, <1>2 DEF Files
  <1>4. Scenes' = Scenes
    BY <1>1, <1>3 DEF Scenes, Dumped, NextStep
  <1>5. \A u \in App : (Pending(u) <=> Pending(u)') /\ todo'[u] = todo[u] /\ (At(u, "newScene")' <=> At(u, "newScene"))
    BY <1>1 DEF Pending, At, NextStep
  <1>6. frameNbr' <= MaxFrames /\ JobsSorted' /\ ScenesShown'
    BY <1>1, <1>3, <1>4, <1>5, BookStays
  <1>7. SceneIdsBelow'
    BY <1>1, <1>4, <1>5 DEF BookInv, SceneIdsBelow
  <1>8. ResourcesNumbered'
    <2>1. PICK r \in [id : Nat] : r = [id |-> rscNbr]
      BY <1>2
    <2>2. pb'["resources"] = Append(pb["resources"], r) /\ r.id = rscNbr
      BY <1>3, <2>1
    <2>3. /\ pb'["resources"] \in Seq([id : Nat]) /\ Len(pb'["resources"]) = rscNbr + 1
          /\ pb'["resources"][rscNbr + 1] = r
          /\ \A k \in 1 .. rscNbr : pb'["resources"][k] = pb["resources"][k]
      BY <1>2, <2>2
    <2>4. ASSUME NEW k \in 1 .. rscNbr + 1 PROVE pb'["resources"][k].id = k - 1
      <3>1. CASE k = rscNbr + 1
        BY <1>2, <2>2, <2>3, <3>1
      <3>2. CASE k # rscNbr + 1
        <4>1. k \in 1 .. rscNbr
          BY <1>2, <3>2
        <4> QED
          BY <2>3, <4>1 DEF BookInv, ResourcesNumbered
      <3> QED
        BY <3>1, <3>2
    <2> QED
      BY <1>1, <2>3, <2>4 DEF ResourcesNumbered
  <1>9. StreamFits'
    <2>1. PICK a \in Commands : a = Record("NEW_RESOURCE", rscNbr)
      BY <1>2, RecordType
    <2>2. a.cmd = "NEW_RESOURCE" /\ a.rsc = rscNbr
      BY <2>1 DEF Record
    <2>3. rscNbr + 1 \in Nat
      BY <1>2
    <2>4. Due' = Due /\ Due \in Nat
      BY <1>1 DEF Due, At, NextStep
    <2>5. Fits(Append(cmds, a), made, frameNbr, rscNbr + 1, Due)
      BY <1>2, <2>2, <2>3, <2>4, CommandAdded DEF BookInv, StreamFits
    <2> QED
      BY <1>1, <2>1, <2>4, <2>5 DEF StreamFits
  <1> QED
    BY <1>6, <1>7, <1>8, <1>9 DEF BookInv

(* handle_gpu_scene_end until the next scene is made.                      *)
LEMMA BookSceneEnd ==
  ASSUME WriterType, OrderInv, BookInv, Orderly, NEW t \in App, SceneEnd(t)
  PROVE  BookInv'
  <1> DEFINE rest == << Do("dumpScene"), Do("incScene"), Do("newScene"), Do("syncScene") >>
  <1>1. /\ todo' = [todo EXCEPT ![t] = rest] /\ \A u \in App : NextStep(u) \in {"none", "threadStart"}
        /\ cmds' = Append(cmds, Record("END_SCENE", 0))
        /\ UNCHANGED <<sceneNbr, frameNbr, rscNbr, scene, pb, made>>
    BY DEF SceneEnd, MayEnd, numberVars, currentVars
  <1>2. /\ frameNbr \in Nat /\ rscNbr \in Nat /\ made \in Seq(Rendered)
        /\ todo \in [App -> Seq(Steps)]
    BY DEF WriterType, BookInv, ScenesShown
  <1>3. /\ \A u \in App : u # t => NextStep(u)' = NextStep(u) /\ todo'[u] = todo[u]
        /\ NextStep(t)' = "dumpScene"
    <2>1. rest \in SceneEndings
      BY DEF SceneEndings
    <2> HIDE DEF rest
    <2>2. /\ \A u \in App : u # t => NextStep(u)' = NextStep(u) /\ todo'[u] = todo[u]
          /\ NextStep(t)' = StepOf(rest)
      BY <1>1, <1>2, <2>1, TakesUp
    <2> QED
      BY <2>2, Shapes DEF rest
  <1>4. Scenes' = Scenes
    BY <1>1, <1>3 DEF Scenes, Dumped
  <1>5. \A u \in App : (Pending(u) <=> Pending(u)') /\ (Pending(u) => todo'[u] = todo[u])
                       /\ ~ At(u, "newScene") /\ ~ At(u, "newScene")'
    BY <1>1, <1>3 DEF Pending, At
  <1>6. frameNbr' <= MaxFrames /\ JobsSorted' /\ ScenesShown'
    BY <1>1, <1>4, <1>5, BookStays
  <1>7. SceneIdsBelow'
    BY <1>1, <1>4, <1>5 DEF BookInv, SceneIdsBelow
  <1>8. ResourcesNumbered'
    BY <1>1 DEF BookInv, ResourcesNumbered
  <1>9. StreamFits'
    <2>1. PICK a \in Commands : a = Record("END_SCENE", 0) /\ a.cmd = "END_SCENE"
      BY RecordType
    <2>2. Due = 0 /\ Due' = 0
      BY <1>1, <1>3 DEF Due, At
    <2>3. Fits(Append(cmds, a), made, frameNbr, rscNbr, 0)
      BY <1>2, <2>1, <2>2, CommandAdded DEF BookInv, StreamFits
    <2> QED
      BY <1>1, <2>1, <2>2, <2>3 DEF StreamFits
  <1> QED
    BY <1>6, <1>7, <1>8, <1>9 DEF BookInv

LEMMA BookDumpOrInc ==
  ASSUME WriterType, OrderInv, BookInv, NEW t \in App, DumpScene(t) \/ IncScene(t)
  PROVE  BookInv'
  <1>1. /\ AfterHead(t) /\ NextStep(t) \in {"dumpScene", "incScene"}
        /\ DumpScene(t) => /\ NextStep(t) = "dumpScene" /\ sceneNbr' = sceneNbr
                           /\ pb' = [pb EXCEPT !["scenes"] = Append(@, scene)]
        /\ IncScene(t) => NextStep(t) = "incScene" /\ sceneNbr' = sceneNbr + 1 /\ pb' = pb
        /\ UNCHANGED <<frameNbr, rscNbr, scene, cmds, made>>
    BY DEF DumpScene, IncScene, At, Write, numberVars, currentVars
  <1>2. TodoShape /\ todo \in [App -> Seq(Steps)] /\ DOMAIN pb = Files /\ sceneNbr \in Nat
    BY DEF WriterType, OrderInv
  <1>3. /\ \A u \in App : u # t => NextStep(u)' = NextStep(u) /\ todo'[u] = todo[u]
        /\ NextStep(t)' = IF NextStep(t) = "dumpScene" THEN "incScene" ELSE "newScene"
    BY <1>1, <1>2, HeadDone
  <1>4. /\ pb'["jobs"] = pb["jobs"] /\ pb'["resources"] = pb["resources"]
        /\ DumpScene(t) => pb'["scenes"] = Append(pb["scenes"], scene)
        /\ IncScene(t) => pb'["scenes"] = pb["scenes"]
    BY <1>1, <1>2 DEF Files
  <1>5. Scenes' = Scenes
    <2>1. CASE DumpScene(t)
      <3>1. ~ Dumped /\ Dumped'
        BY <1>1, <1>3, <2>1, DumpedShape DEF Dumped
      <3> QED
        BY <1>1, <1>4, <2>1, <3>1 DEF Scenes
    <2>2. CASE IncScene(t)
      <3>1. Dumped /\ Dumped'
        BY <1>1, <1>3, <2>2 DEF Dumped
      <3> QED
        BY <1>1, <1>4, <2>2, <3>1 DEF Scenes
    <2> QED
      BY <2>1, <2>2
  <1>6. \A u \in App : (Pending(u) <=> Pending(u)') /\ (Pending(u) => todo'[u] = todo[u])
    BY <1>1, <1>3 DEF Pending, At
  <1>7. frameNbr' <= MaxFrames /\ JobsSorted' /\ ScenesShown'
    BY <1>1, <1>4, <1>5, <1>6, BookStays
  <1>8. SceneIdsBelow'
    <2>1. Len(Scenes) \in Nat
      BY ScenesType
    <2>2. \A u \in App : ~ At(u, "newScene")
      BY <1>1, <1>3 DEF OrderInv, EndsAlone, Ending, At
    <2>3. CASE DumpScene(t)
      BY <1>1, <1>5, <2>1, <2>2, <2>3 DEF BookInv, SceneIdsBelow
    <2>4. CASE IncScene(t)
      <3>1. At(t, "newScene")'
        BY <1>1, <1>3, <2>4 DEF At
      <3>2. sceneNbr' <= Len(Scenes')
        BY <1>1, <1>2, <1>5, <2>1, <2>2, <2>4 DEF BookInv, SceneIdsBelow
      <3> QED
        BY <1>5, <3>1, <3>2 DEF BookInv, SceneIdsBelow
    <2> QED
      BY <2>3, <2>4
  <1>9. ResourcesNumbered' /\ StreamFits'
    <2>1. Due = 0 /\ Due' = 0
      <3>1. \A u \in App : ~ At(u, "syncScene") /\ ~ At(u, "syncScene")'
        BY <1>1, <1>3 DEF OrderInv, EndsAlone, Ending, At
      <3> QED
        BY <3>1 DEF Due
    <2> QED
      BY <1>1, <1>4, <2>1 DEF BookInv, ResourcesNumbered, StreamFits
  <1> QED
    BY <1>7, <1>8, <1>9 DEF BookInv

LEMMA BookNextScene ==
  ASSUME WriterType, OrderInv, BookInv, FewFrames, NEW t \in App, NextScene(t)
  PROVE  BookInv'
  <1>1. /\ AfterHead(t) /\ NextStep(t) = "newScene"
        /\ scene' = NewScene(sceneNbr, frameNbr)
        /\ made' = Append(made, [frame |-> frameNbr, jobs |-> <<>>])
        /\ UNCHANGED <<sceneNbr, frameNbr, rscNbr, pb, cmds>>
    BY DEF NextScene, At, numberVars
  <1>2. /\ TodoShape /\ todo \in [App -> Seq(Steps)] /\ sceneNbr \in Nat /\ frameNbr \in Nat
        /\ rscNbr \in Nat /\ made \in Seq(Rendered)
    BY DEF WriterType, OrderInv, BookInv, ScenesShown
  <1>3. /\ \A u \in App : u # t => NextStep(u)' = NextStep(u) /\ todo'[u] = todo[u]
        /\ NextStep(t)' = "syncScene"
    BY <1>1, <1>2, HeadDone
  <1>4. Scenes' = Append(Scenes, scene')
    <2>1. Dumped /\ ~ Dumped'
      BY <1>1, <1>3 DEF Dumped, OrderInv, EndsAlone, Ending
    <2> QED
      BY <1>1, <2>1 DEF Scenes
  <1>5. PICK m \in Rendered : m = [frame |-> frameNbr, jobs |-> <<>>] /\ m.frame = frameNbr /\ m.jobs = <<>>
    BY <1>2, NoJobYet
  <1>6. PICK s \in SceneInfo : /\ s = scene' /\ s.jobs = <<>> /\ s.id = sceneNbr % Ids
                               /\ s.frame = frameNbr % Ids
    <2>1. NewScene(sceneNbr, frameNbr) \in SceneInfo
      BY <1>2, SceneType
    <2> QED
      BY <1>1, <2>1 DEF NewScene
  <1>7. /\ s.frame = frameNbr
        /\ s.id <= sceneNbr /\ s.id \in Nat
    <2>1. frameNbr < Ids
      BY <1>2, WriterAssumption DEF FewFrames, BookInv
    <2> QED
      BY <1>2, <1>6, <2>1, SmallMod
  <1>8. Len(Scenes) \in Nat /\ sceneNbr <= Len(Scenes) /\ s.id <= Len(Scenes)
    <2>1. Len(Scenes) \in Nat /\ sceneNbr <= Len(Scenes)
      BY ScenesType DEF BookInv, SceneIdsBelow
    <2> QED
      BY <1>2, <1>7, <2>1
  <1>9. \A u \in App : (Pending(u) <=> Pending(u)') /\ (Pending(u) => todo'[u] = todo[u])
    BY <1>1, <1>3 DEF Pending, At
  <1>10. ScenesShown' /\ (\A k \in DOMAIN Scenes' : Scenes'[k].id < k)
    <2>1. \A j : Recorded(j) => Recorded(j)'
      BY <1>1, <1>9, RecordedStays
    <2>2. Scenes' = Append(Scenes, s) /\ made' = Append(made, m)
      BY <1>1, <1>4, <1>5, <1>6
    <2>3. frameNbr' = frameNbr /\ frameNbr <= frameNbr
      BY <1>1, <1>2
    <2> QED
      BY <1>2, <1>5, <1>6, <1>7, <1>8, <2>1, <2>2, <2>3, BookScene DEF BookInv
  <1>11. SceneIdsBelow'
    <2>1. Len(Scenes') = Len(Scenes) + 1
      BY <1>4, ScenesType
    <2>2. sceneNbr' < Len(Scenes') /\ sceneNbr' <= Len(Scenes')
      BY <1>1, <1>2, <1>8, <2>1
    <2> QED
      BY <1>10, <2>2 DEF SceneIdsBelow
  <1>12. frameNbr' <= MaxFrames /\ JobsSorted' /\ ResourcesNumbered'
    BY <1>1, <1>9, JobsStaySorted DEF BookInv, ResourcesNumbered
  <1>13. StreamFits'
    <2>1. Due = 0 /\ Due' = 1
      BY <1>1, <1>3, DueShape DEF Due, At
    <2>2. Fits(cmds, Append(made, m), frameNbr, rscNbr, 0 + 1)
      BY <1>2, <1>5, <2>1, SceneDue DEF BookInv, StreamFits
    <2> QED
      BY <1>1, <1>5, <2>1, <2>2 DEF StreamFits
  <1> QED
    BY <1>10, <1>11, <1>12, <1>13 DEF BookInv

LEMMA BookSyncScene ==
  ASSUME WriterType, OrderInv, BookInv, NEW t \in App, SyncScene(t)
  PROVE  BookInv'
  <1>1. /\ AfterHead(t) /\ NextStep(t) = "syncScene"
        /\ cmds' = Append(cmds, Record("NEW_SCENE", 0))
        /\ UNCHANGED <<sceneNbr, frameNbr, rscNbr, scene, pb, made>>
    BY DEF SyncScene, At, numberVars, currentVars
  <1>2. /\ TodoShape /\ todo \in [App -> Seq(Steps)] /\ frameNbr \in Nat
        /\ rscNbr \in Nat /\ made \in Seq(Rendered)
    BY DEF WriterType, OrderInv, BookInv, ScenesShown
  <1>3. /\ \A u \in App : u # t => NextStep(u)' = NextStep(u) /\ todo'[u] = todo[u]
        /\ NextStep(t)' = "none"
    BY <1>1, <1>2, HeadDone
  <1>4. \A u \in App : u # t => NextStep(u) \in {"none", "threadStart"}
    BY <1>1 DEF OrderInv, EndsAlone, Ending
  <1>5. Scenes' = Scenes
    <2>1. ~ Dumped /\ ~ Dumped'
      BY <1>1, <1>3, <1>4 DEF Dumped
    <2> QED
      BY <1>1, <2>1 DEF Scenes
  <1>6. \A u \in App : (Pending(u) <=> Pending(u)') /\ (Pending(u) => todo'[u] = todo[u])
                       /\ ~ At(u, "newScene") /\ ~ At(u, "newScene")'
    BY <1>1, <1>3, <1>4 DEF Pending, At
  <1>7. frameNbr' <= MaxFrames /\ JobsSorted' /\ ScenesShown'
    BY <1>1, <1>5, <1>6, BookStays
  <1>8. SceneIdsBelow' /\ ResourcesNumbered'
    BY <1>1, <1>5, <1>6 DEF BookInv, SceneIdsBelow, ResourcesNumbered
  <1>9. StreamFits'
    <2>1. PICK a \in Commands : a = Record("NEW_SCENE", 0) /\ a.cmd = "NEW_SCENE"
      BY RecordType
    <2>2. Due = 1 /\ Due' = 0
      BY <1>1, <1>3, <1>4 DEF Due, At
    <2>3. \A k \in DOMAIN made : made[k].frame <= frameNbr
      BY DEF BookInv, ScenesShown
    <2>4. 1 = 0 + 1
      OBVIOUS
    <2>5. Fits(Append(cmds, a), made, frameNbr, rscNbr, 0)
      BY <1>2, <2>1, <2>2, <2>3, <2>4, CommandAdded DEF BookInv, StreamFits
    <2> QED
      BY <1>1, <2>1, <2>2, <2>5 DEF StreamFits
  <1> QED
    BY <1>7, <1>8, <1>9 DEF BookInv

LEMMA BookSwap ==
  ASSUME WriterType, OrderInv, BookInv, Orderly, FewFrames, NEW t \in App, SwapBuffers(t)
  PROVE  BookInv'
  <1>1. /\ \A u \in App : NextStep(u) \in {"none", "threadStart"}
        /\ frameNbr < MaxFrames /\ frameNbr' = frameNbr + 1 /\ sceneNbr' = 0
        /\ scene' = NewScene(0, frameNbr + 1)
        /\ cmds' = cmds \o << Record("NEW_FRAME", 0), Record("NEW_SCENE", 0) >>
        /\ made' = Append(made, [frame |-> frameNbr + 1, jobs |-> <<>>])
        /\ pb' = [pb EXCEPT !["frames"] = Append(@, frame), !["scenes"] = Append(@, scene)]
        /\ UNCHANGED <<todo, rscNbr>>
    BY DEF SwapBuffers, MayEnd
  <1>2. /\ frameNbr \in Nat /\ frameNbr + 1 \in Nat /\ rscNbr \in Nat /\ made \in Seq(Rendered)
        /\ DOMAIN pb = Files
    BY DEF WriterType, BookInv, ScenesShown
  <1>3. /\ pb'["scenes"] = Append(pb["scenes"], scene) /\ pb'["jobs"] = pb["jobs"]
        /\ pb'["resources"] = pb["resources"]
    BY <1>1, <1>2 DEF Files
  <1>4. \A u \in App : NextStep(u)' = NextStep(u) /\ ~ Pending(u) /\ ~ Pending(u)'
    BY <1>1 DEF NextStep, Pending, At
  <1>5. Scenes' = Append(Scenes, scene')
    <2>1. ~ Dumped /\ ~ Dumped'
      BY <1>1, <1>4 DEF Dumped
    <2> QED
      BY <1>3, <2>1 DEF Scenes
  <1>6. PICK m \in Rendered : /\ m = [frame |-> frameNbr + 1, jobs |-> <<>>]
                              /\ m.frame = frameNbr + 1 /\ m.jobs = <<>>
    BY <1>2, NoJobYet
  <1>7. PICK s \in SceneInfo : /\ s = scene' /\ s.jobs = <<>> /\ s.id = 0 % Ids
                               /\ s.frame = (frameNbr + 1) % Ids
    <2>1. NewScene(0, frameNbr + 1) \in SceneInfo
      BY <1>2, SceneType
    <2> QED
      BY <1>1, <2>1 DEF NewScene
  <1>8. s.frame = frameNbr + 1 /\ s.id = 0
    <2>1. frameNbr + 1 < Ids
      BY <1>1, <1>2, WriterAssumption DEF FewFrames
    <2> QED
      BY <1>2, <1>7, <2>1, SmallMod, WriterAssumption
  <1>9. Len(Scenes) \in Nat
    BY ScenesType
  <1>10. ScenesShown' /\ (\A k \in DOMAIN Scenes' : Scenes'[k].id < k)
    <2>1. \A j : Recorded(j) => Recorded(j)'
      BY <1>3, <1>4, RecordedStays
    <2>2. Scenes' = Append(Scenes, s) /\ made' = Append(made, m)
      BY <1>1, <1>5, <1>6, <1>7
    <2>3. /\ frameNbr' \in Nat /\ frameNbr <= frameNbr' /\ m.frame <= frameNbr' /\ s.frame = m.frame
          /\ s.id <= Len(Scenes)
      BY <1>1, <1>2, <1>6, <1>8, <1>9
    <2> QED
      BY <1>6, <1>7, <2>1, <2>2, <2>3, BookScene DEF BookInv
  <1>11. SceneIdsBelow'
    <2>1. Len(Scenes') = Len(Scenes) + 1
      BY <1>5, ScenesType
    <2>2. sceneNbr' < Len(Scenes') /\ sceneNbr' <= Len(Scenes')
      BY <1>1, <1>9, <2>1
    <2> QED
      BY <1>10, <2>2 DEF SceneIdsBelow
  <1>12. JobsSorted'
    <2>1. \A i \in DOMAIN pb["jobs"] : pb["jobs"][i].frame <= frameNbr + 1
      <3>1. \A i \in DOMAIN pb["jobs"] : pb["jobs"][i].frame <= frameNbr /\ pb["jobs"][i].frame \in Nat
        <4>1. pb["jobs"] \in Seq(JobInfo)
          BY DEF WriterType
        <4>2. \A i \in DOMAIN pb["jobs"] : pb["jobs"][i] \in JobInfo
          BY <4>1
        <4> QED
          BY <4>2 DEF BookInv, JobsSorted, JobInfo, FrameIds
      <3> QED
        BY <1>2, <3>1
    <2> QED
      BY <1>1, <1>3, <1>4, <2>1 DEF BookInv, JobsSorted
  <1>13. frameNbr' <= MaxFrames /\ ResourcesNumbered'
    <2>1. frameNbr + 1 <= MaxFrames
      BY <1>1, <1>2, WriterAssumption
    <2> QED
      BY <1>1, <1>3, <2>1 DEF BookInv, ResourcesNumbered
  <1>14. StreamFits'
    <2>1. PICK a \in Commands : a = Record("NEW_FRAME", 0) /\ a.cmd = "NEW_FRAME"
      BY RecordType
    <2>2. PICK b \in Commands : b = Record("NEW_SCENE", 0) /\ b.cmd = "NEW_SCENE"
      BY RecordType
    <2>0. Due = 0 /\ Due' = 0
      BY <1>1, <1>4 DEF Due, At
    <2>3. Fits(Append(cmds, a), made, frameNbr + 1, rscNbr, 0)
      BY <1>2, <2>0, <2>1, CommandAdded DEF BookInv, StreamFits
    <2>7. Append(made, m) \in Seq(Rendered)
      BY <1>2
    <2>4. PICK md \in Seq(Rendered) : md = Append(made, m)
      BY <2>7
    <2>5. Fits(Append(Append(cmds, a), b), md, frameNbr + 1, rscNbr, 0)
      <3>1. Fits(Append(cmds, a), md, frameNbr + 1, rscNbr, 1)
        <4>1. 0 + 1 = 1
          OBVIOUS
        <4> QED
          BY <1>2, <1>6, <2>3, <2>4, <4>1, SceneDue
      <3>2. \A k \in DOMAIN md : md[k].frame <= frameNbr + 1
        BY <1>1, <1>6, <1>10, <2>4 DEF ScenesShown
      <3>3. 1 = 0 + 1
        OBVIOUS
      <3> QED
        BY <1>2, <2>2, <3>1, <3>2, <3>3, CommandAdded
    <2>6. cmds' = Append(Append(cmds, a), b)
      <3>1. cmds \in Seq(Commands)
        BY DEF BookInv, StreamFits, Fits
      <3>2. cmds \o << a, b >> = Append(Append(cmds, a), b)
        BY <3>1
      <3> QED
        BY <1>1, <2>1, <2>2, <3>2
    <2> QED
      BY <1>1, <1>6, <2>0, <2>4, <2>5, <2>6 DEF StreamFits
  <1> QED
    BY <1>10, <1>11, <1>12, <1>13, <1>14 DEF BookInv

LEMMA BookStep ==
  ASSUME WriterType, OrderInv, PlaceInv, BookInv, Orderly, FewFrames, NEW t \in App, WriterStep(t)
  PROVE  BookInv'
  <1>1. CASE ThreadStart(t) \/ DrawBegin(t) \/ TileBegin(t) \/ DrawOrTileEnd(t)
    <2>1. MayBegin /\ ~ Pending(t)
      BY <1>1 DEF ThreadStart, DrawBegin, TileBegin, DrawOrTileEnd, Idle, At, Pending
    <2>2. PICK type \in {"MISC_JOB", "DRAW_JOB", "TILE_JOB"}, dev \in {"CPU", "GPU"},
               x \in Nat, y \in Nat : CreateJob(t, type, dev, x, y)
      BY <1>1, WriterAssumption DEF ThreadStart, DrawBegin, TileBegin, DrawOrTileEnd
    <2> QED
      BY <2>1, <2>2, BookJob
  <1> QED
    BY <1>1, BookRecordJob, BookResource, BookSceneEnd, BookDumpOrInc, BookNextScene,
       BookSyncScene, BookSwap DEF WriterStep

-----------------------------------------------------------------------------
(* The lookups.  The record after the one read last is found without a     *)
(* rewind.                                                                 *)
LEMMA SeekNext ==
  ASSUME NEW S, NEW file \in Seq(S), NEW at, NEW id \in Nat, at.pos = id + 1, at.nbr = id
  PROVE  /\ id < Len(file) => Seek(file, at, id) = [pos |-> id + 2, nbr |-> id + 1, last |-> file[id + 1]]
         /\ id >= Len(file) => Seek(file, at, id).last = NoRecord
  <1>1. ~ (at.nbr < id) /\ at.nbr <= id /\ at.pos + (id - at.nbr) = id + 1 /\ id + 1 # 0
    OBVIOUS
  <1>2. RecordAt(file, id + 1) = file[id + 1]
    BY <1>1 DEF RecordAt
  <1>3. Len(file) \in Nat
    OBVIOUS
  <1>4. CASE id < Len(file)
    <2>1. id + 1 <= Len(file) /\ (id + 1) + 1 = id + 2
      BY <1>3, <1>4
    <2>2. Seek(file, at, id) = [pos |-> (id + 1) + 1, nbr |-> id + 1, last |-> RecordAt(file, id + 1)]
      BY <1>1, <2>1 DEF Seek
    <2> QED
      BY <1>2, <1>3, <1>4, <2>1, <2>2
  <1>5. CASE id >= Len(file)
    <2>1. ~ (id + 1 <= Len(file))
      BY <1>3, <1>5
    <2>2. Seek(file, at, id).last = NoRecord
      BY <1>1, <2>1 DEF Seek
    <2> QED
      BY <1>3, <1>5, <2>2
  <1> QED
    BY <1>3, <1>4, <1>5

(* The jobs a table holds for a frame, if records come by frame: those of  *)
(* the frame, whether it reads on or from the start, header and all.       *)
JobsOf(file, f) == {file[q] : q \in {r \in DOMAIN file : file[r].frame = f}}

LEMMA ReadsJobsOf ==
  ASSUME NEW file \in Seq(JobInfo), NEW f \in Nat, NEW at,
         \A i, k \in DOMAIN file : i <= k => file[i].frame <= file[k].frame,
         (at.frame \in Nat /\ at.frame < f) \/ (at = NoJobs /\ f = 0)
  PROVE  ReadJobs(file, at, f).frame = f /\ ReadJobs(file, at, f).jobs = JobsOf(file, f)
  <1> DEFINE from == IF at.frame < f THEN 0 ELSE at.pos
             later == LaterFrom(file, from, f)
             end == Min(later)
  <1>1. from \in Nat /\ from \in {0, 1} /\ (from = 0 => f > 0)
    <2>1. NoJobs.frame = 0 /\ NoJobs.pos = 1
      BY DEF NoJobs
    <2> QED
      BY <2>1
  <1>2. Len(file) \in Nat /\ DOMAIN file = 1 .. Len(file) /\ \A p \in DOMAIN file : file[p].frame \in Nat
    <2>1. \A p \in DOMAIN file : file[p] \in JobInfo
      OBVIOUS
    <2> QED
      BY <2>1 DEF JobInfo, FrameIds
  <1> HIDE DEF from
  <1>3. end \in later /\ \A p \in later : end <= p
    <2>1. later \subseteq Nat /\ Len(file) + 1 \in later
      BY <1>1, <1>2 DEF LaterFrom
    <2> HIDE DEF later
    <2> QED
      BY <2>1, LeastOf
  <1>4. /\ end \in Nat /\ from <= end /\ end <= Len(file) + 1
        /\ end = Len(file) + 1 \/ (end \in 1 .. Len(file) /\ file[end].frame > f)
        /\ end >= 1
    <2>1. end = Len(file) + 1 \/ (end \in from .. Len(file) /\ RecordAt(file, end).frame > f)
      BY <1>3 DEF LaterFrom
    <2>2. end # 0
      <3>1. RecordAt(file, 0).frame = 0
        BY ReaderAssumption DEF RecordAt
      <3> HIDE DEF end
      <3> QED
        BY <1>2, <2>1, <3>1
    <2> HIDE DEF end
    <2>3. end # 0 => RecordAt(file, end) = file[end]
      BY DEF RecordAt
    <2> QED
      BY <1>1, <1>2, <2>1, <2>2, <2>3
  <1> HIDE DEF end, later
  <1> DEFINE read == {RecordAt(file, p) : p \in {q \in from .. end - 1 : RecordAt(file, q).frame = f}}
  <1>5. read = JobsOf(file, f)
    <2>1. ASSUME NEW q \in from .. end - 1, RecordAt(file, q).frame = f
          PROVE  q \in DOMAIN file /\ file[q] = RecordAt(file, q)
      <3>1. q # 0
        <4>1. q = 0 => RecordAt(file, q).frame = 0 /\ from = 0
          BY <1>1, ReaderAssumption DEF RecordAt
        <4> QED
          BY <1>1, <2>1, <4>1
      <3> QED
        BY <1>1, <1>2, <1>4, <3>1 DEF RecordAt
    <2>2. ASSUME NEW r \in DOMAIN file, file[r].frame = f
          PROVE  r \in from .. end - 1 /\ RecordAt(file, r) = file[r]
      <3>1. r \in Nat /\ r >= 1 /\ r <= Len(file)
        BY <1>2
      <3>2. r < end
        <4>1. ASSUME end <= r PROVE FALSE
          <5>1. end \in 1 .. Len(file) /\ file[end].frame > f
            BY <1>2, <1>4, <3>1, <4>1
          <5>2. file[end].frame <= file[r].frame
            BY <1>2, <4>1, <5>1
          <5> QED
            BY <1>2, <2>2, <5>1, <5>2
        <4> QED
          BY <1>4, <3>1, <4>1
      <3> QED
        BY <1>1, <1>4, <3>1, <3>2 DEF RecordAt
    <2>3. \A j : j \in read <=> j \in JobsOf(file, f)
      BY <2>1, <2>2 DEF JobsOf
    <2> QED
      BY <2>3
  <1>6. ReadJobs(file, at, f).frame = f /\ ReadJobs(file, at, f).jobs = read
    BY DEF ReadJobs, from, end, later
  <1> QED
    BY <1>5, <1>6

-----------------------------------------------------------------------------
(* What the files hold that the analyzer will ask for.                     *)
LEMMA FramesFile ==
  ASSUME TypeOK, NumberInv, BookInv, FewFrames
  PROVE  /\ pb["frames"] \in Seq(FrameInfo) /\ Len(pb["frames"]) = frameNbr /\ frameNbr \in Nat
         /\ \A k \in 1 .. frameNbr : pb["frames"][k] \in FrameInfo /\ pb["frames"][k].id = k - 1
  <1>1. /\ pb["frames"] \in Seq(FrameInfo) /\ Len(pb["frames"]) = frameNbr /\ frameNbr \in Nat
        /\ frameNbr < Ids
    BY WriterAssumption DEF TypeOK, NumberInv, FramesNumbered, BookInv, FewFrames
  <1>2. ASSUME NEW k \in 1 .. frameNbr
        PROVE  pb["frames"][k] \in FrameInfo /\ pb["frames"][k].id = k - 1
    <2>1. k \in DOMAIN pb["frames"] /\ k - 1 \in Nat /\ k - 1 < Ids
      BY <1>1, WriterAssumption
    <2>2. pb["frames"][k].id = (k - 1) % Ids
      BY <2>1 DEF NumberInv, FramesNumbered
    <2> QED
      BY <1>1, <2>1, <2>2, SmallMod
  <1> QED
    BY <1>1, <1>2

(* A scene of a frame that has ended is on disk, and so are its jobs.      *)
LEMMA SceneComplete ==
  ASSUME TypeOK, OrderInv, PlaceInv, BookInv, FewFrames,
         NEW k \in DOMAIN made, made[k].frame < frameNbr
  PROVE  /\ k \in 1 .. Len(pb["scenes"]) /\ pb["scenes"][k] \in SceneInfo
         /\ pb["scenes"][k].id < k /\ Shows(pb["scenes"][k], made[k])
         /\ \A i \in DOMAIN made[k].jobs : made[k].jobs[i] \in JobsOf(pb["jobs"], made[k].frame)
  <1>1. /\ pb["scenes"] \in Seq(SceneInfo) /\ Len(pb["scenes"]) \in Nat /\ frameNbr \in Nat
        /\ Len(made) = Len(Scenes) /\ made \in Seq(Rendered)
        /\ DOMAIN made = 1 .. Len(made) /\ DOMAIN Scenes = 1 .. Len(Scenes) /\ made[k].frame \in Nat
    <2>1. WriterType
      BY DEF TypeOK, WriterType
    <2>2. made \in Seq(Rendered) /\ Len(made) = Len(Scenes)
      BY DEF BookInv, ScenesShown
    <2>3. made[k] \in Rendered
      BY <2>2
    <2> QED
      BY <2>1, <2>2, <2>3, ScenesType DEF WriterType, Rendered
  <1>2. Shows(Scenes[k], made[k]) /\ Scenes[k].id < k
    BY <1>1 DEF BookInv, ScenesShown, SceneIdsBelow
  <1>3. k \in 1 .. Len(pb["scenes"]) /\ Scenes[k] = pb["scenes"][k]
    <2>1. CASE Dumped
      BY <1>1, <2>1 DEF Scenes
    <2>2. CASE ~ Dumped
      <3>1. Scenes = Append(pb["scenes"], scene)
        BY <2>2 DEF Scenes
      <3>2. Scenes[Len(pb["scenes"]) + 1] = scene /\ Len(Scenes) = Len(pb["scenes"]) + 1
        BY <1>1, <3>1
      <3>3. scene.frame = frameNbr
        <4>1. frameNbr < Ids
          BY <1>1, WriterAssumption DEF BookInv, FewFrames
        <4> QED
          BY <1>1, <4>1, SmallMod DEF PlaceInv, SceneNumbered
      <3>4. k # Len(pb["scenes"]) + 1
        BY <1>1, <1>2, <3>2, <3>3 DEF Shows
      <3> QED
        BY <1>1, <3>1, <3>2, <3>4
    <2> QED
      BY <2>1, <2>2
  <1>4. ASSUME NEW i \in DOMAIN made[k].jobs
        PROVE  made[k].jobs[i] \in JobsOf(pb["jobs"], made[k].frame)
    <2>1. made[k].jobs[i].frame = made[k].frame /\ Recorded(made[k].jobs[i])
      BY <1>2 DEF Shows
    <2>2. \A t \in App : Pending(t) => Head(todo[t]).job # made[k].jobs[i]
      BY <1>1, <2>1 DEF BookInv, JobsSorted
    <2> QED
      BY <2>1, <2>2 DEF Recorded, JobsOf
  <1> QED
    BY <1>1, <1>2, <1>3, <1>4

-----------------------------------------------------------------------------
(* The reader follows the records.  What was asked for so far is what the  *)
(* stream announced so far, so each file is read on and never rewound; the *)
(* table of jobs is of a frame begun.                                      *)
ScenesTo(p) == Nbr(cmds, "NEW_SCENE", p)
FramesTo(p) == Nbr(cmds, "NEW_FRAME", p)
ResourcesTo(p) == Nbr(cmds, "NEW_RESOURCE", p)

StreamFollowed ==
  /\ found.pb = pb
  /\ Len(found.cmds) \in Nat /\ Len(found.cmds) <= Len(cmds)
  /\ \A i \in 1 .. Len(found.cmds) : found.cmds[i] = cmds[i]
  /\ rpos <= Len(found.cmds)
  /\ nextFrame = FramesTo(rpos) /\ nextScene = ScenesTo(rpos)

FrameKept ==
  /\ mode = "read" =>
       /\ nextFrame < Len(pb["frames"])
       /\ frameAt = [pos |-> nextFrame + 2, nbr |-> nextFrame + 1,
                     last |-> pb["frames"][nextFrame + 1]]
  /\ mode = "done" => nextFrame >= Len(pb["frames"])

SceneKept ==
  /\ nextScene <= Len(pb["scenes"])
  /\ sceneAt = [pos |-> nextScene + 1, nbr |-> nextScene,
                last |-> IF nextScene = 0 THEN NoRecord ELSE pb["scenes"][nextScene]]

ResourceKept == rscAt.pos = ResourcesTo(rpos) + 1 /\ rscAt.nbr = ResourcesTo(rpos)

TableKept ==
  \/ jobAt = NoJobs
  \/ /\ jobAt.jobs # {} /\ jobAt.frame \in Nat /\ jobAt.frame <= nextFrame
     /\ jobAt.jobs = JobsOf(pb["jobs"], jobAt.frame)

LoadedRendered ==
  /\ loaded \in Seq(Rendered) /\ Len(loaded) = nextScene
  /\ \A k \in 1 .. nextScene : loaded[k] = made[k]

Follows ==
  StreamFollowed /\ FrameKept /\ SceneKept /\ ResourceKept /\ TableKept /\ LoadedRendered

NothingRead ==
  /\ rpos = 0 /\ nextFrame = 0 /\ nextScene = 0 /\ loaded = <<>>
  /\ frameAt = AtStart /\ sceneAt = AtStart /\ rscAt = AtStart /\ jobAt = NoJobs

ReadInv ==
  /\ mode # "abort"
  /\ mode = "write" => NothingRead
  /\ mode # "write" => Follows

(* A frame that is asked for next is found, or its record was not written. *)
LEMMA HandlesFrame ==
  ASSUME TypeOK, NumberInv, BookInv, FewFrames, pb' = pb, nextFrame' \in Nat,
         frameAt.pos = nextFrame' + 1, frameAt.nbr = nextFrame',
         ~ Keeps(frameAt, nextFrame'), HandleNewFrame(pb)
  PROVE  mode' \in {"read", "done"} /\ FrameKept'
  <1> DEFINE id == nextFrame'
             file == pb["frames"]
  <1>1. /\ file \in Seq(FrameInfo) /\ Len(file) \in Nat
        /\ \A k \in 1 .. Len(file) : file[k] \in FrameInfo /\ file[k].id = k - 1
    BY FramesFile
  <1>2. /\ frameAt' = Seek(file, frameAt, id)
        /\ mode' = CASE frameAt'.last = NoRecord -> "done"
                     [] frameAt'.last # NoRecord /\ frameAt'.last.id = id -> "read"
                     [] OTHER -> "abort"
    BY DEF HandleNewFrame, SeekKept
  <1>3. /\ id < Len(file) => frameAt' = [pos |-> id + 2, nbr |-> id + 1, last |-> file[id + 1]]
        /\ id >= Len(file) => frameAt'.last = NoRecord
    <2> HIDE DEF file, id
    <2>1. id \in Nat /\ frameAt.pos = id + 1 /\ frameAt.nbr = id
      BY DEF id
    <2> QED
      BY <1>1, <1>2, <2>1, SeekNext
  <1>4. CASE id < Len(file)
    <2>1. file[id + 1] \in FrameInfo /\ file[id + 1].id = id
      <3>1. id \in Nat /\ id + 1 \in 1 .. Len(file) /\ (id + 1) - 1 = id
        <4>1. id \in Nat
          OBVIOUS
        <4> HIDE DEF id, file
        <4> QED
          BY <1>1, <1>4, <4>1
      <3> QED
        BY <1>1, <3>1
    <2>2. frameAt'.last = file[id + 1] /\ frameAt'.last # NoRecord
      BY <1>3, <1>4, <2>1, ReaderAssumption
    <2>3. mode' = "read"
      BY <1>2, <2>1, <2>2
    <2> QED
      BY <1>3, <1>4, <2>3 DEF FrameKept
  <1>5. CASE id >= Len(file)
    <2>1. mode' = "done"
      BY <1>2, <1>3, <1>5
    <2> QED
      BY <1>5, <2>1 DEF FrameKept
  <1> QED
    BY <1>1, <1>4, <1>5

LEMMA EndFollows ==
  ASSUME TypeOK, NumberInv, BookInv, FewFrames, NothingRead, EndApplication
  PROVE  ReadInv'
  <1>1. cmds \in Seq(Commands) /\ Len(cmds) \in Nat
    BY DEF BookInv, StreamFits, Fits
  <1>2. PICK n \in 0 .. Len(cmds) : found' = [pb |-> pb, cmds |-> SubSeq(cmds, 1, n)]
    BY DEF EndApplication
  <1>3. /\ found'.pb = pb /\ Len(found'.cmds) = n /\ n \in Nat /\ n <= Len(cmds)
        /\ \A i \in 1 .. n : found'.cmds[i] = cmds[i]
    <2>1. /\ Len(SubSeq(cmds, 1, n)) = n /\ n \in Nat /\ n <= Len(cmds)
          /\ \A i \in 1 .. n : SubSeq(cmds, 1, n)[i] = cmds[i]
      BY <1>1
    <2> QED
      BY <1>2, <2>1
  <1>4. /\ pb' = pb /\ cmds' = cmds /\ made' = made
        /\ rpos' = 0 /\ nextFrame' = 0 /\ nextScene' = 0 /\ loaded' = <<>>
        /\ sceneAt' = AtStart /\ rscAt' = AtStart /\ jobAt' = NoJobs /\ frameAt = AtStart
        /\ HandleNewFrame(pb)
    BY <1>3 DEF EndApplication, NothingRead, writerVars
  <1>5. \A c : Nbr(cmds, c, 0) = 0
    BY NbrSteps
  <1>6. mode' \in {"read", "done"} /\ FrameKept'
    <2>1. AtStart.pos = 1 /\ AtStart.nbr = 0 /\ AtStart.last = NoRecord
      BY DEF AtStart
    <2>2. ~ Keeps(frameAt, nextFrame')
      BY <1>4, <2>1 DEF Keeps
    <2>3. frameAt.pos = nextFrame' + 1 /\ frameAt.nbr = nextFrame' /\ nextFrame' \in Nat
      BY <1>4, <2>1
    <2> QED
      BY <1>4, <2>2, <2>3, HandlesFrame
  <1>7. StreamFollowed'
    BY <1>3, <1>4, <1>5 DEF StreamFollowed, FramesTo, ScenesTo
  <1>8. SceneKept' /\ ResourceKept' /\ TableKept' /\ LoadedRendered'
    <2>1. Len(pb["scenes"]) \in Nat
      BY DEF TypeOK
    <2>2. SceneKept'
      BY <1>4, <2>1 DEF SceneKept, AtStart
    <2>3. ResourceKept'
      BY <1>4, <1>5 DEF ResourceKept, ResourcesTo, AtStart
    <2>4. TableKept'
      BY <1>4 DEF TableKept
    <2>5. LoadedRendered'
      <3>1. <<>> \in Seq(Rendered) /\ Len(<<>>) = 0
        OBVIOUS
      <3> QED
        BY <1>4, <3>1 DEF LoadedRendered
    <2> QED
      BY <2>2, <2>3, <2>4, <2>5
  <1> QED
    BY <1>6, <1>7, <1>8 DEF ReadInv, Follows

-----------------------------------------------------------------------------
(* A command is read: which it is, and the counts it changes.              *)
LEMMA ReadsNext ==
  ASSUME TypeOK, BookInv, ReadInv, NEW cmd, Reading(cmd)
  PROVE  /\ mode = "read" /\ Follows
         /\ pb' = pb /\ cmds' = cmds /\ made' = made /\ found' = found /\ rpos' = rpos + 1
         /\ rpos \in Nat /\ rpos + 1 \in DOMAIN cmds /\ rpos \in 0 .. Len(cmds)
         /\ rpos + 1 \in 0 .. Len(cmds) /\ rpos + 1 <= Len(found.cmds)
         /\ found.cmds[rpos + 1] = cmds[rpos + 1] /\ cmds[rpos + 1].cmd = cmd
         /\ \A c : /\ Nbr(cmds, c, rpos) \in Nat
                   /\ Nbr(cmds, c, rpos + 1) = Nbr(cmds, c, rpos) + (IF c = cmd THEN 1 ELSE 0)
  <1>1. /\ mode = "read" /\ rpos < Len(found.cmds) /\ found.cmds[rpos + 1].cmd = cmd
        /\ rpos' = rpos + 1 /\ found' = found /\ pb' = pb /\ cmds' = cmds /\ made' = made
    BY DEF Reading, writerVars
  <1>2. Follows
    BY <1>1 DEF ReadInv
  <1>3. /\ Len(found.cmds) \in Nat /\ Len(found.cmds) <= Len(cmds) /\ rpos \in Nat
        /\ \A i \in 1 .. Len(found.cmds) : found.cmds[i] = cmds[i]
    BY <1>2 DEF Follows, StreamFollowed, TypeOK
  <1>4. cmds \in Seq(Commands) /\ Len(cmds) \in Nat /\ DOMAIN cmds = 1 .. Len(cmds)
    BY DEF BookInv, StreamFits, Fits
  <1>5. rpos + 1 \in 1 .. Len(found.cmds)
    BY <1>1, <1>3
  <1>6. found.cmds[rpos + 1] = cmds[rpos + 1] /\ cmds[rpos + 1].cmd = cmd
    BY <1>1, <1>3, <1>5
  <1>7. ASSUME NEW c
        PROVE  /\ Nbr(cmds, c, rpos) \in Nat
               /\ Nbr(cmds, c, rpos + 1) = Nbr(cmds, c, rpos) + (IF c = cmd THEN 1 ELSE 0)
    <2>1. /\ Nbr(cmds, c, rpos) \in Nat
          /\ cmds[rpos + 1].cmd = c => Nbr(cmds, c, rpos + 1) = Nbr(cmds, c, rpos) + 1
          /\ cmds[rpos + 1].cmd # c => Nbr(cmds, c, rpos + 1) = Nbr(cmds, c, rpos)
      BY <1>3, NbrSteps
    <2> QED
      BY <1>6, <2>1
  <1> QED
    BY <1>1, <1>2, <1>3, <1>4, <1>5, <1>6, <1>7

(* What every command that is read leaves as it was.                       *)
LEMMA StreamStaysFollowed ==
  ASSUME TypeOK, BookInv, ReadInv, NEW cmd, Reading(cmd),
         nextFrame' = nextFrame + (IF cmd = "NEW_FRAME" THEN 1 ELSE 0),
         nextScene' = nextScene + (IF cmd = "NEW_SCENE" THEN 1 ELSE 0)
  PROVE  StreamFollowed'
  <1>1. /\ FramesTo(rpos)' = FramesTo(rpos) + (IF cmd = "NEW_FRAME" THEN 1 ELSE 0)
        /\ ScenesTo(rpos)' = ScenesTo(rpos) + (IF cmd = "NEW_SCENE" THEN 1 ELSE 0)
    BY ReadsNext DEF FramesTo, ScenesTo
  <1>2. StreamFollowed
    BY ReadsNext DEF Follows
  <1> QED
    BY <1>1, <1>2, ReadsNext DEF StreamFollowed

LEMMA ResourceStaysKept ==
  ASSUME TypeOK, BookInv, ReadInv, NEW cmd, Reading(cmd), cmd # "NEW_RESOURCE", rscAt' = rscAt
  PROVE  ResourceKept'
  <1>1. ResourcesTo(rpos)' = ResourcesTo(rpos)
    BY ReadsNext DEF ResourcesTo
  <1> QED
    BY <1>1, ReadsNext DEF Follows, ResourceKept

LEMMA FrameFollows ==
  ASSUME TypeOK, NumberInv, BookInv, FewFrames, ReadInv, ReadFrame
  PROVE  ReadInv'
  <1>1. /\ Reading("NEW_FRAME") /\ nextFrame' = nextFrame + 1 /\ HandleNewFrame(found.pb)
        /\ UNCHANGED <<sceneAt, jobAt, rscAt, nextScene, loaded>>
    BY DEF ReadFrame
  <1>2. /\ Follows /\ mode = "read" /\ pb' = pb /\ made' = made /\ found.pb = pb
        /\ nextFrame \in Nat /\ nextScene \in Nat
    BY <1>1, ReadsNext DEF Follows, StreamFollowed, TypeOK
  <1>3. /\ nextFrame < Len(pb["frames"])
        /\ frameAt = [pos |-> nextFrame + 2, nbr |-> nextFrame + 1,
                      last |-> pb["frames"][nextFrame + 1]]
    BY <1>2 DEF Follows, FrameKept
  <1>4. pb["frames"][nextFrame + 1].id = nextFrame
    <2>1. nextFrame + 1 \in 1 .. frameNbr /\ (nextFrame + 1) - 1 = nextFrame
      BY <1>2, <1>3, FramesFile
    <2> QED
      BY <2>1, FramesFile
  <1>5. mode' \in {"read", "done"} /\ FrameKept'
    <2>1. ~ Keeps(frameAt, nextFrame')
      <3>1. frameAt.last.id = nextFrame /\ nextFrame # nextFrame + 1
        BY <1>2, <1>3, <1>4
      <3> QED
        BY <1>1, <3>1 DEF Keeps
    <2>2. frameAt.pos = nextFrame' + 1 /\ frameAt.nbr = nextFrame' /\ nextFrame' \in Nat
      BY <1>1, <1>2, <1>3
    <2> QED
      BY <1>1, <1>2, <2>1, <2>2, HandlesFrame
  <1>6. StreamFollowed'
    BY <1>1, <1>2, StreamStaysFollowed
  <1>7. SceneKept' /\ TableKept' /\ LoadedRendered'
    BY <1>1, <1>2 DEF Follows, SceneKept, TableKept, LoadedRendered
  <1> QED
    BY <1>1, <1>5, <1>6, <1>7, ResourceStaysKept DEF ReadInv, Follows

LEMMA ResourceFollows ==
  ASSUME TypeOK, BookInv, ReadInv, ReadResource
  PROVE  ReadInv'
  <1> DEFINE id == found.cmds[rpos + 1].rsc
             at == Seek(found.pb["resources"], rscAt, id)
  <1>1. /\ Reading("NEW_RESOURCE") /\ rscAt' = at
        /\ mode' = IF at.last # NoRecord /\ at.last.id = id THEN "read" ELSE "abort"
        /\ UNCHANGED <<frameAt, sceneAt, jobAt, nextFrame, nextScene, loaded>>
    BY DEF ReadResource
  <1>2. /\ Follows /\ mode = "read" /\ pb' = pb /\ made' = made /\ found.pb = pb /\ cmds' = cmds
        /\ nextFrame \in Nat /\ nextScene \in Nat /\ rpos' = rpos + 1
        /\ found.cmds[rpos + 1] = cmds[rpos + 1] /\ rpos + 1 \in DOMAIN cmds
        /\ cmds[rpos + 1].cmd = "NEW_RESOURCE"
        /\ rpos + 1 \in 0 .. Len(cmds)
        /\ ResourcesTo(rpos) \in Nat /\ ResourcesTo(rpos + 1) = ResourcesTo(rpos) + 1
    BY <1>1, ReadsNext DEF Follows, StreamFollowed, TypeOK, ResourcesTo
  <1>3. /\ id \in Nat /\ id + 1 = ResourcesTo(rpos + 1) /\ ResourcesTo(rpos + 1) <= rscNbr
    <2>1. cmds[rpos + 1] \in Commands
      BY <1>2 DEF BookInv, StreamFits, Fits
    <2>2. /\ cmds[rpos + 1].rsc + 1 = ResourcesTo(rpos + 1)
          /\ ResourcesTo(rpos + 1) <= rscNbr
      BY <1>2 DEF BookInv, StreamFits, Fits, ResourcesTo
    <2> QED
      BY <1>2, <2>1, <2>2 DEF Commands
  <1>4. id = ResourcesTo(rpos) /\ rscAt.pos = id + 1 /\ rscAt.nbr = id
    BY <1>2, <1>3 DEF Follows, ResourceKept
  <1>5. /\ pb["resources"] \in Seq([id : Nat]) /\ id < Len(pb["resources"])
        /\ pb["resources"][id + 1] \in [id : Nat] /\ pb["resources"][id + 1].id = id
    <2>1. /\ pb["resources"] \in Seq([id : Nat]) /\ Len(pb["resources"]) = rscNbr
          /\ \A k \in 1 .. rscNbr : pb["resources"][k].id = k - 1
          /\ rscNbr \in Nat
      BY DEF BookInv, ResourcesNumbered, TypeOK
    <2> HIDE DEF id
    <2>2. id < rscNbr /\ id + 1 \in 1 .. rscNbr /\ (id + 1) - 1 = id
      BY <1>3, <2>1
    <2>3. ASSUME NEW S, NEW s \in Seq(S), NEW k \in 1 .. Len(s) PROVE s[k] \in S
      BY <2>3
    <2>4. id + 1 \in 1 .. Len(pb["resources"])
      BY <2>1, <2>2
    <2>5. pb["resources"][id + 1] \in [id : Nat]
      BY <2>1, <2>3, <2>4
    <2> QED
      BY <2>1, <2>2, <2>5
  <1>6. at = [pos |-> id + 2, nbr |-> id + 1, last |-> pb["resources"][id + 1]]
    BY <1>2, <1>3, <1>4, <1>5, SeekNext
  <1> HIDE DEF at, id
  <1>7. at.last = pb["resources"][id + 1] /\ at.pos = id + 2 /\ at.nbr = id + 1
    BY <1>6
  <1>8. mode' = "read"
    BY <1>1, <1>5, <1>7, ReaderAssumption
  <1>9. ResourceKept'
    <2>1. ResourcesTo(rpos)' = id + 1
      BY <1>2, <1>3 DEF ResourcesTo
    <2> QED
      BY <1>1, <1>3, <1>7, <2>1 DEF ResourceKept
  <1>10. StreamFollowed'
    BY <1>1, <1>2, StreamStaysFollowed
  <1>11. FrameKept' /\ SceneKept' /\ TableKept' /\ LoadedRendered'
    BY <1>1, <1>2, <1>8 DEF Follows, FrameKept, SceneKept, TableKept, LoadedRendered
  <1> QED
    BY <1>8, <1>9, <1>10, <1>11 DEF ReadInv, Follows

(* The jobs of a frame are told apart by their ids.                        *)
LEMMA OneJobPerId ==
  ASSUME NumberInv, NEW f, NEW j \in JobsOf(pb["jobs"], f)
  PROVE  (CHOOSE k \in JobsOf(pb["jobs"], f) : k.id = j.id) = j
  <1>1. ASSUME NEW k \in JobsOf(pb["jobs"], f), k.id = j.id PROVE k = j
    <2>1. PICK p \in DOMAIN pb["jobs"] : j = pb["jobs"][p]
      BY DEF JobsOf
    <2>2. PICK q \in DOMAIN pb["jobs"] : k = pb["jobs"][q]
      BY DEF JobsOf
    <2>3. p = q
      BY <1>1, <2>1, <2>2 DEF NumberInv, JobsNumbered, RecordedDistinct
    <2> QED
      BY <2>1, <2>2, <2>3
  <1> QED
    BY <1>1

(* The scene that is asked for next: one of a frame that has ended.        *)
LEMMA NextSceneIsComplete ==
  ASSUME TypeOK, OrderInv, PlaceInv, NumberInv, BookInv, FewFrames, ReadInv, Reading("NEW_SCENE")
  PROVE  /\ nextScene \in Nat /\ nextScene + 1 \in DOMAIN made
         /\ made[nextScene + 1].frame = nextFrame /\ nextFrame < frameNbr
  <1> DEFINE s == nextScene + 1
  <1>1. /\ Follows /\ mode = "read" /\ rpos \in 0 .. Len(cmds) /\ rpos + 1 \in 0 .. Len(cmds)
        /\ Nbr(cmds, "NEW_SCENE", rpos + 1) = Nbr(cmds, "NEW_SCENE", rpos) + 1
        /\ Nbr(cmds, "NEW_FRAME", rpos + 1) = Nbr(cmds, "NEW_FRAME", rpos)
    BY ReadsNext
  <1>2. /\ nextScene = Nbr(cmds, "NEW_SCENE", rpos) /\ nextFrame = Nbr(cmds, "NEW_FRAME", rpos)
        /\ nextScene \in Nat /\ nextFrame \in Nat
    BY <1>1 DEF Follows, StreamFollowed, ScenesTo, FramesTo, TypeOK
  <1>3. /\ Nbr(cmds, "NEW_SCENE", rpos + 1) <= Len(made) /\ Len(made) \in Nat
        /\ DOMAIN made = 1 .. Len(made) /\ \A k \in DOMAIN made : made[k] \in Rendered
    <2>1. Nbr(cmds, "NEW_SCENE", rpos + 1) <= Len(made)
      BY <1>1 DEF BookInv, StreamFits, Fits
    <2>2. made \in Seq(Rendered)
      BY DEF BookInv, ScenesShown
    <2> QED
      BY <2>1, <2>2
  <1>4. s \in DOMAIN made
    BY <1>1, <1>2, <1>3
  <1>5. made[s].frame <= nextFrame /\ made[s].frame >= nextFrame
    <2>1. s <= Nbr(cmds, "NEW_SCENE", rpos + 1) /\ s > Nbr(cmds, "NEW_SCENE", rpos)
      BY <1>1, <1>2
    <2> HIDE DEF s
    <2> QED
      BY <1>1, <1>2, <1>4, <2>1 DEF BookInv, StreamFits, Fits
  <1>6. made[s].frame \in Nat
    BY <1>3, <1>4 DEF Rendered
  <1>7. nextFrame < frameNbr
    <2>1. nextFrame < Len(pb["frames"])
      BY <1>1 DEF Follows, FrameKept
    <2> QED
      BY <2>1, FramesFile
  <1> QED
    BY <1>2, <1>4, <1>5, <1>6, <1>7

LEMMA SceneFollows ==
  ASSUME TypeOK, OrderInv, PlaceInv, NumberInv, BookInv, FewFrames, ReadInv, ReadScene
  PROVE  ReadInv'
  <1> DEFINE s == nextScene + 1
             file == pb["scenes"]
             jobs == pb["jobs"]
             m == made[s]
             rec == file[s]
             f == nextFrame
             at == SeekKept(found.pb["scenes"], sceneAt, nextScene)
             table == IF at.last # NoRecord /\ at.last.jobs # <<>>
                      THEN JobTable(found.pb["jobs"], jobAt, at.last.frame) ELSE jobAt
             Job(id) == CHOOSE j \in table.jobs : j.id = id
  <1>1. /\ Reading("NEW_SCENE") /\ sceneAt' = at /\ jobAt' = table /\ nextScene' = nextScene + 1
        /\ IF at.last # NoRecord /\ \A i \in DOMAIN at.last.jobs : HasJob(table, at.last.jobs[i])
           THEN /\ loaded' = Append(loaded,
                     [frame |-> at.last.frame,
                      jobs |-> [i \in DOMAIN at.last.jobs |-> Job(at.last.jobs[i])]])
                /\ UNCHANGED mode
           ELSE mode' = "abort" /\ UNCHANGED loaded
        /\ UNCHANGED <<frameAt, rscAt, nextFrame>>
    BY DEF ReadScene
  <1>2. /\ Follows /\ mode = "read" /\ pb' = pb /\ made' = made /\ found.pb = pb
        /\ f \in Nat /\ nextScene \in Nat
    BY <1>1, ReadsNext DEF Follows, StreamFollowed, TypeOK
  <1>3. s \in DOMAIN made /\ m.frame = f /\ f < frameNbr /\ m \in Rendered
    <2>1. made \in Seq(Rendered)
      BY DEF BookInv, ScenesShown
    <2>2. s \in DOMAIN made /\ m.frame = f /\ f < frameNbr
      BY <1>1, NextSceneIsComplete
    <2> QED
      BY <2>1, <2>2
  <1>4. /\ s \in 1 .. Len(file) /\ rec \in SceneInfo /\ Shows(rec, m)
        /\ \A i \in DOMAIN m.jobs : m.jobs[i] \in JobsOf(jobs, f)
    BY <1>3, SceneComplete
  <1>5. /\ file \in Seq(SceneInfo) /\ Len(file) \in Nat /\ jobs \in Seq(JobInfo)
    BY DEF TypeOK
  <1>6. at = [pos |-> nextScene + 2, nbr |-> nextScene + 1, last |-> rec]
    <2>1. sceneAt = [pos |-> nextScene + 1, nbr |-> nextScene,
                     last |-> IF nextScene = 0 THEN NoRecord ELSE file[nextScene]]
      BY <1>2 DEF Follows, SceneKept
    <2>2. ~ Keeps(sceneAt, nextScene)
      <3>1. CASE nextScene = 0
        BY <2>1, <3>1 DEF Keeps
      <3>2. CASE nextScene # 0
        <4>1. nextScene \in 1 .. Len(file)
          BY <1>2, <1>4, <1>5, <3>2
        <4>2. nextScene \in DOMAIN Scenes /\ Scenes[nextScene] = file[nextScene]
          <5>1. Scenes = file \/ Scenes = Append(file, scene)
            BY DEF Scenes
          <5> QED
            BY <1>5, <4>1, <5>1
        <4>3. file[nextScene].id < nextScene
          BY <4>2 DEF BookInv, SceneIdsBelow
        <4>4. file[nextScene].id \in Nat
          <5>1. file[nextScene] \in SceneInfo
            BY <1>5, <4>1
          <5> QED
            BY <5>1 DEF SceneInfo, FrameIds
        <4> QED
          BY <1>2, <2>1, <3>2, <4>3, <4>4 DEF Keeps
      <3> QED
        BY <3>1, <3>2
    <2>3. at = Seek(file, sceneAt, nextScene)
      BY <1>2, <2>2 DEF SeekKept
    <2>4. nextScene < Len(file) /\ sceneAt.pos = nextScene + 1 /\ sceneAt.nbr = nextScene
      BY <1>2, <1>4, <1>5, <2>1
    <2> HIDE DEF file, at
    <2>5. Seek(file, sceneAt, nextScene)
            = [pos |-> nextScene + 2, nbr |-> nextScene + 1, last |-> file[nextScene + 1]]
      BY <1>2, <1>5, <2>4, SeekNext
    <2> QED
      BY <2>3, <2>5 DEF rec
  <1>7. at.last = rec /\ at.last # NoRecord /\ at.last.frame = f
    BY <1>3, <1>4, <1>6, ReaderAssumption DEF Shows
  <1> HIDE DEF at
  <1>8. rec.jobs # <<>> => table.frame = f /\ table.jobs = JobsOf(jobs, f)
    <2> SUFFICES ASSUME rec.jobs # <<>> PROVE table.frame = f /\ table.jobs = JobsOf(jobs, f)
      OBVIOUS
    <2>1. table = JobTable(jobs, jobAt, f)
      BY <1>2, <1>7
    <2>2. \/ jobAt = NoJobs
          \/ /\ jobAt.jobs # {} /\ jobAt.frame \in Nat /\ jobAt.frame <= f
             /\ jobAt.jobs = JobsOf(jobs, jobAt.frame)
      BY <1>2 DEF Follows, TableKept
    <2> HIDE DEF table
    <2>3. CASE jobAt.jobs # {} /\ jobAt.frame = f
      <3>1. table = jobAt
        BY <2>1, <2>3 DEF JobTable
      <3> QED
        BY <2>2, <2>3, <3>1 DEF NoJobs
    <2>4. CASE ~ (jobAt.jobs # {} /\ jobAt.frame = f)
      <3>1. table = ReadJobs(jobs, jobAt, f)
        BY <2>1, <2>4 DEF JobTable
      <3>2. (jobAt.frame \in Nat /\ jobAt.frame < f) \/ (jobAt = NoJobs /\ f = 0)
        BY <1>2, <2>2, <2>4 DEF NoJobs
      <3>3. \A i, k \in DOMAIN jobs : i <= k => jobs[i].frame <= jobs[k].frame
        BY DEF BookInv, JobsSorted
      <3> HIDE DEF jobs, f
      <3>4. f \in Nat
        BY <1>2
      <3> QED
        BY <1>5, <3>1, <3>2, <3>3, <3>4, ReadsJobsOf
    <2> QED
      BY <2>3, <2>4
  <1>9. /\ rec.jobs \in Seq(Nat) /\ m.jobs \in Seq(JobInfo) /\ Len(rec.jobs) = Len(m.jobs)
        /\ \A i \in DOMAIN m.jobs : rec.jobs[i] = m.jobs[i].id
    BY <1>3, <1>4 DEF Shows, SceneInfo, Rendered
  <1>10. DOMAIN rec.jobs = DOMAIN m.jobs /\ (DOMAIN m.jobs # {} => rec.jobs # <<>>)
         /\ (rec.jobs # <<>> => 1 \in DOMAIN m.jobs)
    BY <1>9
  <1>11. ASSUME NEW i \in DOMAIN m.jobs
         PROVE  HasJob(table, rec.jobs[i]) /\ Job(rec.jobs[i]) = m.jobs[i]
    <2>1. /\ table.jobs = JobsOf(jobs, f) /\ m.jobs[i] \in JobsOf(jobs, f)
          /\ rec.jobs[i] = m.jobs[i].id
      BY <1>4, <1>8, <1>9, <1>10
    <2> HIDE DEF table
    <2>2. (CHOOSE j \in table.jobs : j.id = rec.jobs[i]) = m.jobs[i]
      BY <2>1, OneJobPerId
    <2> QED
      BY <2>1, <2>2 DEF HasJob
  <1> HIDE DEF table, Job
  <1>12. /\ loaded' = Append(loaded, [frame |-> m.frame,
                                      jobs |-> [i \in DOMAIN rec.jobs |-> Job(rec.jobs[i])]])
         /\ mode' = mode
    BY <1>1, <1>3, <1>7, <1>10, <1>11
  <1>13. [frame |-> m.frame, jobs |-> [i \in DOMAIN rec.jobs |-> Job(rec.jobs[i])]] = m
    <2> HIDE DEF m, rec
    <2>1. \A i \in DOMAIN m.jobs : Job(rec.jobs[i]) = m.jobs[i]
      BY <1>11
    <2>2. m.jobs = [i \in DOMAIN m.jobs |-> m.jobs[i]]
      BY <1>9
    <2>3. [i \in DOMAIN rec.jobs |-> Job(rec.jobs[i])] = m.jobs
      BY <1>10, <2>1, <2>2
    <2>4. m = [frame |-> m.frame, jobs |-> m.jobs]
      BY <1>3 DEF Rendered
    <2> QED
      BY <2>3, <2>4
  <1>14. LoadedRendered'
    <2>1. /\ loaded \in Seq(Rendered) /\ Len(loaded) = nextScene
          /\ \A k \in 1 .. nextScene : loaded[k] = made[k]
      BY <1>2 DEF Follows, LoadedRendered
    <2>2. loaded' = Append(loaded, m) /\ nextScene' = s
      BY <1>1, <1>12, <1>13
    <2>3. \A k \in 1 .. s : k \in 1 .. nextScene \/ k = s
      BY <1>2
    <2>4. /\ loaded' \in Seq(Rendered) /\ Len(loaded') = s
          /\ \A k \in 1 .. nextScene : loaded'[k] = loaded[k]
          /\ loaded'[s] = m
      BY <1>2, <1>3, <2>1, <2>2
    <2>5. \A k \in 1 .. s : loaded'[k] = made[k]
      BY <2>1, <2>3, <2>4
    <2> QED
      BY <1>2, <2>2, <2>4, <2>5 DEF LoadedRendered
  <1>15. SceneKept'
    <2>1. nextScene' = s /\ s # 0 /\ s + 1 = nextScene + 2 /\ s <= Len(file)
      BY <1>1, <1>2, <1>4
    <2> QED
      BY <1>1, <1>2, <1>6, <2>1 DEF SceneKept
  <1>16. TableKept'
    <2>1. CASE rec.jobs = <<>>
      <3>1. jobAt' = jobAt
        BY <1>1, <1>7, <2>1 DEF table
      <3> QED
        BY <1>1, <1>2, <3>1 DEF Follows, TableKept
    <2>2. CASE rec.jobs # <<>>
      <3>1. table.frame = f /\ table.jobs = JobsOf(jobs, f) /\ table.jobs # {}
        BY <1>4, <1>8, <1>10, <2>2
      <3> QED
        BY <1>1, <1>2, <3>1 DEF TableKept
    <2> QED
      BY <2>1, <2>2
  <1>17. StreamFollowed'
    BY <1>1, <1>2, StreamStaysFollowed
  <1>18. FrameKept'
    BY <1>1, <1>2, <1>12 DEF Follows, FrameKept
  <1> QED
    BY <1>1, <1>2, <1>12, <1>14, <1>15, <1>16, <1>17, <1>18, ResourceStaysKept DEF ReadInv, Follows

LEMMA EndSceneFollows ==
  ASSUME TypeOK, BookInv, ReadInv, ReadEndScene
  PROVE  ReadInv'
  <1>1. /\ Reading("END_SCENE")
        /\ UNCHANGED <<mode, frameAt, sceneAt, jobAt, rscAt, nextFrame, nextScene, loaded>>
    BY DEF ReadEndScene, managerVars
  <1>2. /\ Follows /\ mode = "read" /\ pb' = pb /\ made' = made
        /\ nextFrame \in Nat /\ nextScene \in Nat
    BY <1>1, ReadsNext DEF TypeOK
  <1>3. StreamFollowed'
    BY <1>1, <1>2, StreamStaysFollowed
  <1>4. FrameKept' /\ SceneKept' /\ TableKept' /\ LoadedRendered'
    BY <1>1, <1>2 DEF Follows, FrameKept, SceneKept, TableKept, LoadedRendered
  <1> QED
    BY <1>1, <1>2, <1>3, <1>4, ResourceStaysKept DEF ReadInv, Follows

-----------------------------------------------------------------------------
(* The book and the reader are right at the start, and stay so.            *)
LEMMA BookInit == Init => BookInv
  <1> SUFFICES ASSUME Init PROVE BookInv
    OBVIOUS
  <1> DEFINE m == [frame |-> 0, jobs |-> <<>>]
             c == Record("NEW_SCENE", 0)
  <1>1. /\ todo = [t \in App |-> << Do("threadStart") >>]
        /\ jobNbr = 0 /\ sceneNbr = 0 /\ frameNbr = 0 /\ rscNbr = 0 /\ scene = NewScene(0, 0)
        /\ pb["scenes"] = <<>> /\ pb["jobs"] = <<>> /\ pb["resources"] = <<>>
        /\ cmds = << c >> /\ made = << m >>
    BY DEF Init, WriterInit, Files
  <1>2. \A t \in App : NextStep(t) = "threadStart"
    BY <1>1, Shapes DEF NextStep, StepOf
  <1>3. Scenes = << scene >> /\ scene.frame = 0 /\ scene.id = 0 /\ scene.jobs = <<>>
    <2>1. 0 % Ids = 0
      BY WriterAssumption
    <2> QED
      BY <1>1, <1>2, <2>1 DEF Scenes, Dumped, NewScene
  <1>4. m \in Rendered /\ m.frame = 0 /\ m.jobs = <<>>
    BY NoJobYet
  <1> HIDE DEF m
  <1>5. frameNbr <= MaxFrames /\ ResourcesNumbered
    BY <1>1, WriterAssumption DEF ResourcesNumbered
  <1>6. JobsSorted
    BY <1>1, <1>2 DEF JobsSorted, Pending, At
  <1>7. SceneIdsBelow
    BY <1>1, <1>3 DEF SceneIdsBelow
  <1>8. ScenesShown
    <2>1. made \in Seq(Rendered) /\ Len(made) = 1 /\ DOMAIN made = {1} /\ made[1] = m
      BY <1>1, <1>4
    <2>2. Shows(scene, m)
      BY <1>3, <1>4 DEF Shows
    <2> QED
      BY <1>1, <1>3, <1>4, <2>1, <2>2 DEF ScenesShown
  <1>9. StreamFits
    <2>1. <<>> \in Seq(Commands) /\ Len(<<>>) = 0 /\ DOMAIN <<>> = {} /\ 0 .. 0 = {0}
      OBVIOUS
    <2>2. \A a : Nbr(<<>>, a, 0) = 0
      BY NbrSteps
    <2>3. Fits(<<>>, <<>>, 0, 0, 0)
      BY <2>1, <2>2 DEF Fits
    <2>4. c \in Commands /\ c.cmd = "NEW_SCENE"
      BY RecordType
    <2> HIDE DEF c
    <2>5. Append(<<>>, m) = << m >> /\ Append(<<>>, c) = << c >>
      OBVIOUS
    <2>6. <<>> \in Seq(Rendered) /\ << m >> \in Seq(Rendered)
      BY <1>4
    <2>7. Fits(<<>>, << m >>, 0, 0, 1)
      <3>1. 0 + 1 = 1 /\ 0 \in Nat
        OBVIOUS
      <3>2. Fits(<<>>, Append(<<>>, m), 0, 0, 0 + 1)
        BY <1>4, <2>3, <2>6, <3>1, SceneDue
      <3> QED
        BY <2>5, <3>1, <3>2
    <2>8. Fits(Append(<<>>, c), << m >>, 0, 0, 0)
      <3>1. 1 = 0 + 1
        OBVIOUS
      <3>2. \A k \in DOMAIN << m >> : << m >>[k].frame <= 0
        BY <1>4
      <3> QED
        BY <2>4, <2>6, <2>7, <3>1, <3>2, CommandAdded
    <2>9. Due = 0
      BY <1>2 DEF Due, At
    <2> QED
      BY <1>1, <2>5, <2>8, <2>9 DEF StreamFits
  <1> QED
    BY <1>5, <1>6, <1>7, <1>8, <1>9 DEF BookInv

LEMMA BookInvStep ==
  Orderly /\ FewFrames /\ TypeOK /\ OrderInv /\ PlaceInv /\ BookInv /\ [Next]_vars => BookInv'
  <1> SUFFICES ASSUME Orderly, FewFrames, TypeOK, OrderInv, PlaceInv, BookInv, [Next]_vars
               PROVE  BookInv'
    OBVIOUS
  <1>1. CASE UNCHANGED writerVars
    <2>1. /\ todo' = todo /\ sceneNbr' = sceneNbr /\ frameNbr' = frameNbr /\ rscNbr' = rscNbr
          /\ scene' = scene /\ pb' = pb /\ cmds' = cmds /\ made' = made
      BY <1>1 DEF writerVars, numberVars, currentVars
    <2>2. \A t \in App : NextStep(t)' = NextStep(t)
      BY <2>1 DEF NextStep
    <2>3. Scenes' = Scenes
      BY <2>1, <2>2 DEF Scenes, Dumped
    <2>4. frameNbr' <= MaxFrames /\ JobsSorted' /\ ScenesShown'
      BY <2>1, <2>2, <2>3, BookStays DEF Pending, At
    <2>5. ResourcesNumbered' /\ SceneIdsBelow' /\ StreamFits'
      BY <2>1, <2>2, <2>3 DEF BookInv, ResourcesNumbered, SceneIdsBelow, StreamFits, Due, At
    <2> QED
      BY <2>4, <2>5 DEF BookInv
  <1>2. ASSUME NEW t \in App, WriterStep(t) PROVE BookInv'
    <2>1. WriterType
      BY DEF TypeOK, WriterType
    <2> QED
      BY <1>2, <2>1, BookStep
  <1> QED
    BY <1>1, <1>2, ReaderKeepsRecords

LEMMA ReadInit == Init => ReadInv
  BY DEF Init, ReadInv, NothingRead

LEMMA ReadInvStep ==
  ASSUME FewFrames, TypeOK, NumberInv, OrderInv, PlaceInv, BookInv, ReadInv, [Next]_vars
  PROVE  ReadInv'
  <1>1. CASE WriteRecords
    BY <1>1 DEF WriteRecords, readerVars, managerVars, ReadInv, NothingRead
  <1>2. CASE EndApplication
    <2>1. NothingRead
      BY <1>2 DEF EndApplication, ReadInv
    <2> QED
      BY <1>2, <2>1, EndFollows
  <1>3. CASE ReadScene
    BY <1>3, SceneFollows
  <1>4. CASE ReadFrame
    BY <1>4, FrameFollows
  <1>5. CASE ReadResource
    BY <1>5, ResourceFollows
  <1>6. CASE ReadEndScene
    BY <1>6, EndSceneFollows
  <1>7. CASE Ended \/ UNCHANGED vars
    <2>1. /\ UNCHANGED <<mode, found, rpos, frameAt, sceneAt, jobAt, rscAt, nextFrame, nextScene,
                         loaded>>
          /\ pb' = pb /\ cmds' = cmds /\ made' = made
      BY <1>7 DEF Ended, vars, readerVars, managerVars, writerVars
    <2> QED
      BY <2>1 DEF ReadInv, NothingRead, Follows, StreamFollowed, FrameKept, SceneKept,
                  ResourceKept, TableKept, LoadedRendered, FramesTo, ScenesTo, ResourcesTo
  <1> QED
    BY <1>1, <1>2, <1>3, <1>4, <1>5, <1>6, <1>7 DEF Next

(* What the theorems below rest on: the inductive invariant of a recording *)
(* and of its being read.                                                  *)
RecordingInv == NumberInv /\ OrderInv /\ PlaceInv /\ BookInv /\ ReadInv

LEMMA RecordingHolds ==
  ASSUME Orderly, FewFrames
  PROVE  Spec => []RecordingInv
  <1>1. Init => RecordingInv
    BY NumberInit, PlaceInit, BookInit, ReadInit DEF RecordingInv
  <1>2. RecordingInv /\ [Next]_vars => RecordingInv'
    <2> SUFFICES ASSUME RecordingInv, [Next]_vars PROVE RecordingInv'
      OBVIOUS
    <2>1. TypeOK /\ NumberInv /\ OrderInv /\ PlaceInv /\ BookInv /\ ReadInv
      BY DEF RecordingInv, NumberInv
    <2>2. NumberInv'
      BY <2>1, NumberInvStep
    <2>3. OrderInv' /\ PlaceInv'
      BY <2>1, PlaceInvStep
    <2>4. BookInv'
      BY <2>1, BookInvStep
    <2>5. ReadInv'
      BY <2>1, ReadInvStep
    <2> QED
      BY <2>2, <2>3, <2>4, <2>5 DEF RecordingInv
  <1> QED
    BY <1>1, <1>2, PTL DEF Spec

(* No lookup of the analyzer fails, wherever the application ends and      *)
(* however much of the command stream is lost, when the application is     *)
(* orderly and its frames have ids of their own: NoLookupFails.            *)
THEOREM LookupsSucceed ==
  ASSUME Orderly, FewFrames
  PROVE  Spec => []NoLookupFails
  <1>1. RecordingInv => NoLookupFails
    BY DEF RecordingInv, ReadInv, NoLookupFails
  <1> QED
    BY <1>1, RecordingHolds, PTL

(* What the analyzer loads is what the application rendered: the scenes in *)
(* their order, each with its own jobs as they were made, and all of those *)
(* of the frames it finds: ReadsBack.                                      *)
THEOREM RecordingsReadBack ==
  ASSUME Orderly, FewFrames
  PROVE  Spec => []ReadsBack
  <1>1. RecordingInv => ReadsBack
    <2> SUFFICES ASSUME RecordingInv PROVE ReadsBack
      OBVIOUS
    <2>1. /\ TypeOK /\ NumberInv /\ BookInv /\ ReadInv
          /\ made \in Seq(Rendered) /\ Len(made) \in Nat /\ DOMAIN made = 1 .. Len(made)
      BY DEF RecordingInv, NumberInv, BookInv, ScenesShown
    <2>2. CASE mode = "write"
      <3>1. loaded = <<>>
        BY <2>1, <2>2 DEF ReadInv, NothingRead
      <3>2. IsPrefix(<<>>, made)
        <4>1. Len(<<>>) = 0 /\ SubSeq(<<>>, 1, 0) = <<>> /\ SubSeq(made, 1, 0) = <<>>
          BY <2>1
        <4> QED
          BY <2>1, <4>1 DEF IsPrefix
      <3> QED
        BY <2>2, <3>1, <3>2 DEF ReadsBack
    <2>3. CASE mode # "write"
      <3>1. /\ Follows /\ nextScene \in Nat /\ rpos \in 0 .. Len(cmds)
            /\ nextScene = Nbr(cmds, "NEW_SCENE", rpos)
            /\ nextFrame = Nbr(cmds, "NEW_FRAME", rpos) /\ nextFrame \in Nat
        <4>1. Follows /\ nextScene \in Nat /\ nextFrame \in Nat /\ rpos \in Nat
          BY <2>1, <2>3 DEF ReadInv, TypeOK
        <4>2. Len(cmds) \in Nat
          BY <2>1 DEF BookInv, StreamFits, Fits
        <4> QED
          BY <4>1, <4>2 DEF Follows, StreamFollowed, ScenesTo, FramesTo
      <3>2. /\ loaded \in Seq(Rendered) /\ Len(loaded) = nextScene
            /\ \A k \in 1 .. nextScene : loaded[k] = made[k]
        BY <3>1 DEF Follows, LoadedRendered
      <3>3. nextScene <= Len(made)
        BY <2>1, <3>1 DEF BookInv, StreamFits, Fits
      <3>4. IsPrefix(loaded, made)
        <4>1. SubSeq(loaded, 1, nextScene) = [k \in 1 .. nextScene |-> loaded[k]]
          BY <3>1, <3>2
        <4>2. SubSeq(made, 1, nextScene) = [k \in 1 .. nextScene |-> made[k]]
          BY <2>1, <3>1, <3>3
        <4>3. [k \in 1 .. nextScene |-> loaded[k]] = [k \in 1 .. nextScene |-> made[k]]
          BY <3>2
        <4> QED
          BY <3>2, <3>3, <4>1, <4>2, <4>3 DEF IsPrefix
      <3>5. ASSUME mode = "done", NEW k \in DOMAIN made,
                   made[k].frame < Len(found.pb["frames"])
            PROVE  k <= Len(loaded)
        <4>1. /\ Len(found.pb["frames"]) <= nextFrame /\ Len(found.pb["frames"]) \in Nat
              /\ made[k].frame \in Nat /\ k \in Nat
          <5>1. Len(pb["frames"]) <= nextFrame /\ found.pb = pb
            BY <3>1, <3>5 DEF Follows, StreamFollowed, FrameKept
          <5>2. Len(pb["frames"]) \in Nat
            BY <2>1 DEF TypeOK
          <5>3. made[k] \in Rendered
            BY <2>1
          <5> QED
            BY <2>1, <5>1, <5>2, <5>3 DEF Rendered
        <4>2. k > nextScene => made[k].frame >= nextFrame
          BY <2>1, <3>1 DEF BookInv, StreamFits, Fits
        <4> QED
          BY <3>1, <3>2, <3>5, <4>1, <4>2
      <3> QED
        BY <3>4, <3>5 DEF ReadsBack
    <2> QED
      BY <2>2, <2>3
  <1> QED
    BY <1>1, RecordingHolds, PTL

-----------------------------------------------------------------------------
(* The frames.  What a frame lists, when scenes are added or change but    *)
(* keep their frame and id.                                                *)
LEMMA OwnScenes ==
  ASSUME NEW ss \in Seq(SceneInfo), NEW f, NEW i \in {k \in DOMAIN ss : ss[k].frame = f}
  PROVE  LET own == {k \in DOMAIN ss : ss[k].frame = f}
             nbr == Cardinality({h \in own : h <= i})
         IN IsFiniteSet(own) /\ Cardinality(own) \in Nat /\ nbr \in 1 .. Cardinality(own)
  <1> DEFINE own == {k \in DOMAIN ss : ss[k].frame = f}
             upTo == {h \in own : h <= i}
  <1>1. IsFiniteSet(own)
    <2>1. own \subseteq 1 .. Len(ss) /\ Len(ss) \in Nat
      OBVIOUS
    <2> QED
      BY <2>1, FS_Interval, FS_Subset
  <1>2. upTo \subseteq own /\ i \in upTo
    <2>1. i \in Nat
      OBVIOUS
    <2> QED
      BY <2>1
  <1> HIDE DEF own, upTo
  <1>3. /\ Cardinality(own) \in Nat /\ IsFiniteSet(upTo) /\ Cardinality(upTo) \in Nat
        /\ Cardinality(upTo) <= Cardinality(own)
    BY <1>1, <1>2, FS_Subset, FS_CardinalityType
  <1>4. Cardinality(upTo) # 0
    BY <1>2, <1>3, FS_EmptySet
  <1>5. IsFiniteSet(own) /\ Cardinality(own) \in Nat /\ Cardinality(upTo) \in 1 .. Cardinality(own)
    BY <1>1, <1>3, <1>4
  <1> QED
    BY <1>5 DEF own, upTo

LEMMA ListsAlike ==
  ASSUME NEW ss \in Seq(SceneInfo), NEW tt \in Seq(SceneInfo), NEW ids, NEW f, Lists(ids, ss, f),
         {i \in DOMAIN tt : tt[i].frame = f} = {i \in DOMAIN ss : ss[i].frame = f},
         \A i \in DOMAIN ss : ss[i].frame = f => tt[i].id = ss[i].id
  PROVE  Lists(ids, tt, f)
  BY DEF Lists

LEMMA ListsOther ==
  ASSUME NEW ss \in Seq(SceneInfo), NEW s \in SceneInfo, NEW ids, NEW f, s.frame # f
  PROVE  Lists(ids, ss, f) <=> Lists(ids, Append(ss, s), f)
  <1> DEFINE tt == Append(ss, s)
  <1>1. /\ tt \in Seq(SceneInfo)
        /\ DOMAIN ss = 1 .. Len(ss) /\ Len(ss) \in Nat /\ DOMAIN tt = 1 .. Len(ss) + 1
        /\ tt[Len(ss) + 1] = s
        /\ \A i \in DOMAIN ss : tt[i] = ss[i]
    OBVIOUS
  <1> HIDE DEF tt
  <1>2. {i \in DOMAIN tt : tt[i].frame = f} = {i \in DOMAIN ss : ss[i].frame = f}
    BY <1>1
  <1>3. Lists(ids, ss, f) => Lists(ids, tt, f)
    BY <1>1, <1>2, ListsAlike
  <1>4. Lists(ids, tt, f) => Lists(ids, ss, f)
    BY <1>1, <1>2, ListsAlike
  <1> QED
    BY <1>3, <1>4 DEF tt

LEMMA ListsOneMore ==
  ASSUME NEW ss \in Seq(SceneInfo), NEW s \in SceneInfo, NEW ids \in Seq(FrameIds),
         Lists(ids, ss, s.frame)
  PROVE  Lists(Append(ids, s.id), Append(ss, s), s.frame)
  <1> DEFINE tt == Append(ss, s)
             more == Append(ids, s.id)
             own == {i \in DOMAIN ss : ss[i].frame = s.frame}
             all == {i \in DOMAIN tt : tt[i].frame = s.frame}
             n == Len(ss) + 1
  <1>1. /\ DOMAIN ss = 1 .. Len(ss) /\ Len(ss) \in Nat /\ DOMAIN tt = 1 .. n
        /\ tt[n] = s /\ n \in Nat
        /\ \A i \in DOMAIN ss : tt[i] = ss[i]
    OBVIOUS
  <1>2. all = own \cup {n} /\ n \notin own /\ \A i \in own : i \in Nat /\ i < n /\ tt[i] = ss[i]
    <2> HIDE DEF tt
    <2> QED
      BY <1>1
  <1>3. IsFiniteSet(own)
    <2>1. own \subseteq 1 .. Len(ss) /\ Len(ss) \in Nat
      BY <1>1
    <2>2. IsFiniteSet(1 .. Len(ss))
      BY <2>1, FS_Interval
    <2> HIDE DEF own
    <2> QED
      BY <2>1, <2>2, FS_Subset
  <1>4. Len(ids) = Cardinality(own) /\ \A i \in own : ids[Cardinality({h \in own : h <= i})] = ss[i].id
    BY DEF Lists
  <1>5. ASSUME NEW i \in own
        PROVE  Cardinality({h \in own : h <= i}) \in 1 .. Len(ids)
    BY <1>4, OwnScenes
  <1>6. /\ Len(more) = Len(ids) + 1 /\ Len(ids) \in Nat
        /\ \A i \in 1 .. Len(ids) : more[i] = ids[i]
        /\ more[Len(ids) + 1] = s.id
    OBVIOUS
  <1> HIDE DEF tt, more, own, all, n
  <1>7. Cardinality(all) = Len(more)
    BY <1>2, <1>3, <1>4, <1>6, FS_AddElement
  <1>8. ASSUME NEW i \in all PROVE more[Cardinality({h \in all : h <= i})] = tt[i].id
    <2>1. CASE i \in own
      <3>1. {h \in all : h <= i} = {h \in own : h <= i}
        BY <1>1, <1>2, <2>1
      <3>2. Cardinality({h \in own : h <= i}) \in 1 .. Len(ids)
        BY <1>5, <2>1
      <3> QED
        BY <1>2, <1>4, <1>6, <2>1, <3>1, <3>2
    <2>2. CASE i = n
      <3>1. \A h \in all : h <= i
        BY <1>1, <1>2, <2>2
      <3>2. {h \in all : h <= i} = all
        BY <3>1
      <3> QED
        BY <1>1, <1>6, <1>7, <2>2, <3>2
    <2> QED
      BY <1>2, <2>1, <2>2
  <1> QED
    BY <1>7, <1>8 DEF Lists, all, tt, more

LEMMA ListsNone ==
  ASSUME NEW ss \in Seq(SceneInfo), NEW f, \A i \in DOMAIN ss : ss[i].frame # f
  PROVE  Lists(<<>>, ss, f)
  <1>1. {i \in DOMAIN ss : ss[i].frame = f} = {} /\ Cardinality({}) = 0
    BY FS_EmptySet
  <1> QED
    BY <1>1 DEF Lists

(* Each frame lists the scenes begun in it, dumped or not.                 *)
ListInv ==
  /\ \A k \in DOMAIN pb["frames"] : Lists(pb["frames"][k].scenes, Scenes, k - 1)
  /\ Lists(frame.scenes, Scenes, frameNbr)

(* A step that begins no scene, and one that begins one.                   *)
LEMMA ListsStay ==
  ASSUME WriterType, WriterType', ListInv, Len(Scenes') = Len(Scenes),
         \A k \in DOMAIN Scenes : Scenes'[k].frame = Scenes[k].frame /\ Scenes'[k].id = Scenes[k].id,
         pb'["frames"] = pb["frames"], frame' = frame, frameNbr' = frameNbr
  PROVE  ListInv'
  <1>1. Scenes \in Seq(SceneInfo) /\ DOMAIN Scenes = 1 .. Len(Scenes)
    BY ScenesType
  <1>2. Scenes' \in Seq(SceneInfo)
    BY DEF WriterType, Scenes
  <1>3. DOMAIN Scenes' = DOMAIN Scenes
    BY <1>1, <1>2
  <1>4. PICK ss \in Seq(SceneInfo), tt \in Seq(SceneInfo) : ss = Scenes /\ tt = Scenes'
    BY <1>1, <1>2
  <1>5. ASSUME NEW ids, NEW f, Lists(ids, ss, f) PROVE Lists(ids, tt, f)
    <2>1. {i \in DOMAIN tt : tt[i].frame = f} = {i \in DOMAIN ss : ss[i].frame = f}
      BY <1>3, <1>4
    <2> QED
      BY <1>4, <1>5, <2>1, ListsAlike
  <1> QED
    BY <1>4, <1>5 DEF ListInv

LEMMA ListsNextScene ==
  ASSUME TypeOK, OrderInv, BookInv, FewFrames, ListInv, NumberInv, NEW t \in App, NextScene(t)
  PROVE  ListInv'
  <1>1. /\ WriterType /\ Scenes \in Seq(SceneInfo) /\ frame \in FrameInfo
        /\ frame.scenes \in Seq(FrameIds) /\ frameNbr \in Nat /\ sceneNbr \in Nat
        /\ TodoShape /\ todo \in [App -> Seq(Steps)]
    BY ScenesType DEF TypeOK, WriterType, FrameInfo, OrderInv
  <1>2. /\ AfterHead(t) /\ NextStep(t) = "newScene"
        /\ scene' = NewScene(sceneNbr, frameNbr)
        /\ frame' = WithScene(frame, NewScene(sceneNbr, frameNbr))
        /\ UNCHANGED <<frameNbr, pb>>
    BY DEF NextScene, At, numberVars
  <1>3. /\ \A u \in App : u # t => NextStep(u)' = NextStep(u)
        /\ NextStep(t)' = "syncScene"
    BY <1>1, <1>2, HeadDone
  <1>4. Scenes' = Append(Scenes, scene')
    <2>1. Dumped /\ ~ Dumped'
      BY <1>2, <1>3 DEF Dumped, OrderInv, EndsAlone, Ending
    <2> QED
      BY <1>2, <2>1 DEF Scenes
  <1>5. PICK s \in SceneInfo : s = scene' /\ s.frame = frameNbr
    <2>1. NewScene(sceneNbr, frameNbr) \in SceneInfo /\ frameNbr % Ids = frameNbr
      <3>1. frameNbr < Ids
        BY <1>1, WriterAssumption DEF FewFrames, BookInv
      <3> QED
        BY <1>1, <3>1, SceneType, SmallMod
    <2> QED
      BY <1>2, <2>1 DEF NewScene
  <1>6. frame'.scenes = Append(frame.scenes, s.id)
    BY <1>1, <1>2, <1>5 DEF WithScene, FrameInfo
  <1>7. PICK ss \in Seq(SceneInfo), ids \in Seq(FrameIds) : ss = Scenes /\ ids = frame.scenes
    BY <1>1
  <1>8. Lists(frame.scenes, Scenes, frameNbr)'
    <2>1. Lists(ids, ss, s.frame)
      BY <1>5, <1>7 DEF ListInv
    <2>2. Lists(Append(ids, s.id), Append(ss, s), s.frame)
      BY <2>1, ListsOneMore
    <2> QED
      BY <1>2, <1>4, <1>5, <1>6, <1>7, <2>2
  <1>9. ASSUME NEW k \in DOMAIN pb["frames"] PROVE Lists(pb["frames"][k].scenes, Scenes, k - 1)'
    <2>1. s.frame # k - 1
      BY <1>1, <1>5 DEF NumberInv, FramesNumbered, TypeOK
    <2>2. Lists(pb["frames"][k].scenes, Append(ss, s), k - 1)
      BY <1>7, <2>1, ListsOther DEF ListInv
    <2> QED
      BY <1>2, <1>4, <1>5, <1>7, <2>2
  <1> QED
    BY <1>2, <1>8, <1>9 DEF ListInv

LEMMA ListsSwap ==
  ASSUME TypeOK, OrderInv, BookInv, Orderly, FewFrames, ListInv, NumberInv,
         NEW t \in App, SwapBuffers(t)
  PROVE  ListInv'
  <1>1. /\ WriterType /\ Scenes \in Seq(SceneInfo) /\ frame \in FrameInfo
        /\ DOMAIN Scenes = 1 .. Len(Scenes) /\ frameNbr \in Nat /\ DOMAIN pb = Files
        /\ pb["frames"] \in Seq(FrameInfo) /\ Len(pb["frames"]) = frameNbr
    BY ScenesType DEF TypeOK, WriterType, NumberInv, FramesNumbered
  <1>2. /\ \A u \in App : NextStep(u) \in {"none", "threadStart"}
        /\ frameNbr < MaxFrames /\ frameNbr' = frameNbr + 1
        /\ scene' = NewScene(0, frameNbr + 1)
        /\ frame' = WithScene(NewFrame(frameNbr + 1), NewScene(0, frameNbr + 1))
        /\ pb' = [pb EXCEPT !["frames"] = Append(@, frame), !["scenes"] = Append(@, scene)]
        /\ UNCHANGED todo
    BY DEF SwapBuffers, MayEnd
  <1>3. pb'["scenes"] = Append(pb["scenes"], scene) /\ pb'["frames"] = Append(pb["frames"], frame)
    BY <1>1, <1>2 DEF Files
  <1>4. Scenes' = Append(Scenes, scene')
    <2>1. ~ Dumped /\ ~ Dumped'
      BY <1>2 DEF Dumped, NextStep
    <2> QED
      BY <1>3, <2>1 DEF Scenes
  <1>5. PICK s \in SceneInfo : s = scene' /\ s.frame = frameNbr + 1
    <2>1. NewScene(0, frameNbr + 1) \in SceneInfo /\ (frameNbr + 1) % Ids = frameNbr + 1
      <3>1. frameNbr + 1 < Ids /\ frameNbr + 1 \in Nat
        BY <1>1, <1>2, WriterAssumption DEF FewFrames
      <3> QED
        BY <3>1, SceneType, SmallMod
    <2> QED
      BY <1>2, <2>1 DEF NewScene
  <1>6. frame'.scenes = Append(<<>>, s.id)
    <2>1. frame' = WithScene(NewFrame(frameNbr + 1), s)
      BY <1>2, <1>5
    <2> QED
      BY <2>1 DEF WithScene, NewFrame
  <1>7. \A k \in DOMAIN Scenes : Scenes[k].frame <= frameNbr /\ Scenes[k].frame \in Nat
    <2>1. ASSUME NEW k \in DOMAIN Scenes PROVE Scenes[k].frame <= frameNbr
      <3>1. k \in DOMAIN made
        BY <1>1, <2>1 DEF BookInv, ScenesShown
      <3> QED
        BY <3>1 DEF BookInv, ScenesShown, Shows
    <2>2. ASSUME NEW k \in DOMAIN Scenes PROVE Scenes[k].frame \in Nat
      <3>1. Scenes[k] \in SceneInfo
        BY <1>1, <2>2
      <3> QED
        BY <3>1 DEF SceneInfo, FrameIds
    <2> QED
      BY <2>1, <2>2
  <1>8. PICK ss \in Seq(SceneInfo) : ss = Scenes
    BY <1>1
  <1>9. Lists(frame.scenes, Scenes, frameNbr)'
    <2>1. Lists(<<>>, ss, frameNbr + 1)
      BY <1>1, <1>7, <1>8, ListsNone
    <2>0. <<>> \in Seq(FrameIds)
      OBVIOUS
    <2>2. PICK ids \in Seq(FrameIds) : ids = <<>>
      BY <2>0
    <2>3. Lists(Append(ids, s.id), Append(ss, s), s.frame)
      BY <1>5, <2>1, <2>2, ListsOneMore
    <2> QED
      BY <1>2, <1>4, <1>5, <1>6, <1>8, <2>2, <2>3
  <1>10. ASSUME NEW k \in DOMAIN pb'["frames"] PROVE Lists(pb["frames"][k].scenes, Scenes, k - 1)'
    <2>1. k \in 1 .. frameNbr + 1 /\ s.frame # k - 1
      BY <1>1, <1>3, <1>5
    <2>2. Lists(pb'["frames"][k].scenes, ss, k - 1)
      <3>1. CASE k = frameNbr + 1
        <4>1. pb'["frames"][k] = frame /\ k - 1 = frameNbr
          BY <1>1, <1>3, <3>1
        <4> QED
          BY <1>8, <4>1 DEF ListInv
      <3>2. CASE k # frameNbr + 1
        <4>1. k \in DOMAIN pb["frames"] /\ pb'["frames"][k] = pb["frames"][k]
          BY <1>1, <1>3, <2>1, <3>2
        <4> QED
          BY <1>8, <4>1 DEF ListInv
      <3> QED
        BY <3>1, <3>2
    <2>3. Lists(pb'["frames"][k].scenes, Append(ss, s), k - 1)
      BY <2>1, <2>2, ListsOther
    <2> QED
      BY <1>4, <1>5, <1>8, <2>3
  <1> QED
    BY <1>9, <1>10 DEF ListInv

LEMMA ListsJob ==
  ASSUME TypeOK, TypeOK', ListInv, MayBegin, Orderly, NEW t \in App,
         NEW type \in {"MISC_JOB", "DRAW_JOB", "TILE_JOB"}, NEW dev \in {"CPU", "GPU"},
         NEW x \in Nat, NEW y \in Nat, CreateJob(t, type, dev, x, y)
  PROVE  ListInv'
  <1> DEFINE j == NewJob(type, dev, x, y)
  <1>1. /\ WriterType /\ WriterType' /\ j \in JobInfo /\ scene \in SceneInfo
        /\ jobNbr \in Nat /\ todo \in [App -> Seq(Steps)] /\ pb["scenes"] \in Seq(SceneInfo)
    BY JobType DEF TypeOK, WriterType
  <1>2. /\ todo' = [todo EXCEPT ![t] = << DoRecord(j) >>]
        /\ UNCHANGED <<frameNbr, pb, frame>>
    BY DEF CreateJob
  <1>3. ~ Dumped /\ ~ Dumped'
    BY <1>1, <1>2, TakesJob DEF Dumped, MayBegin
  <1>4. Scenes = Append(pb["scenes"], scene) /\ Scenes' = Append(pb["scenes"], scene')
    BY <1>2, <1>3 DEF Scenes
  <1>5. scene'.id = scene.id /\ scene'.frame = scene.frame
    BY <1>1, SceneWithJob
  <1>6. /\ Len(Scenes') = Len(Scenes)
        /\ \A k \in DOMAIN Scenes : Scenes'[k].frame = Scenes[k].frame /\ Scenes'[k].id = Scenes[k].id
    BY <1>1, <1>4, <1>5
  <1> QED
    BY <1>1, <1>2, <1>6, ListsStay

(* The steps that leave the scenes as they are.                            *)
LEMMA ScenesKept ==
  ASSUME TypeOK, OrderInv, Orderly, NEW t \in App,
         \/ RecordJob(t) \/ ResourceCreate(t) \/ SceneEnd(t) \/ DumpScene(t)
         \/ IncScene(t) \/ SyncScene(t)
  PROVE  /\ Scenes' = Scenes
         /\ pb'["frames"] = pb["frames"] /\ frame' = frame /\ frameNbr' = frameNbr
  <1> USE DEF numberVars, currentVars
  <1>1. TodoShape /\ DOMAIN pb = Files /\ todo \in [App -> Seq(Steps)]
    BY DEF TypeOK, OrderInv
  <1>2. pb'["frames"] = pb["frames"] /\ frame' = frame /\ frameNbr' = frameNbr
    BY <1>1 DEF RecordJob, ResourceCreate, SceneEnd, DumpScene, IncScene, SyncScene, Write, Files
  <1>3. ASSUME NextStep(t) \in {"recordJob", "dumpScene", "incScene", "newScene", "syncScene"},
               AfterHead(t)
        PROVE  /\ \A u \in App : u # t => NextStep(u)' = NextStep(u)
               /\ NextStep(t)' = IF NextStep(t) = "dumpScene" THEN "incScene"
                                 ELSE IF NextStep(t) = "incScene" THEN "newScene"
                                 ELSE IF NextStep(t) = "newScene" THEN "syncScene" ELSE "none"
    BY <1>1, <1>3, HeadDone
  <1>4. CASE RecordJob(t)
    <2>1. NextStep(t) = "recordJob" /\ AfterHead(t) /\ scene' = scene /\ pb'["scenes"] = pb["scenes"]
      BY <1>1, <1>4 DEF RecordJob, At, Write, Files
    <2>2. ~ Dumped /\ ~ Dumped'
      BY <1>3, <2>1, DumpedShape DEF Dumped
    <2> QED
      BY <1>2, <2>1, <2>2 DEF Scenes
  <1>5. CASE ResourceCreate(t)
    <2>1. todo' = todo /\ scene' = scene /\ pb'["scenes"] = pb["scenes"]
      BY <1>1, <1>5 DEF ResourceCreate, Write, Files
    <2> QED
      BY <1>2, <2>1 DEF Scenes, Dumped, NextStep
  <1>6. CASE SceneEnd(t)
    <2> DEFINE rest == << Do("dumpScene"), Do("incScene"), Do("newScene"), Do("syncScene") >>
    <2>1. /\ todo' = [todo EXCEPT ![t] = rest] /\ scene' = scene /\ pb' = pb
          /\ \A u \in App : NextStep(u) \in {"none", "threadStart"}
      BY <1>6 DEF SceneEnd, MayEnd
    <2>2. \A u \in App : todo'[u] = IF u = t THEN rest ELSE todo[u]
      BY <1>1, <2>1
    <2>3. NextStep(t)' = StepOf(rest) /\ \A u \in App : u # t => NextStep(u)' = NextStep(u)
      BY <2>2 DEF NextStep, StepOf
    <2>4. ~ Dumped /\ ~ Dumped'
      BY <2>1, <2>3, Shapes DEF Dumped
    <2> QED
      BY <1>2, <2>1, <2>4 DEF Scenes
  <1>7. CASE DumpScene(t)
    <2>1. /\ NextStep(t) = "dumpScene" /\ AfterHead(t)
          /\ pb'["scenes"] = Append(pb["scenes"], scene)
      BY <1>1, <1>7 DEF DumpScene, At, Write, Files
    <2>2. ~ Dumped /\ Dumped'
      BY <1>3, <2>1, DumpedShape DEF Dumped
    <2> QED
      BY <1>2, <2>1, <2>2 DEF Scenes
  <1>8. CASE IncScene(t)
    <2>1. NextStep(t) = "incScene" /\ AfterHead(t) /\ pb' = pb
      BY <1>8 DEF IncScene, At
    <2>2. Dumped /\ Dumped'
      BY <1>3, <2>1 DEF Dumped
    <2> QED
      BY <1>2, <2>1, <2>2 DEF Scenes
  <1>9. CASE SyncScene(t)
    <2>1. NextStep(t) = "syncScene" /\ AfterHead(t) /\ pb' = pb /\ scene' = scene
      BY <1>9 DEF SyncScene, At
    <2>2. ~ Dumped /\ ~ Dumped'
      BY <1>3, <2>1, DumpedShape DEF Dumped
    <2> QED
      BY <1>2, <2>1, <2>2 DEF Scenes
  <1> QED
    BY <1>4, <1>5, <1>6, <1>7, <1>8, <1>9

LEMMA ListStep ==
  ASSUME TypeOK, TypeOK', OrderInv, BookInv, NumberInv, Orderly, FewFrames, ListInv,
         NEW t \in App, WriterStep(t)
  PROVE  ListInv'
  <1>1. CASE ThreadStart(t) \/ DrawBegin(t) \/ TileBegin(t) \/ DrawOrTileEnd(t)
    <2>1. MayBegin
      BY <1>1 DEF ThreadStart, DrawBegin, TileBegin, DrawOrTileEnd
    <2>2. PICK type \in {"MISC_JOB", "DRAW_JOB", "TILE_JOB"}, dev \in {"CPU", "GPU"},
               x \in Nat, y \in Nat : CreateJob(t, type, dev, x, y)
      BY <1>1, WriterAssumption DEF ThreadStart, DrawBegin, TileBegin, DrawOrTileEnd
    <2> QED
      BY <2>1, <2>2, ListsJob
  <1>2. CASE \/ RecordJob(t) \/ ResourceCreate(t) \/ SceneEnd(t) \/ DumpScene(t)
             \/ IncScene(t) \/ SyncScene(t)
    <2>1. /\ Scenes' = Scenes
          /\ pb'["frames"] = pb["frames"] /\ frame' = frame /\ frameNbr' = frameNbr
      BY <1>2, ScenesKept
    <2> QED
      BY <2>1 DEF ListInv
  <1> QED
    BY <1>1, <1>2, ListsNextScene, ListsSwap DEF WriterStep

LEMMA ListInit == Init => ListInv
  <1> SUFFICES ASSUME Init PROVE ListInv
    OBVIOUS
  <1>1. /\ todo = [t \in App |-> << Do("threadStart") >>]
        /\ frameNbr = 0 /\ pb["scenes"] = <<>> /\ pb["frames"] = <<>>
        /\ scene = NewScene(0, 0) /\ frame = WithScene(NewFrame(0), NewScene(0, 0))
    BY DEF Init, WriterInit, Files
  <1>2. \A t \in App : NextStep(t) = "threadStart"
    BY <1>1, Shapes DEF NextStep, StepOf
  <1>3. Scenes = Append(<<>>, scene)
    BY <1>1, <1>2 DEF Scenes, Dumped
  <1>4. PICK s \in SceneInfo : s = scene /\ s.frame = 0
    <2>1. NewScene(0, 0) \in SceneInfo /\ 0 % Ids = 0
      BY SceneType, SmallMod, WriterAssumption
    <2> QED
      BY <1>1, <2>1 DEF NewScene
  <1>5. frame.scenes = Append(<<>>, s.id)
    BY <1>1, <1>4 DEF WithScene, NewFrame
  <1>6. Lists(Append(<<>>, s.id), Append(<<>>, s), 0)
    <2>0. <<>> \in Seq(SceneInfo) /\ <<>> \in Seq(FrameIds)
      OBVIOUS
    <2>1. PICK ss \in Seq(SceneInfo), ids \in Seq(FrameIds) : ss = <<>> /\ ids = <<>>
      BY <2>0
    <2>2. Lists(<<>>, ss, s.frame)
      <3>1. DOMAIN ss = {}
        BY <2>1
      <3> QED
        BY <3>1, ListsNone
    <2>3. Lists(Append(ids, s.id), Append(ss, s), s.frame)
      BY <2>1, <2>2, ListsOneMore
    <2> QED
      BY <1>4, <2>1, <2>3
  <1> QED
    BY <1>1, <1>3, <1>4, <1>5, <1>6 DEF ListInv

(* A frame record lists the scene records of its frame, all of them and in *)
(* their order, when the application is orderly and its frames have ids of *)
(* their own: FramesListTheirScenes.                                       *)
THEOREM FramesListed ==
  ASSUME Orderly, FewFrames
  PROVE  Spec => []FramesListTheirScenes
  <1>1. RecordingInv /\ RecordingInv' /\ ListInv /\ [Next]_vars => ListInv'
    <2> SUFFICES ASSUME RecordingInv, RecordingInv', ListInv, [Next]_vars PROVE ListInv'
      OBVIOUS
    <2>1. TypeOK /\ TypeOK' /\ OrderInv /\ BookInv /\ NumberInv
      BY DEF RecordingInv, NumberInv
    <2>2. CASE UNCHANGED writerVars
      BY <2>2 DEF writerVars, numberVars, currentVars, ListInv, Scenes, Dumped, NextStep
    <2> QED
      BY <2>1, <2>2, ListStep, ReaderKeepsRecords
  <1>2. RecordingInv /\ ListInv => FramesListTheirScenes
    <2> SUFFICES ASSUME RecordingInv, ListInv, NEW k \in DOMAIN pb["frames"]
                 PROVE  Lists(pb["frames"][k].scenes, pb["scenes"], pb["frames"][k].id)
      BY DEF FramesListTheirScenes
    <2>0. TypeOK /\ FramesNumbered /\ BookInv /\ SceneNumbered
      BY DEF RecordingInv, NumberInv, PlaceInv
    <2>1. /\ frameNbr \in Nat /\ k \in 1 .. frameNbr /\ frameNbr < Ids
          /\ pb["scenes"] \in Seq(SceneInfo) /\ scene \in SceneInfo /\ SceneNumbered
          /\ pb["frames"][k].id = (k - 1) % Ids
      <3>1. /\ frameNbr \in Nat /\ pb["scenes"] \in Seq(SceneInfo) /\ scene \in SceneInfo
            /\ pb["frames"] \in Seq(FrameInfo) /\ Len(pb["frames"]) = frameNbr
            /\ pb["frames"][k].id = (k - 1) % Ids
        BY <2>0 DEF TypeOK, FramesNumbered
      <3>2. frameNbr < Ids
        BY <2>0, <3>1, WriterAssumption DEF BookInv, FewFrames
      <3> QED
        BY <2>0, <3>1, <3>2
    <2>2. pb["frames"][k].id = k - 1 /\ scene.frame = frameNbr
      <3>1. k - 1 \in Nat /\ k - 1 < Ids /\ scene.frame = frameNbr % Ids
        BY <2>1, WriterAssumption DEF SceneNumbered
      <3> QED
        BY <2>1, <3>1, SmallMod
    <2>3. Lists(pb["frames"][k].scenes, Scenes, k - 1)
      BY DEF ListInv
    <2>4. CASE Dumped
      BY <2>2, <2>3, <2>4 DEF Scenes
    <2>5. CASE ~ Dumped
      <3>1. Scenes = Append(pb["scenes"], scene) /\ scene.frame # k - 1
        BY <2>1, <2>2, <2>5 DEF Scenes
      <3>2. Lists(pb["frames"][k].scenes, Append(pb["scenes"], scene), k - 1)
        BY <2>3, <3>1
      <3> QED
        BY <2>1, <2>2, <3>1, <3>2, ListsOther
    <2> QED
      BY <2>4, <2>5
  <1> QED
    BY <1>1, <1>2, ListInit, RecordingHolds, PTL DEF Spec
=============================================================================
