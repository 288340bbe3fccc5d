----------------------------- MODULE TraceRecords -----------------------------
(***************************************************************************)
(* A recording from both ends: the generator's handlers write the records  *)
(* (TraceWriter); when the application has ended, the analyzer follows the *)
(* command stream and looks the records up (TraceManager), as the replay   *)
(* loop does at each boundary.                                             *)
(***************************************************************************)
EXTENDS TraceWriter, TraceManager

VARIABLES
  mode,       \* "write", "read", "done" or "abort"
  found,      \* what the files hold when they are read
  rpos,       \* records of the command stream read
  frameAt,    \* frames.pb.gz, last_frame
  sceneAt,    \* scenes.pb.gz, last_scene
  jobAt,      \* jobs.pb.gz and the table of jobs
  rscAt,      \* resources.pb.gz
  nextFrame,  \* System::frame_nbr; equals Schedular::next_frame_id - 1
  nextScene,  \* Schedular::next_scene_id
  loaded      \* history: the scenes handed to the schedular, with their jobs

managerVars == <<frameAt, sceneAt, jobAt, rscAt>>
readerVars == <<mode, found, rpos, managerVars, nextFrame, nextScene, loaded>>
vars == <<writerVars, readerVars>>

Init ==
  /\ WriterInit
  /\ mode = "write"
  /\ found = [pb |-> pb, cmds |-> cmds]
  /\ rpos = 0
  /\ frameAt = AtStart /\ sceneAt = AtStart /\ rscAt = AtStart
  /\ jobAt = NoJobs
  /\ nextFrame = 0 /\ nextScene = 0
  /\ loaded = <<>>

-----------------------------------------------------------------------------
WriteRecords ==
  /\ mode = "write"
  /\ \E t \in App : WriterStep(t)
  /\ UNCHANGED readerVars

(* handle_new_frame, and start_new_frame of the schedular, which asks for  *)
(* the same frame and asserts its id.                                      *)
HandleNewFrame(files) ==
  /\ frameAt' = SeekKept(files["frames"], frameAt, nextFrame')
  /\ mode' = CASE frameAt'.last = NoRecord -> "done"
               [] frameAt'.last # NoRecord /\ frameAt'.last.id = nextFrame' -> "read"
               [] OTHER -> "abort"

(* The application ends.  The record files are closed; the last commands   *)
(* may still be in the generator's buffers and are lost.  The analyzer is  *)
(* started.                                                                *)
EndApplication ==
  /\ mode = "write"
  /\ \E n \in 0 .. Len(cmds) : found' = [pb |-> pb, cmds |-> SubSeq(cmds, 1, n)]
  /\ UNCHANGED nextFrame
  /\ HandleNewFrame(found'.pb)
  /\ UNCHANGED <<writerVars, rpos, sceneAt, jobAt, rscAt, nextScene, loaded>>

Reading(cmd) ==
  /\ mode = "read" /\ rpos < Len(found.cmds)
  /\ found.cmds[rpos + 1].cmd = cmd
  /\ rpos' = rpos + 1
  /\ UNCHANGED <<writerVars, found>>

(* start_new_scene: the scene, then each of its jobs from the job table of *)
(* the scene's frame.                                                      *)
ReadScene ==
  LET at    == SeekKept(found.pb["scenes"], sceneAt, nextScene)
      table == IF at.last # NoRecord /\ at.last.jobs # <<>>
               THEN JobTable(found.pb["jobs"], jobAt, at.last.frame) ELSE jobAt
      Job(id) == CHOOSE j \in table.jobs : j.id = id
  IN /\ Reading("NEW_SCENE")
     /\ sceneAt' = at /\ jobAt' = table
     /\ nextScene' = nextScene + 1
     /\ IF at.last # NoRecord /\ \A i \in DOMAIN at.last.jobs : HasJob(table, at.last.jobs[i])
        THEN /\ loaded' = Append(loaded,
                  [frame |-> at.last.frame,
                   jobs |-> [i \in DOMAIN at.last.jobs |-> Job(at.last.jobs[i])]])
             /\ UNCHANGED mode
        ELSE mode' = "abort" /\ UNCHANGED loaded
     /\ UNCHANGED <<frameAt, rscAt, nextFrame>>

ReadFrame ==
  /\ Reading("NEW_FRAME")
  /\ nextFrame' = nextFrame + 1
  /\ HandleNewFrame(found.pb)
  /\ UNCHANGED <<sceneAt, jobAt, rscAt, nextScene, loaded>>

(* CPU::tick, NewResourceCMD: asserts the resource and its id.             *)
ReadResource ==
  LET id == found.cmds[rpos + 1].rsc
      at == Seek(found.pb["resources"], rscAt, id)
  IN /\ Reading("NEW_RESOURCE")
     /\ rscAt' = at
     /\ mode' = IF at.last # NoRecord /\ at.last.id = id THEN "read" ELSE "abort"
     /\ UNCHANGED <<frameAt, sceneAt, jobAt, nextFrame, nextScene, loaded>>

ReadEndScene ==
  /\ Reading("END_SCENE")
  /\ UNCHANGED <<mode, managerVars, nextFrame, nextScene, loaded>>

Ended ==
  /\ \/ mode \in {"done", "abort"}
     \/ mode = "read" /\ rpos = Len(found.cmds)
  /\ UNCHANGED vars

Next ==
  \/ WriteRecords \/ EndApplication
  \/ ReadScene \/ ReadFrame \/ ReadResource \/ ReadEndScene
  \/ Ended

Spec == Init /\ [][Next]_vars
-----------------------------------------------------------------------------
FrameIds == 0 .. Ids - 1
FrameInfo == [id : FrameIds, scenes : Seq(FrameIds)]
SceneInfo == [id : FrameIds, frame : FrameIds, width : Nat, height : Nat, jobs : Seq(Nat)]
JobInfo == [id : Nat, frame : FrameIds, scene : FrameIds,
            type : {"MISC_JOB", "DRAW_JOB", "TILE_JOB"}, dev : {"CPU", "GPU"},
            x : Nat, y : Nat]
Steps == [step : {"threadStart", "dumpScene", "incScene", "newScene", "syncScene"}]
         \cup [step : {"recordJob"}, job : JobInfo]

(* NULL is no record.  The header, read as a job, has no frame_id: field 4 *)
(* (job.proto 19), of which a PacketHeader (packet.proto) has three.       *)
ASSUME ReaderAssumption ==
  /\ NoRecord \notin FrameInfo \cup SceneInfo \cup [id : Nat]
  /\ Header.frame = 0

TypeOK ==
  /\ mode \in {"write", "read", "done", "abort"}
  /\ todo \in [App -> Seq(Steps)]
  /\ jobNbr \in Nat /\ sceneNbr \in Nat /\ frameNbr \in Nat /\ rscNbr \in Nat
  /\ scene \in SceneInfo /\ frame \in FrameInfo
  /\ DOMAIN pb = Files
  /\ pb["frames"] \in Seq(FrameInfo) /\ pb["scenes"] \in Seq(SceneInfo)
  /\ pb["jobs"] \in Seq(JobInfo)
  /\ rpos \in Nat /\ nextFrame \in Nat /\ nextScene \in Nat

(* Frame records are numbered one by one and no two jobs have one id, in   *)
(* whatever order threads call the handlers: get_frame asserts the first   *)
(* (trace_manager.cc 125), the job table and the trace file names rest on  *)
(* the second.                                                             *)
RecordsAreNumbered ==
  /\ \A k \in DOMAIN pb["frames"] : pb["frames"][k].id = (k - 1) % Ids
  /\ \A i, k \in DOMAIN pb["jobs"] : pb["jobs"][i].id = pb["jobs"][k].id => i = k

(* The scene ids a frame record lists are those of the scene records with  *)
(* that frame, in their order: its n-th id is that of the frame's n-th     *)
(* scene.                                                                  *)
Lists(ids, ss, f) ==
  LET own == {i \in DOMAIN ss : ss[i].frame = f} IN
  /\ Len(ids) = Cardinality(own)
  /\ \A i \in own : ids[Cardinality({h \in own : h <= i})] = ss[i].id

FramesListTheirScenes ==
  \A k \in DOMAIN pb["frames"] :
    Lists(pb["frames"][k].scenes, pb["scenes"], pb["frames"][k].id)

(* Every recorded job is listed by one scene, once, and under the frame    *)
(* and scene number of its own record and trace file; a tile lies in the   *)
(* width and height the z order will cover.                                *)
Dumped == \E t \in App : NextStep(t) \in {"incScene", "newScene"}
Scenes == IF Dumped THEN pb["scenes"] ELSE Append(pb["scenes"], scene)

JobsHaveTheirScene ==
  \A i \in DOMAIN pb["jobs"] :
    LET j == pb["jobs"][i]
        places == {p \in (1 .. Len(Scenes)) \X (1 .. jobNbr) :
                     /\ p[2] \in DOMAIN Scenes[p[1]].jobs
                     /\ Scenes[p[1]].jobs[p[2]] = j.id}
    IN /\ Cardinality(places) = 1
       /\ \A p \in places :
            LET s == Scenes[p[1]] IN
            /\ s.frame = j.frame /\ s.id = j.scene
            /\ j.type = "TILE_JOB" => j.x < s.width /\ j.y < s.height

(* No lookup of the analyzer fails or asserts, wherever the application    *)
(* ends and however much of the command stream is lost: what a stream that *)
(* is ahead of the records asks for is never reached.                      *)
NoLookupFails == mode # "abort"

(* The analyzer is given the scenes the application rendered, in order,    *)
(* each with its own jobs as they were made; and all of the scenes of the  *)
(* frames it finds, if it finds the whole stream.                          *)
ReadsBack ==
  /\ IsPrefix(loaded, made)
  /\ mode = "done" /\ found.cmds = cmds =>
       \A k \in DOMAIN made :
         made[k].frame < Len(found.pb["frames"]) => k <= Len(loaded)
-----------------------------------------------------------------------------
(* trace_manager.cc 216 and 305: assert(jobs.count(id)), a job that a      *)
(* scene lists is in the table of the scene's frame.                       *)
JobsAreInTheTable == mode = "abort" => sceneAt.last = NoRecord
=============================================================================
