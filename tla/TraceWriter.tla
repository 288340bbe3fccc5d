----------------------------- MODULE TraceWriter -----------------------------
(***************************************************************************)
(* The records the generator leaves beside the packet streams: one per     *)
(* frame, scene, job and resource, written by the handlers of the          *)
(* application's threads while they number the frames, scenes and jobs.    *)
(*                                                                         *)
(* A section under rw_mtx is one step.  What a handler does outside the    *)
(* lock is a step of its own, kept in todo[t], so threads interleave there.*)
(***************************************************************************)
EXTENDS Naturals, SequencesExt

CONSTANTS
  App,        (* the application's threads                                   *)
  Tiles,      (* tile coordinates <<x, y>>                                   *)
  Ids,        (* number of frame and scene ids (2^16 of a uint16_t)          *)
  JobIds,     (* number of job ids of a record (2^32 of a uint32); also the  *)
              (* bound on jobs: no application makes more                    *)
  Orderly,    (* TRUE iff boundaries and thread starts overlap no handler    *)
  MaxCalls,   (* bound: handlers of all threads                              *)
  MaxFrames   (* bound: frames                                               *)

ASSUME WriterAssumption ==
  /\ Tiles \subseteq Nat \X Nat
  /\ Ids \in Nat \ {0} /\ JobIds \in Nat \ {0}
  /\ Orderly \in BOOLEAN
  /\ MaxCalls \in Nat /\ MaxFrames \in Nat

VARIABLES
  todo,       \* per thread: the steps left of the handler it is in
  inside,     \* per thread: what its current job is part of
  jobNbr,     \* system->get_job_nbr()
  sceneNbr,   \* system->get_scene_nbr()
  frameNbr,   \* system->get_frame_nbr()
  rscNbr,     \* GpuResource::id_counter
  scene,      \* current_scene
  frame,      \* current_frame
  pb,         \* the records in the files frames, scenes, jobs and resources
  cmds,       \* the boundaries and resources in the command streams
  calls,      \* handlers called so far
  made        \* history: the scenes the application rendered, with their jobs

numberVars == <<jobNbr, sceneNbr, frameNbr, rscNbr>>
currentVars == <<scene, frame>>
writerVars == <<todo, inside, numberVars, currentVars, pb, cmds, calls, made>>

Files == {"frames", "scenes", "jobs", "resources"}

-----------------------------------------------------------------------------
(* Frame and Scene, with their 16 bit ids, and the records of dump_info.   *)
NewFrame(id) == [id |-> id % Ids, scenes |-> <<>>]
NewScene(id, f) ==
  [id |-> id % Ids, frame |-> f % Ids, width |-> 0, height |-> 0, jobs |-> <<>>]

WithScene(f, s) == [f EXCEPT !.scenes = Append(@, s.id)]
WithJob(s, j) == [s EXCEPT !.jobs = Append(@, j.id)]

Larger(m, n) == IF m >= n THEN m ELSE n
WithTile(s, x, y) == [s EXCEPT !.width = Larger(@, x + 1), !.height = Larger(@, y + 1)]

(* Mutant of NewJob: a 16 bit job id, as frames and scenes have.           *)
NewJobNarrow(type, dev, x, y) ==
  [id |-> jobNbr % Ids, frame |-> frameNbr % Ids, scene |-> sceneNbr % Ids,
   type |-> type, dev |-> dev, x |-> x, y |-> y]

NewJob(type, dev, x, y) ==
  [id |-> jobNbr % JobIds, frame |-> frameNbr % Ids, scene |-> sceneNbr % Ids,
   type |-> type, dev |-> dev, x |-> x, y |-> y]

Write(file, rec) == pb' = [pb EXCEPT ![file] = Append(@, rec)]
Record(cmd, r) == [cmd |-> cmd, rsc |-> r]

(* A step to be done; the job of a "recordJob".                            *)
Do(step) == [step |-> step]
DoRecord(j) == [step |-> "recordJob", job |-> j]

(* The constructor.  Its first NEW_FRAME is not in the streams.            *)
WriterInit ==
  /\ todo = [t \in App |-> << Do("threadStart") >>]
  /\ inside = [t \in App |-> "nothing"]
  /\ jobNbr = 0 /\ sceneNbr = 0 /\ frameNbr = 0 /\ rscNbr = 0
  /\ scene = NewScene(0, 0)
  /\ frame = WithScene(NewFrame(0), NewScene(0, 0))
  /\ pb = [f \in Files |-> <<>>]
  /\ cmds = << Record("NEW_SCENE", 0) >>
  /\ calls = 0
  /\ made = << [frame |-> 0, jobs |-> <<>>] >>

-----------------------------------------------------------------------------
NextStep(t) == IF todo[t] = <<>> THEN "none" ELSE Head(todo[t]).step
At(t, step) == NextStep(t) = step
Idle(t) == At(t, "none")

(* An orderly application has no thread in a handler when it ends a scene  *)
(* or swaps, and starts no thread and no job while it ends a scene.        *)
MayEnd == Orderly => \A t \in App : NextStep(t) \in {"none", "threadStart"}
MayBegin ==
  Orderly => \A t \in App : NextStep(t) \in {"none", "threadStart", "recordJob"}

Called == calls < MaxCalls /\ calls' = calls + 1
AfterHead(t) == todo' = [todo EXCEPT ![t] = Tail(@)]

(* Mutant of CreateJob: only jobs of the GPU are listed.                   *)
CreateJobGpuOnly(t, type, dev, x, y) ==
  LET j == NewJob(type, dev, x, y) IN
  /\ jobNbr < JobIds
  /\ todo' = [todo EXCEPT ![t] = << DoRecord(j) >>]
  /\ jobNbr' = jobNbr + 1
  /\ scene' = IF type = "TILE_JOB" THEN WithTile(WithJob(scene, j), x, y)
              ELSE IF type = "DRAW_JOB" THEN WithJob(scene, j) ELSE scene
  /\ made' = [made EXCEPT ![Len(made)].jobs = Append(@, j)]
  /\ UNCHANGED <<sceneNbr, frameNbr, rscNbr, frame, pb, cmds>>

(* The section that numbers a new job and lists it in the current scene;   *)
(* handle_new_job writes its record in a section of its own.               *)
CreateJob(t, type, dev, x, y) ==
  LET j == NewJob(type, dev, x, y) IN
  /\ jobNbr < JobIds
  /\ todo' = [todo EXCEPT ![t] = << DoRecord(j) >>]
  /\ jobNbr' = jobNbr + 1
  /\ scene' = IF type = "TILE_JOB" THEN WithTile(WithJob(scene, j), x, y)
              ELSE WithJob(scene, j)
  /\ made' = [made EXCEPT ![Len(made)].jobs = Append(@, j)]
  /\ UNCHANGED <<sceneNbr, frameNbr, rscNbr, frame, pb, cmds>>

RecordJob(t) ==
  /\ At(t, "recordJob")
  /\ Write("jobs", Head(todo[t]).job)
  /\ AfterHead(t)
  /\ UNCHANGED <<inside, numberVars, currentVars, cmds, calls, made>>

(* handle_gpu_thread_start                                                 *)
ThreadStart(t) ==
  /\ At(t, "threadStart") /\ MayBegin /\ Called
  /\ CreateJob(t, "MISC_JOB", "CPU", 0, 0)
  /\ UNCHANGED inside

(* handle_gpu_draw_vbo_begin and _end, handle_gpu_tile_begin and _end.  The *)
(* job before has ended (modelled in Generator).                           *)
DrawBegin(t) ==
  /\ Idle(t) /\ MayBegin /\ Called
  /\ inside[t] = "nothing"
  /\ inside' = [inside EXCEPT ![t] = "draw"]
  /\ CreateJob(t, "DRAW_JOB", "GPU", 0, 0)

TileBegin(t) ==
  /\ Idle(t) /\ MayBegin /\ Called
  /\ inside[t] = "nothing"
  /\ inside' = [inside EXCEPT ![t] = "tile"]
  /\ \E xy \in Tiles : CreateJob(t, "TILE_JOB", "GPU", xy[1], xy[2])

DrawOrTileEnd(t) ==
  /\ Idle(t) /\ MayBegin /\ Called
  /\ inside[t] # "nothing"
  /\ inside' = [inside EXCEPT ![t] = "nothing"]
  /\ CreateJob(t, "MISC_JOB", "CPU", 0, 0)

(* handle_gpu_resource_create                                              *)
ResourceCreate(t) ==
  /\ Idle(t) /\ MayBegin /\ Called
  /\ Write("resources", [id |-> rscNbr])
  /\ cmds' = Append(cmds, Record("NEW_RESOURCE", rscNbr))
  /\ rscNbr' = rscNbr + 1
  /\ UNCHANGED <<todo, inside, jobNbr, sceneNbr, frameNbr, currentVars, made>>

-----------------------------------------------------------------------------
(* handle_gpu_scene_end: no lock.                                          *)
SceneEnd(t) ==
  /\ Idle(t) /\ MayEnd /\ Called
  /\ cmds' = Append(cmds, Record("END_SCENE", 0))
  /\ todo' = [todo EXCEPT ![t] = << Do("dumpScene"), Do("incScene"), Do("newScene"),
                               Do("syncScene") >>]
  /\ UNCHANGED <<inside, numberVars, currentVars, pb, made>>

DumpScene(t) ==
  /\ At(t, "dumpScene")
  /\ Write("scenes", scene)
  /\ AfterHead(t)
  /\ UNCHANGED <<inside, numberVars, currentVars, cmds, calls, made>>

IncScene(t) ==
  /\ At(t, "incScene")
  /\ sceneNbr' = sceneNbr + 1
  /\ AfterHead(t)
  /\ UNCHANGED <<inside, jobNbr, frameNbr, rscNbr, currentVars, pb, cmds, calls, made>>

(* Mutant of NextScene: the frame does not list its later scenes.          *)
NextSceneUnlisted(t) ==
  /\ At(t, "newScene")
  /\ scene' = NewScene(sceneNbr, frameNbr)
  /\ UNCHANGED frame
  /\ made' = Append(made, [frame |-> frameNbr, jobs |-> <<>>])
  /\ AfterHead(t)
  /\ UNCHANGED <<inside, numberVars, pb, cmds, calls>>

NextScene(t) ==
  /\ At(t, "newScene")
  /\ scene' = NewScene(sceneNbr, frameNbr)
  /\ frame' = WithScene(frame, NewScene(sceneNbr, frameNbr))
  /\ made' = Append(made, [frame |-> frameNbr, jobs |-> <<>>])
  /\ AfterHead(t)
  /\ UNCHANGED <<inside, numberVars, pb, cmds, calls>>

(* The NEW_SCENE command, after a pause of the queues.                     *)
SyncScene(t) ==
  /\ At(t, "syncScene")
  /\ cmds' = Append(cmds, Record("NEW_SCENE", 0))
  /\ AfterHead(t)
  /\ UNCHANGED <<inside, numberVars, currentVars, pb, calls, made>>

(* handle_gpu_swap_buffers, all of it under rw_mtx.                        *)
SwapBuffers(t) ==
  /\ Idle(t) /\ MayEnd /\ Called
  /\ frameNbr < MaxFrames
  /\ cmds' = cmds \o << Record("NEW_FRAME", 0), Record("NEW_SCENE", 0) >>
  /\ frameNbr' = frameNbr + 1 /\ sceneNbr' = 0
  /\ pb' = [pb EXCEPT !["frames"] = Append(@, frame), !["scenes"] = Append(@, scene)]
  /\ scene' = NewScene(0, frameNbr + 1)
  /\ frame' = WithScene(NewFrame(frameNbr + 1), NewScene(0, frameNbr + 1))
  /\ made' = Append(made, [frame |-> frameNbr + 1, jobs |-> <<>>])
  /\ UNCHANGED <<todo, inside, jobNbr, rscNbr>>

WriterStep(t) ==
  \/ ThreadStart(t) \/ RecordJob(t)
  \/ DrawBegin(t) \/ TileBegin(t) \/ DrawOrTileEnd(t)
  \/ ResourceCreate(t)
  \/ SceneEnd(t) \/ DumpScene(t) \/ IncScene(t) \/ NextScene(t) \/ SyncScene(t)
  \/ SwapBuffers(t)
=============================================================================
