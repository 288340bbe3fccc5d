------------------------------ MODULE Generator ------------------------------
(***************************************************************************)
(* The trace generator (gltracesim_generator.cc): application threads run  *)
(* instrumented code and call the handlers of the tool; each has a filter  *)
(* thread that filters its memory accesses and feeds the analysis queue,   *)
(* which work threads hand to the analyzers (AnalysisQueue).               *)
(*                                                                         *)
(* A handler is the sequence of its steps on shared state, kept in todo[t] *)
(* and executed one by one, so all threads interleave between any two of   *)
(* them.  A step is a pair <<name, argument>>.  Sections under rw_mtx that *)
(* wait for nothing are one step, enabled when the lock is free.           *)
(***************************************************************************)
EXTENDS AnalysisQueue, FiniteSets

CONSTANTS
    App,            \* the application threads
    NoJob,          \* ts[gid].job == NULL
    Calls,          \* Calls[t]: the handlers thread t may run
    MaxCalls,       \* bound: handlers each thread runs
    Frames          \* sim_ctrl.stop: swaps before the one that exits

Filter(t) == <<"filter", t>>
Dev == {"CPU", "GPU"}
Handler == {"access", "opengl", "sync", "resource", "draw", "tile", "sceneEnd", "swap"}

ASSUME GeneratorAssumption ==
    /\ Thread = App \cup {Filter(t) : t \in App}
    /\ Calls \in [App -> SUBSET Handler]
    /\ MaxCalls \in Nat
    /\ Frames \in Nat
    /\ Worker # {}

VARIABLES
    todo,           \* todo[t]: the steps left of the handler t is in
    calls,          \* calls[t]: handlers t has run
    gids,           \* the started threads: gids[i] has gid = fid = i - 1
    buf,            \* buf[t]: the two buffers of filter_queue[t]
    out,            \* out[t]: which of them is gpu, that t writes; the other is fin
    fHasWork,       \* consumer_has_work
    fDone,          \* consumer_done
    filter,         \* filter[t]: where t's filter thread is, its buffer and packet
    cache,          \* cache[t]: [job, dev] of the dirty lines in t's filter caches
    rscDev,         \* the device that holds the one shared resource
    job,            \* job[t]: ts[t].job
    nextJob,        \* system->get_job_nbr()
    rwWriter,       \* rw_mtx: the thread that holds it exclusively
    rwReaders,      \* rw_mtx: the filter threads that hold it shared
    stop,           \* sim_ctrl.stop
    exited,         \* how the process ended: "no", "stop", "finish" or "abort"
    paused,         \* history: the threads between a pause and its resume
    issued          \* history: job and boundary packets in the order of the calls

stageVars == <<buf, out, fHasWork, fDone, filter, cache, rscDev>>
jobVars == <<job, nextJob>>
rwVars == <<rwWriter, rwReaders>>
runVars == <<calls, gids, stop, exited>>
historyVars == <<paused, issued>>
vars == <<queueVars, todo, stageVars, jobVars, rwVars, runVars, historyVars>>

Pkt(cmd, j) == [cmd |-> cmd, job |-> j]
JobOf(id, dev) == [id |-> id, dev |-> dev]
Marker(cmd) == Pkt(cmd, NoJob)

\* A thread begins with a job, and a handler begins at most one more.
MaxJobs == Cardinality(App) * (MaxCalls + 1)
MarkerCommands ==
    {"OPENGL_CALL", "SYNC", "NEW_RESOURCE", "END_RESOURCE", "END_SCENE", "NEW_SCENE",
     "NEW_FRAME", "MV_TO_CPU", "MV_TO_GPU"}

ASSUME PacketAssumption ==
    /\ \A cmd \in {"NEW_JOB", "END_JOB"}, id \in 1 .. MaxJobs, dev \in Dev :
           Pkt(cmd, JobOf(id, dev)) \in Packet
    /\ \A cmd \in MarkerCommands : Marker(cmd) \in Packet

\* Every registered analyzer is a CmdTraceGenerator, which asserts that an
\* OPENGL_CALL has a job id; handle_opengl_call() leaves it at -1.
ASSUME AnalyzerAssumption == Refused = {Marker("OPENGL_CALL")}

Gpu(t) == buf[t][out[t]]
Fin(t) == buf[t][1 - out[t]]
NoFilter == [pc |-> "none", in |-> 0, pos |-> 0, pkt |-> Marker("NONE")]

-----------------------------------------------------------------------------
(* The handlers, as the sequences of their steps.                          *)

\* Mutant: wait() that leaves consumer_done set.
FilterWaitNoClear(f) == << <<"await", f>> >>
FilterWait(f) == << <<"await", f>>, <<"clear", f>> >>

\* process_buffer(gid)
ProcessBuffer(t) == FilterWait(t) \o << <<"rotate", t>>, <<"feed", t>> >>

\* Mutant: drains the front buffer only.
DrainFilterOnce(f) == ProcessBuffer(f) \o << <<"flush", f>> >>

\* The back buffer, then the front buffer, then the filter caches.
DrainFilter(f) ==
    ProcessBuffer(f) \o FilterWait(f) \o << <<"rotate", f>>, <<"flush", f>> >>

\* Mutant: leaves the second buffer of the analysis queue.
PauseAndDrainBack ==
    << <<"drain", 1>>, <<"queueWait", "back">>, <<"queueRotate", "front">> >>

PauseAndDrainBuffers ==
    << <<"drain", 1>>,
       <<"queueWait", "back">>, <<"queueRotate", "back">>,
       <<"queueStart", "drain">>,
       <<"queueWait", "front">>, <<"queueRotate", "front">> >>

\* Mutant: forgets the filter threads.
ResumeAnalysis == << <<"queueStart", "resume">> >>
Resume == << <<"feedAll", 0>>, <<"queueStart", "resume">> >>

\* Mutant: pushes without a pause.
HandleSyncUnpaused(cmd) == << <<"push", cmd>> >>
HandleSync(cmd) ==
    PauseAndDrainBuffers \o << <<"push", cmd>> >> \o Resume

\* Mutant: hands its buffer over and does not wait for it.
HandleEndJobUndrained(t) ==
    << <<"appendEndJob", t>> >> \o ProcessBuffer(t) \o << <<"closeJob", t>> >>

HandleEndJob(t) ==
    << <<"appendEndJob", t>> >> \o DrainFilter(t)
        \o << <<"feed", t>>, <<"closeJob", t>> >>

HandleNewJob(dev) == << <<"createJob", dev>> >>

HandleOpenglCall == << <<"rwLock", 0>>, <<"push", "OPENGL_CALL">>, <<"rwUnlock", 0>> >>

\* handle_gpu_resource_create() and handle_gpu_resource_destroy()
HandleResource(cmd) ==
    PauseAndDrainBuffers
        \o << <<"rwLock", 0>>, <<"push", cmd>>, <<"rwUnlock", 0>> >> \o Resume

\* handle_gpu_draw_vbo_begin() and _end(), which drain first, and
\* handle_gpu_tile_begin() and _end(): a job of a device follows the current one.
HandleDraw(t, dev) ==
    PauseAndDrainBuffers \o Resume \o HandleEndJob(t) \o HandleNewJob(dev)
HandleTile(t, dev) == HandleEndJob(t) \o HandleNewJob(dev)

HandleSceneEnd == HandleSync("END_SCENE") \o HandleSync("NEW_SCENE")

\* Mutant: swaps without a pause.
HandleSwapUnpaused ==
    << <<"rwLock", 0>>, <<"process", "NEW_FRAME">>,
       <<"process", "NEW_SCENE">>, <<"stopOrGo", 0>> >>

HandleSwapBuffers ==
    PauseAndDrainBuffers
        \o << <<"rwLock", 0>>, <<"process", "NEW_FRAME">>,
              <<"process", "NEW_SCENE">>, <<"stopOrGo", 0>> >>

Bodies(t, h) ==
    CASE h = "access" -> {<< <<"appendAccess", t>> >>}
      [] h = "opengl" -> {HandleOpenglCall}
      [] h = "sync" -> {HandleSync("SYNC")}
      [] h = "resource" -> {HandleResource(cmd) : cmd \in {"NEW_RESOURCE", "END_RESOURCE"}}
      [] h = "draw" -> {HandleDraw(t, dev) : dev \in Dev}
      [] h = "tile" -> {HandleTile(t, dev) : dev \in Dev}
      [] h = "sceneEnd" -> {HandleSceneEnd}
      [] h = "swap" -> {HandleSwapBuffers}

-----------------------------------------------------------------------------
Init ==
    /\ QueueInit(Marker("NEW_FRAME"), Marker("NEW_SCENE"))
    /\ todo = [t \in App |-> << <<"threadStart", t>> >>]
    /\ calls = [t \in App |-> 0]
    /\ gids = <<>>
    /\ buf = [t \in App |-> [b \in 0 .. 1 |-> <<>>]]
    /\ out = [t \in App |-> 0]
    /\ fHasWork = [t \in App |-> FALSE]
    /\ fDone = [t \in App |-> FALSE]
    /\ filter = [t \in App |-> NoFilter]
    /\ cache = [t \in App |-> {}]
    /\ rscDev = "CPU"
    /\ job = [t \in App |-> NoJob]
    /\ nextJob = 1
    /\ rwWriter = NoThread
    /\ rwReaders = {}
    /\ stop = Frames
    /\ exited = "no"
    /\ paused = {}
    /\ issued = <<>>

RwFree == rwWriter = NoThread /\ rwReaders = {}
Idle(t) == exited = "no" /\ todo[t] = <<>>

\* The next step of t is named name; arg is its argument.
At(t, name) == exited = "no" /\ todo[t] # <<>> /\ Head(todo[t])[1] = name
Arg(t) == Head(todo[t])[2]
Continue(t, steps) == todo' = [todo EXCEPT ![t] = steps \o Tail(@)]
Finish(t) == Continue(t, <<>>)
Issue(pkt) == issued' = Append(issued, pkt)

\* The instrumented code of a thread reaches a handler.
Call(t) ==
    /\ Idle(t)
    /\ calls[t] < MaxCalls
    /\ \E h \in Calls[t] : \E body \in Bodies(t, h) : todo' = [todo EXCEPT ![t] = body]
    /\ calls' = [calls EXCEPT ![t] = @ + 1]
    /\ UNCHANGED <<queueVars, stageVars, jobVars, rwVars, gids, stop, exited, historyVars>>

-----------------------------------------------------------------------------
(* Steps of an application thread on its own job and buffer.               *)

\* handle_gpu_thread_start(): all of it under rw_mtx, then the first job.
ThreadStart(t) ==
    /\ At(t, "threadStart")
    /\ RwFree
    /\ gids' = Append(gids, t)
    /\ filter' = [filter EXCEPT ![t].pc = "pop"]
    /\ fHasWork' = [fHasWork EXCEPT ![t] = TRUE]
    /\ Continue(t, HandleNewJob("CPU"))
    /\ UNCHANGED <<queueVars, buf, out, fDone, cache, rscDev, jobVars, rwVars,
                   calls, stop, exited, historyVars>>

CreateJob(t) ==
    /\ At(t, "createJob")
    /\ RwFree
    /\ nextJob' = nextJob + 1
    /\ Continue(t, << <<"beginJob", JobOf(nextJob, Arg(t))>>, <<"recordJob", t>> >>)
    /\ UNCHANGED <<queueVars, stageVars, job, rwVars, runVars, historyVars>>

AppendPacket(t, pkt) == buf' = [buf EXCEPT ![t][out[t]] = Append(@, pkt)]
ProcessIfFull(t) == IF Len(buf'[t][out[t]]) < BufferSize THEN <<>> ELSE ProcessBuffer(t)

\* handle_new_job() up to rw_mtx, and from there.
BeginJob(t) ==
    /\ At(t, "beginJob")
    /\ job[t] = NoJob
    /\ job' = [job EXCEPT ![t] = Arg(t)]
    /\ AppendPacket(t, Pkt("NEW_JOB", Arg(t)))
    /\ Issue(Pkt("NEW_JOB", Arg(t)))
    /\ Finish(t)
    /\ UNCHANGED <<queueVars, out, fHasWork, fDone, filter, cache, rscDev, nextJob,
                   rwVars, runVars, paused>>

RecordJob(t) ==
    /\ At(t, "recordJob")
    /\ RwFree
    /\ UNCHANGED buf
    /\ Continue(t, ProcessIfFull(t))
    /\ UNCHANGED <<queueVars, out, fHasWork, fDone, filter, cache, rscDev, jobVars,
                   rwVars, runVars, historyVars>>

\* handle_mem_access(), of an access the line buffer does not swallow.
AppendAccess(t) ==
    /\ At(t, "appendAccess")
    /\ job[t] # NoJob
    /\ AppendPacket(t, Pkt("ACCESS", job[t]))
    /\ Continue(t, ProcessIfFull(t))
    /\ UNCHANGED <<queueVars, out, fHasWork, fDone, filter, cache, rscDev, jobVars,
                   rwVars, runVars, historyVars>>

AppendEndJob(t) ==
    /\ At(t, "appendEndJob")
    /\ job[t] # NoJob
    /\ AppendPacket(t, Pkt("END_JOB", job[t]))
    /\ Issue(Pkt("END_JOB", job[t]))
    /\ Finish(t)
    /\ UNCHANGED <<queueVars, out, fHasWork, fDone, filter, cache, rscDev, jobVars,
                   rwVars, runVars, paused>>

CloseJob(t) ==
    /\ At(t, "closeJob")
    /\ RwFree
    /\ job' = [job EXCEPT ![t] = NoJob]
    /\ Finish(t)
    /\ UNCHANGED <<queueVars, stageVars, nextJob, rwVars, runVars, historyVars>>

JobStep(t) ==
    \/ ThreadStart(t)
    \/ CreateJob(t)
    \/ BeginJob(t)
    \/ RecordJob(t)
    \/ AppendAccess(t)
    \/ AppendEndJob(t)
    \/ CloseJob(t)

-----------------------------------------------------------------------------
(* Steps of an application thread on filter queues, its own and others'.   *)

\* consumer_done.wait() and the clear() that follows it.
Await(t) ==
    /\ At(t, "await")
    /\ fDone[Arg(t)]
    /\ Finish(t)
    /\ UNCHANGED <<queueVars, stageVars, jobVars, rwVars, runVars, historyVars>>

Clear(t) ==
    /\ At(t, "clear")
    /\ fDone' = [fDone EXCEPT ![Arg(t)] = FALSE]
    /\ Finish(t)
    /\ UNCHANGED <<queueVars, buf, out, fHasWork, filter, cache, rscDev, jobVars,
                   rwVars, runVars, historyVars>>

RotateFilter(t) ==
    /\ At(t, "rotate")
    /\ out' = [out EXCEPT ![Arg(t)] = 1 - @]
    /\ buf' = [buf EXCEPT ![Arg(t)][1 - out[Arg(t)]] = <<>>]
    /\ Finish(t)
    /\ UNCHANGED <<queueVars, fHasWork, fDone, filter, cache, rscDev, jobVars,
                   rwVars, runVars, historyVars>>

\* push() of one filter queue, or of all of them in resume().
Feed(t, threads) ==
    /\ fHasWork' = [u \in App |-> u \in threads \/ fHasWork[u]]
    /\ Finish(t)
    /\ UNCHANGED <<queueVars, buf, out, fDone, filter, cache, rscDev, jobVars,
                   rwVars, runVars, historyVars>>

FeedOne(t) == At(t, "feed") /\ Feed(t, {Arg(t)})
FeedAll(t) == At(t, "feedAll") /\ Feed(t, {gids[i] : i \in 1 .. Len(gids)})

\* flush_filter_cache() of both devices writes to the trace of the current job.
FlushFilterCache(t) ==
    /\ At(t, "flush")
    /\ cache' = [cache EXCEPT ![Arg(t)] = {}]
    /\ Finish(t)
    /\ UNCHANGED <<queueVars, buf, out, fHasWork, fDone, filter, rscDev, jobVars,
                   rwVars, runVars, historyVars>>

\* The loop of pause_and_drain_buffers(), which reads the number of threads anew
\* in each round.
DrainNext(t) ==
    /\ At(t, "drain")
    /\ Continue(t, IF Arg(t) > Len(gids) THEN <<>>
                   ELSE DrainFilter(gids[Arg(t)]) \o << <<"drain", Arg(t) + 1>> >>)
    /\ UNCHANGED <<queueVars, stageVars, jobVars, rwVars, runVars, historyVars>>

FilterQueueStep(t) ==
    \/ Await(t)
    \/ Clear(t)
    \/ RotateFilter(t)
    \/ FeedOne(t)
    \/ FeedAll(t)
    \/ FlushFilterCache(t)
    \/ DrainNext(t)

-----------------------------------------------------------------------------
(* Steps of an application thread on the analysis queue and rw_mtx.        *)

InOrder(cmd) == cmd # "OPENGL_CALL"

PushMarker(t) ==
    /\ At(t, "push")
    /\ Push(t, Marker(Arg(t)))
    /\ IF InOrder(Arg(t)) THEN Issue(Marker(Arg(t))) ELSE UNCHANGED issued
    /\ Continue(t, IF Fills(queue') THEN << <<"handOver", 0>> >> ELSE <<>>)
    /\ UNCHANGED <<stageVars, jobVars, rwVars, runVars, paused>>

HandOverFull(t) ==
    /\ At(t, "handOver")
    /\ HandOver(t)
    /\ Finish(t)
    /\ UNCHANGED <<stageVars, jobVars, rwVars, runVars, historyVars>>

QueueWait(t) ==
    /\ At(t, "queueWait")
    /\ \/ WaitBegin(t) /\ UNCHANGED todo
       \/ WaitEnd(t) /\ Finish(t)
    /\ UNCHANGED <<stageVars, jobVars, rwVars, runVars, historyVars>>

QueueRotate(t) ==
    /\ At(t, "queueRotate")
    /\ Rotate
    /\ paused' = IF Arg(t) = "front" THEN paused \cup {t} ELSE paused
    /\ Finish(t)
    /\ UNCHANGED <<stageVars, jobVars, rwVars, runVars, issued>>

QueueStart(t) ==
    /\ At(t, "queueStart")
    /\ Start
    /\ paused' = paused \ {t}
    /\ Finish(t)
    /\ UNCHANGED <<stageVars, jobVars, rwVars, runVars, issued>>

RwLock(t) ==
    /\ At(t, "rwLock")
    /\ RwFree
    /\ rwWriter' = t
    /\ Finish(t)
    /\ UNCHANGED <<queueVars, stageVars, jobVars, rwReaders, runVars, historyVars>>

RwUnlock(t) ==
    /\ At(t, "rwUnlock")
    /\ rwWriter' = NoThread
    /\ Finish(t)
    /\ UNCHANGED <<queueVars, stageVars, jobVars, rwReaders, runVars, historyVars>>

\* swap_buffers() hands the new frame and scene to the analyzers itself.
ProcessMarker(t) ==
    /\ At(t, "process")
    /\ ProcessAll(Marker(Arg(t)))
    /\ Issue(Marker(Arg(t)))
    /\ Finish(t)
    /\ UNCHANGED <<stageVars, jobVars, rwVars, runVars, paused>>

StopOrGo(t) ==
    /\ At(t, "stopOrGo")
    /\ IF stop = 0
       THEN /\ Continue(t, << <<"rwUnlock", 0>>, <<"exit", 0>> >>)
            /\ UNCHANGED stop
       ELSE /\ Continue(t, Resume \o << <<"rwUnlock", 0>> >>)
            /\ stop' = stop - 1
    /\ UNCHANGED <<queueVars, stageVars, jobVars, rwVars, calls, gids, exited, historyVars>>

\* PIN_ExitApplication() ends every thread of the process where it stands.
Exit(t) ==
    /\ At(t, "exit")
    /\ exited' = "stop"
    /\ UNCHANGED <<queueVars, todo, stageVars, jobVars, rwVars, calls, gids, stop, historyVars>>

QueueStep(t) ==
    \/ PushMarker(t)
    \/ HandOverFull(t)
    \/ QueueWait(t)
    \/ QueueRotate(t)
    \/ QueueStart(t)
    \/ RwLock(t)
    \/ RwUnlock(t)
    \/ ProcessMarker(t)
    \/ StopOrGo(t)
    \/ Exit(t)

-----------------------------------------------------------------------------
(* The filter threads: filter_thread_work_loop(), process_filter_buffer()  *)
(* and process_filter_buffer_item().  A wait that times out does nothing.  *)

FilterAt(f, pc) == exited = "no" /\ filter[f].pc = pc
FilterGoto(f, pc) == filter' = [filter EXCEPT ![f].pc = pc]
InBuffer(f) == buf[f][filter[f].in]
MoreItems(f) == filter[f].pos <= Len(InBuffer(f))
FilterPkt(f) == InBuffer(f)[filter[f].pos]
NextItem(f) == filter' = [filter EXCEPT ![f].pc = "items", ![f].pos = @ + 1]
TakeItem(f, pc) == filter' = [filter EXCEPT ![f].pc = pc, ![f].pkt = FilterPkt(f)]

FilterPop(f) ==
    /\ FilterAt(f, "pop")
    /\ fHasWork[f]
    /\ FilterGoto(f, "popped")
    /\ UNCHANGED <<queueVars, todo, buf, out, fHasWork, fDone, cache, rscDev, jobVars,
                   rwVars, runVars, historyVars>>

FilterClear(f) ==
    /\ FilterAt(f, "popped")
    /\ fHasWork' = [fHasWork EXCEPT ![f] = FALSE]
    /\ FilterGoto(f, "lock")
    /\ UNCHANGED <<queueVars, todo, buf, out, fDone, cache, rscDev, jobVars,
                   rwVars, runVars, historyVars>>

FilterLock(f) ==
    /\ FilterAt(f, "lock")
    /\ rwWriter = NoThread
    /\ rwReaders' = rwReaders \cup {f}
    /\ filter' = [filter EXCEPT ![f].pc = "items", ![f].in = 1 - out[f], ![f].pos = 1]
    /\ UNCHANGED <<queueVars, todo, buf, out, fHasWork, fDone, cache, rscDev, jobVars,
                   rwWriter, runVars, historyVars>>

\* NEW_JOB and END_JOB pass through; END_JOB first flushes the cache of its device.
FilterJobPacket(f) ==
    LET pkt == FilterPkt(f) IN
    /\ FilterAt(f, "items")
    /\ MoreItems(f)
    /\ pkt.cmd # "ACCESS"
    /\ cache' = IF pkt.cmd = "END_JOB"
                THEN [cache EXCEPT ![f] = {l \in @ : l.dev # pkt.job.dev}]
                ELSE cache
    /\ Push(Filter(f), pkt)
    /\ IF Fills(queue')
       THEN FilterGoto(f, "fullThenNext")
       ELSE NextItem(f)
    /\ UNCHANGED <<todo, buf, out, fHasWork, fDone, rscDev, jobVars,
                   rwVars, runVars, historyVars>>

\* An access outside all resources is dropped, one to the resource goes to the cache
\* once the resource is on its device.
FilterAccess(f) ==
    LET pkt == FilterPkt(f) IN
    /\ FilterAt(f, "items")
    /\ MoreItems(f)
    /\ pkt.cmd = "ACCESS"
    /\ \/ /\ NextItem(f)
          /\ UNCHANGED <<queueVars, rscDev>>
       \/ /\ rscDev = pkt.job.dev
          /\ TakeItem(f, "access")
          /\ UNCHANGED <<queueVars, rscDev>>
       \/ /\ rscDev # pkt.job.dev
          /\ rscDev' = pkt.job.dev
          /\ Push(Filter(f), Marker(IF pkt.job.dev = "CPU" THEN "MV_TO_CPU" ELSE "MV_TO_GPU"))
          /\ TakeItem(f, IF Fills(queue') THEN "fullThenAccess" ELSE "access")
    /\ UNCHANGED <<todo, buf, out, fHasWork, fDone, cache, jobVars,
                   rwVars, runVars, historyVars>>

FilterHandOver(f) ==
    /\ HandOver(Filter(f))
    /\ \/ FilterAt(f, "fullThenNext") /\ NextItem(f)
       \/ FilterAt(f, "fullThenAccess") /\ FilterGoto(f, "access")
    /\ UNCHANGED <<todo, buf, out, fHasWork, fDone, cache, rscDev, jobVars,
                   rwVars, runVars, historyVars>>

\* A hit, or a miss that may evict a dirty line of the same device; a write leaves
\* its line dirty under the job of the access.
FilterCacheAccess(f) ==
    LET j == filter[f].pkt.job
        mine == [job |-> j.id, dev |-> j.dev]
    IN
    /\ FilterAt(f, "access")
    /\ \E victims \in {{}} \cup {{l} : l \in {m \in cache[f] : m.dev = j.dev}},
          dirtied \in SUBSET {mine} :
            cache' = [cache EXCEPT ![f] = (@ \ victims) \cup dirtied]
    /\ NextItem(f)
    /\ UNCHANGED <<queueVars, todo, buf, out, fHasWork, fDone, rscDev, jobVars,
                   rwVars, runVars, historyVars>>

FilterFinish(f) ==
    /\ FilterAt(f, "items")
    /\ ~ MoreItems(f)
    /\ buf' = [buf EXCEPT ![f][filter[f].in] = <<>>]
    /\ rwReaders' = rwReaders \ {f}
    /\ filter' = [filter EXCEPT ![f] = [NoFilter EXCEPT !.pc = "signal"]]
    /\ UNCHANGED <<queueVars, todo, out, fHasWork, fDone, cache, rscDev, jobVars,
                   rwWriter, runVars, historyVars>>

FilterSignal(f) ==
    /\ FilterAt(f, "signal")
    /\ fDone' = [fDone EXCEPT ![f] = TRUE]
    /\ FilterGoto(f, "pop")
    /\ UNCHANGED <<queueVars, todo, buf, out, fHasWork, cache, rscDev, jobVars,
                   rwVars, runVars, historyVars>>

FilterStep(f) ==
    \/ FilterPop(f)
    \/ FilterClear(f)
    \/ FilterLock(f)
    \/ FilterJobPacket(f)
    \/ FilterAccess(f)
    \/ FilterHandOver(f)
    \/ FilterCacheAccess(f)
    \/ FilterFinish(f)
    \/ FilterSignal(f)

-----------------------------------------------------------------------------
AnalysisStep(w) ==
    /\ exited = "no"
    /\ WorkerStep(w)
    /\ UNCHANGED <<todo, stageVars, jobVars, rwVars, runVars, historyVars>>

\* assert(trace_data.has_job_id()) in CmdTraceGenerator::process.
AnalysisAbort(w) ==
    /\ exited = "no"
    /\ Asserts(w)
    /\ exited' = "abort"
    /\ UNCHANGED <<queueVars, todo, stageVars, jobVars, rwVars, calls, gids, stop, historyVars>>

\* handle_app_finish(): the application returns from main() on its own.
AppFinish(t) ==
    /\ Idle(t)
    /\ gids[1] = t
    /\ exited' = "finish"
    /\ UNCHANGED <<queueVars, todo, stageVars, jobVars, rwVars, calls, gids, stop, historyVars>>

Exited == exited # "no" /\ UNCHANGED vars

AppStep(t) == JobStep(t) \/ FilterQueueStep(t) \/ QueueStep(t)

Next ==
    \/ \E t \in App : Call(t) \/ AppStep(t) \/ AppFinish(t) \/ FilterStep(t)
    \/ \E w \in Worker : AnalysisStep(w) \/ AnalysisAbort(w)
    \/ Exited

\* The operating system schedules every thread that can run; nothing makes the
\* application call a handler or finish.
Fairness ==
    /\ \A t \in App : WF_vars(AppStep(t)) /\ WF_vars(FilterStep(t))
    /\ \A w \in Worker : WF_vars(AnalysisStep(w) \/ AnalysisAbort(w))

Spec == Init /\ [][Next]_vars /\ Fairness
=============================================================================
