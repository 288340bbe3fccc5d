# GLTraceSim in TLA+

GLTraceSim has two programs. The *generator* is a Pin tool inside a graphics
application and its software renderer: it cuts the execution into frames,
scenes and jobs, filters the memory accesses of each job through a small cache
and writes command streams, job traces and records of frames, scenes, jobs and
resources. The *analyzer* replays such a recording: two devices, the CPU and
the GPU, walk their command streams in lockstep, a scheduler hands the jobs of
each scene to cores, and every packet of a job goes to memory models that
collect statistics.

This directory holds TLA+ modules for the parts of both programs that are hard
to get right, the TLC configurations that check them, and theorems checked by
TLAPS. All source paths below are relative to `src/gltracesim/src/`.

## 1. Inventory

| part | state | operations | talks to | hard behaviour | correct means |
|---|---|---|---|---|---|
| Replay loop (`gltracesim_analyzer.cc`, `analyzer/cpu.cc`, `gpu.cc`, `core.cc`, `system.hh`) | per device: state machine, stream position, barrier id; per core: job and packets left; frame and scene number | `CPU::tick`, `GPU::tick`, `Core::tick`, `handle_new_scene`, `handle_end_scene`, `handle_end_frame`, `handle_new_frame`, `stop_timer_loop` | scheduler, trace manager, resource tracker, virtual memory, memory models | two state machines that meet only through counters; a timer thread | devices meet at the same command; a scene is replayed whole between its boundaries; packets carry the right frame and scene; the replay ends |
| Schedulers (`analyzer/schedular/`) | two job queues, two barrier ids, next scene, next frame | `get_next_job`, `start_new_scene`, `start_new_frame`, `is_*_ready`, `set_*_ready` | devices, trace manager | cores of one device share a queue | every job once, policy order |
| Trace manager (`analyzer/trace_manager.cc`) | four record files, the position and the kept record in each, the job table of a frame | `get_frame`, `get_scene`, `get_job`, `get_resource` | protobuf files | random access over forward-only files, rewinding over a header | the record asked for |
| Records (`frame.cc`, `scene.cc`, `job.cc`, the handlers) | current frame and scene, the numbers of frames, scenes, jobs and resources, the record files | the handlers that begin and end jobs, scenes and frames | all application threads; the trace manager reads the files | a job is numbered in one critical section and recorded in another; scene ends take no lock | unique numbers, cross-references that agree, every lookup of a replay answered |
| Capture (`handle_mem_access`, `process_filter_buffer*`, `flush_filter_cache`, `filter_cache.cc`) | per thread: line buffer, two packet buffers, two filter caches; per instruction: pruning counters; per resource: touched blocks | accesses, hand-over, filtering, flushes, pruning at a swap | handlers of all threads, the resource tracker, the job's trace file | what is buffered, cached or swallowed when a job, frame or resource ends | a job's trace has what the job did to resources |
| Virtual memory (`vmemory.cc`) | free list, translation map, allocated bytes | `alloc`, `free`, `translate` | CPU device, memory models | overlapping resources, growth, random placement | live pages keep a frame of their own |
| Resource tracker (`resource_tracker.hh`) | maps by id and address, dead and zombie lists | `add`, `map`, `destroy`, `resurrect`, `find_*`, `clear_*` | both programs | resources destroyed and looked up later | a lookup finds the live resource |
| Memory models (`analyzer/memory/`) | cache contents, traffic and job statistics | `process`, `start_new_*`, `dump_stats`, `reset_stats` | replay loop | dirty victims, read-before-write | LRU replacement; no write lost; every count divided the same way by job, core and resource |
| Generator events (`gltracesim_generator.cc`) | current frame, scene, jobs per thread, resources | the callbacks of the renderer, `swap_buffers` | all application threads, the pipeline | many threads, pause/resume | the command stream brackets what happened |
| Generator pipeline (`generator/pipeline/`, `util/threads.hh`) | queues of buffers, worker threads, events | `push`, `pop`, `rotate`, `wait`, `signal_producer` | application threads and workers | hand-off of buffers, draining | no item lost, duplicated or overtaken |
| Trace writers (`gem5/trace.cc`, `gem5/protoio.cc`) | output files | `process` | disk | one command for two streams | both streams hold the same commands |
| Statistics (`stats/`, `util/sat_counter.hh`) | histograms, counters | `sample`, `reset` | memory models | bucket edges | every sample in one bucket; saturation |
| Drivers and tools (`gltracesim-analyze`, `gltracesim-generate`, `config/`, `tools/`) | none | command line | files | none | not modelled |

How the parts interact. In the generator, application threads call handlers;
each thread has a filter thread behind two swapped buffers (first stage), and
all of them feed one analysis queue with two swapped buffers (second stage),
from which work threads take analyzers: one trace writer per thread, device and
stream. Everything is shared memory under three mutexes, a read-write lock and
binary events. In the analyzer one thread does everything, except that the stop
timer may clear a flag; the devices share the scheduler, and the scheduler asks
the trace manager for the records. The two programs share the resource tracker,
the memory manager and the cache container, and meet only through files.

`PROJECT.json` lists every component with its status, every definition of the
modules with the lines it models, and the hazards: what is hard to test in this
code, at the line where it bites.

## 2. Modules

| module | models | state and actions |
|---|---|---|
| `Barrier` | the promise of the two-party barrier | how often each party arrived and passed |
| `Replay` | `GlTraceSimAnalyzer::run`, `CPU::tick`, `GPU::tick`, `Core::tick`, the barrier ids and the orders of the `fcfs`, random and z schedulers, `handle_*`, the stop timer | one step per tick of a device (per core while a tick walks the GPU cores): read a command, drain, arrive, wait, pass; `LoopTest`; `StopTimer`. A recording is a record of the command list, the length of each device's stream file, frames, scenes, jobs and the schedule it is replayed with |
| `ZOrder` | the walk of `ZSchedular` over the tiles of a scene | functions: the squares of `z-width` tiles row by row, each cut into quadrants |
| `ReplayProperties`, `MCReplay`, `ReplayProofs`, `ReplayJobProofs` | | properties, recordings for TLC, theorems about the barrier, theorems about jobs, counters, resources, aborts, statistics and the z order |
| `Stream` | the promise of the second stage: every analyzer gets the packets in the order they were pushed | `pushed`, and a log per analyzer |
| `AnalysisQueue` | `generator/pipeline/analysis_queue.cc` and its work threads | the two buffers and `job_queue`, the two events of each work thread, `producer_mtx`; `Push`, `HandOver`, `WaitBegin`/`WaitEnd`, `Rotate`, `Start`, and `Wake`, `Pop`, `Process`, `SignalProducer` of a work thread; a packet an analyzer asserts is not there (`Refused`) is never processed, `Asserts` is where the process ends |
| `QueueProtocol` | the calls `AnalysisQueue` is correct under | `mode`: where a pause is; refines `Stream` |
| `Generator` | the handlers of `gltracesim_generator.cc`, `filter_queue.cc`, the filter threads; the refused packet is `OPENGL_CALL`, at which `AnalysisAbort` ends the process | a handler is the sequence of its steps on buffers, events, locks and jobs (`todo[t]`), run one at a time, so everything interleaves between two of them; uses `AnalysisQueue`, refines `QueueProtocol` |
| `GeneratorProperties`, `MCGenerator`, `MCQueue`, `QueueProofs`, `GeneratorProofs` | | properties, instances, theorems about the queue, theorems about the handlers |
| `VirtualMemory` | `vmemory.cc` | translation, pages in use, free list size; `alloc()` and `free()` one step per page |
| `ResourceMemory` | resource tracker, resource life cycle, filter cache lines, per-frame report | `Create`, `Destroy` and `EndFrame`, which flush the filter cache first, as the pause they begin with does, `Access`, `EndJob`; composes `VirtualMemory` |
| `ResourceProperties`, `MCResources`, `ResourceProofs` | | properties, instance, theorems |
| `MemoryModel` | `base_cache.cc`, `intel_cache.cc`, `ls_cache.cc`, `util/cache_impl.hh`, the cache statistics, saturating counters and distributions they use | `Process` (`Hit`, `FilteredHit`, `Miss` with `Bypass` or `Install`), `StartNewFrame`, which may find no classification file, `StartNewScene`, `EndScene`, `EndFrame` (the last scene of a frame has no `EndScene`), `Abort`; a configuration is picked in the initial state |
| `MemoryProperties`, `MCMemory`, `MemoryProofs` | | properties, instance, theorems |
| `TraceWriter` | the records the handlers write and the numbers they give to frames, scenes, jobs and resources | one step per section under `rw_mtx`; what a handler does outside the lock is a step of its own, kept in `todo[t]`, so `handle_gpu_scene_end` is five steps (`SceneEnd`, `DumpScene`, `IncScene`, `NextScene`, `SyncScene`) and beginning a job two; job ids are `uint32` in the records (`JobIds`) |
| `TraceManager` | `get_frame`, `get_scene`, `get_job`, `get_resource`, `ProtoInputStream::reset` | operators on the position in a file, the count since the last reset and the kept record; record 0 is the header a rewind reads again |
| `TraceRecords` | a recording from both ends | composes the two: `WriterStep` of every thread, `EndApplication` (any tail of the command stream is lost), then the lookups of the replay loop at each command |
| `MCRecords`, `RecordProofs` | | instance, theorems |
| `Capture` | the way of an access from `handle_mem_access` to the trace file of its job, and what the drains, frames, resources and new code do to it | `Access` (`Skip`, `Swallow` or `HandOn`), `HandOver`, `FilterItem` (one block), `Pause`, `EndJob`, `NewJob`, `ResourceCreate`, `ResourceDestroy`, `SwapBuffers`, `NewCode`, for one thread; the victim of a full cache is a choice |
| `CaptureProperties`, `MCCapture`, `CaptureProofs` | | properties, instance, theorems |

An operator whose name extends that of the definition after it and that no
action uses (`GpuReadyOffByOne`, `UsedCleans`, ...) is a plausible bug: `PROJECT.json`
pairs each property with one that TLC finds to violate it. History variables
are marked as such where they are declared; no guard reads them, except that
the lengths of some bound a run.

Data is abstracted: a packet is a command with the job and resource it belongs
to; an address is a block number (`ResourceMemory`), a sub block number
(`MemoryModel`) or a byte (`Capture`); trace files are
sequences of records, or the set of packets in them (`Capture`). Uninitialised
`System::running` and `mem_inst_t::accesses_gpu_resource`
(`gltracesim_generator.cc:44`) are choices over both values. Random page
placement and the random scheduler are choices over all outcomes.

Three modules look at one handler from different sides, since one state space
cannot hold all of them: `Generator` has its synchronisation, `TraceWriter` the
records it writes, `Capture` what becomes of the accesses around it. Each says
at its top what it leaves to the others.

## 3. What the runs show

| run | instance | shows |
|---|---|---|
| `replay` | two frames, three scenes, eight jobs (one empty), two GPU cores; a recording cut after any command, or each stream file cut at any place, under `fcfs`; under the random order stopped after one frame, by the timer or by nothing; under the z order a scene of three by two tiles with squares of 1, 2, 4, 3 or as many tiles as needed, with and without two tiles at one coordinate; a stream with an `OPENGL_CALL` | devices meet at the same command and implement `Barrier`; jobs run whole; packets carry the frame and scene that recorded them; boundaries are crossed only when all jobs are done; every packet is in one statistics record; resources destroyed in mid-scene are still found; tiles leave the queue along the z curve; no assert fails, but for a job the timer cuts off and for the command of an OpenGL call, for which the devices have no case; replay of whole streams without such a command ends, with all frames |
| `replay_lost_tail` (violation) | stream files cut before the frame records end | the loop spins for ever after "No more packets, exiting..." |
| `queue_protocol` | two work threads, two analyzers, buffers of two, three packets | unlocked `start()` and `rotate_buffers()` never meet a work thread; each analyzer gets the stream in order (refines `Stream`) |
| `generator_calls` | one application thread with its filter thread, one work thread, any two of eight handlers | a pause drains everything; accesses and dirty lines belong to the running job; boundaries keep the order of the calls; stopping loses nothing; the handlers follow `QueueProtocol`; every handler returns, or the process has ended |
| `generator_threads` (violation) | two application threads, one flushing, one rasterising | two drains of one filter queue consume one event twice and discard a buffer |
| `resource_memory` | three resources over four ranges on two pages, chunks of two, one cache line, fragmented free list | page search ends, frees what is mapped, live pages stay with their resource, no cached line outlives its resource or its translation though addresses and pages are used again, no use is lost from the reports; all of them are also proved |
| `cache_models` | four packets out of five, two sets of two ways, two sub blocks, counters saturating at 2, numbers modulo 2, two frames of two scenes; base, bypassing and limit study model | LRU; every written block is dirty or sent; jobs, resources and cores add up to the cache, and traffic to the packets sent; counters belong to the current block; frame, job and resource reuse is what the uses say; shared blocks miss once a frame |
| `cache_scene_reuse` (violation) | the same | intra-scene reuse is counted across frames |
| `trace_records` | two threads, six handlers of any kind in any interleaving an orderly application has, two tiles, ids modulo 4, three frames; the application ends anywhere and any tail of the command stream is lost | records are numbered and refer to each other consistently; the z order's width and height cover the tiles; no lookup of the replay fails; the scheduler is given the scenes that were rendered, with their jobs |
| `record_threads` (violation) | the same, in any interleaving | a job begun while another thread swaps or ends a scene is not in the job table its scene is looked up in |
| `capture` | two instructions, ten accesses of 1, 2, 40 and 256 bytes to three lines, in two resources and outside, filter cache blocks of half a line, one-line caches, buffers of two packets, jobs of both devices, resources, frames and new code at any time | a job's trace misses nothing but three named gaps; pruning stops no instruction that handed on an access to a resource; the two counts of touched blocks agree |
| `capture_all` (violation) | the same, with blocks of 64 bytes | an access across a block boundary loses its second block |

The bounds. Barriers, drains and boundaries repeat after one frame with a second
scene and one more frame, which the recordings have; two cores suffice for jobs
to overlap and for one core to be idle while the other works. Three by two tiles
are the smallest scene a square of four covers with tiles left over, and that
squares of one and two cut into rows and columns. A buffer of two packets is the
smallest a pause can push into, and makes every hand-over happen after two calls; two handlers in a row show what
the first leaves for the second. `generator_calls` has one work thread because
`queue_protocol` has two and the theorems any number. Two pages with ranges that
share one, and three resources, give reuse of addresses, pages and lines, and overlap. Four
packets fill a set, reuse a line, evict it and come back. Six handlers suffice
for both threads to start a job, list it in different scenes and frames, and end
them; ids modulo 4, and 8 job ids, are more than the numbers given, so that only a missing or
narrowed number makes two of them equal. Six calls let an access be buffered,
handed over, filtered and evicted around a job, a frame and a resource that
begin or end; blocks of half a line let an access of a few bytes end in the next block, and the line
buffer hold two. All bounds are
constants named in the `.cfg` files (`MaxCalls`, `Frames`, `MaxPushed`,
`JobIds`, `MaxResources`, `MaxPackets`, `MaxFrames`, `MaxScenes`); `cache_models` does not
check deadlock since a replay ends at the last frame.

Fairness. `Replay`: weak fairness of the loop, which is one running thread;
none for the stop timer. `Generator`: weak fairness of every thread's steps, as
an operating system schedules threads that can run; none for calls, the
application may stop calling. A wait on an event or lock is a step enabled only
when it can go on, so weak fairness does not decide who wins a lock. The queue,
the resources, the caches, the records and the capture are checked for safety
only.

## 4. Findings

Listed in `PROJECT.json` with their lines; each is the counterexample of one of
the violation runs above. What else was seen while reading and is not a run:

- `System::running` is never initialised; if it holds FALSE nothing is replayed.
  `Replay` starts with either value, and `ReplaysAllFrames` asks for TRUE.
- The stop timer may stop the loop in the middle of a job, whose destructor then
  asserts that no packet is left (`job.cc:55`). `NoAbort` excepts that.
- The z order halves the side of a square as an integer: a `z-width` that is no
  power of two, or two tiles at one coordinate, drops tiles, and the check in
  `z.cc` ends the replay. `NoAbort` excepts these recordings and
  `TilesFollowTheCurve` the former; the other properties hold for them too.
- When the application returns from `main()`, commands and accesses may still be
  in the generator's buffers and are lost. The record files are complete, which
  is why `trace_records` reads them with any tail of the command stream missing.
- A rewind of a record file (`protoio.cc:178`) reads the header again, as a
  record. Requests in order, with the kept record in between, are answered all
  the same (`NoLookupFails`); others would not be.
- `get_resource()` rebuilds a texture one byte short: its end is inclusive
  (`trace_manager.cc:355`).
- `get_mipmap_level()` gives 0 for addresses of the last level
  (`resource.cc:114-121`); it only serves a histogram.
- Three things leave a gap in a job's trace, each named in `TraceCoversJob`. A pruned
  instruction is not traced at all (`gltracesim_generator.cc:1742`). The blocks of an
  access are counted from an address already aligned, with a length of eight bits
  (`:1580-1583`, `:466`), so the end of an access that crosses into a next block is
  cut, and one of 256 bytes has its first block only. The line buffer outlives the
  job and the resources it was filled under and may hold more than one block
  (`:488`), so an access it swallows need not be in this job's trace.
- An instruction is pruned by the accesses the filter threads see. One whose accesses
  to resources were all swallowed or cut is pruned, though `gltracesim-generate:155`
  says only those that are not to GPU resources are; `NoBufferedUseIsPruned` is about
  accesses handed on. Accesses during fast forward are neither seen nor wanted.
- `Capture` has filter cache blocks of up to 64 bytes, a power of two, and
  resources that begin with a block: the renderer's allocator aligns memory to a cache
  line, and the line buffer has 64 hard-wired (`:484`). The generator takes any size.
- The file prefetch thread of the trace manager is never started.
- The first OpenGL call ends a recording: `handle_opengl_call` is inserted for every
  gl routine (`gltracesim_generator.cc:1984-2003`) and pushes an `OPENGL_CALL` with
  job id -1, which every analyzer there is, a `CmdTraceGenerator`, asserts to be set
  (`gem5/trace.cc:153`). `HandlersReturn` counts that as an end of the process, and
  the other properties of `Generator` hold up to it. Built without assertions the
  recorder writes the command to both streams, and the replay has no case for it:
  `assert(0)` at `cpu.cc:256` and `gpu.cc:203`. `NoAbort` names it, and
  `ReplaysAllFrames` is about streams without one (`NoOpenGlCalls`).
- The generator's constructor pauses before any thread exists: the second
  rotation drops the `NEW_FRAME` of the first frame (`gltracesim_generator.cc:201`),
  so a recording starts with `NEW_SCENE`, which is what `Replay` starts from.
- Two application threads pausing at once can wait for each other through
  `producer_mtx` (`analysis_queue.cc:182`); the constructor puts each analyzer
  into `job_queue` five times although a comment speaks of a single consumer.
- `OPENGL_CALL` overtakes job packets buffered in the first stage;
  `StreamKeepsProgramOrder` leaves it out, with the moves the filter thread finds
  and the accesses, which stay in the first stage.
- A block that starts below an unaligned resource is not found to belong to it.
- `free()` and `destroy()` invalidate no line of a filter cache; that no line of a dead
  resource is hit by the next one at its address rests on the flush of the pause
  alone. With it nothing dead is ever written back, and `resurrect()` is never needed.
- Of two resources that meet in a page the later one remaps it, the page it had stays
  in use, and the first to go frees the new one under the other: `PagesArePrivate`
  excludes that by a history variable.
- The free list grows every `ChunkSize` allocations even when pages were freed.
- `core_stats` never counts misses (`base_cache.cc:158`, `ls_cache.cc:329`),
  though README.md:147 says the statistics files hold the same information;
  files are written per scene, not per job as it says.
- All memory traffic counts under the command of the packet that caused it: a
  fetch for a write miss is `WRITE` traffic, a write back for a read `READ`.
- A bypassed or filtered write is never sent to memory as a write.
- Numbers of jobs, resources and frames from 65536 on are never recognised as
  reuse (`base_cache.hh:55-70`). 256 sub blocks in a block would make the
  eviction loop of `base_cache.cc:196` endless (`uint8_t`).
- A swap writes `NEW_FRAME` and `NEW_SCENE` but no `END_SCENE`, so the statistics of a
  frame's last scene are dumped with the first scene of the next frame that ends, and
  those of the last frame never are.
- The set index of a cache is a mask (`util/cache_impl.hh:32`); it uses all sets only
  if their number is a power of two, which `NumSetsAssumption` asks for.
- A missing classification file stops the replay (`ls_cache.cc:55-60`), and a packet
  of a resource the tracker does not know fails an assertion of the bypassing model
  (`intel_cache.cc:51`): `LoadInter` and `UnknownResource`.
- Every memory model sees the whole stream: `add_child_analyzer` has no caller.

## 5. What is proved

TLAPS checks these for all values of the constants that satisfy the named
assumptions (recordings whose stream files hold a prefix of the commands; at least one
work thread, buffers of at least two packets; ranges within the virtual pages).

`ReplayProofs`. `TypeCorrect`; `LockstepHolds`: the barrier ids in the scheduler
are the devices' own and the CPU is level with the GPU or one behind;
`BarrierImplemented`: hence each tick is a step of `Barrier` or a stutter;
`DevicesMeet`: when the CPU passes a barrier both have read equally many records.
The barrier ids do not say that by themselves; the strengthening `MeetInv`
counts the synchronising commands each device has read, equals it with the
barrier id, and uses that both streams hold the same commands, so equal counts
at a synchronising command mean equal places.

`ReplayJobProofs`, for at least one GPU core (without one a GPU job is queued and
never run) and for recordings as the generator's handlers leave them
(`RecordingsAssumption`: a job is numbered and listed in one go, a NEW_SCENE comes
with the record of its scene, a resource is destroyed once and after its creation,
what a job touches was created before the command that ends its scene, and a scene
is as wide and as high as its tiles need).
`BoundariesHold`, `JobsAreRunWhole`: what a job of the scenes loaded so far still
has to send is in one place, all of it in one queue or its rest in one core
(`QueuesInv`, `CoresInv`), or it was sent (`ServedInv`); the devices change scene
only together at a barrier, and a device passes one with its queue and its cores
empty (`SyncInv`, `DrainInv`).
`FrameAndSceneAreRight`: the counters are functions of how many commands the CPU
has dealt with (`CountInv`), and the records loaded are those of the NEW_SCENEs it
passed (`NumberInv`).
`ResourcesAreKnown`: a GPU job runs when the CPU has read at least up to the command
that ended its scene (`PaceInv`), so the resources of its packets are known
(`KnownInv`), and dead only if an END_RESOURCE of theirs was read (`AliveInv`).
`AbortsOnlyAsNamed`: scene records do not run out, queues are empty at each
boundary and each resource is alive when destroyed, so no assertion is left but
that of a job the stop timer cut short, that of a device that read an `OPENGL_CALL`
(`ReadOpenGlCall`), and under the z order that of a walk leaving tiles out
(`WalkCovers`), which the next paragraph excludes.
`StatisticsCountOnce`, which needs no hypothesis: the records dumped, joined, and
what is counted since are the packets sent (`OnceInv`); a step appends to the count
and to the packets, or moves the count to a record. What joining a sequence of
sequences gives when it grows by one (`FlattenAppend`) is shown of the function
`FlattenSeq` defines.

`TilesRunInOrder`, in the same module, without a hypothesis on the constants, and what
`WalkCovers` asks for. A recording gives a scene the width and height of its tiles
(`TilesInScene`), and the property and `NoAbort` are about z-widths that can be halved
down to one tile (`Halving`, `ZWalkable`); with a z-width of 6 neither would hold.
The invariant is short (`CurveInv`: what waits in the GPU's queue is in the order in
which the loaded scene was arranged); the work is what the recursion computes.
`RecursionHolds` and `RecursionType` say it once for every function that recurses down
a measure: there is a function that satisfies the recursion, and its values are of the
type each step keeps. With them `Pow2`, `Tour` and
`Morton` unfold. `TourFollows`: for every power of two, the tour of a square meets each
of its tiles once, the k-th having the interleaved bits k - 1, since a quarter is
the tour of half the side and the quadrant gives the two upper bits
(`QuadrantsFollow`). `SquaresFollow` sets squares side by side, `SideCovers` says that
the rounded side covers the scene, and `WalkFollows` that the walk goes along the
curve and gets to every tile.

`QueueProofs`. `QueueTypeCorrect`, `ThreadsParked`, `BufferStays` and `Delivery`
(`QueueProtocol` implements `Stream`). The inductive invariant says: a work
thread is done only if `job_queue` is empty and it holds nothing (`Handshake`);
the two buffers are the tail of what was pushed (`Buffered`); while the analysis
buffer is not empty an analyzer is queued once, or held by one thread, never
both (`OneHolder`), which is what makes the fivefold queueing of the constructor
harmless; and where an analyzer is says how long its log is (`Progress`).

`GeneratorProofs`, for one application thread (`OneThread`) with its filter thread,
any number of work threads and analyzers, any buffer size of at least two, and any
handlers in any order. The hypothesis is needed: `generator_threads` shows
`RotationDiscardsNothing` fail with two. `PacketAssumption` says that the packets the
handlers issue are in `Packet`, for the jobs a bounded run can begin (`MaxJobs`).
A handler is the sequence of its steps, and what makes a step safe is where in its
handler it stands. So the steps left are typed: a label says who has the filter
queue, which buffers are empty, whether a job is open, how far a pause has come and
how many packets may still be issued, and a rule says which step may follow which
label (`FilterRule` and the rules after it). Every handler leads from "a job is open, the filter
thread has the queue" back to it, however its drains and flushes are nested. The
invariant `IInv` says that some label leads on through the steps left and that what
it says of the buffers, the filter thread and the locks is so; a step either takes
the rule its label allows or unfolds into steps whose rules compose to it.
`NothingDiscarded`: only the application thread rotates, and a label under which it
may has an empty front buffer. `AccessesBelong`: the job changes only under a label
that has buffers and filter caches empty. `ProtocolFollowed`: the label gives the mode
of `QueueProtocol`, and each step is a step of that protocol or a stutter, which holds
only in the states the invariant of `QueueProofs` describes; the two are proved
together. By instantiation of `QueueProofs` everything said there of the queue then
holds in the generator: `AnalyzersGetTheStream` is its delivery theorem from handler to
analyzer, and `PauseDrains` and `StopIsComplete` add to an empty first stage that a
paused second stage has delivered everything (`PausedDelivered`).
`ProgramOrderKept` and `NothingLost`: what the stream has of the packets whose order
the calls decide, then what the filter thread has left of its buffer, then what the
application thread has buffered, are together the packets issued (`OrderInv`). A packet
that skips the first stage is pushed only under a label that has that stage empty.
What a selection from a sequence does when the sequence grows or is split is shown of
the function `OrderedOf` defines, place by place.

`ResourceProofs`. `ResourceTypeCorrect`, `SearchAlwaysEnds`, `FreesMappedPages`,
`PagesStayPrivate`, `LinesStayWithResources`, `EveryUseIsReported`. `allocated`
only grows, bounds the pages in use and stays below the free list when a search
starts (`Room`); a loop of `alloc()` works on pages of a live resource, one of
`free()` on those of the resource just destroyed (`Looping`, `Translated`);
until resources overlap neither meets a page of another (`Apart`); live ranges are
disjoint, so a line is hit for one resource, and the filter cache is empty from the
start of a creation or destruction until its loop over the pages is done, so no
translation changes under a line (`Tracking`).

`CaptureProofs`, for any accesses, block size up to 64, sets of blocks of resources,
cache and buffer size, any victim and any threshold. `TypeCorrect`. `PruningSeesBuffers`: an
access of an instruction that the filter thread has not counted yet is in one of
the two buffers, its resource stays while it is there, and a swap prunes only
when both are empty (`UsersSeen`). `ReportsAlwaysAgree`: at any time what the cores
touched and what went past the caches agree once the dirty lines are added to
the second (`Consistent`); clean lines were fetched in this frame, since every
swap flushes (`CleanFetched`). `TracesAreComplete`: what the job wants in its trace
is there, or in one of the three gaps, or still on its way in a dirty line or a
buffer (`Covered`); what the line buffer swallows is covered, or named as a gap,
as the blocks the access that filled it handed on are (`HeldCovered`).

`MemoryProofs`, for any packets, geometry, masks, saturation limit and kind of
model. A packet changes at most one line, and that line alone holds its block
afterwards (`Placed`). With it: `NoWriteIsLost`, the written blocks not yet sent on
are the dirty ones in the cache (`Pending`); `CountersNeverLag`, for which a line
that was never used must count nothing (`Counted`); `ReplacementIsLru`, for which
no two blocks were last used at once and a block that was used and is gone is
older than everything in its set (`LruInv`); `SharedBlocksMissNoMore`, as a shared
block that missed is remembered until the frame ends (`SharedInv`);
`IntraHitsCountReuse`, as a line stores the numbers of the last use of its block
(`Remembered`). A line keeps 16 bits of each number, so this one assumes that no job
or resource whose number wraps is taken for another of the run (`NumbersDiffer`,
which `cache_models`'s packets meet with a job that does wrap); frames need no
assumption, for a frame that is stored wrapped is below every later one.
`HitsAndMissesAddUp`, for finitely many packets, so that there are finitely many
accounts: a step adds the same to one account of each kind, to the cache's and to what
was sent (`StatsInv`), and a sum over accounts moves by what one of them moves by.

`RecordProofs`, for any number of threads, tiles and ids, orderly or not.
`TypeCorrect`; `NumbersHold`: a job is numbered in one section and recorded in
another, so the invariant also holds the ids of the jobs a thread has yet to
record: below the counter, not recorded, and distinct between threads
(`PendingNew`, `PendingDistinct`). A record keeps 32 bits of a job's id; the model
makes at most `JobIds` jobs, as no application comes near 2^32. `JobsAreListed`, for orderly threads
(`record_threads` shows it fail for others): a thread that ends a scene or frame is
alone in the handlers (`EndsAlone`), so a scene is written when it is complete; scenes
are numbered by their place (`SceneNumbered`), list ids below the counter (`ListedBelow`)
and no id twice (`ListedOnce`), and every recorded job and every job still to be
recorded has its place in one of them (`JobsPlaced`).
`LookupsSucceed` and `RecordingsReadBack`, for orderly threads and fewer frames than
frame ids (`FewFrames`; ids are `uint16_t`, and the lookup of frame 65536 would ask
for an id no record has), from `ReaderAssumption`: NULL is no record, and the header
read as a job has frame 0. Two invariants carry them. While the application runs,
the command stream fits what was rendered (`Fits`; at most one `NEW_SCENE` is due, of
the scene just begun): at every place in it the scenes
begun so far are of frames ended or the current one, and later scenes are not of
earlier frames; so wherever it is cut, a scene it announces before the last
NEW_FRAME on disk is complete in the files (`SceneComplete`), with the jobs it was made
with (`ScenesShown`), and job records come by frame (`JobsSorted`). While the analyzer
reads, what it asks for next is one past what it read last (`ReadInv`): no file is
rewound except the jobs', whose table is that of one frame whole (`ReadsJobsOf`).
What a wrong interleaving would do to these lookups `record_threads` shows.
`FramesListed`, under the same two hypotheses: the scenes the current frame has listed
are those of its number among the records, in their order, and the records of a
closed frame get no more scenes, as its number does not come again (`ListInv`).

Only model-checked: liveness (`Terminates`, `ReplaysAllFrames`, `HandlersReturn`),
which needs fairness and `ENABLED`. Every other property of the passing runs is
stated by a theorem. The library's induction theorems take an operator, which none of
the installed provers can instantiate; where data is recursive the proofs use that a set
of naturals that is not empty has a least element (`LeastOf`): what fails for some
length, sum or measure fails first for one, and the step from the one before it
contradicts that. `NumGpuCores > 0`, `OneThread`, `Orderly`, `FewFrames`, `NumbersDiffer`
and finitely many packets are the hypotheses of theorems; each is named above with the
reason the code gives for it.

## 6. What is not modelled

- The file scheduler: no configuration selects it and its queues are never filled.
- Mipmap levels, images and JPEG dumps of resources, basic block counts,
  durations and OpenGL call lists of the records: data for reports only.
- The variable distribution, the histograms of `stats/` and child analyzers: no
  code of the two programs uses them.
- The generator's stop timer: it exits the application from outside any handler,
  which loses what is buffered, as the end of the application does.
- Set index and LRU of the filter caches in `Capture`, where any line may be the
  victim; `MemoryModel` has both, they share `util/cache_impl.hh`.
- Two threads that pause at once, beyond the run `generator_threads`: which calls
  of a renderer can overlap is not in this code.
- Protobuf encoding, compression, logging, timers, command line drivers and the
  build: I/O or formatting. Pin and Mesa are external; the handlers they call are
  modelled.

## 7. Plan

1. Done: `Replay` with the three orders; `AnalysisQueue`, `QueueProtocol`,
   `Generator`; `VirtualMemory`, `ResourceMemory`; `MemoryModel`; `TraceWriter`,
   `TraceManager`, `TraceRecords`; `Capture`.
2. Model: `Capture` for two threads, whose filter threads share a resource's marks
   and an instruction's counters and update both without a lock
   (`gltracesim_generator.cc:1400`, `1415`, `1459`): a lost miss delays pruning, a
   lost mark changes a count of touched blocks.
3. Prove: the safety properties are proved; liveness stays with TLC until the prover
   handles `ENABLED`.
