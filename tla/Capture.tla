------------------------------- MODULE Capture -------------------------------
(***************************************************************************)
(* The way of a memory access of one application thread into the trace of  *)
(* its job: the test of the instruction that makes it, the line buffer,    *)
(* the two buffers of the filter queue, and the filter thread with its     *)
(* caches, one per device.  What the other threads do to it is to drain    *)
(* and flush it (pause_and_drain_buffers) and to end frames; how the       *)
(* threads synchronise is in Generator, which address a resource has and   *)
(* what becomes of a destroyed one in ResourceMemory.                      *)
(***************************************************************************)
EXTENDS Naturals, FiniteSets, Sequences

CONSTANTS
    Inst,           \* the instrumented instructions (mem_inst_t)
    Accesses,       \* what an instruction may do: [cmd, addr, len]
    FilterBlkBytes, \* filter-cache.blk-size: bytes of a block
    Rsc,            \* Rsc[r]: the blocks of resource r, whose memory starts with one
    FetchOnWrMiss,  \* the values fetch-on-wr-miss may have
    CacheLines,     \* lines of a filter cache
    BufferSize,     \* packets a buffer of the filter queue holds
    Threshold,      \* auto-prune-mem-insts-threshold
    Start,          \* the values sim_ctrl.start may have: frames fast forwarded
    MaxCalls        \* bound: accesses and handlers

Cmd == {"READ", "WRITE"}
Dev == {"CPU", "GPU"}

\* The line buffer's lines have 64 bytes whatever the block size is.
LineBytes == 64

\* Blocks are powers of two, as the filter cache masks addresses, and no larger
\* than the alignment of a resource.  No program has memory in line 0, where the
\* line buffer starts.
ASSUME CaptureAssumption ==
    /\ FilterBlkBytes \in {1, 2, 4, 8, 16, 32, 64}
    /\ Accesses \subseteq [cmd : Cmd, addr : Nat, len : Nat \ {0}]
    /\ \A a \in Accesses : a.addr >= LineBytes
    /\ FetchOnWrMiss \subseteq BOOLEAN
    /\ CacheLines \in Nat \ {0} /\ BufferSize \in Nat \ {0}
    /\ Threshold \in Nat /\ Start \subseteq Nat /\ MaxCalls \in Nat

VARIABLES
    fetch,          \* params.fetch_on_wr_miss
    known,          \* mem_inst_filter
    inst,           \* inst[i]: [filter, misses, hit] of the mem_inst_t
    newCode,        \* has_new_code
    start,          \* sim_ctrl.start
    job,            \* the device of the thread's job, "none" between two jobs
    lineBuffer,     \* [line, dirty]
    front,          \* filter_queue->gpu: packets the thread wrote
    back,           \* filter_queue->fin: packets, with the blocks left to filter
    alive,          \* the live resources
    unborn,         \* the resources not created so far
    lines,          \* the valid lines of the filter caches
    trace,          \* the packets in the trace file of the current job
    touched,        \* blk_state: <<resource, block, mark>>
    report,         \* the blk_state of the last frame's statistics
    calls,          \* accesses and handlers so far
    wanted,         \* history: [cmd, blk, gap] the job did on resources
    held,           \* history: blocks handed on, for this job and the resources
                    \* that live, by the access that filled the line buffer
    users           \* history: instructions that handed on an access to a resource

instVars == <<known, inst, newCode>>
pipeVars == <<lineBuffer, front, back>>
cacheVars == <<lines, trace, touched>>
historyVars == <<wanted, held, users>>
vars == <<fetch, instVars, start, job, pipeVars, alive, unborn, cacheVars, report, calls,
          historyVars>>

Blk(addr) == addr \div FilterBlkBytes
Line(addr) == addr \div LineBytes
FirstBlk(a) == Blk(a.addr)
LastBlk(a) == Blk(a.addr + a.len - 1)

\* system->rt->find_addr
RscOf(b) == {r \in alive : b \in Rsc[r]}

\* mem_inst_t(): accesses_gpu_resource is not initialised.
NewInst(hit) == [filter |-> FALSE, misses |-> 0, hit |-> hit]

Init ==
    /\ fetch \in FetchOnWrMiss
    /\ known = {}
    /\ inst \in [Inst -> {NewInst(hit) : hit \in BOOLEAN}]
    /\ newCode = FALSE
    /\ start \in Start
    /\ job = "CPU"
    /\ lineBuffer = [line |-> 0, dirty |-> FALSE]
    /\ front = <<>> /\ back = <<>>
    /\ alive = {} /\ unborn = DOMAIN Rsc
    /\ lines = {} /\ trace = {} /\ touched = {} /\ report = {}
    /\ calls = 0
    /\ wanted = {} /\ held = {} /\ users = {}

Called == calls < MaxCalls /\ calls' = calls + 1

-----------------------------------------------------------------------------
(* handle_mem_access, in the thread: that of the Pin tool, then that of     *)
(* GlTraceSim, which has the length in eight bits.                         *)

Length(a) == a.len % 256

\* The line buffer has the first and the last byte.
InLineBuffer(a) ==
    /\ Line(a.addr) = lineBuffer.line
    /\ Line(a.addr + Length(a) - 1) = lineBuffer.line

\* Mutant: asks only whether the line is the same.
SwallowedAnyCmd(a) == InLineBuffer(a)
Swallowed(a) == InLineBuffer(a) /\ (a.cmd = "WRITE") = lineBuffer.dirty

Packet(i, a) == [cmd |-> a.cmd, inst |-> i, addr |-> a.addr, len |-> Length(a)]

\* The blocks process_filter_buffer makes of a packet, at least one: it aligns the
\* address before it adds the length, so it may miss the last.
LastItem(p) == FirstBlk(p) + (IF p.len = 0 THEN 0 ELSE (p.len - 1) \div FilterBlkBytes)
Items(p) == FirstBlk(p) .. LastItem(p)

BlocksOf(a) == FirstBlk(a) .. LastBlk(a)
OnResource(bs) == {b \in bs : RscOf(b) # {}}

\* The job wants the blocks of a; those not in kept get lost, in the gap named.
Wants(a, kept, gap) ==
    wanted' = wanted \cup {[cmd |-> a.cmd, blk |-> b, gap |-> IF b \in kept THEN "none" ELSE gap] :
                             b \in OnResource(BlocksOf(a))}

\* The Pin tool's handler does nothing for an instruction that is filtered.
Skip(i, a) ==
    /\ inst[i].filter
    /\ Wants(a, {}, "pruned")
    /\ UNCHANGED <<lineBuffer, front, held, users>>

Swallow(i, a) ==
    /\ ~ inst[i].filter /\ Swallowed(a)
    /\ Wants(a, held, "swallowed")
    /\ UNCHANGED <<lineBuffer, front, held, users>>

HandOn(i, a) ==
    LET p == Packet(i, a) IN
    /\ ~ inst[i].filter /\ ~ Swallowed(a)
    /\ lineBuffer' = [line |-> Line(a.addr), dirty |-> a.cmd = "WRITE"]
    /\ front' = Append(front, p)
    /\ Wants(a, Items(p), "cut")
    /\ held' = Items(p)
    /\ users' = IF OnResource(Items(p)) # {} THEN users \cup {i} ELSE users

\* While frames are fast forwarded no access has an effect.  A thread whose buffer
\* is full waits in process_buffer.
Access(i, a) ==
    /\ Called
    /\ job # "none" /\ start = 0 /\ i \in known
    /\ Len(front) < BufferSize
    /\ Skip(i, a) \/ Swallow(i, a) \/ HandOn(i, a)
    /\ UNCHANGED <<fetch, instVars, start, job, back, alive, unborn, cacheVars, report>>

\* process_buffer: when the buffer is full, or to drain it at any time.
Aligned(p) == [cmd |-> p.cmd, inst |-> p.inst, blk |-> FirstBlk(p), last |-> LastItem(p)]

HandOver ==
    /\ front # <<>> /\ back = <<>>
    /\ back' = [k \in DOMAIN front |-> Aligned(front[k])]
    /\ front' = <<>>
    /\ UNCHANGED <<fetch, instVars, start, job, lineBuffer, alive, unborn, cacheVars, report,
                   calls, historyVars>>

-----------------------------------------------------------------------------
(* process_filter_buffer_item, in the filter thread.                       *)

Dirty(ls) == {l \in ls : l.dirty}
WrittenBack(ls) == {[cmd |-> "WRITE", blk |-> l.blk] : l \in Dirty(ls)}
WriteMarks(ls) == {<<l.rsc, l.blk, "gpuWrite">> : l \in Dirty(ls)}

CoreMark(cmd) == IF cmd = "READ" THEN "coreRead" ELSE "coreWrite"

MissesResource(p) ==
    /\ RscOf(p.blk) = {}
    /\ inst' = [inst EXCEPT ![p.inst].misses = @ + 1]
    /\ UNCHANGED cacheVars

Hit(p, r) ==
    /\ \E l \in lines :
         /\ l.dev = job /\ l.blk = p.blk
         /\ lines' = (lines \ {l}) \cup {[l EXCEPT !.dirty = @ \/ p.cmd = "WRITE"]}
    /\ touched' = touched \cup {<<r, p.blk, CoreMark(p.cmd)>>}
    /\ UNCHANGED trace

\* Any line of a full cache may be the one that makes room.
Miss(p, r) ==
    LET own == {l \in lines : l.dev = job}
        fetched == p.cmd = "READ" \/ fetch
    IN
    /\ \A l \in own : l.blk # p.blk
    /\ \E victims \in SUBSET own :
         /\ Cardinality(victims) = IF Cardinality(own) < CacheLines THEN 0 ELSE 1
         /\ lines' = (lines \ victims) \cup
                     {[dev |-> job, blk |-> p.blk, rsc |-> r, dirty |-> p.cmd = "WRITE"]}
         /\ trace' = trace \cup WrittenBack(victims) \cup
                     (IF fetched THEN {[cmd |-> "READ", blk |-> p.blk]} ELSE {})
         /\ touched' = touched \cup WriteMarks(victims) \cup {<<r, p.blk, CoreMark(p.cmd)>>}
                       \cup (IF fetched THEN {<<r, p.blk, "gpuRead">>} ELSE {})

MeetsResource(p) ==
    \E r \in RscOf(p.blk) :
        /\ inst' = [inst EXCEPT ![p.inst].hit = TRUE]
        /\ Hit(p, r) \/ Miss(p, r)

\* One block of the packet at the head.
FilterItem ==
    /\ back # <<>>
    /\ MissesResource(Head(back)) \/ MeetsResource(Head(back))
    /\ back' = IF Head(back).blk < Head(back).last
               THEN [back EXCEPT ![1].blk = @ + 1] ELSE Tail(back)
    /\ UNCHANGED <<fetch, known, newCode, start, job, lineBuffer, front, alive, unborn, report,
                   calls, historyVars>>

-----------------------------------------------------------------------------
(* The handlers that drain the buffers and flush the filter caches.        *)

\* Mutant: waits for the back buffer only.
DrainedBack == back = <<>>
\* Both rounds of wait() have returned.
Drained == front = <<>> /\ back = <<>>

FlushFilterCaches ==
    /\ lines' = {}
    /\ trace' = trace \cup WrittenBack(lines)
    /\ touched' = touched \cup WriteMarks(lines)

\* handle_sync, or a pause of another thread.
Pause ==
    /\ Drained /\ lines # {}
    /\ FlushFilterCaches
    /\ UNCHANGED <<fetch, instVars, start, job, pipeVars, alive, unborn, report, calls,
                   historyVars>>

EndJob ==
    /\ job # "none"
    /\ Drained
    /\ FlushFilterCaches
    /\ job' = "none"
    /\ UNCHANGED <<fetch, instVars, start, pipeVars, alive, unborn, report, calls, historyVars>>

\* The line buffer keeps the line of the job before.
NewJob(d) ==
    /\ Called
    /\ job = "none"
    /\ job' = d
    /\ trace' = {} /\ wanted' = {} /\ held' = {}
    /\ UNCHANGED <<fetch, instVars, start, pipeVars, alive, unborn, lines, touched, report, users>>

\* What the line buffer's access did to the new blocks was no access to a resource.
ResourceCreate(r) ==
    /\ Called
    /\ Drained /\ r \in unborn
    /\ \A s \in alive : Rsc[s] \cap Rsc[r] = {}
    /\ FlushFilterCaches
    /\ alive' = alive \cup {r} /\ unborn' = unborn \ {r}
    /\ held' = OnResource(held)
    /\ UNCHANGED <<fetch, instVars, start, job, pipeVars, report, wanted, users>>

ResourceDestroy(r) ==
    /\ Called
    /\ Drained /\ r \in alive
    /\ FlushFilterCaches
    /\ alive' = alive \ {r}
    /\ UNCHANGED <<fetch, instVars, start, job, pipeVars, unborn, report, historyVars>>

\* The instructions one swap filters from then on.
Prunable(i) == ~ inst[i].hit /\ inst[i].misses > Threshold

Reset(i) == [inst[i] EXCEPT !.filter = FALSE, !.misses = 0]

Prune ==
    /\ inst' = [i \in Inst |->
                  IF i \notin known THEN inst[i]
                  ELSE IF newCode THEN Reset(i)
                  ELSE [inst[i] EXCEPT !.filter = @ \/ Prunable(i)]]
    /\ newCode' = FALSE

\* Mutant: the report is made before the filter caches are flushed.
FrameMarksUnflushed == touched
\* What dump_stats() reports after the flush.
FrameMarks == touched \cup WriteMarks(lines)

\* handle_gpu_swap_buffers: the report of the frame, then the pruning.
SwapBuffers ==
    /\ Called
    /\ Drained
    /\ lines' = {}
    /\ trace' = trace \cup WrittenBack(lines)
    /\ report' = FrameMarks
    /\ touched' = {}
    /\ start' = IF start = 0 THEN 0 ELSE start - 1
    /\ Prune
    /\ UNCHANGED <<fetch, known, job, pipeVars, alive, unborn, historyVars>>

\* register_mem_inst, then register_new_code: Pin instruments code before it runs.
NewCode(i) ==
    /\ Called
    /\ i \notin known
    /\ known' = known \cup {i}
    /\ inst' = IF newCode THEN inst ELSE [k \in Inst |-> IF k \in known' THEN Reset(k) ELSE inst[k]]
    /\ newCode' = TRUE
    /\ UNCHANGED <<fetch, start, job, pipeVars, alive, unborn, cacheVars, report, historyVars>>

\* The application ends.
Ended == calls = MaxCalls /\ Drained /\ UNCHANGED vars

Next ==
    \/ \E i \in Inst, a \in Accesses : Access(i, a)
    \/ HandOver \/ FilterItem
    \/ Pause \/ EndJob \/ SwapBuffers
    \/ \E d \in Dev : NewJob(d)
    \/ \E r \in DOMAIN Rsc : ResourceCreate(r) \/ ResourceDestroy(r)
    \/ \E i \in Inst : NewCode(i)
    \/ Ended

Spec == Init /\ [][Next]_vars
=============================================================================
