----------------------------- MODULE MemoryModel -----------------------------
(***************************************************************************)
(* The cache models the replay feeds with packets: BaseCacheModel, and on  *)
(* top of it IntelCacheModel, which bypasses large resources, and          *)
(* LimitStudyCacheModel, which counts a second access to a shared block as *)
(* a hit whatever the cache holds.  They share one set associative cache   *)
(* and one way of counting what happens to the cache, to the job, to the   *)
(* core and to the resource of a packet.                                   *)
(*                                                                         *)
(* An address is the number of a sub block.  gpuside is left out: it is    *)
(* hits times a constant.  The statistics count what happens since the     *)
(* last dump; writing them to a file is left out.                          *)
(***************************************************************************)
EXTENDS Integers, FiniteSets, FiniteSetsExt

CONSTANTS
    Packets,        \* the packets of the jobs, [cmd, addr, job, core, rsc]
    Configs,        \* the models, [limitStudy, filters, exits, intel, bypassed, fetch]
    KnownRscs,      \* the resources the tracker knows (id_map)
    Masks,          \* the sets of shared blocks a classification file may list
    NumSets, Ways,  \* no_sets and associativity
    SubBlocks,      \* sub blocks in a block
    CtrMax,         \* where a SatCounter saturates (100)
    NbrRange,       \* last_frame_nbr, ... keep a number modulo this (65536)
    MaxPackets,     \* bound: packets processed
    MaxFrames,      \* bound: frames replayed
    MaxScenes       \* bound: scenes of a frame

Cmd == {"READ", "WRITE"}
Filter == {"inter", "intra", "task"}
Kind == {"frame", "scene", "job", "rsc"}

ASSUME MemoryModelAssumption ==
    /\ \A n \in {NumSets, Ways, SubBlocks, CtrMax, NbrRange} : n \in Nat \ {0}
    /\ \A n \in {MaxPackets, MaxFrames, MaxScenes} : n \in Nat
    /\ Packets \subseteq [cmd : Cmd, addr : Nat, job : Nat, core : Nat, rsc : Nat]
    /\ Configs \subseteq [limitStudy : BOOLEAN, filters : SUBSET Filter, exits : BOOLEAN,
                          intel : BOOLEAN, bypassed : SUBSET Nat, fetch : BOOLEAN]
    /\ \A c \in Configs : /\ c.filters # {} => c.limitStudy
                          /\ c.bypassed # {} => c.intel
                          /\ ~ (c.intel /\ c.limitStudy)

\* get_set_idx() masks the block's number with no_sets - 1: the remainder, for a
\* power of two.
ASSUME NumSetsAssumption == \E n \in 0 .. 30 : NumSets = 2 ^ n

Way == 0 .. Ways - 1
SubBlock == 0 .. SubBlocks - 1
Block(p) == p.addr \div SubBlocks
SubBlockOf(p) == p.addr % SubBlocks
SetOf(b) == b % NumSets
Blocks == {Block(p) : p \in Packets}

\* Whose statistics a packet counts in, and what they count.
AccountsOf(p) == {<<"cache", 0>>, <<"job", p.job>>, <<"core", p.core>>, <<"rsc", p.rsc>>}
Account == {<<"cache", 0>>} \cup UNION {AccountsOf(p) : p \in Packets}
Stat == ({"hits", "misses", "memside"} \X Cmd) \cup ({"evictions", "writebacks"} \X {"ALL"})

VARIABLES
    conf,       \* the configuration of this model
    phase,      \* the replay's next step: "frame", "scene", "jobs", "stopped", "abort"
    frame, scene,
    tick,
    lines,      \* lines[s][w]
    stats,      \* cache_stats, job_stats, core_stats and rsc_stats
    intra,      \* intra_frame_hits, ..., reads and writes together
    util, reutil,   \* blk_utilization, blk_reutilization
    mask,       \* inter_ and intra_scene_sharing_mask
    seen,       \* ..._mask_accesses, and intra_task_sharing_mask
    sent,       \* packets sent on to the memory side
    last,       \* history: the last use of each block in the cache, and by whom
    touches,    \* history: uses of an address since its block was installed
    unwritten,  \* history: blocks with a write that was not sent on
    reuse,      \* history: reuses that intra counts
    refetched   \* history: misses of each block in this frame

replayVars == <<conf, phase, frame, scene>>
filterVars == <<mask, seen>>
statVars == <<stats, intra, util, reutil, sent, reuse>>
cacheVars == <<tick, lines, last, touches, unwritten>>
vars == <<replayVars, filterVars, statVars, cacheVars, refetched>>

NoStats == [a \in Account |-> [s \in Stat |-> 0]]
NoIntra == [k \in Kind |-> 0]
NoBlocks == [n \in 0 .. SubBlocks |-> 0]
Never == [tick |-> 0, nbr |-> NoIntra]
Untouched == [i \in SubBlock |-> 0]
Invalid == [valid |-> FALSE, dirty |-> FALSE, addr |-> 0, tsc |-> 0, nbr |-> NoIntra,
            ctrs |-> Untouched]

\* Number of the frame, scene, job and resource a packet is processed in.
Numbers(p) ==
    [k \in Kind |-> CASE k = "frame" -> frame
                      [] k = "scene" -> scene
                      [] k = "job" -> p.job
                      [] k = "rsc" -> p.rsc]
Stored(p) == [k \in Kind |-> Numbers(p)[k] % NbrRange]

Init ==
    /\ conf \in Configs
    /\ phase = "frame" /\ frame = 0 /\ scene = 0
    /\ tick = 0
    /\ lines = [s \in 0 .. NumSets - 1 |-> [w \in Way |-> Invalid]]
    /\ stats = NoStats /\ intra = NoIntra /\ util = NoBlocks /\ reutil = NoBlocks
    /\ mask = [f \in {"inter", "intra"} |-> {}] /\ seen = {}
    /\ sent = [c \in Cmd |-> 0]
    /\ last = [b \in Blocks |-> Never]
    /\ touches = [b \in Blocks |-> Untouched]
    /\ unwritten = {} /\ reuse = NoIntra
    /\ refetched = [b \in Blocks |-> 0]

-----------------------------------------------------------------------------
\* Cache::find: the line that holds a block, or the line to put it in: the last
\* invalid one, or the one used least recently.
Holds(l, b) == l.valid /\ l.addr = b
Hits(b) == {w \in Way : Holds(lines[SetOf(b)][w], b)}

VictimFirstIn(set) ==
    IF \E w \in Way : ~ set[w].valid
    THEN Max({w \in Way : ~ set[w].valid})
    ELSE Max(Way)

Victim(set) ==
    IF \E w \in Way : ~ set[w].valid
    THEN Max({w \in Way : ~ set[w].valid})
    ELSE CHOOSE w \in Way : \A v \in Way : set[w].tsc <= set[v].tsc

\* SatCounter: ++ stops at the maximum, set() clamps to it.
Incremented(ctr) == IF ctr + 1 <= CtrMax THEN ctr + 1 ELSE ctr
Clamped(n) == IF n > CtrMax THEN CtrMax ELSE n

\* A line that is hit.  Only the base model moves its numbers on.
UsedCleans(l, p) ==
    [l EXCEPT !.tsc = tick + 1,
              !.dirty = p.cmd = "WRITE",
              !.ctrs[SubBlockOf(p)] = Incremented(@),
              !.nbr = IF conf.limitStudy THEN @ ELSE Stored(p)]

UsedOnlyJobs(l, p) ==
    [l EXCEPT !.tsc = tick + 1,
              !.dirty = @ \/ p.cmd = "WRITE",
              !.ctrs[SubBlockOf(p)] = Incremented(@),
              !.nbr = [@ EXCEPT !["job"] = Stored(p)["job"]]]

Used(l, p) ==
    [l EXCEPT !.tsc = tick + 1,
              !.dirty = @ \/ p.cmd = "WRITE",
              !.ctrs[SubBlockOf(p)] = Incremented(@),
              !.nbr = IF conf.limitStudy THEN @ ELSE Stored(p)]

\* The counters that go up for a hit.
HitGains(p, a, s) == IF s = <<"hits", p.cmd>> THEN 1 ELSE 0

\* The counters of an account that go up for a miss with or without a fetch, an
\* eviction and a write back.  All memory traffic counts under the command of the
\* packet that caused it.  Misses are not counted in core_stats.
MissGainsRscLate(p, a, s, fetches, evicts, writes) ==
    CASE s = <<"misses", p.cmd>> /\ a[1] # "core" -> 1
      [] s = <<"memside", p.cmd>> /\ a[1] = "rsc" -> IF fetches THEN 1 ELSE 0
      [] s = <<"memside", p.cmd>> -> Cardinality({i \in 1 .. 2 : <<fetches, writes>>[i]})
      [] s[1] = "evictions" /\ evicts -> 1
      [] s[1] = "writebacks" /\ writes -> 1
      [] OTHER -> 0

MissGains(p, a, s, fetches, evicts, writes) ==
    CASE s = <<"misses", p.cmd>> /\ a[1] # "core" -> 1
      [] s = <<"memside", p.cmd>> -> Cardinality({i \in 1 .. 2 : <<fetches, writes>>[i]})
      [] s[1] = "evictions" /\ evicts -> 1
      [] s[1] = "writebacks" /\ writes -> 1
      [] OTHER -> 0

Gained(p, gains) ==
    [a \in Account |-> [s \in Stat |->
        stats[a][s] + IF a \in AccountsOf(p) THEN gains[a][s] ELSE 0]]

HitStats(p) == Gained(p, [a \in Account |-> [s \in Stat |-> HitGains(p, a, s)]])
MissStats(p, fetches, evicts, writes) ==
    Gained(p, [a \in Account |->
                 [s \in Stat |-> MissGains(p, a, s, fetches, evicts, writes)]])

\* A stored number is compared with the full one, so a number from NbrRange on is
\* never found equal, unless it wrapped to another number that is in use.
IntraHits(l, p) == {k \in Kind : l.nbr[k] = Numbers(p)[k]}
Reused(p) == {k \in Kind : last[Block(p)].nbr[k] = Numbers(p)[k] /\ Numbers(p)[k] < NbrRange}
CountIn(counts, kinds) == [k \in Kind |-> IF k \in kinds THEN counts[k] + 1 ELSE counts[k]]

\* What the history keeps of a packet that uses the cache.
RecordUse(p, before) ==
    /\ last' = [last EXCEPT ![Block(p)] = [tick |-> tick + 1, nbr |-> Numbers(p)]]
    /\ touches' = [touches EXCEPT ![Block(p)] = [before EXCEPT ![SubBlockOf(p)] = @ + 1]]

Hit(p) ==
    LET b == Block(p)
    IN \E w \in Hits(b) :
        LET l == lines[SetOf(b)][w]
        IN /\ lines' = [lines EXCEPT ![SetOf(b)][w] = Used(l, p)]
           /\ stats' = HitStats(p)
           /\ intra' = IF conf.limitStudy THEN intra ELSE CountIn(intra, IntraHits(l, p))
           /\ reuse' = CountIn(reuse, Reused(p))
           /\ RecordUse(p, touches[b])
           /\ unwritten' = IF p.cmd = "WRITE" THEN unwritten \cup {b} ELSE unwritten
           /\ UNCHANGED <<util, reutil, sent, refetched>>

-----------------------------------------------------------------------------
\* The sharing masks of the limit study.  The task mask holds every block a job
\* uses, the two others come from a classification file.
Watched(f, p) == f \in conf.filters /\ (f # "task" => Block(p) \in mask[f])
Key(f, p) == [filter |-> f, job |-> IF f = "task" THEN p.job ELSE 0, block |-> Block(p)]

FilterHit(p) == \E f \in Filter : Watched(f, p) /\ Key(f, p) \in seen

RememberReads(p) ==
    seen' = seen \cup {Key(f, p) : f \in {g \in Filter : Watched(g, p) /\ p.cmd = "READ"}}

Remember(p) == seen' = seen \cup {Key(f, p) : f \in {g \in Filter : Watched(g, p)}}

\* A packet that misses in the cache and hits in a mask goes no further.
FilteredHit(p) ==
    /\ Hits(Block(p)) = {} /\ FilterHit(p)
    /\ stats' = HitStats(p)
    /\ unwritten' = IF p.cmd = "WRITE" THEN unwritten \cup {Block(p)} ELSE unwritten
    /\ UNCHANGED <<lines, intra, reuse, util, reutil, sent, last, touches, refetched>>

-----------------------------------------------------------------------------
\* A miss reads the block, unless it is written and fetch-on-wr-miss is off, and
\* installs it, unless the model bypasses the resource (IntelCacheModel::bypass).
Fetches(p) == p.cmd = "READ" \/ conf.fetch

Sends(p, writes) ==
    sent' = [c \in Cmd |-> sent[c] + IF c = "READ" THEN IF Fetches(p) THEN 1 ELSE 0
                                     ELSE IF writes THEN 1 ELSE 0]

SubBlocksAbove(l, n) == Cardinality({i \in SubBlock : l.ctrs[i] > n})

\* The line after the packet's block replaced the one it held: only a valid line
\* has its counters reset, and one of them is set again.
InstalledKeepsCounters(l, p) ==
    [valid |-> TRUE, dirty |-> p.cmd = "WRITE", addr |-> Block(p), tsc |-> tick + 1,
     nbr |-> Stored(p),
     ctrs |-> [l.ctrs EXCEPT ![SubBlockOf(p)] = Clamped(1)]]

Installed(l, p) ==
    [valid |-> TRUE, dirty |-> p.cmd = "WRITE", addr |-> Block(p), tsc |-> tick + 1,
     nbr |-> Stored(p),
     ctrs |-> [(IF l.valid THEN Untouched ELSE l.ctrs)
                 EXCEPT ![SubBlockOf(p)] = Clamped(1)]]

Bypass(p) ==
    /\ p.rsc \in conf.bypassed
    /\ stats' = MissStats(p, Fetches(p), FALSE, FALSE)
    /\ Sends(p, FALSE)
    /\ unwritten' = IF p.cmd = "WRITE" THEN unwritten \cup {Block(p)} ELSE unwritten
    /\ UNCHANGED <<lines, util, reutil, last, touches>>

Install(p) ==
    LET b == Block(p)
        w == Victim(lines[SetOf(b)])
        l == lines[SetOf(b)][w]
        writes == l.valid /\ l.dirty
    IN /\ p.rsc \notin conf.bypassed
       /\ stats' = MissStats(p, Fetches(p), l.valid, writes)
       /\ Sends(p, writes)
       /\ util' = IF l.valid THEN [util EXCEPT ![SubBlocksAbove(l, 0)] = @ + 1] ELSE util
       /\ reutil' = IF l.valid THEN [reutil EXCEPT ![SubBlocksAbove(l, 1)] = @ + 1] ELSE reutil
       /\ lines' = [lines EXCEPT ![SetOf(b)][w] = Installed(l, p)]
       /\ RecordUse(p, Untouched)
       /\ unwritten' = (unwritten \ (IF writes THEN {l.addr} ELSE {}))
                         \cup (IF p.cmd = "WRITE" THEN {b} ELSE {})

\* IntelCacheModel::bypass asserts that the tracker knows the resource.
Checked(p) == conf.intel => p.rsc \in KnownRscs

Miss(p) ==
    /\ Hits(Block(p)) = {} /\ ~ FilterHit(p)
    /\ Checked(p)
    /\ refetched' = [refetched EXCEPT ![Block(p)] = @ + 1]
    /\ Bypass(p) \/ Install(p)
    /\ UNCHANGED <<intra, reuse>>

\* process(): a core sends one packet of a job of the scene.
Process(p) ==
    /\ phase = "jobs" /\ tick < MaxPackets
    /\ tick' = tick + 1
    /\ Remember(p)
    /\ Hit(p) \/ FilteredHit(p) \/ Miss(p)
    /\ UNCHANGED <<replayVars, mask>>

UnknownResource(p) ==
    /\ phase = "jobs" /\ tick < MaxPackets
    /\ Hits(Block(p)) = {} /\ ~ FilterHit(p)
    /\ ~ Checked(p)
    /\ phase' = "abort"
    /\ UNCHANGED <<conf, frame, scene, filterVars, statVars, cacheVars, refetched>>

-----------------------------------------------------------------------------
\* The boundaries of frames and scenes, as GlTraceSimAnalyzer passes them on.  A
\* mask that is replaced must have been used up (assert).
UsedUp(f) == mask[f] \subseteq {k.block : k \in {s \in seen : s.filter = f}}
Reload(f, m) == mask' = [mask EXCEPT ![f] = m]
Forget(fs) == seen' = {k \in seen : k.filter \notin fs}

\* The model stops the replay when the file of the inter-scene mask is missing,
\* unless it is told to go on without one.
LoadInter ==
    /\ Forget({"inter"})
    /\ \/ \E m \in Masks : Reload("inter", m) /\ phase' = "scene"
       \/ Reload("inter", {}) /\ phase' = IF conf.exits THEN "stopped" ELSE "scene"

StartNewFrame ==
    /\ phase = "frame" /\ frame < MaxFrames
    /\ IF "inter" \in conf.filters THEN UsedUp("inter") /\ LoadInter
       ELSE phase' = "scene" /\ UNCHANGED filterVars
    /\ refetched' = [b \in Blocks |-> 0]
    /\ UNCHANGED <<conf, frame, scene, statVars, cacheVars>>

\* The intra-scene mask is empty when its file is missing.
StartNewScene ==
    /\ phase = "scene"
    /\ phase' = "jobs"
    /\ Forget(conf.filters \ {"inter"})
    /\ IF "intra" \in conf.filters
       THEN UsedUp("intra") /\ \E m \in Masks \cup {{}} : Reload("intra", m)
       ELSE UNCHANGED mask
    /\ UNCHANGED <<conf, frame, scene, statVars, cacheVars, refetched>>

\* The assert of either fails.
MaskNotUsedUp ==
    /\ \/ phase = "frame" /\ frame < MaxFrames /\ "inter" \in conf.filters /\ ~ UsedUp("inter")
       \/ phase = "scene" /\ "intra" \in conf.filters /\ ~ UsedUp("intra")
    /\ phase' = "abort"
    /\ UNCHANGED <<conf, frame, scene, filterVars, statVars, cacheVars, refetched>>

\* dump_stats() and reset_stats().
ResetStats ==
    /\ stats' = NoStats /\ intra' = NoIntra /\ util' = NoBlocks /\ reutil' = NoBlocks
    /\ sent' = [c \in Cmd |-> 0] /\ reuse' = NoIntra

\* The end of a scene that another one follows.
EndScene ==
    /\ phase = "jobs" /\ scene + 1 < MaxScenes
    /\ phase' = "scene"
    /\ ResetStats
    /\ scene' = scene + 1
    /\ UNCHANGED <<conf, frame, filterVars, cacheVars, refetched>>

\* The last scene of a frame does not end: a swap records NEW_FRAME and NEW_SCENE
\* only.  What was counted in it is dumped with the next scene that ends.
EndFrame ==
    /\ phase = "jobs"
    /\ phase' = "frame"
    /\ frame' = frame + 1 /\ scene' = 0
    /\ UNCHANGED <<conf, filterVars, statVars, cacheVars, refetched>>

\* An assertion fails.
Abort == MaskNotUsedUp \/ \E p \in Packets : UnknownResource(p)

Next ==
    \/ \E p \in Packets : Process(p)
    \/ StartNewFrame \/ StartNewScene \/ Abort
    \/ EndScene \/ EndFrame

Spec == Init /\ [][Next]_vars
=============================================================================
