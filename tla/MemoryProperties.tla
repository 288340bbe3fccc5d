-------------------------- MODULE MemoryProperties --------------------------
(***************************************************************************)
(* What the cache models must get right, and what the statistics mean.     *)
(***************************************************************************)
EXTENDS MemoryModel

Line == UNION {{lines[s][w] : w \in Way} : s \in DOMAIN lines}
Resident == {l.addr : l \in {k \in Line : k.valid}}

\* Each set holds the most recently used of the blocks that were put in it, each
\* in one line, and makes use of every line before it evicts (cache_impl.hh:65).
LruStack ==
    \A s \in DOMAIN lines :
        LET used == {b \in Blocks : SetOf(b) = s /\ last[b].tick > 0}
            kept == {b \in used : b \in Resident}
        IN /\ Cardinality(kept) = Min({Ways, Cardinality(used)})
           /\ kept = {lines[s][w].addr : w \in {v \in Way : lines[s][v].valid}}
           /\ \A b \in kept, c \in used \ kept : last[b].tick > last[c].tick

\* A written block is dirty in the cache until it is sent to memory: no write is
\* lost and none is written back twice, whoever evicts it.  A bypassed or filtered
\* write is another matter: it is read from memory, or not sent at all
\* (base_cache.cc:172-181, ls_cache.cc:311).
WritesReachMemory ==
    conf.bypassed = {} /\ conf.filters = {} =>
        unwritten = {l.addr : l \in {k \in Line : k.valid /\ k.dirty}}

\* The statistics of the jobs, of the resources and of the cores are three ways to
\* divide those of the cache, misses of cores apart, and the traffic they count is
\* the packets sent on.
Total(owner, s) ==
    SumFunctionOnSet([a \in Account |-> stats[a][s]], {a \in Account : a[1] = owner})

StatsAddUp ==
    /\ \A s \in Stat, owner \in {"job", "rsc", "core"} :
        owner # "core" \/ s[1] # "misses" => Total(owner, s) = stats[<<"cache", 0>>][s]
    /\ SumFunction([c \in Cmd |-> stats[<<"cache", 0>>][<<"memside", c>>]]) = SumFunction(sent)
    /\ stats[<<"cache", 0>>][<<"writebacks", "ALL">>] = sent["WRITE"]

\* The counters of a line count the uses of the block it holds now, none of the
\* block it held before, up to where they saturate.
CountersFollowBlock ==
    \A l \in Line : l.valid =>
        \A i \in SubBlock : l.ctrs[i] = Min({touches[l.addr][i], CtrMax})

\* A hit is a reuse within the frame, the job or the resource when the use of the
\* block before it was in the same one.  A number too large for last_job_nbr, ...
\* is never counted (no two numbers in use agree modulo NbrRange).
IntraHitsAreReuse ==
    ~ conf.limitStudy => \A k \in Kind \ {"scene"} : intra[k] = reuse[k]

\* A block that scenes share misses at most once in a frame of the limit study.
SharedBlocksMissOnce ==
    "inter" \in conf.filters => \A b \in mask["inter"] \cap Blocks : refetched[b] <= 1

-----------------------------------------------------------------------------
\* base_cache.cc:113: "Intra-scene reuse".  What is reused in one scene is reused
\* in the frame of that scene.
SceneReuseIsInFrame == intra["scene"] <= intra["frame"]
=============================================================================
