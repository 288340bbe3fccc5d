---------------------------- MODULE ResourceMemory ----------------------------
(***************************************************************************)
(* The resources of the trace generator: the ResourceTracker that knows    *)
(* them by address and by id, the memory manager that maps their pages,    *)
(* the filter cache whose lines remember the resource and the physical     *)
(* page they were filled from, and the statistics that each frame reports  *)
(* of them.  The replay makes the calls of Create and Destroy only, and    *)
(* has no filter cache.                                                    *)
(*                                                                         *)
(* An address is the number of a filter cache block.                       *)
(***************************************************************************)
EXTENDS VirtualMemory, FiniteSets

CONSTANTS
    Ranges,         \* the address ranges a resource may have, [first, last]
    PageBlocks,     \* blocks to a page
    CacheLines,     \* lines of the filter cache
    MaxResources    \* bound: resources created

ASSUME ResourceAssumption ==
    /\ PageBlocks \in Nat \ {0}
    /\ Ranges \subseteq {r \in [first : Nat, last : Nat] : r.first <= r.last}
    /\ \A r \in Ranges : r.first \div PageBlocks .. r.last \div PageBlocks \subseteq VPage
    /\ MaxResources \in Nat

VARIABLES
    range,          \* id_map: range[r] of every resource ever created, by id
    alive,          \* alive_addr_map
    dead,           \* dead_vector: destroyed since the last report
    gone,           \* the resources whose dead flag is set
    zombies,        \* zombie_vector: dead, and used since the last report
    lastResource,   \* last_gpu_resource of the thread, 0 for none
    lines,          \* the valid lines of the filter cache
    unreported,     \* the resources whose statistics changed since their reset
    overlapped      \* history: a resource was created on a page of a live one

trackerVars == <<range, alive, dead, gone, zombies, lastResource, lines, unreported,
                 overlapped>>
vars == <<vmVars, trackerVars>>

Created == DOMAIN range
Page(a) == a \div PageBlocks
PagesOf(r) == Page(range[r].first) .. Page(range[r].last)
Contains(r, a) == range[r].first <= a /\ a <= range[r].last

LineStates == [addr : Nat, rsc : Nat \ {0}, page : Nat \cup {NoPage}, dirty : BOOLEAN,
               writer : Nat]

\* AddrRangeMap::find: the last range that starts at or before the address, if
\* it contains it.
FindAddr(a) ==
    {r \in alive : /\ Contains(r, a)
                   /\ \A s \in alive : range[s].first <= a => range[s].first <= range[r].first}

Init ==
    /\ VmInit
    /\ range = << >>
    /\ alive = {} /\ dead = {} /\ gone = {} /\ zombies = {}
    /\ lastResource = 0
    /\ lines = {}
    /\ unreported = {}
    /\ overlapped = FALSE

-----------------------------------------------------------------------------
(* Write backs: evict, flush_filter_cache.                                 *)

Dirty == {l \in lines : l.dirty}

\* What a write back does to resources that are dead and not yet zombies.
Resurrected(ls) == {l.rsc : l \in ls} \cap gone

WriteBack(ls, accessed) ==
    /\ zombies' = zombies \cup Resurrected(ls)
    /\ unreported' = unreported \cup accessed \cup {l.rsc : l \in ls}

FlushFilterCache ==
    /\ lines' = {}
    /\ WriteBack(Dirty, {})

-----------------------------------------------------------------------------
(* handle_gpu_resource_create and _destroy, which pause first: accesses    *)
(* still buffered are processed and the filter cache is flushed.  The      *)
(* application's allocator hands out memory no live resource occupies; it  *)
(* may share a page.                                                       *)

Add(rng) ==
    LET id == Cardinality(Created) + 1
        first == Page(rng.first)
        last == Page(rng.last)
    IN
    /\ loop = Idle
    /\ id <= MaxResources
    /\ \A r \in alive : range[r].last < rng.first \/ rng.last < range[r].first
    /\ range' = [r \in 1 .. id |-> IF r = id THEN rng ELSE range[r]]
    /\ alive' = alive \cup {id}
    /\ loop' = Running("alloc", first, last)
    /\ overlapped' = (overlapped \/ \E r \in alive : PagesOf(r) \cap (first .. last) # {})
    /\ UNCHANGED <<chunks, used, allocated, translation, dead, gone, lastResource>>

Create(rng) == FlushFilterCache /\ Add(rng)

\* The resource is looked up by its address.
Remove(a) ==
    \E r \in FindAddr(a) :
       /\ loop = Idle
       /\ alive' = alive \ {r}
       /\ gone' = gone \cup {r}
       /\ dead' = dead \cup {r}
       /\ lastResource' = IF lastResource = r THEN 0 ELSE lastResource
       /\ loop' = Running("free", Page(range[r].first), Page(range[r].last))
       /\ UNCHANGED <<chunks, used, allocated, translation, range, overlapped>>

\* Mutant: leaves the resource in last_gpu_resource.
DestroyKeepsLast(a) ==
    \E r \in FindAddr(a) :
       /\ loop = Idle
       /\ FlushFilterCache
       /\ alive' = alive \ {r}
       /\ gone' = gone \cup {r}
       /\ dead' = dead \cup {r}
       /\ loop' = Running("free", Page(range[r].first), Page(range[r].last))
       /\ UNCHANGED <<chunks, used, allocated, translation, range, lastResource, overlapped>>

\* Mutant: does not pause first.
DestroyUnpaused(a) == Remove(a) /\ UNCHANGED <<lines, zombies, unreported>>
Destroy(a) == FlushFilterCache /\ Remove(a)

-----------------------------------------------------------------------------
(* process_filter_buffer_item.                                             *)

\* The resource an access goes to: the last one, or what the tracker finds.
Accessed(a) ==
    IF lastResource # 0 /\ Contains(lastResource, a) THEN {lastResource} ELSE FindAddr(a)

Filled(a, r, write) ==
    [addr |-> a, rsc |-> r, page |-> translation[Page(a)],
     dirty |-> write, writer |-> IF write THEN r ELSE 0]

Hit(a, write) ==
    \E r \in Accessed(a), l \in lines :
        /\ l.addr = a
        /\ lines' = (lines \ {l}) \cup
                    {[l EXCEPT !.dirty = @ \/ write, !.writer = IF write THEN r ELSE @]}
        /\ lastResource' = r
        /\ unreported' = unreported \cup {r}
        /\ UNCHANGED zombies

\* The least recently used line makes room; any line may be that.
Miss(a, write) ==
    \E r \in Accessed(a), victims \in SUBSET lines :
        /\ \A l \in lines : l.addr # a
        /\ Cardinality(victims) = IF Cardinality(lines) < CacheLines THEN 0 ELSE 1
        /\ lines' = (lines \ victims) \cup {Filled(a, r, write)}
        /\ lastResource' = r
        /\ WriteBack({l \in victims : l.dirty}, {r})

Access(a, write) ==
    /\ loop = Idle
    /\ Hit(a, write) \/ Miss(a, write)
    /\ UNCHANGED <<vmVars, range, alive, dead, gone, overlapped>>

\* A job ends: END_JOB flushes the cache of its device as it reaches the filter
\* thread, handle_end_job() the caches of both.
EndJob ==
    /\ loop = Idle
    /\ FlushFilterCache
    /\ UNCHANGED <<vmVars, range, alive, dead, gone, lastResource, overlapped>>

\* handle_gpu_swap_buffers pauses, then reports and resets every resource it can
\* name.
Reported == alive \cup dead \cup zombies

EndFrame ==
    /\ loop = Idle
    /\ lines' = {}
    /\ unreported' = (unreported \cup {l.rsc : l \in Dirty}) \ (Reported \cup Resurrected(Dirty))
    /\ dead' = {}
    /\ zombies' = {}
    /\ UNCHANGED <<vmVars, range, alive, gone, lastResource, overlapped>>

Addresses == UNION {r.first .. r.last : r \in Ranges}

VmStep == (AllocPage \/ FreePage) /\ UNCHANGED trackerVars

Next ==
    \/ \E rng \in Ranges : Create(rng)
    \/ \E r \in alive : Destroy(range[r].first)
    \/ VmStep
    \/ \E a \in Addresses, write \in BOOLEAN : Access(a, write)
    \/ EndJob
    \/ EndFrame

Spec == Init /\ [][Next]_vars
=============================================================================
