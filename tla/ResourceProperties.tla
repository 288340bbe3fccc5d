-------------------------- MODULE ResourceProperties --------------------------
(***************************************************************************)
(* What the mapping and the accounting of resources must get right.        *)
(***************************************************************************)
EXTENDS ResourceMemory

TypeOK ==
    /\ VmTypeOK
    /\ range \in [1 .. Cardinality(Created) -> Ranges]
    /\ alive \subseteq Created /\ dead \subseteq gone /\ zombies \subseteq gone
    /\ gone = Created \ alive
    /\ lastResource \in Created \cup {0}
    /\ lines \subseteq LineStates
    /\ unreported \subseteq Created
    /\ overlapped \in BOOLEAN

\* The virtual pages that hold a physical page now: those of the live resources,
\* less what alloc() has not reached, and what free() has still to give back.
Remaining == loop.vpage .. loop.last

Held ==
    LET pages == UNION {PagesOf(r) : r \in alive}
    IN IF loop.op = "alloc" THEN pages \ Remaining
       ELSE IF loop.op = "free" THEN pages \cup Remaining
       ELSE pages

\* As long as no two live resources meet in a page, every page in use belongs to
\* one virtual page of a live resource: no sharing, and no page leaks
\* (vmemory.cc:131 and 164 set the case of overlapping textures aside).
PagesArePrivate ==
    ~ overlapped =>
        /\ used = {translation[v] : v \in Held}
        /\ \A v, w \in Held : translation[v] = translation[w] => v = w

\* A line of the filter cache is of a live resource, at an address of it, carries
\* the page the address translates to, and is written back for the resource that
\* wrote it: creating or destroying a resource finds the cache empty
\* (gltracesim_generator.cc:291-292), so that an address used again is never hit in
\* a line of its last owner.
LinesFollowResources ==
    \A l \in lines :
        /\ l.rsc \in alive /\ Contains(l.rsc, l.addr)
        /\ l.page = translation[Page(l.addr)]
        /\ l.dirty => l.writer = l.rsc

\* Statistics that changed belong to a resource the end of the frame will report:
\* one that lives, was destroyed in this frame, or was resurrected by a write back
\* (which the flush before each destruction leaves no line for).
NoUseIsLost == unreported \subseteq Reported
=============================================================================
